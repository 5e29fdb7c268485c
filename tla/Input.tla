-------------------------------- MODULE Input ---------------------------------
(* What the GUI takes keys from (internal/input, handleEvent of sdlui/run.go): *)
(* one controller, which may come and go, or in a desktop run the keyboard     *)
(* alone; and the quit chord, an anchor held down while Y is pressed.          *)
(*                                                                             *)
(* Simplifications. Bindings, labels and key repeat are left out: what a       *)
(* button does to the screens is Library.tla. SDL delivers the events of one   *)
(* device in order, and releases the keys of a window that loses the focus.    *)

CONSTANTS
  Pad,       \* the controllers that may be attached
  AnchorKey, \* the anchors of the keyboard: Tab and F5
  NoPad      \* no controller

ASSUME InputAssumption == NoPad \notin Pad /\ Pad \cap AnchorKey = {}

VARIABLES
  keyboard, \* InputMode.IsKeyboard: a desktop run
  attached, \* the controllers SDL knows
  active,   \* controller of Run: the one that is open
  held,     \* the anchors that are held down, on any device
  chord     \* Session.ChordHeld

inputVars == <<keyboard, attached, active, held, chord>>

InputTypeOK == /\ keyboard \in BOOLEAN /\ chord \in BOOLEAN
               /\ attached \subseteq Pad
               /\ active \in attached \cup {NoPad}
               /\ keyboard => active = NoPad
               /\ held \subseteq attached \cup AnchorKey

\* openController takes some controller that can be opened, if any can.
InputInit == /\ keyboard \in BOOLEAN
             /\ attached \in SUBSET Pad
             /\ active \in IF keyboard THEN {NoPad} ELSE attached \cup {NoPad}
             /\ held = {} /\ chord = FALSE

\* Session.Mode: only a blocked session refuses what the screens do.
Blocked == ~keyboard /\ active = NoPad

\* The devices whose anchor SetChordAnchor hears of. The keyboard's is one of them
\* in every run.
Heard == AnchorKey \cup ({active} \ {NoPad})

Connect(p) == active' = p /\ chord' = FALSE

\* CONTROLLERDEVICEADDED: without a controller, any that can be opened is taken.
Attach(p) == /\ p \notin attached
             /\ attached' = attached \cup {p}
             /\ \/ Blocked /\ \E q \in attached' : Connect(q)
                \/ UNCHANGED <<active, chord>> \* there is one, or none opens
             /\ UNCHANGED <<keyboard, held>>

\* Mutant of Disconnect: what was held stays held.
DisconnectHolding == active' = NoPad /\ UNCHANGED chord

Disconnect == active' = NoPad /\ chord' = FALSE

\* CONTROLLERDEVICEREMOVED; the others that are attached are not looked at.
Detach(p) == /\ p \in attached
             /\ attached' = attached \ {p} /\ held' = held \ {p}
             /\ \/ p = active /\ Disconnect
                \/ p # active /\ UNCHANGED <<active, chord>>
             /\ UNCHANGED keyboard

PressAnchor(a) == /\ a \in attached \cup AnchorKey
                  /\ held' = held \cup {a}
                  /\ chord' = (chord \/ a \in Heard)
                  /\ UNCHANGED <<keyboard, attached, active>>

ReleaseAnchor(a) == /\ a \in held
                    /\ held' = held \ {a}
                    /\ chord' = (chord /\ a \notin Heard)
                    /\ UNCHANGED <<keyboard, attached, active>>

\* HandleButton with Y while the chord is held, on a blocked session too.
QuitChord == /\ chord
             /\ chord' = FALSE
             /\ UNCHANGED <<keyboard, attached, active, held>>

-----------------------------------------------------------------------------
\* Y quits only while somebody holds an anchor down on a device the session listens
\* to: no unplugged, replaced or released controller leaves the chord armed
\* ("hotplug resets held chord state"; "holding it alone does nothing").
ChordIsHeld == chord => held \cap Heard # {}
=============================================================================
