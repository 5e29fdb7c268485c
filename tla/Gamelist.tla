------------------------------- MODULE Gamelist -------------------------------
(* Ownership of EmulationStation menu entries (internal/gamelist): which       *)
(* entries of gamelist.xml an operation on one package may add, replace, fill  *)
(* in or remove, with the user and EmulationStation writing to it in between.  *)
(*                                                                             *)
(* An operation is one step (Transaction.tla); one that fails is not a step,  *)
(* nor is one whose commit took effect and reported an error: it has no flag.  *)
(* Simplifications. A slot is a gamelist file and a path in it, and holds at   *)
(* most one entry, as in the files EmulationStation writes. The XML of an entry*)
(* is the fields a menu declares, and whether it has anything else.            *)

EXTENDS Naturals

CONSTANTS
  Slot,       \* gamelist files and the paths of entries in them
  Field,      \* name, desc, image
  Text,       \* values of a field
  Blank,      \* the value of a field that is empty or absent
  Release,    \* the releases of the package
  MenuOf,     \* MenuOf[r]: the menu entry release r declares, or NoMenu
  StoreMenu,  \* the Store's own entry
  NoMenu, NoEntry, None,
  MaxEdits    \* bound on what the user and EmulationStation write

Fields == [Field -> Text \cup {Blank}]
Menu == [slot : Slot, text : Fields]

\* extra: play history, custom fields, attributes. by is history: who last wrote
\* one of the declared fields.
Entry == [text : Fields, extra : BOOLEAN, by : {"store", "user"}]

ASSUME GamelistAssumption ==
  /\ Blank \notin Text /\ None \notin Release /\ NoEntry \notin Entry
  /\ NoMenu \notin Menu /\ StoreMenu \in Menu
  /\ MenuOf \in [Release -> Menu \cup {NoMenu}]
  /\ \A r \in Release : MenuOf[r] # NoMenu => MenuOf[r].slot # StoreMenu.slot
  /\ MaxEdits \in Nat

VARIABLES
  entries,   \* the entry of each slot
  installed, \* the release in the installed state
  owned,     \* Installed.MenuOwned
  changed,   \* OperationOutcome.GameListChanged of the last operation
  edits

vars == <<entries, installed, owned, changed, edits>>

TypeOK == /\ entries \in [Slot -> Entry \cup {NoEntry}]
          /\ installed \in Release \cup {None}
          /\ owned \in BOOLEAN /\ changed \in BOOLEAN
          /\ owned => installed # None /\ MenuOf[installed] # NoMenu
          /\ edits \in Nat

Written(text) == [text |-> text, extra |-> FALSE, by |-> "user"]

Init == /\ entries \in [Slot -> {Written(t) : t \in Fields} \cup {NoEntry}]
        /\ installed = None /\ owned = FALSE /\ changed = FALSE
        /\ edits = 0

-----------------------------------------------------------------------------
(* The edits of xml.go: each gives the list it leaves, and says whether it     *)
(* wrote the file.                                                             *)

Edited(es) == [list |-> es, changed |-> TRUE]
Untouched(es) == [list |-> es, changed |-> FALSE]

menuNode(menu) == [text |-> menu.text, extra |-> FALSE, by |-> "store"]

\* What else an entry holds does not count.
menuNodeMatches(es, menu) == /\ es[menu.slot] # NoEntry
                             /\ es[menu.slot].text = menu.text

addEntry(es, menu) == IF es[menu.slot] # NoEntry THEN Untouched(es)
                      ELSE Edited([es EXCEPT ![menu.slot] = menuNode(menu)])

\* The file is written even when the entry reads the same before and after.
replaceEntry(es, previous, menu) ==
  IF menuNodeMatches(es, previous)
  THEN Edited([es EXCEPT ![menu.slot] = menuNode(menu)]) ELSE Untouched(es)

\* Mutant of removeEntry: the path alone decides.
removeEntryByPath(es, menu) == Edited([es EXCEPT ![menu.slot] = NoEntry])

removeEntry(es, menu) == IF menuNodeMatches(es, menu)
                         THEN Edited([es EXCEPT ![menu.slot] = NoEntry]) ELSE Untouched(es)

\* The fields that the entry leaves blank and the menu does not: a menu always has a
\* name, and menuNode leaves out a description or an image that it has not.
Missing(entry, menu) == {f \in Field : entry.text[f] = Blank /\ menu.text[f] # Blank}

\* The entry stays whose it was.
fillMissingEntry(es, menu) ==
  IF es[menu.slot] = NoEntry \/ Missing(es[menu.slot], menu) = {} THEN Untouched(es)
  ELSE Edited([es EXCEPT ![menu.slot].text =
                [f \in Field |-> IF f \in Missing(es[menu.slot], menu) THEN menu.text[f]
                                                                     ELSE @[f]]])

-----------------------------------------------------------------------------
(* menu.go: the steps of Derive in the order in which Apply runs them, each on *)
(* the list that the one before it left.                                       *)

sameEntry(left, right) == left # NoMenu /\ right # NoMenu /\ left.slot = right.slot

Removal(previous, menu) ==
  IF previous # NoMenu /\ ~sameEntry(previous, menu)
  THEN removeEntry(entries, previous) ELSE Untouched(entries)

Writing(previous, menu) ==
  LET es == Removal(previous, menu).list
  IN IF menu = NoMenu THEN Untouched(es)
     ELSE IF sameEntry(previous, menu) THEN replaceEntry(es, previous, menu)
     ELSE addEntry(es, menu)

\* Only after a write that found nothing to do.
Filling(previous, menu) ==
  LET es == Writing(previous, menu).list
  IN IF menu = NoMenu \/ Writing(previous, menu).changed THEN Untouched(es)
     ELSE fillMissingEntry(es, menu)

\* What Apply returns: the list on disk, owned, and changed.
Applied(previous, menu) == Filling(previous, menu).list
Wrote(previous, menu) == Writing(previous, menu).changed

\* Mutant of Changed: each step overwrites the flag of the one before it.
ChangedLast(previous, menu) ==
  IF menu = NoMenu THEN Removal(previous, menu).changed
  ELSE Writing(previous, menu).changed \/ Filling(previous, menu).changed

\* Mutant of Changed: filled-in metadata is not counted, as ownership does not.
ChangedByOwner(previous, menu) == Removal(previous, menu).changed \/ Wrote(previous, menu)

Changed(previous, menu) == \/ Removal(previous, menu).changed
                           \/ Writing(previous, menu).changed
                           \/ Filling(previous, menu).changed

\* The entry the installed state says the Store owns.
Previous == IF owned THEN MenuOf[installed] ELSE NoMenu

-----------------------------------------------------------------------------
(* Operations.                                                                 *)

\* Mutant of Apply: ownership is kept when the owned entry was not found.
ApplyKeepsOwned(r) == /\ entries' = Applied(Previous, MenuOf[r])
                      /\ changed' = Changed(Previous, MenuOf[r])
                      /\ owned' = (Wrote(Previous, MenuOf[r])
                                   \/ sameEntry(Previous, MenuOf[r]))
                      /\ installed' = r
                      /\ UNCHANGED edits

\* Mutant of Apply: any change to the list is taken for ownership.
ApplyOwnsChange(r) == /\ entries' = Applied(Previous, MenuOf[r])
                      /\ changed' = Changed(Previous, MenuOf[r])
                      /\ owned' = Changed(Previous, MenuOf[r])
                      /\ installed' = r
                      /\ UNCHANGED edits

\* Any operation that writes an installed state of release r.
Apply(r) == /\ entries' = Applied(Previous, MenuOf[r])
            /\ changed' = Changed(Previous, MenuOf[r])
            /\ owned' = Wrote(Previous, MenuOf[r])
            /\ installed' = r
            /\ UNCHANGED edits

\* Mutant of Uninstall: the menu entry is forgotten about.
UninstallKeepsMenu == /\ installed # None
                      /\ changed' = FALSE
                      /\ owned' = FALSE /\ installed' = None
                      /\ UNCHANGED <<entries, edits>>

Uninstall == /\ installed # None
             /\ entries' = Applied(Previous, NoMenu)
             /\ changed' = Changed(Previous, NoMenu)
             /\ owned' = FALSE /\ installed' = None
             /\ UNCHANGED edits

\* The launcher runs this on every start.
RegisterStoreMenu == /\ entries' = Applied(NoMenu, StoreMenu)
                     /\ changed' = Changed(NoMenu, StoreMenu)
                     /\ UNCHANGED <<owned, installed, edits>>

Operation == (\E r \in Release : Apply(r)) \/ Uninstall \/ RegisterStoreMenu

\* The user adds, deletes or edits an entry; EmulationStation notes that it ran.
Edit(s) == /\ edits < MaxEdits
           /\ edits' = edits + 1
           /\ \/ \E text \in Fields :
                   entries' = [entries EXCEPT ![s] =
                     IF @ = NoEntry THEN Written(text)
                     ELSE [text |-> text, extra |-> @.extra, by |-> "user"]]
              \/ entries[s] # NoEntry /\ entries' = [entries EXCEPT ![s] = NoEntry]
              \/ /\ entries[s] # NoEntry
                 /\ entries' = [entries EXCEPT ![s].extra = TRUE]
           /\ UNCHANGED <<installed, owned, changed>>

Next == Operation \/ \E s \in Slot : Edit(s)

Spec == Init /\ [][Next]_vars

-----------------------------------------------------------------------------
(* Properties. A Store step is one that is not the user's.                     *)

StoreStep == edits' = edits

\* An operation that claims the menu entry has just written it: one that finds the
\* entry it owned gone, or edited, gives ownership up.
OwnedIsListed ==
  [][StoreStep /\ owned' =>
       LET slot == MenuOf[installed'].slot
       IN \/ entries'[slot] = menuNode(MenuOf[installed'])
          \/ installed' = installed /\ entries'[slot] = entries[slot]]_vars

\* The Store leaves no entry of its own behind: one it wrote, and nobody edited, is
\* the one the installed state owns, through updates that move it, rename it or
\* drop it, and is gone when the package is.
NoOrphan ==
  \A s \in Slot \ {StoreMenu.slot} :
    entries[s] # NoEntry /\ entries[s].by = "store" =>
      owned /\ MenuOf[installed].slot = s /\ MenuOf[installed].text = entries[s].text

\* What the user wrote survives every operation with all that is in it, except an
\* entry that reads exactly like the one the Store owns; blanks may be filled
\* ("without claiming ownership or replacing nonblank values, play history, or
\* custom fields").
EditedSurvives ==
  [][StoreStep =>
       \A s \in Slot :
         /\ entries[s] # NoEntry /\ entries[s].by = "user"
         /\ owned => ~(MenuOf[installed].slot = s /\ menuNodeMatches(entries, MenuOf[installed]))
         => /\ entries'[s] # NoEntry
            /\ entries'[s].by = "user" /\ entries'[s].extra = entries[s].extra
            /\ \A f \in Field : entries[s].text[f] \in {Blank, entries'[s].text[f]}]_vars

\* The flags that the steps of a plan return add up to the truth: an operation that
\* changed the list says so, and a reload is asked for; and one that says so changed
\* it, or wrote the entry it owns again as it was.
ChangeIsReported ==
  [][StoreStep => /\ entries' # entries => changed'
                  /\ changed' => \/ entries' # entries
                                 \/ /\ owned /\ owned'
                                    /\ MenuOf[installed'].slot = MenuOf[installed].slot]_vars
=============================================================================
