--------------------------------- MODULE Walk ---------------------------------
(* A scripted walkthrough of the GUI (sdlui/walk.go): the keys it still has to *)
(* send, and which of the frames that are drawn it saves as evidence.          *)
(*                                                                             *)
(* Simplifications. A frame has no content: what matters is whether the screen *)
(* has changed since the last one that was saved. Names and records are left   *)
(* out, and the key is chosen when it is sent.                                 *)

EXTENDS Naturals

CONSTANTS
  MaxKeys, \* bound: the keys of a walkthrough
  Settle   \* walkSettleFrames: the idle frames after the last key

ASSUME WalkAssumption == MaxKeys \in Nat /\ Settle \in Nat \ {0}

VARIABLES
  walk,     \* none: an interactive run. going. finished: Run returned no error.
  left,     \* the keys that are not sent yet
  capture,  \* WalkRunner.pendingCapture
  wasBusy,  \* WalkRunner.wasBusy
  idle,     \* WalkRunner.idle
  exiting,  \* Run: exitRequested
  unseen    \* history: a key, or the end of an operation, changed the screen
            \* after the last frame that was saved

walkVars == <<walk, left, capture, wasBusy, idle, exiting, unseen>>

WalkTypeOK == /\ walk \in {"none", "going", "finished"}
              /\ left \in 0..MaxKeys /\ idle \in 0..Settle
              /\ capture \in BOOLEAN /\ wasBusy \in BOOLEAN
              /\ exiting \in BOOLEAN /\ unseen \in BOOLEAN

\* NewWalkRunner; without keys there is no walkthrough.
WalkInit == /\ \/ walk = "none" /\ left = 0
               \/ walk = "going" /\ left \in 1..MaxKeys
            /\ capture = TRUE /\ wasBusy = FALSE /\ idle = 0
            /\ exiting = FALSE /\ unseen = (walk = "going")

\* Mutant of IsEvidence: only the screens that keys lead to are saved.
IsEvidenceOfKeys(busy) == capture

\* Capture: the opening frame, the frame after a key, and that of a finished
\* operation.
IsEvidence(busy) == capture \/ (wasBusy /\ ~busy)

Captured(busy) == /\ wasBusy' = busy
                  /\ \/ IsEvidence(busy) /\ capture' = FALSE /\ unseen' = FALSE
                     \/ ~IsEvidence(busy) /\ UNCHANGED <<capture, unseen>>
                  /\ UNCHANGED <<walk, left, idle, exiting>>

\* Mutant of MaySend: a key does not wait for the operation in front of it.
MaySendAnyway(busy) == left > 0

\* WalkRunner.Step: a key waits for the operation in front of it.
MaySend(busy) == ~busy /\ left > 0

Sent == /\ left' = left - 1
        /\ capture' = TRUE /\ idle' = 0
        /\ unseen' = TRUE
        /\ UNCHANGED <<walk, wasBusy>>

\* WalkRunner.Done counts the idle frames after the last key.
Settled(busy) == left = 0 /\ ~busy /\ idle + 1 >= Settle

Counted(busy) == /\ idle' = IF left > 0 \/ busy THEN 0 ELSE idle + 1
                 /\ UNCHANGED <<walk, left, capture, wasBusy, exiting, unseen>>

Finished == /\ walk' = "finished"
            /\ UNCHANGED <<left, capture, wasBusy, idle, exiting, unseen>>
=============================================================================
