------------------------------ MODULE EventLoop -------------------------------
(* The loop of Run (sdlui/run.go): events of the devices, the events of the    *)
(* operation, a frame, and the next key of a walkthrough, in this order. It is *)
(* Session, where the user can confirm at any moment, with what lets the user  *)
(* do so: the devices of Input and the script of Walk.                         *)
(*                                                                             *)
(* Simplifications. Nobody touches the machine during a walkthrough. Which     *)
(* confirmation starts an operation is Library.tla; here some do. Exporting    *)
(* diagnostics changes nothing the loop keeps.                                 *)

EXTENDS Session, Input, Walk

VARIABLE phase \* where the loop is

loopVars == <<vars, inputVars, walkVars, phase>>

Phase == {"events", "poll", "capture", "exit", "step", "done"}

LoopTypeOK == /\ TypeOK /\ InputTypeOK /\ WalkTypeOK
              /\ phase \in Phase

LoopInit == Init /\ InputInit /\ WalkInit /\ phase = "events"

In(where) == ui = "run" /\ phase = where

-----------------------------------------------------------------------------
(* handleEvent, for every event there is.                                      *)

Attended == In("events") /\ walk = "none"

\* Handle lets a confirmation through unless the session is blocked.
ConfirmPressed == /\ Attended /\ ~Blocked
                  /\ Start
                  /\ UNCHANGED <<inputVars, walkVars, phase>>

ChordPressed == /\ Attended
                /\ QuitChord /\ Quit
                /\ UNCHANGED <<walkVars, phase>>

Device == \/ \E p \in Pad : Attach(p) \/ Detach(p)
          \/ \E a \in Pad \cup AnchorKey : PressAnchor(a) \/ ReleaseAnchor(a)

DeviceEvent == /\ Attended
               /\ Device
               /\ UNCHANGED <<vars, walkVars, phase>>

Drained == /\ In("events")
           /\ phase' = "poll"
           /\ UNCHANGED <<vars, inputVars, walkVars>>

\* The window is closed, its renderer fails, the caller cancels, or the deadline
\* of a walkthrough is over.
Closed == /\ Quit
          /\ UNCHANGED <<inputVars, walkVars, phase>>

-----------------------------------------------------------------------------
(* One pass of the loop.                                                       *)

\* Model.Poll goes on until the channel is empty.
Polled == /\ In("poll")
          /\ Poll
          /\ unseen' = (unseen \/ (walk = "going" /\ Head(events) = "done"))
          /\ UNCHANGED <<inputVars, walk, left, capture, wasBusy, idle, exiting, phase>>

PollEmpty == /\ In("poll") /\ events = <<>>
             /\ phase' = IF walk = "going" THEN "capture" ELSE "events"
             /\ UNCHANGED <<vars, inputVars, walkVars>>

Capture == /\ In("capture")
           /\ Captured(busy)
           /\ phase' = "exit"
           /\ UNCHANGED <<vars, inputVars>>

\* An exit before the last key is an error of the walkthrough.
ExitRequested == /\ In("exit") /\ exiting
                 /\ IF left = 0 THEN Finished ELSE UNCHANGED walkVars
                 /\ Quit
                 /\ UNCHANGED <<inputVars, phase>>

NoExit == /\ In("exit") /\ ~exiting
          /\ phase' = "step"
          /\ UNCHANGED <<vars, inputVars, walkVars>>

\* Tab is pressed and never released.
SendAnchor == /\ \E a \in AnchorKey : PressAnchor(a)
              /\ UNCHANGED <<vars, exiting>>

SendChord == /\ QuitChord
             /\ exiting' = TRUE
             /\ UNCHANGED vars

SendConfirm == /\ ~Blocked
               /\ Start
               /\ UNCHANGED <<inputVars, exiting>>

\* A key that leads to another screen, or nowhere.
SendOther == UNCHANGED <<vars, inputVars, exiting>>

StepKey == /\ In("step") /\ MaySend(busy)
           /\ Sent
           /\ SendAnchor \/ SendChord \/ SendConfirm \/ SendOther
           /\ phase' = IF exiting' THEN "events" ELSE "done"

StepNothing == /\ In("step") /\ ~MaySend(busy)
               /\ phase' = "done"
               /\ UNCHANGED <<vars, inputVars, walkVars>>

WalkDone == /\ In("done") /\ Settled(busy)
            /\ Finished /\ Quit
            /\ UNCHANGED <<inputVars, phase>>

NotDone == /\ In("done") /\ ~Settled(busy)
           /\ Counted(busy)
           /\ phase' = "events"
           /\ UNCHANGED <<vars, inputVars>>

-----------------------------------------------------------------------------
Tick == \/ Drained \/ Polled \/ PollEmpty \/ Capture \/ ExitRequested \/ NoExit
        \/ StepKey \/ StepNothing \/ WalkDone \/ NotDone

User == ConfirmPressed \/ ChordPressed \/ DeviceEvent \/ Closed

LoopNext == \/ Tick \/ User
            \/ (Leave \/ Work) /\ UNCHANGED <<inputVars, walkVars, phase>>

LoopSpec == LoopInit /\ [][LoopNext]_loopVars

\* The loop goes round as long as Run has not returned (a ticker wakes it). Nothing
\* makes the user do anything.
LoopFairness == WF_loopVars(Tick) /\ WorkFairness

FairLoop == LoopSpec /\ LoopFairness

-----------------------------------------------------------------------------
(* Properties.                                                                 *)

\* Every screen a walkthrough reaches is saved before the next key changes it, and
\* before the walkthrough is reported finished, and neither happens over an operation
\* that is still going on: the opening screen, that of each key, and the one an
\* operation finished on, however fast it was ("captures the opening frame, the
\* screen each key produced, and the screen an operation finished on").
EvidenceComplete == [][left' # left \/ walk' # walk => ~unseen /\ ~busy]_loopVars

\* The session ends once it is asked to, and a walkthrough by itself: neither waits
\* for an operation that waits for the loop.
RunEnds == ui = "quit" \/ walk = "going" ~> ui = "exited"
=============================================================================
