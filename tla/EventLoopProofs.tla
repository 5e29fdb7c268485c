---------------------------- MODULE EventLoopProofs ---------------------------
(* Theorems about Session, and about EventLoop, for any threads, controllers   *)
(* and anchors and walkthroughs of any length: one operation at a time and a   *)
(* clean exit; the loop is a session, so what is proved of one holds; the chord*)
(* is held when it quits; no screen of a walkthrough is missed.                *)

EXTENDS EventLoop, TLAPS

-----------------------------------------------------------------------------
(* The session.                                                                *)

\* The goroutine lives inside the busy period, and its result is its last word.
WorkerInv == /\ worker # "none" => busy
             /\ events = <<"done">> => busy /\ worker = "none"

\* Main holds the mutex while it flushes. A goroutine that gets it after that finds
\* the context cancelled: it is turned away, or cannot get beyond staging.
QuitInv == /\ ui # "run" => cancelled
           /\ ui = "flush" => mutex = "main"
           /\ ui \in {"flush", "leave", "exited"} =>
                /\ worker \notin {"apply", "commit", "silent", "record", "complete"}
                /\ Sending => then = "stage"

\* A reported menu change is noted, or about to be: the goroutine holds the mutex
\* in between.
ReloadInv == /\ unreloaded => pending \/ (worker = "record" /\ changed)
             /\ ui \in {"leave", "exited"} => ~unreloaded

\* None of the properties is inductive without the others' parts.
IInv == TypeOK /\ WorkerInv /\ QuitInv /\ ReloadInv

LEMMA InvInit ==
  ASSUME Init
  PROVE  IInv
BY SessionAssumption DEF Init, IInv, TypeOK, WorkerInv, QuitInv, ReloadInv, Worker, Executing, Sending

\* A start, an event that is taken, and leaving the loop.
LEMMA LoopStep ==
  ASSUME IInv, Loop \/ UNCHANGED vars
  PROVE  IInv'
<1> USE SessionAssumption
    DEF IInv, TypeOK, WorkerInv, QuitInv, ReloadInv, Worker, Executing, Sending, flushVars, workerVars,
        uiVars
<1>1. CASE Start
  BY <1>1 DEF Start
<1>2. CASE Poll
  <2>1. busy' \in BOOLEAN
    BY <1>2, Zenon DEF Poll
  <2>2. Head(events) = "done" => worker = "none"
    BY <1>2 DEF Poll
  <2>3. worker # "none" => busy'
    BY <1>2, <2>2 DEF Poll
  <2>4. events' = <<>>
    BY <1>2 DEF Poll
  <2> QED
    BY <1>2, <2>1, <2>3, <2>4 DEF Poll
<1>3. CASE Quit
  BY <1>3 DEF Quit
<1>4. CASE UNCHANGED vars
  BY <1>4 DEF vars
<1> QED
  BY <1>1, <1>2, <1>3, <1>4 DEF Loop

\* Main gets the mutex, asks for the reload, and ends.
LEMMA LeaveStep ==
  ASSUME IInv, Leave
  PROVE  IInv'
<1> USE SessionAssumption
    DEF IInv, TypeOK, WorkerInv, QuitInv, ReloadInv, Worker, Executing, Sending, flushVars, workerVars,
        uiVars
<1>1. CASE FlushLock
  BY <1>1 DEF FlushLock
<1>2. CASE Flush
  <2>1. unreloaded' \in BOOLEAN /\ pending' \in BOOLEAN
    BY <1>2, Zenon DEF Flush
  <2>2. ~unreloaded'
    BY <1>2 DEF Flush
  <2> QED
    BY <1>2, <2>1, <2>2 DEF Flush
<1>3. CASE Exit
  BY <1>3 DEF Exit
<1> QED
  BY <1>1, <1>2, <1>3 DEF Leave

\* Every step of the goroutine.
LEMMA WorkStep ==
  ASSUME IInv, Work
  PROVE  IInv'
<1> USE SessionAssumption
    DEF IInv, TypeOK, WorkerInv, QuitInv, ReloadInv, Worker, Executing, Sending, flushVars, workerVars,
        uiVars, Running
<1>1. CASE Lock
  BY <1>1 DEF Lock
<1>2. CASE Check
  BY <1>2 DEF Check
<1>14. CASE Apply
  BY <1>14 DEF Apply
<1>3. CASE Staged
  BY <1>3 DEF Staged
<1>4. CASE StageFails
  BY <1>4 DEF StageFails
<1>5. ASSUME NEW menu \in BOOLEAN, Commit(menu)
      PROVE  IInv'
  BY <1>5 DEF Commit
<1>6. CASE Record
  <2>1. pending' \in BOOLEAN
    BY <1>6, Zenon DEF Record
  <2>2. unreloaded' => pending'
    BY <1>6 DEF Record
  <2> QED
    BY <1>6, <2>1, <2>2 DEF Record
<1>7. CASE Report
  BY <1>7 DEF Report
<1>8. CASE TrySend
  BY <1>8 DEF TrySend
<1>9. CASE Drain
  <2>1. CASE events = <<>>
    BY <1>9, <2>1 DEF Drain
  <2>2. CASE events # <<>>
    <3>1. events' = Tail(events)
      BY <1>9, <2>2 DEF Drain
    <3>2. events' = <<>>
      BY <2>2, <3>1
    <3> QED
      BY <1>9, <3>2 DEF Drain
  <2> QED
    BY <2>1, <2>2
<1>10. CASE Send
  BY <1>10 DEF Send
<1>11. CASE Unlock
  BY <1>11 DEF Unlock
<1>12. CASE Items
  BY <1>12 DEF Items
<1>13. CASE Done
  BY <1>13 DEF Done
<1> QED
  BY <1>1, <1>2, <1>3, <1>4, <1>5, <1>6, <1>7, <1>8, <1>9, <1>10, <1>11, <1>12, <1>13, <1>14
  DEF Work, PhaseEnds

\* The invariant holds throughout a session.
LEMMA Invariance == Spec => []IInv
<1>1. IInv /\ [Next]_vars => IInv'
  BY LoopStep, LeaveStep, WorkStep DEF Next
<1> QED
  BY <1>1, InvInit, PTL DEF Spec

\* Types, and that the goroutine holds the mutex exactly while it executes.
THEOREM TypeCorrect == Spec => []TypeOK
BY Invariance, PTL DEF IInv

\* A second operation never overlaps the first, and no stale result is waiting for it.
THEOREM OneAtATime == Spec => []NoOverlap
<1>1. IInv => NoOverlap
  BY DEF IInv, TypeOK, WorkerInv, NoOverlap
<1> QED
  BY <1>1, Invariance, PTL

\* The process ends neither in the middle of a transaction nor before every reported
\* menu change has its reload request.
THEOREM EndsCleanly == Spec => []ExitIsClean
<1>1. IInv => ExitIsClean
  BY DEF IInv, QuitInv, ReloadInv, ExitIsClean, MidTransaction
<1> QED
  BY <1>1, Invariance, PTL

-----------------------------------------------------------------------------
(* The loop is a session.                                                      *)

\* The loop adds conditions to the steps of a session, and steps that leave it alone.
LEMMA LoopStepIsSession ==
  ASSUME [LoopNext]_loopVars
  PROVE  [Next]_vars
<1>1. CASE Tick
  BY <1>1 DEF Tick, Drained, Polled, PollEmpty, Capture, ExitRequested, NoExit, StepKey,
              SendAnchor, SendChord, SendConfirm, SendOther, StepNothing, WalkDone, NotDone,
              Next, Loop
<1>2. CASE User
  BY <1>2 DEF User, ConfirmPressed, ChordPressed, DeviceEvent, Closed, Next, Loop
<1>3. CASE (Leave \/ Work) /\ UNCHANGED <<inputVars, walkVars, phase>>
  BY <1>3 DEF Next
<1>4. CASE UNCHANGED loopVars
  BY <1>4 DEF loopVars
<1> QED
  BY <1>1, <1>2, <1>3, <1>4 DEF LoopNext

\* The session with its devices and its script implements the one in which the user
\* may confirm and quit at any moment.
THEOREM LoopIsSession == LoopSpec => Spec
<1>1. LoopInit => Init
  BY DEF LoopInit
<1> QED
  BY <1>1, LoopStepIsSession, PTL DEF LoopSpec, Spec

\* One operation at a time, and a clean exit, in the loop as it is.
THEOREM LoopIsSafe == LoopSpec => [](NoOverlap /\ ExitIsClean)
BY LoopIsSession, OneAtATime, EndsCleanly, PTL

-----------------------------------------------------------------------------
(* The chord.                                                                  *)

\* Every way to let go of an anchor that armed the chord disarms it.
LEMMA ChordStep ==
  ASSUME InputTypeOK, ChordIsHeld, [LoopNext]_loopVars
  PROVE  InputTypeOK' /\ ChordIsHeld'
<1> USE InputAssumption DEF InputTypeOK, ChordIsHeld, Heard
<1>1. CASE UNCHANGED inputVars
  BY <1>1 DEF inputVars
<1>2. ASSUME NEW p \in Pad, Attach(p)
      PROVE  InputTypeOK' /\ ChordIsHeld'
  <2>1. CASE Blocked /\ \E q \in attached' : Connect(q)
    BY <1>2, <2>1 DEF Attach, Connect, Blocked
  <2>2. CASE UNCHANGED <<active, chord>>
    <3>1. chord' \in BOOLEAN
      BY <2>2, Zenon
    <3>2. Heard' = Heard /\ held' = held
      BY <1>2, <2>2 DEF Attach
    <3>3. ChordIsHeld'
      BY <2>2, <3>2, Zenon
    <3> QED
      BY <1>2, <2>2, <3>1, <3>3 DEF Attach
  <2> QED
    BY <1>2, <2>1, <2>2 DEF Attach
<1>3. ASSUME NEW p \in Pad, Detach(p)
      PROVE  InputTypeOK' /\ ChordIsHeld'
  <2>1. CASE p = active /\ Disconnect
    BY <1>3, <2>1 DEF Detach, Disconnect
  <2>2. CASE p # active /\ UNCHANGED <<active, chord>>
    <3>1. chord' \in BOOLEAN
      BY <2>2, Zenon
    <3>2. Heard' = Heard /\ held' \cap Heard = held \cap Heard
      BY <1>3, <2>2 DEF Detach
    <3>3. ChordIsHeld'
      BY <2>2, <3>2, Zenon
    <3> QED
      BY <1>3, <2>2, <3>1, <3>3 DEF Detach
  <2> QED
    BY <1>3, <2>1, <2>2 DEF Detach
<1>4. ASSUME NEW a \in Pad \cup AnchorKey, PressAnchor(a)
      PROVE  InputTypeOK' /\ ChordIsHeld'
  <2>1. chord' \in BOOLEAN
    BY <1>4, Zenon DEF PressAnchor
  <2> QED
    BY <1>4, <2>1 DEF PressAnchor
<1>5. ASSUME NEW a \in Pad \cup AnchorKey, ReleaseAnchor(a)
      PROVE  InputTypeOK' /\ ChordIsHeld'
  <2>1. chord' \in BOOLEAN
    BY <1>5, Zenon DEF ReleaseAnchor
  <2> QED
    BY <1>5, <2>1 DEF ReleaseAnchor
<1>6. CASE QuitChord
  BY <1>6 DEF QuitChord
<1>7. \/ UNCHANGED inputVars \/ QuitChord
      \/ \E p \in Pad : Attach(p) \/ Detach(p)
      \/ \E a \in Pad \cup AnchorKey : PressAnchor(a) \/ ReleaseAnchor(a)
  BY DEF LoopNext, loopVars, Tick, Drained, Polled, PollEmpty, Capture, ExitRequested, NoExit,
         StepKey, SendAnchor, SendChord, SendConfirm, SendOther, StepNothing, WalkDone,
         NotDone, User, ConfirmPressed, ChordPressed, DeviceEvent, Device, Closed
<1> QED
  BY <1>1, <1>2, <1>3, <1>4, <1>5, <1>6, <1>7

\* No controller that is unplugged or replaced, and no anchor that is let go, leaves
\* the chord armed.
THEOREM ChordHeld == LoopSpec => []ChordIsHeld
<1>1. LoopInit => InputTypeOK /\ ChordIsHeld
  BY InputAssumption DEF LoopInit, InputInit, InputTypeOK, ChordIsHeld
<1>2. InputTypeOK /\ ChordIsHeld /\ [LoopNext]_loopVars => InputTypeOK' /\ ChordIsHeld'
  BY ChordStep
<1> QED
  BY <1>1, <1>2, PTL DEF LoopSpec

-----------------------------------------------------------------------------
(* The evidence of a walkthrough.                                              *)

\* A screen that is not saved yet is going to be: a capture is pending, or the last
\* frame was one of the operation whose end changed the screen. While an operation
\* runs, its beginning was a key or was seen. Only the key just sent is without its
\* frame after a capture, and it has started the settling anew.
EvidenceInv ==
  /\ walk \in {"none", "going", "finished"}
  /\ phase \notin {"events", "poll"} => walk # "none"
  /\ walk = "finished" => ui # "run"
  /\ walk = "going" =>
       /\ busy => wasBusy \/ capture
       /\ unseen => capture \/ (wasBusy /\ ~busy)
       /\ phase \in {"exit", "step"} => ~unseen
       /\ phase = "done" /\ unseen => idle = 0
       /\ phase \in {"step", "done"} => ~exiting
       /\ exiting => ~busy

\* The session's own steps do not reach what the loop keeps; only the loop makes the
\* model busy, or idle again.
LEMMA SessionSteps ==
  ASSUME IInv, Leave \/ Work
  PROVE  busy' = busy /\ (ui' = "run" => ui = "run")
BY DEF Leave, Work, FlushLock, Flush, Exit, Lock, Check, Apply, PhaseEnds, Staged, StageFails, Commit, Record,
       Report, TrySend, Drain, Send, Unlock, Items, Done, uiVars, Running, IInv, TypeOK

\* Mutual support of the parts, action by action.
LEMMA EvidenceStep ==
  ASSUME IInv, EvidenceInv, [LoopNext]_loopVars
  PROVE  EvidenceInv'
<1> USE DEF EvidenceInv, In
<1>1. CASE Drained \/ NoExit \/ StepNothing
  BY <1>1 DEF Drained, NoExit, StepNothing, vars, uiVars, walkVars
<1>2. CASE Polled
  <2>1. walk = "going" /\ Head(events) = "done" => busy
    BY <1>2 DEF Polled, Poll, IInv, TypeOK, WorkerInv
  <2>2. busy' => busy
    BY <1>2, Zenon DEF Polled, Poll
  <2>3. unseen' => unseen \/ (walk = "going" /\ Head(events) = "done")
    BY <1>2, Zenon DEF Polled
  <2>4. Head(events) = "done" => ~busy'
    BY <1>2, Zenon DEF Polled, Poll
  <2> QED
    BY <1>2, <2>1, <2>2, <2>3, <2>4 DEF Polled, Poll
<1>3. CASE PollEmpty
  BY <1>3 DEF PollEmpty, vars, uiVars, walkVars
<1>4. CASE Capture
  <2>1. wasBusy' = busy /\ busy' = busy
    BY <1>4, Zenon DEF Capture, Captured, vars, uiVars
  <2>2. ~unseen'
    BY <1>4 DEF Capture, Captured, IsEvidence
  <2> QED
    BY <1>4, <2>1, <2>2 DEF Capture, Captured, vars, uiVars
<1>5. CASE ExitRequested
  BY <1>5 DEF ExitRequested, Finished, Quit, walkVars
<1>6. CASE StepKey
  <2>1. /\ capture' /\ idle' = 0 /\ walk' = walk /\ wasBusy' = wasBusy
        /\ phase' \in {"events", "done"} /\ (phase' = "done" => ~exiting')
        /\ ui = "run" /\ phase = "step"
    BY <1>6 DEF StepKey, Sent
  <2>2. exiting' => ~busy'
    BY <1>6 DEF StepKey, MaySend, SendAnchor, SendChord, SendConfirm, SendOther, Start, vars,
                uiVars
  <2>3. ui' = ui
    BY <1>6 DEF StepKey, SendAnchor, SendChord, SendConfirm, SendOther, Start, vars, uiVars
  <2> QED
    BY <2>1, <2>2, <2>3
<1>7. CASE WalkDone
  BY <1>7 DEF WalkDone, Finished, Quit
<1>8. CASE NotDone
  BY <1>8 DEF NotDone, Counted, vars, uiVars
<1>9. CASE ConfirmPressed
  BY <1>9 DEF ConfirmPressed, Attended, Start, walkVars
<1>10. CASE ChordPressed \/ Closed
  BY <1>10 DEF ChordPressed, Closed, Quit, walkVars
<1>11. CASE DeviceEvent
  BY <1>11 DEF DeviceEvent, vars, uiVars, walkVars
<1>12. CASE (Leave \/ Work) /\ UNCHANGED <<inputVars, walkVars, phase>>
  BY <1>12, SessionSteps DEF walkVars
<1>13. CASE UNCHANGED loopVars
  BY <1>13 DEF loopVars, vars, uiVars, walkVars
<1> QED
  BY <1>1, <1>2, <1>3, <1>4, <1>5, <1>6, <1>7, <1>8, <1>9, <1>10, <1>11, <1>12, <1>13
  DEF LoopNext, Tick, User

\* Keys are sent and walkthroughs finished over a saved screen only.
LEMMA EvidenceAction ==
  ASSUME Settle > 1, EvidenceInv, [LoopNext]_loopVars, left' # left \/ walk' # walk
  PROVE  ~unseen /\ ~busy
<1>1. StepKey \/ ExitRequested \/ WalkDone
  BY DEF LoopNext, loopVars, Tick, User, Drained, Polled, PollEmpty, Capture, Captured, NoExit,
         StepNothing, NotDone, Counted, ConfirmPressed, ChordPressed, DeviceEvent, Closed,
         walkVars
<1>2. walk = "going" /\ ui = "run"
  BY <1>1 DEF StepKey, ExitRequested, WalkDone, In, EvidenceInv, Finished
<1>3. CASE StepKey
  BY <1>2, <1>3 DEF StepKey, In, MaySend, EvidenceInv
<1>4. CASE ExitRequested
  BY <1>2, <1>4 DEF ExitRequested, In, EvidenceInv
<1>5. CASE WalkDone
  BY <1>2, <1>5, WalkAssumption DEF WalkDone, In, Settled, EvidenceInv
<1> QED
  BY <1>1, <1>3, <1>4, <1>5

\* No screen of a walkthrough is missed, however long it is, if it waits for more than
\* one idle frame at its end (the program waits for three).
THEOREM EvidenceKept ==
  ASSUME Settle > 1
  PROVE  LoopSpec => EvidenceComplete
<1>1. LoopInit => EvidenceInv
  BY DEF LoopInit, Init, WalkInit, EvidenceInv
<1>2. IInv /\ EvidenceInv /\ [LoopNext]_loopVars => EvidenceInv'
  BY EvidenceStep
<1>3. EvidenceInv /\ [LoopNext]_loopVars
        => [left' # left \/ walk' # walk => ~unseen /\ ~busy]_loopVars
  BY EvidenceAction
<1>4. LoopSpec => []IInv
  BY LoopIsSession, Invariance, PTL
<1> QED
  BY <1>1, <1>2, <1>3, <1>4, PTL DEF LoopSpec, EvidenceComplete

-----------------------------------------------------------------------------
(* Types.                                                                      *)

\* The keys left go down to nothing and the idle frames stop at Settle.
LEMMA WalkTypeStep ==
  ASSUME TypeOK, WalkTypeOK, phase \in Phase, [LoopNext]_loopVars
  PROVE  WalkTypeOK' /\ phase' \in Phase
<1> USE WalkAssumption DEF WalkTypeOK, Phase
<1>1. CASE UNCHANGED walkVars
  <2>1. WalkTypeOK'
    BY <1>1 DEF walkVars
  <2>2. phase' \in Phase
    BY <1>1 DEF LoopNext, loopVars, Tick, User, Drained, Polled, PollEmpty, Capture,
                ExitRequested, NoExit, StepKey, StepNothing, WalkDone, NotDone,
                ConfirmPressed, ChordPressed, DeviceEvent, Closed
  <2> QED
    BY <2>1, <2>2
<1>2. CASE Polled
  <2>1. unseen' \in BOOLEAN
    BY <1>2, Zenon DEF Polled
  <2> QED
    BY <1>2, <2>1 DEF Polled
<1>3. CASE Capture
  <2>1. wasBusy' \in BOOLEAN
    BY <1>3, Zenon DEF Capture, Captured, TypeOK
  <2>2. capture' \in BOOLEAN /\ unseen' \in BOOLEAN
    BY <1>3, Zenon DEF Capture, Captured
  <2> QED
    BY <1>3, <2>1, <2>2 DEF Capture, Captured
<1>4. CASE ExitRequested
  BY <1>4 DEF ExitRequested, Finished, walkVars
<1>5. CASE StepKey
  <2>1. exiting' \in BOOLEAN
    BY <1>5, Zenon DEF StepKey, SendAnchor, SendChord, SendConfirm, SendOther
  <2> QED
    BY <1>5, <2>1 DEF StepKey, Sent, MaySend
<1>6. CASE WalkDone
  BY <1>6 DEF WalkDone, Finished
<1>7. CASE NotDone
  <2>1. idle' \in 0..Settle
    BY <1>7 DEF NotDone, Counted, Settled
  <2> QED
    BY <1>7, <2>1 DEF NotDone, Counted
<1> QED
  BY <1>1, <1>2, <1>3, <1>4, <1>5, <1>6, <1>7
  DEF LoopNext, loopVars, Tick, User, Drained, PollEmpty, NoExit, StepNothing,
      ConfirmPressed, ChordPressed, DeviceEvent, Closed

\* Types of the session, its devices and its script.
THEOREM LoopTypeCorrect == LoopSpec => []LoopTypeOK
<1>1. LoopInit => InputTypeOK /\ ChordIsHeld /\ WalkTypeOK /\ phase \in Phase
  <2>1. ASSUME LoopInit
        PROVE  InputTypeOK /\ ChordIsHeld
    BY <2>1, InputAssumption DEF LoopInit, InputInit, InputTypeOK, ChordIsHeld
  <2>2. ASSUME LoopInit
        PROVE  unseen \in BOOLEAN
    BY <2>2, Zenon DEF LoopInit, WalkInit
  <2>3. ASSUME LoopInit
        PROVE  WalkTypeOK /\ phase \in Phase
    <3>1. walk \in {"none", "going"} /\ (left = 0 \/ left \in 1..MaxKeys)
      BY <2>3, Zenon DEF LoopInit, WalkInit
    <3>2. capture /\ ~wasBusy /\ idle = 0 /\ ~exiting /\ phase = "events"
      BY <2>3, Zenon DEF LoopInit, WalkInit
    <3>3. left \in 0..MaxKeys /\ idle \in 0..Settle
      BY <3>1, <3>2, WalkAssumption
    <3>4. capture \in BOOLEAN /\ wasBusy \in BOOLEAN /\ exiting \in BOOLEAN
      BY <2>3, Zenon DEF LoopInit, WalkInit
    <3> QED
      BY <2>2, <2>3, <3>1, <3>2, <3>3, <3>4, Zenon DEF WalkTypeOK, Phase
  <2> QED
    BY <2>1, <2>3
<1>2. InputTypeOK /\ ChordIsHeld /\ [LoopNext]_loopVars => InputTypeOK' /\ ChordIsHeld'
  BY ChordStep
<1>3. TypeOK /\ WalkTypeOK /\ phase \in Phase /\ [LoopNext]_loopVars
        => WalkTypeOK' /\ (phase \in Phase)'
  BY WalkTypeStep
<1>4. LoopSpec => []TypeOK
  BY LoopIsSession, TypeCorrect, PTL
<1>5. TypeOK /\ InputTypeOK /\ WalkTypeOK /\ phase \in Phase => LoopTypeOK
  BY DEF LoopTypeOK
<1> QED
  BY <1>1, <1>2, <1>3, <1>4, <1>5, PTL DEF LoopSpec
=============================================================================
