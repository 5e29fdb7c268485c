----------------------------- MODULE AtomicStore -----------------------------
(* What package operations need from internal/safefs: a set of destination     *)
(* files that one operation at a time changes all at once or not at all.       *)
(*                                                                             *)
(* store is what the next operation to start will find; view is what the       *)
(* operation in progress sees while it works. A crash, or an operation that    *)
(* gives up, is an Abort: the operation's view is lost and store is untouched. *)
(* Transaction.tla is shown to implement this specification.                   *)

CONSTANTS Path, Content, Absent

VARIABLES store,   \* the durable contents of every path
          view,    \* the contents the operation in progress has produced
          active   \* whether an operation is in progress

avars == <<store, view, active>>

Value == Content \cup {Absent}

AInit == /\ store \in [Path -> Value]
         /\ view = store
         /\ active = FALSE

\* Transaction.Begin
ABegin == /\ ~active
          /\ active' = TRUE
          /\ view' = store
          /\ UNCHANGED store

\* Transaction.Write, Copy, Chmod or Remove
AChange(p, v) == /\ active
                 /\ view' = [view EXCEPT ![p] = v]
                 /\ UNCHANGED <<store, active>>

\* Transaction.Commit
ACommit == /\ active
           /\ store' = view
           /\ active' = FALSE
           /\ UNCHANGED view

\* Transaction.Rollback, and a crash
AAbort == /\ active
          /\ active' = FALSE
          /\ view' = store
          /\ UNCHANGED store

ANext == \/ ABegin \/ ACommit \/ AAbort
         \/ \E p \in Path, v \in Value : AChange(p, v)

ASpec == AInit /\ [][ANext]_avars
=============================================================================
