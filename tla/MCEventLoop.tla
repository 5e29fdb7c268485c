---------------------------- MODULE MCEventLoop -------------------------------
(* Two controllers and a keyboard with one anchor, or a walkthrough of three   *)
(* keys; any number of operations one after the other.                         *)

EXTENDS EventLoop
=============================================================================
