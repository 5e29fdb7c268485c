---------------------------- MODULE MCTransaction ----------------------------
(* Transaction on two destination files with two contents. The fault kinds of  *)
(* each run are picked by its .cfg among the sets below.                       *)

EXTENDS Transaction

\* everything but a Commit whose journal is renamed and not synced
AllButCommitSync == FaultKind \ {"commitSync"}

\* the failures that leave the transaction directory whole or journaled
WithoutRemoval == {"early", "sync", "commitSync", "restore"}

TornRemoval  == {"tornClear"}
RemovalFails == {"clear"}
=============================================================================
