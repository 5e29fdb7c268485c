------------------------------ MODULE MCService ------------------------------
(* A package with the catalogue's version and an earlier one.                  *)

EXTENDS Service

CONSTANTS v1, v2
=============================================================================
