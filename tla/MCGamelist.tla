----------------------------- MODULE MCGamelist -----------------------------
(* Gamelist for a package whose releases rename its menu entry, fill in its    *)
(* description, move it to another path and drop it.                           *)

EXTENDS Gamelist, TLC

CONSTANTS first, moved, store,     \* slots
          name, desc,              \* fields
          one, two,                \* values
          r1, r2, r3, r4           \* releases

MenuAt(slot, n, d) == [slot |-> slot, text |-> (name :> n @@ desc :> d)]

MCMenuOf == r1 :> MenuAt(first, one, Blank) @@ r2 :> MenuAt(first, one, two)
            @@ r3 :> MenuAt(moved, two, two) @@ r4 :> NoMenu

MCStoreMenu == MenuAt(store, one, one)
=============================================================================
