------------------------------ MODULE MCLibrary -------------------------------
(* Two packages, of which a tab shows none, one or both, and items whose lists *)
(* of actions differ in length.                                                *)

EXTENDS Library

CONSTANTS game, app

MCIndex == <<game, app>>
MCType == [p \in {game, app} |-> IF p = app THEN "utility" ELSE "game"]

\* as Service.item lists them
Item(state, actions, health) == [state |-> state, actions |-> actions, health |-> health]

MCListing == {Item("candidate", <<>>, FALSE),
              Item("external", <<"adopt", "force-reinstall">>, FALSE),
              Item("issue", <<"update", "uninstall", "repair">>, TRUE),
              Item("issue", <<"uninstall", "repair">>, TRUE)}

MCCategories == <<"all", "games", "apps">>
=============================================================================
