------------------------------- MODULE Library --------------------------------
(* What the buttons of the GUI do to ui.Model: the rows the tabs and categories*)
(* let through, the row and the action under the cursor, the screens between a *)
(* row and the start of an operation, and the refresh when one is done.        *)
(*                                                                             *)
(* Handle delivers one event at a time, between two calls of Poll, so every    *)
(* action is one step; the goroutine it starts is in Session.tla, where Done   *)
(* is the event that ends it. Simplifications. Messages, notices and the       *)
(* paging of long texts are left out; so is the export of diagnostics. An item *)
(* is what the model reads of it: see Listing.                                 *)

EXTENDS Integers, SequencesExt

CONSTANTS
  Index,         \* the packages, in the order of the catalogue index
  Type,          \* Type[p]: what the manifest calls the package
  Listing,       \* what Items may say of a package: its verdict's state, the
                 \* actions on offer, and whether a health issue is named
  CategoryOrder, \* the categories Left and Right walk
  None           \* no package

Package == ToSet(Index)
Action == UNION {ToSet(item.actions) : item \in Listing}

ASSUME LibraryAssumption ==
  /\ Index \in Seq(Package) \ {<<>>} /\ IsInjective(Index) /\ None \notin Package
  /\ DOMAIN Type = Package
  /\ \A item \in Listing : item.actions \in Seq(Action)
  /\ None \notin Action
  /\ CategoryOrder \in Seq({"all", "games", "apps"}) \ {<<>>}
  /\ IsInjective(CategoryOrder)

TabOrder == <<"all", "ready", "installed">>
Nothing == <<None, None>>
View == ToSet(TabOrder) \X ToSet(CategoryOrder)

VARIABLES
  catalogue,   \* Model.catalogue, by package
  items,       \* Model.Items: the rows
  view,        \* Tabs.active and Tabs.category
  at,          \* Tabs.at: the package each view was left on
  selected,    \* Model.Selected
  action,      \* Model.Action
  focus,       \* Model.Focus
  confirmFrom, \* Model.confirmFrom
  busy,        \* Model.Busy
  asked,       \* history: what the open confirmation screen was opened for
  started      \* history: what was started and is not done

listVars   == <<catalogue, items, view, at, selected>>
screenVars == <<action, focus, confirmFrom>>
vars == <<listVars, screenVars, busy, asked, started>>

-----------------------------------------------------------------------------
(* Rows.                                                                       *)

TabMatch(tab, item) ==
  CASE tab = "all"       -> TRUE
    [] tab = "ready"     -> item.state \in {"available", "external"}
    [] tab = "installed" -> item.state \in {"installed", "issue"}

CategoryMatch(category, p) ==
  CASE category = "all"   -> TRUE
    [] category = "games" -> Type[p] = "game"
    [] category = "apps"  -> Type[p] \in {"utility", "theme", "integration"}

\* The packages of a set in the order of the index.
Rows(shown) ==
  LET rows[n \in 0..Len(Index)] ==
        IF n = 0 THEN <<>>
        ELSE IF Index[n] \in shown THEN Append(rows[n - 1], Index[n]) ELSE rows[n - 1]
  IN  rows[Len(Index)]

Visible(cat, v) == Rows({p \in Package : TabMatch(v[1], cat[p]) /\ CategoryMatch(v[2], p)})

\* selectedID: the package in a row, if there is such a row.
RowOf(rows, row) == IF row < Len(rows) THEN rows[row + 1] ELSE None

\* Mutant of Landing: the row number is kept, not the package.
LandingOnRow(rows, preferred) ==
  IF selected < Len(rows) THEN selected ELSE 0

\* The row filter selects: the first preferred package that is shown, or the top.
Landing(rows, preferred) ==
  LET shown == {i \in DOMAIN preferred : preferred[i] \in ToSet(rows)}
  IN  IF shown = {} THEN 0
      ELSE (CHOOSE i \in DOMAIN rows : rows[i] = preferred[Min(shown)]) - 1

Wrap(value, length) == IF length = 0 THEN 0 ELSE value % length

Step(order, from, delta) ==
  order[1 + Wrap((CHOOSE i \in DOMAIN order : order[i] = from) - 1 + delta, Len(order))]

NextTab(v, delta)      == <<Step(TabOrder, v[1], delta), v[2]>>
NextCategory(v, delta) == <<v[1], Step(CategoryOrder, v[2], delta)>>

\* Tabs.Remember: a view without rows remembers nothing.
Remember(memory, v, p) == IF p = None THEN memory ELSE [memory EXCEPT ![v] = p]

\* Mutant of Entered: the package being read goes before what the view remembers.
EnteredCarrying(memory, v, carried) ==
  Landing(Visible(catalogue, v), <<carried, memory[v]>>)

\* The row a view opens on: where it was left, else the package being read.
Entered(memory, v, carried) ==
  Landing(Visible(catalogue, v), <<memory[v], carried>>)

Current == RowOf(items, selected)

\* current().Actions; an empty list has no current item.
Actions == IF Current = None THEN <<>> ELSE catalogue[Current].actions

SelectedAction == IF action < Len(Actions) THEN Actions[action + 1] ELSE None

TypeOK == /\ catalogue \in [Package -> Listing]
          /\ items = Visible(catalogue, view)
          /\ view \in View
          /\ at \in [View -> Package \cup {None}]
          /\ selected \in 0..Len(items)
          /\ action \in Nat
          /\ focus \in {"Browse", "Health", "Actions", "Confirm", "ForceConfirm"}
          /\ confirmFrom \in {"Browse", "Actions"}
          /\ busy \in BOOLEAN

\* Load, with every tab and category open.
Init == /\ catalogue \in [Package -> Listing]
        /\ view = <<Head(TabOrder), Head(CategoryOrder)>>
        /\ items = Visible(catalogue, view)
        /\ at = [v \in View |-> None]
        /\ selected = 0 /\ action = 0
        /\ focus = "Browse" /\ confirmFrom = "Browse"
        /\ busy = FALSE
        /\ asked = Nothing /\ started = Nothing

-----------------------------------------------------------------------------
(* The handlers.                                                               *)

Idle(screens) == ~busy /\ focus \in screens

\* Model.Move while browsing.
MoveRow(delta) == /\ Idle({"Browse"}) /\ items # <<>>
                  /\ selected' = Wrap(selected + delta, Len(items))
                  /\ action' = 0
                  /\ UNCHANGED <<catalogue, items, view, at, focus, confirmFrom, busy,
                                 asked, started>>

\* Mutant of MoveAction: the confirmation screens move the action too.
MoveActionAnywhere(delta) ==
  /\ Idle({"Actions", "Confirm", "ForceConfirm"}) /\ Len(Actions) > 0
  /\ action' = Wrap(action + delta, Len(Actions))
  /\ UNCHANGED <<listVars, focus, confirmFrom, busy, asked, started>>

\* Model.Move and Horizontal on the actions of a package.
MoveAction(delta) == /\ Idle({"Actions"}) /\ Len(Actions) > 0
                     /\ action' = Wrap(action + delta, Len(Actions))
                     /\ UNCHANGED <<listVars, focus, confirmFrom, busy, asked, started>>

\* Mutant of Switch: the rows are those of the view that was left.
SwitchLazily(next) == /\ Idle({"Browse"})
                      /\ at' = Remember(at, view, Current) /\ view' = next
                      /\ action' = 0
                      /\ UNCHANGED <<catalogue, items, selected, focus, confirmFrom, busy,
                                     asked, started>>

\* Horizontal and CycleTab while browsing.
Switch(next) == /\ Idle({"Browse"})
                /\ LET memory == Remember(at, view, Current)
                   IN  /\ at' = memory
                       /\ view' = next
                       /\ items' = Visible(catalogue, next)
                       /\ selected' = Entered(memory, next, Current)
                /\ action' = 0
                /\ UNCHANGED <<catalogue, focus, confirmFrom, busy, asked, started>>

\* Model.More, the Y button on a row.
More == /\ Idle({"Browse"}) /\ items # <<>>
        /\ action' = 0
        /\ focus' = "Actions"
        /\ UNCHANGED <<listVars, confirmFrom, busy, asked, started>>

\* Model.Select on a row: a package with a health issue is explained first.
SelectRow == /\ Idle({"Browse"}) /\ items # <<>>
             /\ \/ /\ catalogue[Current].health
                   /\ focus' = "Health"
                   /\ UNCHANGED <<action, confirmFrom, asked>>
                \/ /\ ~catalogue[Current].health /\ Len(Actions) > 0
                   /\ action' = 0
                   /\ confirmFrom' = "Browse" /\ focus' = "Confirm"
                   /\ asked' = <<Current, Head(Actions)>>
             /\ UNCHANGED <<listVars, busy, started>>

SelectHealth == /\ Idle({"Health"}) /\ Len(Actions) > 0
                /\ focus' = "Actions"
                /\ UNCHANGED <<listVars, action, confirmFrom, busy, asked, started>>

SelectAction == /\ Idle({"Actions"}) /\ Len(Actions) > 0
                /\ confirmFrom' = "Actions" /\ focus' = "Confirm"
                /\ asked' = <<Current, SelectedAction>>
                /\ UNCHANGED <<listVars, action, busy, started>>

\* Model.start; an action that is not there starts nothing.
StartOperation == /\ SelectedAction # None
                  /\ busy' = TRUE
                  /\ started' = <<Current, SelectedAction>>
                  /\ UNCHANGED <<listVars, screenVars, asked>>

\* Mutant of Confirm: a force reinstall starts like everything else.
ConfirmOnce == Idle({"Confirm"}) /\ StartOperation

Confirm == /\ Idle({"Confirm"})
           /\ \/ /\ SelectedAction = "force-reinstall"
                 /\ focus' = "ForceConfirm"
                 /\ UNCHANGED <<listVars, action, confirmFrom, busy, asked, started>>
              \/ SelectedAction # "force-reinstall" /\ StartOperation

ConfirmForce == Idle({"ForceConfirm"}) /\ StartOperation

Back == /\ ~busy
        /\ \/ focus = "ForceConfirm" /\ focus' = "Confirm"
           \/ focus = "Confirm" /\ focus' = confirmFrom
           \/ focus \in {"Actions", "Health"} /\ focus' = "Browse"
        /\ asked' = IF focus' = "Confirm" THEN asked ELSE Nothing
        /\ UNCHANGED <<listVars, action, confirmFrom, busy, started>>

\* Mutant of Refreshed: setCatalogue leaves the action where it was.
RefreshedRows(fresh) ==
  /\ catalogue' = fresh
  /\ items' = Visible(fresh, view)
  /\ selected' = Landing(items', <<Current>>)
  /\ UNCHANGED action

\* setCatalogue: the rows anew, the package that was selected still selected.
Refreshed(fresh) ==
  /\ catalogue' = fresh
  /\ items' = Visible(fresh, view)
  /\ selected' = Landing(items', <<Current>>)
  /\ action' = 0

\* Poll takes the event that ends an operation; a failed refresh carries no items.
Done == /\ busy
        /\ busy' = FALSE /\ focus' = "Browse"
        /\ \/ \E fresh \in [Package -> Listing] : Refreshed(fresh)
           \/ UNCHANGED <<catalogue, items, selected, action>>
        /\ asked' = Nothing /\ started' = Nothing
        /\ UNCHANGED <<view, at, confirmFrom>>

Select == \/ SelectRow \/ SelectHealth \/ SelectAction \/ Confirm \/ ConfirmForce

Next == \/ \E delta \in {-1, 1} : \/ MoveRow(delta) \/ MoveAction(delta)
                                  \/ Switch(NextTab(view, delta))
                                  \/ Switch(NextCategory(view, delta))
        \/ More \/ Select \/ Back \/ Done

Spec == Init /\ [][Next]_vars

-----------------------------------------------------------------------------
(* Properties.                                                                 *)

\* What starts is the package and the action that the confirmation screen was
\* opened for: no key in between, and no refresh, changes what it is about
\* ("never execute on a paging key"); and a force reinstall is confirmed on its own
\* screen, whichever way and with whatever cursor the user got there ("preserve the
\* two-step recovery confirmation").
StartsWhatWasAsked ==
  [][~busy /\ busy' =>
       /\ started' = asked
       /\ started'[2] = "force-reinstall" => focus = "ForceConfirm"]_vars

\* The screens that act on an action always have one: a cursor left from another
\* list of actions, or a row that went away, never leaves the user on a dead button.
ActionIsThere == focus \in {"Confirm", "ForceConfirm"} => SelectedAction # None

\* "A row that moved because another package was installed must not take the
\* cursor with it": after an operation the cursor is on the same package as long
\* as the tab still shows it.
RefreshKeepsPackage ==
  [][busy /\ ~busy' /\ Current \in ToSet(items') => Current' = Current]_vars

\* Away and back, in either ring and direction, ends on the row that was left, by
\* way of whatever the other view remembers or shows.
ComesBack(there) ==
  LET memory == Remember(at, view, Current)
      other  == RowOf(Visible(catalogue, there), Entered(memory, there, Current))
  IN  Entered(Remember(memory, there, other), view, other) = selected

RoundTrips ==
  Idle({"Browse"}) /\ items # <<>> =>
    \A delta \in {-1, 1} : /\ ComesBack(NextTab(view, delta))
                           /\ ComesBack(NextCategory(view, delta))
=============================================================================
