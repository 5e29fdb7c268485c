---------------------------- MODULE LibraryProofs -----------------------------
(* Theorems about Library, for any catalogue, whatever its items offer, and    *)
(* any categories. The rows are a recursive function of the index: Rows is     *)
(* shown to be what its definition says, and every row to be another package,  *)
(* by descent from a least counterexample.                                     *)

EXTENDS Library, WellFoundedInduction, TLAPS

-----------------------------------------------------------------------------
(* Rows.                                                                       *)

\* A set of naturals that is not empty has a least member.
LEMMA LeastMember ==
  ASSUME NEW T, T \subseteq Nat, T # {}
  PROVE  \E n \in T : \A m \in T : n <= m
<1> DEFINE Less == {p \in Nat \X Nat : p[1] < p[2]}
<1>1. IsWellFoundedOn(Less, Nat)
  BY NatLessThanWellFounded, Zenon DEF OpToRel
<1>2. PICK n \in T : \A m \in T : <<m, n>> \notin Less
  BY <1>1, WFMin, Zenon
<1>3. \A m \in T : ~(m < n)
  BY <1>2
<1> QED
  BY <1>3

\* The index lists every package once.
LEMMA IndexType ==
  /\ Len(Index) \in Nat
  /\ \A n \in 1..Len(Index) : Index[n] \in Package
  /\ \A n, m \in 1..Len(Index) : Index[n] = Index[m] => n = m
BY LibraryAssumption DEF IsInjective

\* The rows of the first n packages of the index, for every n below a bound.
RowsTo(bound, shown, rows) ==
  rows = [n \in 0..bound |->
            IF n = 0 THEN <<>>
            ELSE IF Index[n] \in shown THEN Append(rows[n - 1], Index[n]) ELSE rows[n - 1]]

\* There is such a function for every bound: it is extended one package at a time.
LEMMA RowsExist ==
  ASSUME NEW shown, NEW bound \in Nat
  PROVE  \E rows : RowsTo(bound, shown, rows)
<1> DEFINE Bad == {n \in Nat : ~ \E rows : RowsTo(n, shown, rows)}
<1> SUFFICES ASSUME Bad # {}
             PROVE  FALSE
  OBVIOUS
<1>1. PICK n \in Bad : \A m \in Bad : n <= m
  BY LeastMember
<1>2. n \in Nat /\ ~ \E rows : RowsTo(n, shown, rows)
  OBVIOUS
<1>3. CASE n = 0
  <2>1. RowsTo(0, shown, [i \in 0..0 |-> <<>>])
    BY DEF RowsTo
  <2> QED
    BY <1>2, <1>3, <2>1
<1>4. CASE n # 0
  <2>1. n - 1 \in Nat /\ n - 1 \notin Bad
    BY <1>1, <1>2, <1>4
  <2>2. PICK rows : RowsTo(n - 1, shown, rows)
    BY <2>1
  <2> DEFINE next == IF Index[n] \in shown THEN Append(rows[n - 1], Index[n]) ELSE rows[n - 1]
             more == [i \in 0..n |-> IF i = n THEN next ELSE rows[i]]
  <2>3. \A i \in 0..n : more[i] = IF i = n THEN next ELSE rows[i]
    OBVIOUS
  <2>4. \A i \in 0..(n - 1) : more[i] = rows[i]
    BY <1>2, <2>3
  <2>5. ASSUME NEW i \in 0..n
        PROVE  more[i] = IF i = 0 THEN <<>>
                         ELSE IF Index[i] \in shown THEN Append(more[i - 1], Index[i])
                                                    ELSE more[i - 1]
    <3>1. CASE i = n
      <4>1. more[i] = next /\ more[i - 1] = rows[i - 1]
        BY <1>2, <1>4, <2>3, <2>4, <3>1
      <4> QED
        BY <1>4, <3>1, <4>1
    <3>2. CASE i # n
      <4>1. i \in 0..(n - 1) /\ (i # 0 => i - 1 \in 0..(n - 1))
        BY <1>2, <3>2
      <4>2. rows[i] = IF i = 0 THEN <<>>
                      ELSE IF Index[i] \in shown THEN Append(rows[i - 1], Index[i])
                                                 ELSE rows[i - 1]
        BY <2>2, <4>1 DEF RowsTo
      <4> HIDE DEF more
      <4> QED
        BY <2>4, <4>1, <4>2
    <3> QED
      BY <3>1, <3>2
  <2>6. RowsTo(n, shown, more)
    <3>1. more = [i \in 0..n |-> more[i]]
      OBVIOUS
    <3> HIDE DEF more
    <3> QED
      BY <2>5, <3>1 DEF RowsTo
  <2> QED
    BY <1>2, <2>6
<1> QED
  BY <1>3, <1>4

\* Rows is one of them.
LEMMA RowsDefined ==
  ASSUME NEW shown
  PROVE  \E rows : RowsTo(Len(Index), shown, rows) /\ Rows(shown) = rows[Len(Index)]
<1>1. \E rows : RowsTo(Len(Index), shown, rows)
  BY IndexType, RowsExist
<1> QED
  BY <1>1 DEF Rows, RowsTo


\* What is appended to rows is another row.
LEMMA AppendRow ==
  ASSUME NEW rows \in Seq(Package), NEW p \in Package, p \notin ToSet(rows), IsInjective(rows)
  PROVE  /\ Append(rows, p) \in Seq(Package)
         /\ IsInjective(Append(rows, p))
         /\ ToSet(Append(rows, p)) = ToSet(rows) \cup {p}
<1> DEFINE more == Append(rows, p)
<1>1. /\ more \in Seq(Package) /\ DOMAIN more = 1..(Len(rows) + 1) /\ DOMAIN rows = 1..Len(rows)
      /\ Len(rows) \in Nat
      /\ \A i \in 1..Len(rows) : more[i] = rows[i] /\ rows[i] # p
      /\ more[Len(rows) + 1] = p
  BY DEF ToSet
<1> HIDE DEF more
<1>2. IsInjective(more)
  BY <1>1 DEF IsInjective
<1>3. ToSet(more) = ToSet(rows) \cup {p}
  BY <1>1 DEF ToSet
<1> QED
  BY <1>1, <1>2, <1>3 DEF more

\* The rows are packages, none twice, and exactly those to be shown.
LEMMA RowsType ==
  ASSUME NEW shown
  PROVE  /\ Rows(shown) \in Seq(Package)
         /\ IsInjective(Rows(shown))
         /\ ToSet(Rows(shown)) = shown \cap Package
<1>1. PICK rows : RowsTo(Len(Index), shown, rows) /\ Rows(shown) = rows[Len(Index)]
  BY RowsDefined
<1> DEFINE Upto(n) == {Index[k] : k \in 1..n}
           Good(n) == /\ rows[n] \in Seq(Package)
                      /\ IsInjective(rows[n])
                      /\ ToSet(rows[n]) = shown \cap Upto(n)
           Bad == {n \in 0..Len(Index) : ~Good(n)}
<1>2. Bad = {}
  <2> SUFFICES ASSUME Bad # {}
               PROVE  FALSE
    OBVIOUS
  <2>1. Bad \subseteq Nat
    BY IndexType
  <2>2. PICK n \in Bad : \A m \in Bad : n <= m
    BY <2>1, LeastMember
  <2>3. n \in 0..Len(Index) /\ n \in Nat /\ ~Good(n)
    BY <2>1
  <2>4. CASE n = 0
    <3>1. rows[0] = <<>>
      BY <1>1, IndexType DEF RowsTo
    <3>2. Good(0)
      BY <3>1 DEF IsInjective, ToSet
    <3> QED
      BY <2>3, <2>4, <3>2
  <2>5. CASE n # 0
    <3>1. n - 1 \in 0..Len(Index) /\ n - 1 \notin Bad /\ n \in 1..Len(Index)
      <4> HIDE DEF Bad, Good
      <4> QED
        BY <2>2, <2>3, <2>5, IndexType
    <3>2. Good(n - 1)
      BY <3>1
    <3>3. rows[n] = IF Index[n] \in shown THEN Append(rows[n - 1], Index[n]) ELSE rows[n - 1]
      BY <1>1, <2>3, <2>5 DEF RowsTo
    <3>4. Index[n] \in Package /\ Index[n] \notin Upto(n - 1)
      <4>1. \A k \in 1..(n - 1) : k \in 1..Len(Index) /\ k # n
        BY <2>3, IndexType
      <4> QED
        BY <3>1, <4>1, IndexType
    <3>5. Upto(n) = Upto(n - 1) \cup {Index[n]}
      BY <3>1, IndexType
    <3> HIDE DEF Upto
    <3>6. CASE Index[n] \in shown
      <4>1. Index[n] \notin ToSet(rows[n - 1])
        BY <3>2, <3>4
      <4> QED
        BY <2>3, <3>2, <3>3, <3>4, <3>5, <3>6, <4>1, AppendRow
    <3>7. CASE Index[n] \notin shown
      BY <2>3, <3>2, <3>3, <3>5, <3>7
    <3> QED
      BY <3>6, <3>7
  <2> QED
    BY <2>4, <2>5
<1>3. Good(Len(Index))
  <2> HIDE DEF Good
  <2>1. Len(Index) \in 0..Len(Index)
    BY IndexType
  <2> QED
    BY <1>2, <2>1
<1>4. Upto(Len(Index)) = Package
  <2>1. DOMAIN Index = 1..Len(Index)
    BY LibraryAssumption
  <2> QED
    BY <2>1 DEF Package, ToSet
<1> HIDE DEF Upto
<1> QED
  BY <1>1, <1>3, <1>4

\* What a tab and a category show: packages, none twice.
LEMMA VisibleType ==
  ASSUME NEW cat, NEW v
  PROVE  Visible(cat, v) \in Seq(Package) /\ IsInjective(Visible(cat, v))
BY RowsType DEF Visible

\* The cursor lands on a row, or on the place of the first one of an empty list; it
\* lands on the first preferred package that has a row.
LEMMA LandingType ==
  ASSUME NEW rows \in Seq(Package), NEW preferred \in Seq(Package \cup {None})
  PROVE  /\ Landing(rows, preferred) \in 0..Len(rows)
         /\ \A i \in DOMAIN preferred :
              /\ preferred[i] \in ToSet(rows)
              /\ \A j \in DOMAIN preferred : j < i => preferred[j] \notin ToSet(rows)
              => /\ Landing(rows, preferred) < Len(rows)
                 /\ rows[Landing(rows, preferred) + 1] = preferred[i]
<1> DEFINE shown == {i \in DOMAIN preferred : preferred[i] \in ToSet(rows)}
<1>1. CASE shown = {}
  BY <1>1 DEF Landing
<1>2. CASE shown # {}
  <2>1. shown \subseteq Nat
    OBVIOUS
  <2>2. \E n \in shown : \A m \in shown : n <= m
    BY <1>2, <2>1, LeastMember
  <2>3. Min(shown) \in shown /\ \A m \in shown : Min(shown) <= m
    BY <2>2 DEF Min
  <2> DEFINE first == Min(shown)
             row == CHOOSE i \in DOMAIN rows : rows[i] = preferred[first]
  <2> HIDE DEF first
  <2>4. first \in DOMAIN preferred /\ preferred[first] \in ToSet(rows)
    BY <2>3 DEF first
  <2>5. row \in DOMAIN rows /\ rows[row] = preferred[first]
    BY <2>4 DEF ToSet
  <2>6. Landing(rows, preferred) = row - 1
    BY <1>2 DEF Landing, first
  <2> HIDE DEF row
  <2>7. row \in 1..Len(rows)
    BY <2>5
  <2>8. ASSUME NEW i \in DOMAIN preferred, preferred[i] \in ToSet(rows),
               \A j \in DOMAIN preferred : j < i => preferred[j] \notin ToSet(rows)
        PROVE  preferred[i] = preferred[first]
    <3>1. i \in shown
      BY <2>8
    <3>2. first <= i /\ ~(first < i) /\ first \in Nat /\ i \in Nat
      BY <2>3, <2>4, <2>8, <3>1 DEF first
    <3> QED
      BY <3>2
  <2> QED
    BY <2>5, <2>6, <2>7, <2>8
<1> QED
  BY <1>1, <1>2

\* Where there is a row, it lands on one.
LEMMA LandingOnARow ==
  ASSUME NEW rows \in Seq(Package), rows # <<>>, NEW preferred \in Seq(Package \cup {None})
  PROVE  Landing(rows, preferred) < Len(rows)
<1> DEFINE shown == {i \in DOMAIN preferred : preferred[i] \in ToSet(rows)}
<1>1. CASE shown = {}
  BY <1>1 DEF Landing
<1>2. CASE shown # {}
  <2>1. shown \subseteq Nat
    OBVIOUS
  <2>2. PICK i \in shown : \A m \in shown : i <= m
    BY <1>2, <2>1, LeastMember
  <2>3. \A j \in DOMAIN preferred : j < i => preferred[j] \notin ToSet(rows)
    BY <2>2
  <2> QED
    BY <2>2, <2>3, LandingType
<1> QED
  BY <1>1, <1>2

\* A tab or a category is followed by another of the same order.
LEMMA StepType ==
  ASSUME NEW S, NEW order \in Seq(S) \ {<<>>}, NEW from \in ToSet(order), NEW delta \in Int
  PROVE  Step(order, from, delta) \in ToSet(order)
<1> DEFINE place == CHOOSE i \in DOMAIN order : order[i] = from
<1>1. place \in 1..Len(order) /\ Len(order) \in Nat \ {0} /\ DOMAIN order = 1..Len(order)
  BY DEF ToSet
<1> HIDE DEF place
<1>2. Wrap(place - 1 + delta, Len(order)) \in 0..(Len(order) - 1)
  BY <1>1 DEF Wrap
<1>3. 1 + Wrap(place - 1 + delta, Len(order)) \in DOMAIN order
  BY <1>1, <1>2
<1> QED
  BY <1>3 DEF Step, place, ToSet

\* The ring of tabs and the ring of categories stay within the views.
LEMMA NextType ==
  ASSUME NEW v \in View, NEW delta \in {-1, 1}
  PROVE  NextTab(v, delta) \in View /\ NextCategory(v, delta) \in View
<1>1. /\ v[1] \in ToSet(TabOrder) /\ v[2] \in ToSet(CategoryOrder)
      /\ delta \in Int
      /\ TabOrder \in Seq({"all", "ready", "installed"}) \ {<<>>}
  BY DEF View, TabOrder
<1>2. CategoryOrder \in Seq({"all", "games", "apps"}) \ {<<>>}
  BY LibraryAssumption
<1> QED
  BY <1>1, <1>2, StepType DEF NextTab, NextCategory, View

-----------------------------------------------------------------------------
(* Types.                                                                      *)

\* The package under the cursor, and the actions it offers.
LEMMA CurrentType ==
  ASSUME TypeOK
  PROVE  /\ items \in Seq(Package) /\ IsInjective(items) /\ Len(items) \in Nat
         /\ Current \in Package \cup {None}
         /\ Actions \in Seq(Action) /\ Len(Actions) \in Nat
<1>1. items \in Seq(Package) /\ IsInjective(items) /\ Len(items) \in Nat
  BY VisibleType DEF TypeOK
<1>2. Current \in Package \cup {None}
  BY <1>1 DEF TypeOK, Current, RowOf
<1>3. Actions \in Seq(Action)
  <2>1. CASE Current = None
    BY <2>1 DEF Actions
  <2>2. CASE Current # None
    <3>1. catalogue[Current] \in Listing
      BY <1>2, <2>2 DEF TypeOK
    <3> QED
      BY <2>2, <3>1, LibraryAssumption DEF Actions
  <2> QED
    BY <2>1, <2>2
<1> QED
  BY <1>1, <1>2, <1>3

\* The remainder is a place in the list, unless the list is empty.
LEMMA WrapType ==
  ASSUME NEW value \in Int, NEW length \in Nat
  PROVE  /\ Wrap(value, length) \in 0..length
         /\ length > 0 => Wrap(value, length) < length
<1>1. length > 0 => value % length \in 0..(length - 1)
  OBVIOUS
<1> QED
  BY <1>1 DEF Wrap

\* A view that is entered shows its own rows, with the cursor on one of them.
LEMMA EnteredType ==
  ASSUME NEW memory \in [View -> Package \cup {None}], NEW v \in View,
         NEW carried \in Package \cup {None}
  PROVE  Entered(memory, v, carried) \in 0..Len(Visible(catalogue, v))
<1>1. <<memory[v], carried>> \in Seq(Package \cup {None})
  OBVIOUS
<1> QED
  BY <1>1, VisibleType, LandingType DEF Entered

\* What is remembered of a view is a package or nothing.
LEMMA RememberType ==
  ASSUME NEW memory \in [View -> Package \cup {None}], NEW v \in View,
         NEW p \in Package \cup {None}
  PROVE  Remember(memory, v, p) \in [View -> Package \cup {None}]
BY DEF Remember

\* Load.
LEMMA InitType == Init => TypeOK
<1> SUFFICES ASSUME Init
             PROVE  TypeOK
  OBVIOUS
<1>1. items \in Seq(Package)
  BY VisibleType DEF Init
<1>2. view \in View
  <2>1. Head(CategoryOrder) \in ToSet(CategoryOrder)
    BY LibraryAssumption DEF ToSet
  <2>2. Head(TabOrder) \in ToSet(TabOrder)
    BY DEF TabOrder, ToSet
  <2> QED
    BY <2>1, <2>2 DEF Init, View
<1>3. selected \in 0..Len(items)
  BY <1>1 DEF Init
<1> QED
  BY <1>2, <1>3 DEF Init, TypeOK

\* Changing the view keeps the types: the cursor lands on one of its rows.
LEMMA SwitchType ==
  ASSUME TypeOK, NEW next \in View, Switch(next)
  PROVE  TypeOK'
<1>1. Current \in Package \cup {None}
  BY CurrentType
<1>2. at' \in [View -> Package \cup {None}]
  BY <1>1, RememberType DEF Switch, TypeOK
<1>3. items' = Visible(catalogue', view') /\ view' \in View
  BY DEF Switch
<1>4. selected' \in 0..Len(items')
  BY <1>1, <1>2, EnteredType DEF Switch
<1> QED
  BY <1>2, <1>3, <1>4 DEF Switch, TypeOK

\* The event that ends an operation keeps the types, refresh or none.
LEMMA DoneType ==
  ASSUME TypeOK, Done
  PROVE  TypeOK'
<1>1. CASE UNCHANGED <<catalogue, items, selected, action>>
  BY <1>1 DEF Done, TypeOK
<1>2. ASSUME NEW fresh \in [Package -> Listing], Refreshed(fresh)
      PROVE  TypeOK'
  <2>1. <<Current>> \in Seq(Package \cup {None})
    BY CurrentType
  <2>2. selected' \in 0..Len(items')
    BY <1>2, <2>1, VisibleType, LandingType DEF Refreshed
  <2>3. items' = Visible(catalogue', view')
    BY <1>2 DEF Refreshed, Done
  <2> QED
    BY <1>2, <2>2, <2>3 DEF Refreshed, Done, TypeOK
<1> QED
  BY <1>1, <1>2 DEF Done

\* Every handler keeps the types.
LEMMA TypeStep ==
  ASSUME TypeOK, [Next]_vars
  PROVE  TypeOK'
<1>1. ASSUME NEW delta \in {-1, 1}
      PROVE  /\ MoveRow(delta) => TypeOK'
             /\ MoveAction(delta) => TypeOK'
             /\ Switch(NextTab(view, delta)) => TypeOK'
             /\ Switch(NextCategory(view, delta)) => TypeOK'
  <2>1. delta \in Int /\ Len(items) \in Nat /\ Len(Actions) \in Nat
        /\ selected + delta \in Int /\ action + delta \in Int
    BY CurrentType DEF TypeOK
  <2>2. MoveRow(delta) => TypeOK'
    <3>1. Wrap(selected + delta, Len(items)) \in 0..Len(items)
      BY <2>1, WrapType, Zenon
    <3> QED
      BY <3>1 DEF MoveRow, TypeOK
  <2>3. MoveAction(delta) => TypeOK'
    <3>1. Wrap(action + delta, Len(Actions)) \in 0..Len(Actions)
      BY <2>1, WrapType, Zenon
    <3> QED
      BY <2>1, <3>1 DEF MoveAction, TypeOK, listVars
  <2>4. NextTab(view, delta) \in View /\ NextCategory(view, delta) \in View
    BY NextType DEF TypeOK
  <2> QED
    BY <2>2, <2>3, <2>4, SwitchType
<1>2. CASE More
  BY <1>2 DEF More, TypeOK, listVars
<1>3. CASE SelectRow
  BY <1>3 DEF SelectRow, TypeOK, listVars
<1>4. CASE SelectHealth
  BY <1>4 DEF SelectHealth, TypeOK, listVars
<1>5. CASE SelectAction
  BY <1>5 DEF SelectAction, TypeOK, listVars
<1>6. CASE Confirm
  BY <1>6 DEF Confirm, StartOperation, TypeOK, listVars, screenVars
<1>7. CASE ConfirmForce
  BY <1>7 DEF ConfirmForce, StartOperation, TypeOK, listVars, screenVars
<1>8. CASE Back
  BY <1>8 DEF Back, TypeOK, listVars
<1>9. CASE Done
  BY <1>9, DoneType
<1>10. CASE UNCHANGED vars
  BY <1>10 DEF vars, listVars, screenVars, TypeOK
<1> QED
  BY <1>1, <1>2, <1>3, <1>4, <1>5, <1>6, <1>7, <1>8, <1>9, <1>10 DEF Next, Select

\* Every variable has its type; the rows on the screen are always those of the open
\* tab and category, in every state Model can be in, and the cursor is within them.
THEOREM TypeCorrect == Spec => []TypeOK
<1>1. TypeOK /\ [Next]_vars => TypeOK'
  BY TypeStep
<1> QED
  BY InitType, <1>1, PTL DEF Spec

-----------------------------------------------------------------------------
(* Screens.                                                                    *)

\* A confirmation screen is about the row and the action under the cursor, which no
\* key and no refresh moves while it is open; and going back from it leaves it.
AskedIsShown ==
  /\ focus \in {"Confirm", "ForceConfirm"} => asked = <<Current, SelectedAction>>
  /\ confirmFrom \in {"Browse", "Actions"}

\* Every key and every refresh keeps the open confirmation screen true, or closes it.
LEMMA AskedStep ==
  ASSUME AskedIsShown, [Next]_vars
  PROVE  AskedIsShown'
<1> USE DEF AskedIsShown, Current, Actions, SelectedAction, Idle
<1>1. ASSUME NEW delta \in {-1, 1},
             MoveRow(delta) \/ MoveAction(delta) \/ Switch(NextTab(view, delta))
               \/ Switch(NextCategory(view, delta))
      PROVE  AskedIsShown'
  BY <1>1 DEF MoveRow, MoveAction, Switch
<1>2. CASE More
  BY <1>2 DEF More
<1>3. CASE SelectRow
  <2>1. CASE catalogue[Current].health
    BY <1>3, <2>1 DEF SelectRow
  <2>2. CASE ~catalogue[Current].health
    <3>1. Len(Actions) > 0 /\ action' = 0 /\ asked' = <<Current, Actions[1]>>
      BY <1>3, <2>2 DEF SelectRow
    <3>2. Current' = Current /\ Actions' = Actions
      BY <1>3 DEF SelectRow, listVars
    <3>3. SelectedAction' = Actions[1]
      <4> HIDE DEF Actions, Current
      <4> QED
        BY <3>1, <3>2 DEF SelectedAction
    <3> HIDE DEF SelectedAction, Actions, Current
    <3> QED
      BY <3>1, <3>2, <3>3, <1>3 DEF SelectRow
  <2> QED
    BY <2>1, <2>2
<1>4. CASE SelectHealth
  BY <1>4 DEF SelectHealth
<1>5. CASE SelectAction
  BY <1>5 DEF SelectAction, listVars
<1>6. CASE Confirm
  BY <1>6 DEF Confirm, StartOperation, listVars, screenVars
<1>7. CASE ConfirmForce
  BY <1>7 DEF ConfirmForce, StartOperation, listVars, screenVars
<1>8. CASE Back
  BY <1>8 DEF Back, listVars
<1>9. CASE Done
  BY <1>9 DEF Done
<1>10. CASE UNCHANGED vars
  BY <1>10 DEF vars, listVars, screenVars
<1> QED
  BY <1>1, <1>2, <1>3, <1>4, <1>5, <1>6, <1>7, <1>8, <1>9, <1>10 DEF Next, Select

\* An operation starts on a confirmation screen only, with what is under the cursor,
\* and a force reinstall on the second one.
LEMMA StartStep ==
  ASSUME [Next]_vars, ~busy, busy'
  PROVE  /\ focus \in {"Confirm", "ForceConfirm"}
         /\ started' = <<Current, SelectedAction>>
         /\ SelectedAction = "force-reinstall" => focus = "ForceConfirm"
<1> USE DEF Idle
<1>1. CASE Confirm
  BY <1>1 DEF Confirm, StartOperation
<1>2. CASE ConfirmForce
  BY <1>2 DEF ConfirmForce, StartOperation
<1>3. CASE ~Confirm /\ ~ConfirmForce
  <2>1. busy' = busy \/ busy
    BY <1>3 DEF Next, MoveRow, MoveAction, Switch, More, Select, SelectRow, SelectHealth,
                SelectAction, Back, Done, vars
  <2> QED
    BY <2>1
<1> QED
  BY <1>1, <1>2, <1>3

\* What starts is what the confirmation screen was opened for, a force reinstall after
\* its second confirmation.
THEOREM StartsAsked == Spec => StartsWhatWasAsked
<1>1. Init => AskedIsShown
  BY DEF Init, AskedIsShown
<1>2. AskedIsShown /\ [Next]_vars => AskedIsShown'
  BY AskedStep
<1>3. AskedIsShown /\ [Next]_vars
        => [~busy /\ busy' =>
              /\ started' = asked
              /\ started'[2] = "force-reinstall" => focus = "ForceConfirm"]_vars
  BY StartStep DEF AskedIsShown
<1> QED
  BY <1>1, <1>2, <1>3, PTL DEF Spec, StartsWhatWasAsked

-----------------------------------------------------------------------------
(* The cursors.                                                                *)

\* The cursor is on a row whenever there is one; the action under the other cursor is
\* one of the package's, or the first of a list that may be empty, and a confirmation
\* screen is open only over a list that is not.
CursorInv ==
  /\ items # <<>> => selected < Len(items)
  /\ action = 0 \/ action < Len(Actions)
  /\ focus \in {"Confirm", "ForceConfirm"} => Len(Actions) > 0

IInv == TypeOK /\ CursorInv

\* Changing the view puts both cursors back on something.
LEMMA SwitchCursor ==
  ASSUME TypeOK, NEW next \in View, Switch(next), CursorInv
  PROVE  CursorInv'
<1>1. Current \in Package \cup {None} /\ Visible(catalogue, next) \in Seq(Package)
  BY CurrentType, VisibleType
<1>2. at' \in [View -> Package \cup {None}]
  BY <1>1, RememberType DEF Switch, TypeOK
<1>3. items' # <<>> => selected' < Len(items')
  <2>1. <<at'[next], Current>> \in Seq(Package \cup {None})
    BY <1>1, <1>2
  <2> QED
    BY <1>1, <2>1, LandingOnARow DEF Switch, Entered
<1>4. action' = 0 /\ focus' = "Browse"
  BY DEF Switch, Idle
<1> QED
  BY <1>3, <1>4 DEF CursorInv

\* What leaves the list and the rows alone leaves the actions alone.
LEMMA SameActions ==
  ASSUME UNCHANGED listVars
  PROVE  Current' = Current /\ Actions' = Actions
BY DEF listVars, Current, Actions

\* Every handler leaves both cursors on something.
LEMMA CursorStep ==
  ASSUME IInv, [Next]_vars
  PROVE  CursorInv'
<1>1. TypeOK /\ CursorInv
  BY DEF IInv
<1>2. ASSUME NEW delta \in {-1, 1}
      PROVE  /\ MoveRow(delta) => CursorInv'
             /\ MoveAction(delta) => CursorInv'
             /\ Switch(NextTab(view, delta)) => CursorInv'
             /\ Switch(NextCategory(view, delta)) => CursorInv'
  <2>1. delta \in Int /\ Len(items) \in Nat /\ Len(Actions) \in Nat
        /\ selected + delta \in Int /\ action + delta \in Int
        /\ (items # <<>> => Len(items) > 0)
    BY <1>1, CurrentType DEF TypeOK
  <2>2. ASSUME MoveRow(delta) PROVE CursorInv'
    <3>1. Wrap(selected + delta, Len(items)) < Len(items)
      <4>1. Len(items) > 0
        BY <2>1, <2>2 DEF MoveRow
      <4> QED
        BY <2>1, <4>1, WrapType, Zenon
    <3>2. items' = items /\ selected' = Wrap(selected + delta, Len(items))
          /\ action' = 0 /\ focus' = "Browse"
      BY <2>2 DEF MoveRow, Idle
    <3> QED
      BY <3>1, <3>2 DEF CursorInv
  <2>3. ASSUME MoveAction(delta) PROVE CursorInv'
    <3>1. Wrap(action + delta, Len(Actions)) < Len(Actions)
      <4>1. Len(Actions) > 0
        BY <2>3 DEF MoveAction
      <4> QED
        BY <2>1, <4>1, WrapType, Zenon
    <3>2. UNCHANGED listVars /\ focus' = focus /\ action' = Wrap(action + delta, Len(Actions))
      BY <2>3 DEF MoveAction
    <3>3. Actions' = Actions /\ items' = items /\ selected' = selected
      BY <3>2, SameActions DEF listVars
    <3> HIDE DEF Actions
    <3> QED
      BY <1>1, <3>1, <3>2, <3>3 DEF CursorInv
  <2>4. NextTab(view, delta) \in View /\ NextCategory(view, delta) \in View
    BY <1>1, NextType DEF TypeOK
  <2> QED
    BY <1>1, <2>2, <2>3, <2>4, SwitchCursor
<1>3. ASSUME More \/ SelectRow \/ SelectHealth \/ SelectAction \/ Confirm \/ ConfirmForce \/ Back
      PROVE  CursorInv'
  <2>1. UNCHANGED listVars
    BY <1>3 DEF More, SelectRow, SelectHealth, SelectAction, Confirm, ConfirmForce,
                StartOperation, Back
  <2>2. Actions' = Actions /\ items' = items /\ selected' = selected
    BY <2>1, SameActions DEF listVars
  <2>3. action' = action \/ action' = 0
    BY <1>3 DEF More, SelectRow, SelectHealth, SelectAction, Confirm, ConfirmForce,
                StartOperation, screenVars, Back
  <2>4. focus' \in {"Confirm", "ForceConfirm"}
          => focus \in {"Confirm", "ForceConfirm"} \/ Len(Actions) > 0
    BY <1>1, <1>3 DEF More, SelectRow, SelectHealth, SelectAction, Confirm, ConfirmForce,
                      StartOperation, screenVars, Back, Idle, TypeOK
  <2> QED
    BY <1>1, <2>2, <2>3, <2>4 DEF CursorInv
<1>4. ASSUME Done
      PROVE  CursorInv'
  <2>1. focus' = "Browse"
    BY <1>4 DEF Done
  <2>2. CASE UNCHANGED <<catalogue, items, selected, action>>
    <3>1. Actions' = Actions
      BY <2>2 DEF Actions, Current
    <3> QED
      BY <1>1, <2>1, <2>2, <3>1 DEF CursorInv
  <2>3. ASSUME NEW fresh \in [Package -> Listing], Refreshed(fresh)
        PROVE  CursorInv'
    <3>1. <<Current>> \in Seq(Package \cup {None}) /\ items' \in Seq(Package)
      BY <1>1, <2>3, CurrentType, VisibleType DEF Refreshed
    <3>2. items' # <<>> => selected' < Len(items')
      BY <2>3, <3>1, LandingOnARow DEF Refreshed
    <3>3. action' = 0
      BY <2>3 DEF Refreshed
    <3> QED
      BY <2>1, <3>2, <3>3 DEF CursorInv
  <2> QED
    BY <1>4, <2>2, <2>3 DEF Done
<1>5. CASE UNCHANGED vars
  <2>1. UNCHANGED listVars /\ action' = action /\ focus' = focus
    BY <1>5 DEF vars, screenVars
  <2>2. Actions' = Actions /\ items' = items /\ selected' = selected
    BY <2>1, SameActions DEF listVars
  <2> QED
    BY <1>1, <2>1, <2>2 DEF CursorInv
<1> QED
  BY <1>2, <1>3, <1>4, <1>5 DEF Next, Select

\* The types and the cursors are an inductive invariant.
LEMMA IInvHolds == Spec => []IInv
<1>1. Init => IInv
  <2>1. Init => CursorInv
    <3> SUFFICES ASSUME Init
                 PROVE  CursorInv
      OBVIOUS
    <3>1. items \in Seq(Package)
      BY VisibleType DEF Init
    <3> QED
      BY <3>1 DEF Init, CursorInv
  <2> QED
    BY <2>1, InitType DEF IInv
<1>2. IInv /\ [Next]_vars => IInv'
  BY TypeStep, CursorStep DEF IInv
<1> QED
  BY <1>1, <1>2, PTL DEF Spec

\* A confirmation screen always has an action under its cursor: no list of actions
\* shrinks under it, and none opens over an empty list.
THEOREM ActionStays == Spec => []ActionIsThere
<1>1. IInv => ActionIsThere
  <2> SUFFICES ASSUME IInv, focus \in {"Confirm", "ForceConfirm"}
               PROVE  SelectedAction # None
    BY DEF ActionIsThere
  <2>1. Actions \in Seq(Action) /\ action \in Nat /\ action < Len(Actions)
    BY CurrentType DEF IInv, CursorInv, TypeOK
  <2>2. Actions[action + 1] \in Action
    <3> HIDE DEF Actions
    <3> QED
      BY <2>1
  <2> QED
    BY <2>1, <2>2, LibraryAssumption DEF SelectedAction
<1> QED
  BY IInvHolds, <1>1, PTL

\* When an operation ends, however its refresh moves the rows, the cursor is on the
\* package it was on, if the tab still shows that package.
THEOREM RefreshFollowsPackage == Spec => RefreshKeepsPackage
<1>1. IInv /\ [Next]_vars
        => [busy /\ ~busy' /\ Current \in ToSet(items') => Current' = Current]_vars
  <2> SUFFICES ASSUME IInv, Next, busy, ~busy', Current \in ToSet(items')
               PROVE  Current' = Current
    BY DEF vars
  <2>1. TypeOK
    BY DEF IInv
  <2>2. Done
    BY DEF Next, MoveRow, MoveAction, Switch, More, Select, SelectRow, SelectHealth,
           SelectAction, Confirm, ConfirmForce, StartOperation, Back, Idle
  <2>3. CASE UNCHANGED <<catalogue, items, selected, action>>
    BY <2>3 DEF Current
  <2>4. ASSUME NEW fresh \in [Package -> Listing], Refreshed(fresh)
        PROVE  Current' = Current
    <3>1. <<Current>> \in Seq(Package \cup {None}) /\ items' \in Seq(Package)
      BY <2>1, <2>4, CurrentType, VisibleType DEF Refreshed
    <3>2. selected' = Landing(items', <<Current>>)
      BY <2>4 DEF Refreshed
    <3>3. selected' < Len(items') /\ items'[selected' + 1] = Current
      <4>1. /\ 1 \in DOMAIN <<Current>> /\ <<Current>>[1] = Current
            /\ \A j \in DOMAIN <<Current>> : ~(j < 1)
        OBVIOUS
      <4> QED
        BY <3>1, <3>2, <4>1, LandingType
    <3> QED
      BY <3>3 DEF Current, RowOf
  <2> QED
    BY <2>2, <2>3, <2>4 DEF Done
<1> QED
  BY IInvHolds, <1>1, PTL DEF Spec, RefreshKeepsPackage

\* A view that remembers a package it shows opens on it, whatever is carried along.
LEMMA EnteredRemembered ==
  ASSUME NEW memory \in [View -> Package \cup {None}], NEW v \in View,
         NEW carried \in Package \cup {None}, memory[v] \in ToSet(Visible(catalogue, v))
  PROVE  /\ Entered(memory, v, carried) < Len(Visible(catalogue, v))
         /\ Visible(catalogue, v)[Entered(memory, v, carried) + 1] = memory[v]
<1> DEFINE preferred == <<memory[v], carried>>
<1>1. preferred \in Seq(Package \cup {None})
  OBVIOUS
<1>2. /\ 1 \in DOMAIN preferred /\ preferred[1] = memory[v]
      /\ \A j \in DOMAIN preferred : ~(j < 1)
  OBVIOUS
<1>3. Visible(catalogue, v) \in Seq(Package)
  BY VisibleType
<1> HIDE DEF preferred
<1>4. /\ Landing(Visible(catalogue, v), preferred) < Len(Visible(catalogue, v))
      /\ Visible(catalogue, v)[Landing(Visible(catalogue, v), preferred) + 1] = preferred[1]
  BY <1>1, <1>2, <1>3, LandingType
<1> QED
  BY <1>2, <1>4 DEF Entered, preferred

\* Going to any other view and back is going back to the row that was left.
LEMMA ComingBack ==
  ASSUME IInv, items # <<>>, NEW there \in View
  PROVE  ComesBack(there)
<1> DEFINE memory == Remember(at, view, Current)
           other  == RowOf(Visible(catalogue, there), Entered(memory, there, Current))
           after  == Remember(memory, there, other)
<1>1. /\ items \in Seq(Package) /\ IsInjective(items) /\ Len(items) \in Nat
      /\ items = Visible(catalogue, view) /\ view \in View
      /\ at \in [View -> Package \cup {None}]
      /\ selected \in Nat /\ selected < Len(items)
  BY CurrentType DEF IInv, TypeOK, CursorInv
<1>2. selected + 1 \in DOMAIN items /\ Current = items[selected + 1]
  BY <1>1 DEF Current, RowOf
<1>3. Current \in Package /\ Current # None /\ Current \in ToSet(items)
  BY <1>1, <1>2, LibraryAssumption DEF ToSet
<1> HIDE DEF Current
<1>4. memory \in [View -> Package \cup {None}] /\ memory[view] = Current
  BY <1>1, <1>3 DEF Remember
<1> HIDE DEF memory
<1>5. other \in Package \cup {None}
  <2>1. /\ Visible(catalogue, there) \in Seq(Package)
        /\ Entered(memory, there, Current) \in 0..Len(Visible(catalogue, there))
    BY <1>3, <1>4, VisibleType, EnteredType
  <2> QED
    BY <2>1 DEF RowOf
<1>6. there = view => other = Current
  BY <1>1, <1>3, <1>4, EnteredRemembered DEF RowOf
<1> HIDE DEF other
<1>7. after \in [View -> Package \cup {None}] /\ after[view] = Current
  BY <1>1, <1>4, <1>5, <1>6 DEF Remember
<1> HIDE DEF after
<1> DEFINE back == Entered(after, view, other)
<1>8. back \in 0..Len(items) /\ back < Len(items) /\ items[back + 1] = Current
  BY <1>1, <1>3, <1>5, <1>7, EnteredType, EnteredRemembered
<1> HIDE DEF back
<1>9. back + 1 = selected + 1
  BY <1>1, <1>2, <1>8 DEF IsInjective
<1>10. back = selected
  BY <1>1, <1>8, <1>9
<1> QED
  BY <1>10 DEF ComesBack, back, after, other, memory

\* From every state with a row, one step round either ring and one step back ends on
\* the row that was left, also where the ring has one element and the step stays.
THEOREM RoundTripsReturn == Spec => []RoundTrips
<1>1. IInv => RoundTrips
  <2> SUFFICES ASSUME IInv, items # <<>>, NEW delta \in {-1, 1}
               PROVE  ComesBack(NextTab(view, delta)) /\ ComesBack(NextCategory(view, delta))
    BY DEF RoundTrips
  <2>1. NextTab(view, delta) \in View /\ NextCategory(view, delta) \in View
    BY NextType DEF IInv, TypeOK
  <2> QED
    BY <2>1, ComingBack
<1> QED
  BY IInvHolds, <1>1, PTL
=============================================================================
