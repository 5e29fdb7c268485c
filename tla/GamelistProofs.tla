---------------------------- MODULE GamelistProofs -----------------------------
(* Theorems about Gamelist, for any slots, fields, texts and releases: what an *)
(* operation does to one slot is worked out once (AppliedAt), and everything   *)
(* else follows from it.                                                       *)

EXTENDS Gamelist, TLAPS

List == [Slot -> Entry \cup {NoEntry}]

\* The entry of slot s after the removal of what the Store owned under another path.
RemovedAt(previous, menu, s) ==
  IF /\ previous # NoMenu /\ ~sameEntry(previous, menu) /\ s = previous.slot
     /\ menuNodeMatches(entries, previous)
  THEN NoEntry ELSE entries[s]

\* An entry with its blanks filled in from a menu.
Filled(entry, menu) ==
  [entry EXCEPT !.text = [f \in Field |-> IF entry.text[f] = Blank THEN menu.text[f]
                                                                   ELSE entry.text[f]]]

\* The whole of what an operation does, slot by slot.
AppliedTo(previous, menu, s) ==
  IF menu = NoMenu \/ s # menu.slot THEN RemovedAt(previous, menu, s)
  ELSE IF Wrote(previous, menu) THEN menuNode(menu)
  ELSE IF RemovedAt(previous, menu, s) = NoEntry THEN NoEntry
  ELSE Filled(RemovedAt(previous, menu, s), menu)

\* The removal takes nothing from the list but the entry that the Store owned.
LEMMA RemovalAt ==
  ASSUME NEW previous \in Menu \cup {NoMenu}, NEW menu \in Menu \cup {NoMenu},
         entries \in List
  PROVE  /\ Removal(previous, menu).list \in List
         /\ \A s \in Slot : Removal(previous, menu).list[s] = RemovedAt(previous, menu, s)
BY GamelistAssumption
   DEF Removal, RemovedAt, removeEntry, menuNodeMatches, Edited, Untouched, List, Entry, Menu,
       sameEntry

\* Where no field is missing, filling in the missing fields changes nothing.
LEMMA FilledIn ==
  ASSUME NEW es \in List, NEW menu \in Menu, es[menu.slot] # NoEntry
  PROVE  fillMissingEntry(es, menu).list
           = [es EXCEPT ![menu.slot] = Filled(es[menu.slot], menu)]
<1> DEFINE entry == es[menu.slot]
<1>1. entry \in Entry /\ menu.slot \in Slot /\ menu.text \in Fields
  BY DEF List, Menu
<1>2. \A f \in Field : f \notin Missing(entry, menu) /\ entry.text[f] = Blank
                        => menu.text[f] = Blank
  BY DEF Missing
<1>3. CASE Missing(entry, menu) = {}
  <2>1. Filled(entry, menu).text = entry.text
    BY <1>1, <1>2, <1>3 DEF Filled, Entry, Fields
  <2>2. Filled(entry, menu) = entry
    BY <2>1, <1>1 DEF Filled, Entry
  <2> QED
    BY <2>2, <1>3, <1>1 DEF fillMissingEntry, Untouched, List
<1>4. CASE Missing(entry, menu) # {}
  <2>1. [f \in Field |-> IF f \in Missing(entry, menu) THEN menu.text[f] ELSE entry.text[f]]
          = Filled(entry, menu).text
    BY <1>1, <1>2 DEF Filled, Missing, Entry, Fields
  <2>2. fillMissingEntry(es, menu).list = [es EXCEPT ![menu.slot].text =
          [f \in Field |-> IF f \in Missing(entry, menu) THEN menu.text[f] ELSE entry.text[f]]]
    BY <1>4, <1>1 DEF fillMissingEntry, Edited, List
  <2>3. fillMissingEntry(es, menu).list = [es EXCEPT ![menu.slot].text = Filled(entry, menu).text]
    BY <2>1, <2>2
  <2> QED
    BY <2>3, <1>1 DEF Filled, List, Entry
<1> QED
  BY <1>3, <1>4

\* Derive and Apply change no slot but that of the menu entry before and that of the
\* one after.
LEMMA AppliedAt ==
  ASSUME NEW previous \in Menu \cup {NoMenu}, NEW menu \in Menu \cup {NoMenu},
         entries \in List
  PROVE  /\ Applied(previous, menu) \in List
         /\ \A s \in Slot : Applied(previous, menu)[s] = AppliedTo(previous, menu, s)
<1> USE GamelistAssumption DEF List, Entry, Menu, Fields, sameEntry
<1> DEFINE now == Removal(previous, menu).list
<1>1. /\ now \in List
      /\ \A s \in Slot : now[s] = RemovedAt(previous, menu, s)
  BY RemovalAt
<1>2. CASE menu = NoMenu
  BY <1>1, <1>2 DEF Applied, Writing, Filling, AppliedTo, Untouched
<1>3. CASE menu \in Menu /\ Wrote(previous, menu)
  <2>1. menuNode(menu) \in Entry
    BY <1>3 DEF menuNode
  <2>2. Applied(previous, menu) = [now EXCEPT ![menu.slot] = menuNode(menu)]
    BY <1>3 DEF Applied, Wrote, Writing, Filling, replaceEntry, addEntry, Edited, Untouched
  <2> HIDE DEF now
  <2> QED
    BY <2>1, <2>2, <1>1, <1>3 DEF AppliedTo
<1>4. CASE menu \in Menu /\ ~Wrote(previous, menu)
  <2>1. Applied(previous, menu) = fillMissingEntry(now, menu).list
    BY <1>4 DEF Applied, Wrote, Writing, Filling, replaceEntry, addEntry, Edited, Untouched
  <2> HIDE DEF now
  <2>2. CASE now[menu.slot] = NoEntry
    BY <2>1, <2>2, <1>1, <1>4 DEF fillMissingEntry, AppliedTo, Untouched
  <2>3. CASE now[menu.slot] # NoEntry
    <3>1. now[menu.slot] \in Entry
      BY <2>3, <1>1, <1>4
    <3>2. Filled(now[menu.slot], menu) \in Entry
      BY <3>1, <1>4 DEF Filled
    <3>3. Applied(previous, menu) = [now EXCEPT ![menu.slot] = Filled(now[menu.slot], menu)]
      BY <2>1, <2>3, <3>1, <1>1, <1>4, FilledIn
    <3> QED
      BY <3>2, <3>3, <2>3, <1>1, <1>4 DEF AppliedTo
  <2> QED
    BY <2>2, <2>3
<1> QED
  BY <1>2, <1>3, <1>4

\* The entry the Store claims is one a release declares, never the Store's own.
LEMMA PreviousIsDeclared ==
  ASSUME TypeOK
  PROVE  /\ Previous \in Menu \cup {NoMenu}
         /\ owned => /\ Previous = MenuOf[installed] /\ Previous \in Menu
                     /\ Previous.slot # StoreMenu.slot
BY GamelistAssumption DEF TypeOK, Previous

\* Whether the entry was written is a truth value, so ownership is.
LEMMA WroteIsBoolean ==
  ASSUME NEW previous, NEW menu
  PROVE  Wrote(previous, menu) \in BOOLEAN /\ Changed(previous, menu) \in BOOLEAN
<1>1. /\ Removal(previous, menu).changed \in BOOLEAN
      /\ Writing(previous, menu).changed \in BOOLEAN
      /\ Filling(previous, menu).changed \in BOOLEAN
  BY DEF Removal, Writing, Filling, removeEntry, replaceEntry, addEntry, fillMissingEntry,
         Edited, Untouched
<1> QED
  BY <1>1, Zenon DEF Wrote, Changed

\* Nothing is written for a release without a menu entry.
LEMMA WroteMenu ==
  ASSUME NEW previous, NEW menu, Wrote(previous, menu)
  PROVE  menu # NoMenu
BY DEF Wrote, Writing, Untouched

\* An entry that stays in its slot is written exactly when it reads as it was left.
LEMMA WroteSame ==
  ASSUME NEW previous, NEW menu, sameEntry(previous, menu)
  PROVE  Wrote(previous, menu) <=> menuNodeMatches(entries, previous)
BY DEF Wrote, Writing, Removal, replaceEntry, sameEntry, Edited, Untouched

\* The user's writes change one slot; only an edit of a declared field changes who
\* wrote the entry.
LEMMA EditAt ==
  ASSUME TypeOK, NEW s \in Slot, Edit(s)
  PROVE  /\ entries' \in List
         /\ \A t \in Slot \ {s} : entries'[t] = entries[t]
         /\ \/ entries'[s] = NoEntry
            \/ entries'[s].by = "user"
            \/ /\ entries[s] # NoEntry
               /\ entries'[s].by = entries[s].by /\ entries'[s].text = entries[s].text
<1>1. entries[s] \in Entry \cup {NoEntry} /\ entries \in List
  BY DEF TypeOK, List
<1>2. ASSUME NEW text \in Fields,
             entries' = [entries EXCEPT ![s] =
               IF @ = NoEntry THEN Written(text)
               ELSE [text |-> text, extra |-> @.extra, by |-> "user"]]
      PROVE  entries' = [entries EXCEPT ![s] = entries'[s]]
               /\ entries'[s] \in Entry /\ entries'[s].by = "user"
  BY <1>1, <1>2 DEF List, Entry, Written
<1>3. ASSUME entries[s] # NoEntry, entries' = [entries EXCEPT ![s].extra = TRUE]
      PROVE  /\ entries' = [entries EXCEPT ![s] = entries'[s]]
             /\ entries'[s] \in Entry
             /\ entries'[s].by = entries[s].by /\ entries'[s].text = entries[s].text
  BY <1>1, <1>3 DEF List, Entry
<1>4. CASE entries' = [entries EXCEPT ![s] = NoEntry]
  BY <1>1, <1>4 DEF List
<1>5. CASE \E text \in Fields :
             entries' = [entries EXCEPT ![s] =
               IF @ = NoEntry THEN Written(text)
               ELSE [text |-> text, extra |-> @.extra, by |-> "user"]]
  <2>1. entries' = [entries EXCEPT ![s] = entries'[s]]
          /\ entries'[s] \in Entry /\ entries'[s].by = "user"
    BY <1>2, <1>5
  <2> QED
    BY <2>1, <1>1 DEF List
<1>6. CASE entries[s] # NoEntry /\ entries' = [entries EXCEPT ![s].extra = TRUE]
  BY <1>3, <1>6, <1>1 DEF List
<1> QED
  BY <1>4, <1>5, <1>6 DEF Edit

\* Every step keeps the types; an operation owns an entry only of a release that
\* declares one.
LEMMA TypeStep ==
  ASSUME TypeOK, [Next]_vars
  PROVE  TypeOK'
<1> USE GamelistAssumption
<1>1. ASSUME NEW r \in Release, Apply(r)
      PROVE  TypeOK'
  <2>1. MenuOf[r] \in Menu \cup {NoMenu}
    OBVIOUS
  <2>2. entries' \in List
    BY <1>1, <2>1, AppliedAt, PreviousIsDeclared DEF Apply, TypeOK, List
  <2>3. owned' \in BOOLEAN /\ changed' \in BOOLEAN
    BY <1>1, WroteIsBoolean DEF Apply
  <2>4. owned' => MenuOf[r] # NoMenu
    BY <1>1, WroteMenu DEF Apply
  <2> QED
    BY <1>1, <2>2, <2>3, <2>4 DEF Apply, TypeOK, List
<1>2. CASE Uninstall
  <2>1. entries' \in List
    BY <1>2, AppliedAt, PreviousIsDeclared DEF Uninstall, TypeOK, List
  <2>2. changed' \in BOOLEAN
    BY <1>2, WroteIsBoolean DEF Uninstall
  <2> QED
    BY <1>2, <2>1, <2>2 DEF Uninstall, TypeOK, List
<1>3. CASE RegisterStoreMenu
  <2>1. entries' \in List
    BY <1>3, AppliedAt DEF RegisterStoreMenu, TypeOK, List
  <2>2. changed' \in BOOLEAN
    BY <1>3, WroteIsBoolean DEF RegisterStoreMenu
  <2> QED
    BY <1>3, <2>1, <2>2 DEF RegisterStoreMenu, TypeOK, List
<1>4. ASSUME NEW s \in Slot, Edit(s)
      PROVE  TypeOK'
  <2>1. entries' \in List
    BY <1>4, EditAt
  <2> QED
    BY <1>4, <2>1 DEF Edit, TypeOK, List
<1>5. CASE UNCHANGED vars
  BY <1>5 DEF vars, TypeOK
<1> QED
  BY <1>1, <1>2, <1>3, <1>4, <1>5 DEF Next, Operation

\* What an operation makes of an entry that it does not write: nothing, or the same
\* entry with blanks filled in.
LEMMA NotWritten ==
  ASSUME TypeOK, NEW menu \in Menu \cup {NoMenu}, NEW previous \in Menu \cup {NoMenu},
         NEW s \in Slot, ~(menu # NoMenu /\ s = menu.slot /\ Wrote(previous, menu)),
         Applied(previous, menu)[s] # NoEntry
  PROVE  /\ entries[s] # NoEntry
         /\ ~(/\ previous # NoMenu /\ s = previous.slot
              /\ menuNodeMatches(entries, previous))
         /\ Applied(previous, menu)[s].by = entries[s].by
         /\ Applied(previous, menu)[s].extra = entries[s].extra
         /\ \A f \in Field :
              entries[s].text[f] \in {Blank, Applied(previous, menu)[s].text[f]}
<1> DEFINE after == Applied(previous, menu)[s]
<1>1. after = AppliedTo(previous, menu, s) /\ entries[s] \in Entry \cup {NoEntry}
  BY AppliedAt DEF TypeOK, List
<1>2. after = RemovedAt(previous, menu, s)
        \/ (after = Filled(RemovedAt(previous, menu, s), menu)
             /\ RemovedAt(previous, menu, s) # NoEntry)
  BY <1>1, Zenon DEF AppliedTo
<1>3. RemovedAt(previous, menu, s) # NoEntry
  BY <1>2
<1>4. RemovedAt(previous, menu, s) = entries[s] /\ entries[s] # NoEntry /\ entries[s] \in Entry
  BY <1>1, <1>3 DEF RemovedAt
<1>5. ~(/\ previous # NoMenu /\ s = previous.slot
        /\ menuNodeMatches(entries, previous))
  <2> SUFFICES ASSUME previous # NoMenu, s = previous.slot, menuNodeMatches(entries, previous)
               PROVE  FALSE
    OBVIOUS
  <2>1. sameEntry(previous, menu)
    BY <1>3 DEF RemovedAt
  <2> QED
    BY <2>1, WroteSame DEF sameEntry
<1>6. after = entries[s] \/ after = Filled(entries[s], menu)
  BY <1>2, <1>4
<1> HIDE DEF after
<1>7. /\ after.by = entries[s].by
      /\ after.extra = entries[s].extra
      /\ \A f \in Field : entries[s].text[f] \in {Blank, after.text[f]}
  BY <1>4, <1>6 DEF Filled, Entry, Fields
<1> QED
  BY <1>4, <1>5, <1>7 DEF after

\* What an operation makes of an entry that it writes: the release's entry, which it
\* then owns.
LEMMA IsWritten ==
  ASSUME TypeOK, NEW menu \in Menu, NEW previous \in Menu \cup {NoMenu},
         Wrote(previous, menu)
  PROVE  Applied(previous, menu)[menu.slot] = menuNode(menu)
<1>1. menu # NoMenu /\ menu.slot \in Slot
  BY GamelistAssumption DEF Menu
<1> QED
  BY <1>1, AppliedAt DEF TypeOK, List, AppliedTo

\* The inductive invariant: NoOrphan needs that what is owned is an entry that the
\* installed release declares.
IInv == TypeOK /\ NoOrphan

LEMMA OrphanStep ==
  ASSUME IInv, [Next]_vars
  PROVE  NoOrphan'
<1> USE GamelistAssumption
<1>1. ASSUME NEW menu \in Menu \cup {NoMenu}, entries' = Applied(Previous, menu),
             NEW s \in Slot \ {StoreMenu.slot},
             ~(menu # NoMenu /\ s = menu.slot /\ Wrote(Previous, menu))
      PROVE  ~(entries'[s] # NoEntry /\ entries'[s].by = "store")
  <2> SUFFICES ASSUME entries'[s] # NoEntry, entries'[s].by = "store"
               PROVE  FALSE
    OBVIOUS
  <2>1. /\ entries[s] # NoEntry /\ entries[s].by = "store"
        /\ ~(Previous # NoMenu /\ s = Previous.slot /\ menuNodeMatches(entries, Previous))
    BY <1>1, NotWritten, PreviousIsDeclared DEF IInv
  <2>2. owned /\ MenuOf[installed].slot = s /\ MenuOf[installed].text = entries[s].text
    BY <2>1 DEF IInv, NoOrphan
  <2>3. Previous = MenuOf[installed] /\ Previous # NoMenu
    BY <2>2, PreviousIsDeclared DEF IInv
  <2> QED
    BY <2>1, <2>2, <2>3 DEF menuNodeMatches
<1>2. ASSUME NEW r \in Release, Apply(r)
      PROVE  NoOrphan'
  <2>1. MenuOf[r] \in Menu \cup {NoMenu}
    OBVIOUS
  <2>2. ASSUME NEW s \in Slot \ {StoreMenu.slot},
               entries'[s] # NoEntry, entries'[s].by = "store"
        PROVE  owned' /\ MenuOf[installed'].slot = s
                 /\ MenuOf[installed'].text = entries'[s].text
    <3>1. MenuOf[r] # NoMenu /\ s = MenuOf[r].slot /\ Wrote(Previous, MenuOf[r])
      BY <1>1, <1>2, <2>1, <2>2 DEF Apply
    <3>2. entries'[s] = menuNode(MenuOf[r])
      BY <3>1, <2>1, <1>2, IsWritten, PreviousIsDeclared DEF Apply, IInv
    <3> QED
      BY <3>1, <3>2, <1>2 DEF Apply, menuNode
  <2> QED
    BY <2>2 DEF NoOrphan
<1>3. CASE Uninstall
  BY <1>1, <1>3 DEF Uninstall, NoOrphan
<1>4. CASE RegisterStoreMenu
  <2>1. ASSUME NEW s \in Slot \ {StoreMenu.slot},
               entries'[s] # NoEntry, entries'[s].by = "store"
        PROVE  entries[s] # NoEntry /\ entries[s].by = "store"
                 /\ entries'[s].text = entries[s].text
    <3>1. entries'[s] = AppliedTo(NoMenu, StoreMenu, s)
      BY <1>4, AppliedAt DEF RegisterStoreMenu, IInv, TypeOK, List
    <3>2. entries'[s] = entries[s]
      BY <3>1, <2>1 DEF AppliedTo, RemovedAt
    <3> QED
      BY <3>2, <2>1
  <2> QED
    BY <2>1, <1>4 DEF RegisterStoreMenu, NoOrphan, IInv
<1>5. ASSUME NEW t \in Slot, Edit(t)
      PROVE  NoOrphan'
  <2>1. ASSUME NEW s \in Slot,
               entries'[s] # NoEntry, entries'[s].by = "store"
        PROVE  entries[s] # NoEntry /\ entries[s].by = "store"
                 /\ entries'[s].text = entries[s].text
    <3>1. /\ \A u \in Slot \ {t} : entries'[u] = entries[u]
          /\ \/ entries'[t] = NoEntry
             \/ entries'[t].by = "user"
             \/ /\ entries[t] # NoEntry
                /\ entries'[t].by = entries[t].by /\ entries'[t].text = entries[t].text
      BY <1>5, EditAt DEF IInv
    <3> QED
      BY <3>1, <2>1
  <2>2. UNCHANGED <<installed, owned>>
    BY <1>5 DEF Edit
  <2> QED
    BY <2>1, <2>2 DEF NoOrphan, IInv
<1>6. CASE UNCHANGED vars
  BY <1>6 DEF vars, IInv, NoOrphan
<1> QED
  BY <1>2, <1>3, <1>4, <1>5, <1>6 DEF Next, Operation

LEMMA IInvInductive == Spec => []IInv
<1>1. ASSUME Init
      PROVE  IInv
  <2>1. \A t \in Fields : Written(t) \in Entry /\ Written(t).by = "user"
    BY DEF Written, Entry
  <2>2. ASSUME NEW s \in Slot
        PROVE  entries[s] \in Entry \cup {NoEntry}
                 /\ (entries[s] # NoEntry => entries[s].by = "user")
    <3>1. entries[s] = NoEntry \/ \E t \in Fields : entries[s] = Written(t)
      BY <1>1 DEF Init
    <3> QED
      BY <3>1, <2>1
  <2>3. entries \in [Slot -> Entry \cup {NoEntry}]
    BY <1>1, <2>2 DEF Init
  <2> QED
    BY <1>1, <2>2, <2>3 DEF Init, IInv, TypeOK, NoOrphan
<1>2. IInv /\ [Next]_vars => IInv'
  BY TypeStep, OrphanStep DEF IInv
<1> QED
  BY <1>1, <1>2, PTL DEF Spec

\* The state of the entries, of what is installed and of what is owned always has its
\* type, and only an entry that the installed release declares is owned.
THEOREM TypeCorrect == Spec => []TypeOK
<1>1. IInv => TypeOK
  BY DEF IInv
<1> QED
  BY <1>1, IInvInductive, PTL

\* The Store leaves no entry of its own behind, for any releases, whatever they declare.
THEOREM LeavesNoOrphan == Spec => []NoOrphan
<1>1. IInv => NoOrphan
  BY DEF IInv
<1> QED
  BY <1>1, IInvInductive, PTL

\* What the user wrote survives every operation, except an entry that reads exactly
\* like the one the Store owns.
THEOREM EditsSurvive == Spec => EditedSurvives
<1>1. ASSUME IInv, [Next]_vars, StoreStep, NEW s \in Slot,
             entries[s] # NoEntry, entries[s].by = "user",
             owned => ~(MenuOf[installed].slot = s /\ menuNodeMatches(entries, MenuOf[installed]))
      PROVE  /\ entries'[s] # NoEntry
             /\ entries'[s].by = "user" /\ entries'[s].extra = entries[s].extra
             /\ \A f \in Field : entries[s].text[f] \in {Blank, entries'[s].text[f]}
  <2>1. ASSUME NEW menu \in Menu \cup {NoMenu}, NEW previous \in {NoMenu, Previous},
               entries' = Applied(previous, menu)
        PROVE  /\ entries'[s] # NoEntry
               /\ ~(menu # NoMenu /\ s = menu.slot /\ Wrote(previous, menu))
    <3>1. previous \in Menu \cup {NoMenu}
      BY <1>1, PreviousIsDeclared DEF IInv
    <3>2. ~(/\ previous # NoMenu /\ s = previous.slot
            /\ menuNodeMatches(entries, previous))
      BY <1>1 DEF Previous
    <3>3. entries'[s] = AppliedTo(previous, menu, s)
      BY <3>1, <2>1, <1>1, AppliedAt DEF IInv, TypeOK, List
    <3>4. RemovedAt(previous, menu, s) = entries[s]
      BY <3>2 DEF RemovedAt
    <3>5. ~(menu # NoMenu /\ s = menu.slot /\ Wrote(previous, menu))
      <4> SUFFICES ASSUME menu # NoMenu, s = menu.slot, Wrote(previous, menu)
                   PROVE  FALSE
        OBVIOUS
      <4>1. CASE sameEntry(previous, menu)
        <5>1. previous # NoMenu /\ s = previous.slot /\ menuNodeMatches(entries, previous)
          BY <4>1, WroteSame DEF sameEntry
        <5> QED
          BY <5>1, <3>2
      <4>2. CASE ~sameEntry(previous, menu)
        <5>1. Removal(previous, menu).list[s] = NoEntry
          BY <4>2 DEF Wrote, Writing, addEntry, Edited, Untouched
        <5>2. Removal(previous, menu).list[s] = entries[s]
          BY <3>1, <3>4, <1>1, RemovalAt DEF IInv, TypeOK, List
        <5> QED
          BY <5>1, <5>2, <1>1
      <4> QED
        BY <4>1, <4>2
    <3>6. entries'[s] = entries[s] \/ (menu # NoMenu /\ entries'[s] = Filled(entries[s], menu))
      BY <3>3, <3>4, <3>5, Zenon, <1>1 DEF AppliedTo
    <3>7. ASSUME menu # NoMenu
          PROVE  Filled(entries[s], menu) # NoEntry
      <4>1. Filled(entries[s], menu) \in Entry
        BY <3>7, <1>1 DEF Filled, Entry, Fields, Menu, IInv, TypeOK
      <4> QED
        BY <4>1, GamelistAssumption
    <3> QED
      BY <3>5, <3>6, <3>7, <1>1
  <2>2. ASSUME NEW menu \in Menu \cup {NoMenu}, NEW previous \in {NoMenu, Previous},
               entries' = Applied(previous, menu)
        PROVE  /\ entries'[s] # NoEntry
               /\ entries'[s].by = "user" /\ entries'[s].extra = entries[s].extra
               /\ \A f \in Field : entries[s].text[f] \in {Blank, entries'[s].text[f]}
    BY <2>1, <2>2, <1>1, NotWritten, PreviousIsDeclared DEF IInv
  <2>3. ASSUME Operation
        PROVE  \E menu \in Menu \cup {NoMenu}, previous \in {NoMenu, Previous} :
                 entries' = Applied(previous, menu)
    BY <2>3, GamelistAssumption DEF Operation, Apply, Uninstall, RegisterStoreMenu
  <2>4. ASSUME NEW t \in Slot, Edit(t)
        PROVE  FALSE
    BY <2>4, <1>1 DEF Edit, StoreStep, IInv, TypeOK
  <2>5. CASE UNCHANGED vars
    BY <2>5, <1>1 DEF vars, IInv, TypeOK, Entry, Fields
  <2> QED
    BY <2>2, <2>3, <2>4, <2>5, <1>1 DEF Next
<1>2. IInv /\ [Next]_vars
        => [StoreStep =>
              \A s \in Slot :
                /\ entries[s] # NoEntry /\ entries[s].by = "user"
                /\ owned => ~(MenuOf[installed].slot = s
                              /\ menuNodeMatches(entries, MenuOf[installed]))
                => /\ entries'[s] # NoEntry
                   /\ entries'[s].by = "user" /\ entries'[s].extra = entries[s].extra
                   /\ \A f \in Field :
                        entries[s].text[f] \in {Blank, entries'[s].text[f]}]_vars
  BY <1>1
<1> QED
  BY <1>2, IInvInductive, PTL DEF Spec, EditedSurvives

\* Filling in writes exactly when a blank field gets a value.
LEMMA FillingAt ==
  ASSUME NEW previous \in Menu \cup {NoMenu}, NEW menu \in Menu \cup {NoMenu},
         entries \in List
  PROVE  LET es == Writing(previous, menu).list
             filling == Filling(previous, menu)
         IN /\ ~filling.changed => filling.list = es
            /\ filling.changed => ~Writing(previous, menu).changed /\ menu # NoMenu
            /\ filling.changed => /\ es[menu.slot] # NoEntry
                                  /\ filling.list[menu.slot] # es[menu.slot]
                                  /\ \A s \in Slot \ {menu.slot} : filling.list[s] = es[s]
<1> DEFINE es == Writing(previous, menu).list
           filling == Filling(previous, menu)
<1>1. ~filling.changed => filling.list = es
  BY DEF Filling, fillMissingEntry, Edited, Untouched
<1>2. ASSUME filling.changed
      PROVE  /\ menu \in Menu /\ ~Writing(previous, menu).changed
             /\ es[menu.slot] # NoEntry /\ Missing(es[menu.slot], menu) # {}
             /\ filling.list = [es EXCEPT ![menu.slot].text =
                   [f \in Field |-> IF f \in Missing(es[menu.slot], menu) THEN menu.text[f]
                                                                        ELSE @[f]]]
  BY <1>2 DEF Filling, fillMissingEntry, Edited, Untouched
<1>3. ASSUME filling.changed
      PROVE  es \in List
  <2>1. es = Removal(previous, menu).list
    BY <1>2, <1>3 DEF Writing, replaceEntry, addEntry, Edited, Untouched
  <2> QED
    BY <2>1, RemovalAt
<1>4. ASSUME filling.changed
      PROVE  /\ filling.list[menu.slot] # es[menu.slot]
             /\ \A s \in Slot \ {menu.slot} : filling.list[s] = es[s]
  <2> HIDE DEF es, filling
  <2>1. PICK f \in Field : es[menu.slot].text[f] = Blank /\ menu.text[f] # Blank
    BY <1>2, <1>4 DEF Missing
  <2>2. es[menu.slot] \in Entry /\ menu.slot \in Slot
    BY <1>2, <1>3, <1>4 DEF List, Menu
  <2> DEFINE text == [g \in Field |-> IF g \in Missing(es[menu.slot], menu)
                                      THEN menu.text[g] ELSE es[menu.slot].text[g]]
  <2>4. filling.list = [es EXCEPT ![menu.slot].text = text]
    BY <1>2, <1>4
  <2>5. text[f] = menu.text[f]
    BY <2>1 DEF Missing
  <2> HIDE DEF text
  <2>3. filling.list[menu.slot].text[f] = menu.text[f]
    BY <2>4, <2>5, <1>3, <1>4, <2>2 DEF List, Entry
  <2> QED
    BY <1>2, <1>3, <1>4, <2>1, <2>2, <2>3 DEF List
<1> HIDE DEF es, filling
<1>5. (menu \in Menu) => menu # NoMenu
  BY GamelistAssumption
<1>6. /\ ~filling.changed => filling.list = es
      /\ filling.changed => ~Writing(previous, menu).changed /\ menu # NoMenu
      /\ filling.changed => /\ es[menu.slot] # NoEntry
                            /\ filling.list[menu.slot] # es[menu.slot]
                            /\ \A s \in Slot \ {menu.slot} : filling.list[s] = es[s]
  BY <1>1, <1>2, <1>4, <1>5
<1> QED
  BY <1>6 DEF es, filling

\* Each edit reports exactly the writes it makes; what the flags of a plan's steps add
\* up to is true of the list.
LEMMA FlagsAreTrue ==
  ASSUME NEW previous \in Menu \cup {NoMenu}, NEW menu \in Menu \cup {NoMenu},
         entries \in List
  PROVE  /\ Applied(previous, menu) # entries => Changed(previous, menu)
         /\ Changed(previous, menu) => \/ Applied(previous, menu) # entries
                                       \/ sameEntry(previous, menu) /\ Wrote(previous, menu)
<1> DEFINE first == Removal(previous, menu)
           second == Writing(previous, menu)
           third == Filling(previous, menu)
<1> USE GamelistAssumption DEF List, Entry, Menu, Fields
<1>1. /\ first.list # entries <=> first.changed
      /\ first.changed => previous # NoMenu /\ entries[previous.slot] # NoEntry
                          /\ first.list[previous.slot] = NoEntry /\ ~sameEntry(previous, menu)
  BY DEF Removal, removeEntry, menuNodeMatches, Edited, Untouched
<1>2. first.list \in List
  BY RemovalAt
<1>3. /\ ~second.changed => second.list = first.list
      /\ second.changed => menu # NoMenu
      /\ second.changed /\ ~sameEntry(previous, menu)
           => first.list[menu.slot] = NoEntry /\ second.list[menu.slot] = menuNode(menu)
      /\ second.changed /\ ~sameEntry(previous, menu)
           => \A s \in Slot \ {menu.slot} : second.list[s] = first.list[s]
  <2> HIDE DEF first
  <2> QED
    BY <1>2 DEF Writing, first, replaceEntry, addEntry, Edited, Untouched
<1>4. /\ ~third.changed => third.list = second.list
      /\ third.changed => ~second.changed /\ menu # NoMenu
      /\ third.changed => /\ second.list[menu.slot] # NoEntry
                          /\ third.list[menu.slot] # second.list[menu.slot]
                          /\ \A s \in Slot \ {menu.slot} : third.list[s] = second.list[s]
  BY FillingAt
<1> HIDE DEF first, second, third
<1>5. menu # NoMenu => menuNode(menu) # NoEntry /\ menu.slot \in Slot
  <2>1. menu # NoMenu => menuNode(menu) \in Entry
    BY DEF menuNode
  <2> QED
    BY <2>1
<1>6. CASE first.changed
  <2>1. previous.slot \in Slot /\ (menu # NoMenu => menu.slot # previous.slot)
    BY <1>1, <1>6 DEF sameEntry
  <2>2. second.list[previous.slot] = NoEntry
    BY <1>1, <1>3, <1>6, <2>1 DEF sameEntry
  <2>3. third.list[previous.slot] = NoEntry
    BY <1>4, <2>1, <2>2
  <2> QED
    BY <1>1, <1>6, <2>3 DEF Applied, Changed, first, third
<1>7. CASE ~first.changed /\ second.changed
  <2>1. third.list = second.list
    BY <1>4, <1>7
  <2>2. sameEntry(previous, menu) \/ second.list # entries
    BY <1>1, <1>3, <1>5, <1>7
  <2> QED
    BY <1>7, <2>1, <2>2 DEF Applied, Changed, Wrote, second, third
<1>8. CASE ~first.changed /\ ~second.changed
  <2>1. second.list = entries
    BY <1>1, <1>3, <1>8
  <2>2. third.list # entries <=> third.changed
    BY <1>4, <2>1
  <2> QED
    BY <1>8, <2>2 DEF Applied, Changed, first, second, third
<1> QED
  BY <1>6, <1>7, <1>8

\* The flags that an operation's steps return add up to the truth: it reports a change
\* if it made one, and only if it made one or wrote the entry it owns again.
THEOREM ChangesAreReported == Spec => ChangeIsReported
<1>1. ASSUME IInv, [Next]_vars, StoreStep, ~UNCHANGED vars
      PROVE  /\ entries' # entries => changed'
             /\ changed' => \/ entries' # entries
                            \/ /\ owned /\ owned'
                               /\ MenuOf[installed'].slot = MenuOf[installed].slot
  <2>1. entries \in List /\ Previous \in Menu \cup {NoMenu}
        /\ (owned => Previous = MenuOf[installed]) /\ (~owned => Previous = NoMenu)
    BY <1>1, PreviousIsDeclared DEF IInv, TypeOK, List, Previous
  <2>2. ASSUME NEW r \in Release, Apply(r)
        PROVE  /\ entries' # entries => changed'
               /\ changed' => \/ entries' # entries
                              \/ /\ owned /\ owned'
                                 /\ MenuOf[installed'].slot = MenuOf[installed].slot
    <3>1. MenuOf[r] \in Menu \cup {NoMenu}
      BY GamelistAssumption
    <3>2. /\ entries' = Applied(Previous, MenuOf[r])
          /\ changed' <=> Changed(Previous, MenuOf[r])
          /\ owned' <=> Wrote(Previous, MenuOf[r])
          /\ installed' = r
      BY <2>2, Zenon DEF Apply
    <3>3. /\ entries' # entries => changed'
          /\ changed' => entries' # entries \/ (sameEntry(Previous, MenuOf[r]) /\ owned')
      BY <3>1, <3>2, <2>1, FlagsAreTrue, Zenon
    <3> QED
      BY <3>2, <3>3, <2>1 DEF sameEntry
  <2>3. CASE Uninstall
    <3>1. /\ entries' = Applied(Previous, NoMenu)
          /\ changed' <=> Changed(Previous, NoMenu)
      BY <2>3, Zenon DEF Uninstall
    <3>2. ~sameEntry(Previous, NoMenu)
      BY DEF sameEntry
    <3> QED
      BY <3>1, <3>2, <2>1, FlagsAreTrue, Zenon
  <2>4. CASE RegisterStoreMenu
    <3>1. /\ entries' = Applied(NoMenu, StoreMenu)
          /\ changed' <=> Changed(NoMenu, StoreMenu)
      BY <2>4, Zenon DEF RegisterStoreMenu
    <3>2. ~sameEntry(NoMenu, StoreMenu) /\ StoreMenu \in Menu
      BY GamelistAssumption DEF sameEntry
    <3> QED
      BY <3>1, <3>2, <2>1, FlagsAreTrue, Zenon
  <2>5. ASSUME NEW t \in Slot, Edit(t)
        PROVE  FALSE
    BY <2>5, <1>1 DEF Edit, StoreStep, IInv, TypeOK
  <2> QED
    BY <2>2, <2>3, <2>4, <2>5, <1>1 DEF Next, Operation
<1>2. IInv /\ [Next]_vars
        => [StoreStep => /\ entries' # entries => changed'
                         /\ changed' => \/ entries' # entries
                                        \/ /\ owned /\ owned'
                                           /\ MenuOf[installed'].slot
                                                = MenuOf[installed].slot]_vars
  BY <1>1
<1> QED
  BY <1>2, IInvInductive, PTL DEF Spec, ChangeIsReported

\* An operation that claims the menu entry has written it, or has not touched it.
THEOREM OwnershipIsListed == Spec => OwnedIsListed
<1>1. IInv /\ [Next]_vars
        => [StoreStep /\ owned' =>
              LET slot == MenuOf[installed'].slot
              IN \/ entries'[slot] = menuNode(MenuOf[installed'])
                 \/ installed' = installed /\ entries'[slot] = entries[slot]]_vars
  <2> DEFINE slot == MenuOf[installed'].slot
  <2> SUFFICES ASSUME IInv, [Next]_vars, StoreStep, owned'
               PROVE  \/ entries'[slot] = menuNode(MenuOf[installed'])
                      \/ installed' = installed /\ entries'[slot] = entries[slot]
    OBVIOUS
  <2>1. ASSUME NEW r \in Release, Apply(r)
        PROVE  entries'[slot] = menuNode(MenuOf[installed'])
    <3>1. installed' = r /\ Wrote(Previous, MenuOf[r]) /\ entries' = Applied(Previous, MenuOf[r])
      BY <2>1 DEF Apply
    <3>2. MenuOf[r] \in Menu
      BY <3>1, GamelistAssumption, WroteMenu
    <3> QED
      BY <3>1, <3>2, IsWritten, PreviousIsDeclared DEF IInv
  <2>2. CASE Uninstall
    BY <2>2 DEF Uninstall
  <2>3. CASE RegisterStoreMenu
    <3>1. /\ installed' = installed /\ owned /\ entries' = Applied(NoMenu, StoreMenu)
          /\ StoreMenu \in Menu
      BY <2>3, GamelistAssumption DEF RegisterStoreMenu
    <3>2. slot \in Slot /\ slot # StoreMenu.slot
      BY <3>1, PreviousIsDeclared DEF IInv, Menu
    <3>3. entries'[slot] = AppliedTo(NoMenu, StoreMenu, slot)
      BY <3>1, <3>2, AppliedAt DEF IInv, TypeOK, List
    <3> QED
      BY <3>1, <3>2, <3>3 DEF AppliedTo, RemovedAt
  <2>4. ASSUME NEW t \in Slot, Edit(t)
        PROVE  FALSE
    BY <2>4 DEF Edit, StoreStep, IInv, TypeOK
  <2>5. CASE UNCHANGED vars
    BY <2>5 DEF vars
  <2> QED
    BY <2>1, <2>2, <2>3, <2>4, <2>5 DEF Next, Operation
<1> QED
  BY <1>1, IInvInductive, PTL DEF Spec, OwnedIsListed
=============================================================================
