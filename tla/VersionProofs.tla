----------------------------- MODULE VersionProofs ----------------------------
(* The order of versions is one: laws that a caller comparing releases relies  *)
(* on, for any versions, however many numbers they have.                       *)

EXTENDS VersionOrder, WellFoundedInduction, TLAPS

Component == 0..MaxInt

\* What Readable says of a version, and what strings.Split makes of one.
VersionType(v) == v.parts \in Seq(Component)

\* A missing number is zero.
LEMMA NumberType ==
  ASSUME NEW v, VersionType(v), NEW i \in Nat \ {0}
  PROVE  /\ Number(v, i) \in Nat
         /\ Number(v, i) > 0 => i \in DOMAIN v.parts
         /\ DOMAIN v.parts \subseteq Nat \ {0}
BY VersionOrderAssumption DEF VersionType, Component, Number

\* The first difference between two versions is ahead in one of them only.
LEMMA AheadAsymmetric ==
  ASSUME NEW a, NEW b, VersionType(a), VersionType(b), Ahead(a, b)
  PROVE  ~Ahead(b, a)
<1> SUFFICES ASSUME Ahead(b, a) PROVE FALSE
  OBVIOUS
<1>1. PICK i \in DOMAIN a.parts :
        Number(a, i) > Number(b, i) /\ \A j \in 1..(i - 1) : Number(a, j) = Number(b, j)
  BY DEF Ahead
<1>2. PICK k \in DOMAIN b.parts :
        Number(b, k) > Number(a, k) /\ \A j \in 1..(k - 1) : Number(b, j) = Number(a, j)
  BY DEF Ahead
<1>3. i \in Nat \ {0} /\ k \in Nat \ {0}
  BY DEF VersionType
<1>4. /\ Number(a, i) \in Nat /\ Number(b, i) \in Nat
      /\ Number(a, k) \in Nat /\ Number(b, k) \in Nat
  BY <1>3, NumberType
<1>5. CASE i < k
  BY <1>1, <1>2, <1>3, <1>4, <1>5
<1>6. CASE k < i
  BY <1>1, <1>2, <1>3, <1>4, <1>6
<1>7. CASE i = k
  BY <1>1, <1>2, <1>4, <1>7
<1> QED
  BY <1>3, <1>5, <1>6, <1>7

\* Of two differences the earlier one decides.
LEMMA AheadTransitive ==
  ASSUME NEW a, NEW b, NEW c, VersionType(a), VersionType(b), VersionType(c),
         Ahead(a, b), Ahead(b, c)
  PROVE  Ahead(a, c)
<1>1. PICK i \in DOMAIN a.parts :
        Number(a, i) > Number(b, i) /\ \A j \in 1..(i - 1) : Number(a, j) = Number(b, j)
  BY DEF Ahead
<1>2. PICK k \in DOMAIN b.parts :
        Number(b, k) > Number(c, k) /\ \A j \in 1..(k - 1) : Number(b, j) = Number(c, j)
  BY DEF Ahead
<1>3. i \in Nat \ {0} /\ k \in Nat \ {0}
  BY DEF VersionType
<1>4. /\ Number(a, i) \in Nat /\ Number(b, i) \in Nat /\ Number(c, i) \in Nat
      /\ Number(a, k) \in Nat /\ Number(b, k) \in Nat /\ Number(c, k) \in Nat
  BY <1>3, NumberType
<1>5. CASE i <= k
  <2>1. Number(a, i) > Number(c, i)
    BY <1>1, <1>2, <1>3, <1>4, <1>5
  <2>2. \A j \in 1..(i - 1) : Number(a, j) = Number(c, j)
    BY <1>1, <1>2, <1>3, <1>5
  <2> QED
    BY <2>1, <2>2 DEF Ahead
<1>6. CASE k < i
  <2>1. Number(a, k) > Number(c, k)
    BY <1>1, <1>2, <1>3, <1>4, <1>6
  <2>2. \A j \in 1..(k - 1) : Number(a, j) = Number(c, j)
    BY <1>1, <1>2, <1>3, <1>6
  <2>3. k \in DOMAIN a.parts
    BY <1>3, <1>4, <2>1, NumberType
  <2> QED
    BY <2>1, <2>2, <2>3 DEF Ahead
<1> QED
  BY <1>3, <1>5, <1>6

\* Of the places where two versions differ there is a first one.
LEMMA FirstDifference ==
  ASSUME NEW T, T \subseteq Nat, T # {}
  PROVE  \E i \in T : \A j \in T : i <= j
<1> DEFINE Less == {p \in Nat \X Nat : p[1] < p[2]}
<1>1. IsWellFoundedOn(Less, Nat)
  BY NatLessThanWellFounded, Zenon DEF OpToRel
<1>2. \E i \in T : \A j \in T : <<j, i>> \notin Less
  BY <1>1, WFMin, Zenon
<1>3. PICK i \in T : \A j \in T : <<j, i>> \notin Less
  BY <1>2
<1>4. \A j \in T : ~(j < i)
  BY <1>3
<1> QED
  BY <1>4

\* Two versions neither of which is ahead agree at every place.
LEMMA AgreeEverywhere ==
  ASSUME NEW a, NEW b, VersionType(a), VersionType(b)
  PROVE  SameNumbers(a, b) <=> \A i \in Nat \ {0} : Number(a, i) = Number(b, i)
<1>1. ASSUME SameNumbers(a, b), NEW n \in Nat \ {0}, Number(a, n) # Number(b, n)
      PROVE  FALSE
  <2> DEFINE T == {i \in Nat \ {0} : Number(a, i) # Number(b, i)}
  <2>1. T \subseteq Nat /\ T # {}
    BY <1>1
  <2>2. PICK i \in T : \A j \in T : i <= j
    BY <2>1, FirstDifference
  <2>3. i \in Nat \ {0} /\ Number(a, i) # Number(b, i)
    BY <2>2
  <2>4. \A j \in 1..(i - 1) : Number(a, j) = Number(b, j)
    BY <2>2, <2>3
  <2>5. /\ Number(a, i) \in Nat /\ Number(b, i) \in Nat
        /\ Number(a, i) > 0 => i \in DOMAIN a.parts
        /\ Number(b, i) > 0 => i \in DOMAIN b.parts
    BY <2>3, NumberType
  <2>6. CASE Number(a, i) > Number(b, i)
    BY <1>1, <2>4, <2>5, <2>6 DEF SameNumbers, Ahead
  <2>7. CASE Number(b, i) > Number(a, i)
    BY <1>1, <2>4, <2>5, <2>7 DEF SameNumbers, Ahead
  <2> QED
    BY <2>3, <2>5, <2>6, <2>7
<1>2. ASSUME \A i \in Nat \ {0} : Number(a, i) = Number(b, i)
      PROVE  SameNumbers(a, b)
  <2>1. \A i \in DOMAIN a.parts \cup DOMAIN b.parts :
          Number(a, i) = Number(b, i) /\ Number(a, i) \in Nat
    BY <1>2, NumberType DEF VersionType
  <2> QED
    BY <2>1 DEF SameNumbers, Ahead
<1> QED
  BY <1>1, <1>2

\* A difference stays one when a version is written with other zeroes at its end.
LEMMA AheadOfSame ==
  ASSUME NEW a, NEW b, NEW c, VersionType(a), VersionType(b), VersionType(c),
         SameNumbers(b, c)
  PROVE  (Ahead(a, b) => Ahead(a, c)) /\ (Ahead(c, a) => Ahead(b, a))
<1>1. \A i \in Nat \ {0} : Number(b, i) = Number(c, i)
  BY AgreeEverywhere
<1>2. ASSUME Ahead(a, b)
      PROVE  Ahead(a, c)
  BY <1>1, <1>2 DEF Ahead, VersionType
<1>3. ASSUME Ahead(c, a)
      PROVE  Ahead(b, a)
  <2>1. PICK k \in DOMAIN c.parts :
          Number(c, k) > Number(a, k) /\ \A j \in 1..(k - 1) : Number(c, j) = Number(a, j)
    BY <1>3 DEF Ahead
  <2>2. k \in Nat \ {0}
    BY DEF VersionType
  <2>3. Number(b, k) > Number(a, k) /\ \A j \in 1..(k - 1) : Number(b, j) = Number(a, j)
    BY <1>1, <2>1, <2>2
  <2>4. k \in DOMAIN b.parts
    BY <2>2, <2>3, NumberType
  <2> QED
    BY <2>3, <2>4 DEF Ahead
<1> QED
  BY <1>2, <1>3

\* A version that is read is made of numbers.
LEMMA ReadableType ==
  ASSUME NEW S, NEW v, v.parts \in Seq(S), Readable(v)
  PROVE  VersionType(v)
<1>1. v.parts \in [1..Len(v.parts) -> S] /\ Len(v.parts) \in Nat
  OBVIOUS
<1>2. v.parts \in [1..Len(v.parts) -> Component]
  BY <1>1 DEF Readable, Component
<1> QED
  BY <1>1, <1>2 DEF VersionType

\* CompareNumeric never says of two versions that each is newer than the other, nor
\* that one is newer and they are the same: swapping its arguments turns its answer.
THEOREM NewerIsStrict ==
  ASSUME NEW S, NEW a, NEW b, a.parts \in Seq(S), b.parts \in Seq(S), Newer(a, b)
  PROVE  ~Newer(b, a) /\ ~Same(a, b) /\ ~Same(b, a)
<1>1. VersionType(a) /\ VersionType(b)
  BY ReadableType DEF Newer
<1>2. Ahead(a, b) => ~Ahead(b, a)
  BY <1>1, AheadAsymmetric
<1> QED
  BY <1>2 DEF Newer, Same, SameNumbers

\* A chain of updates, each newer than the one before, never comes back: what is
\* newer than a newer version is newer.
THEOREM NewerIsTransitive ==
  ASSUME NEW S, NEW a, NEW b, NEW c,
         a.parts \in Seq(S), b.parts \in Seq(S), c.parts \in Seq(S),
         Newer(a, b), Newer(b, c)
  PROVE  Newer(a, c)
<1>1. VersionType(a) /\ VersionType(b) /\ VersionType(c)
  BY ReadableType DEF Newer
<1>2. CASE Ahead(a, b) /\ Ahead(b, c)
  BY <1>1, <1>2, AheadTransitive DEF Newer
<1>3. CASE Ahead(a, b) /\ SameNumbers(b, c)
  BY <1>1, <1>3, AheadOfSame DEF Newer
<1>4. CASE SameNumbers(a, b) /\ Ahead(b, c)
  <2>1. SameNumbers(b, a)
    BY <1>4 DEF SameNumbers
  <2>2. Ahead(a, c)
    BY <1>1, <1>4, AheadOfSame
  <2> QED
    BY <2>2 DEF Newer
<1>5. CASE ~Ahead(a, b) /\ ~Ahead(b, c)
  BY <1>5 DEF Newer
<1> QED
  BY <1>2, <1>3, <1>4, <1>5 DEF Newer

\* "1.0" and "1.0.0" are the same release.
THEOREM ZeroesDoNotCount ==
  ASSUME NEW S, NEW a, NEW b, a.parts \in Seq(S), Readable(a),
         b.parts = Append(a.parts, 0), b.after = a.after
  PROVE  Same(a, b)
<1>1. VersionType(a)
  BY ReadableType
<1>2. 0 \in Component
  BY VersionOrderAssumption DEF Component
<1>3. VersionType(b)
  BY <1>1, <1>2 DEF VersionType
<1>4. Readable(b)
  BY <1>3 DEF Readable, VersionType, Component
<1>5. \A i \in Nat \ {0} : Number(a, i) = Number(b, i)
  BY <1>1, VersionOrderAssumption DEF VersionType, Component, Number
<1> QED
  BY <1>1, <1>3, <1>4, <1>5, AgreeEverywhere DEF Same

\* Two ways to write one release are interchangeable: whatever a third version is
\* compared with, the answer is the same, so that a catalogue that writes "1.0" and one
\* that writes "1.0.0" offer the same updates.
THEOREM SameIsInterchangeable ==
  ASSUME NEW S, NEW a, NEW b, NEW c,
         a.parts \in Seq(S), b.parts \in Seq(S), c.parts \in Seq(S), Same(a, b)
  PROVE  /\ Newer(a, c) <=> Newer(b, c)
         /\ Newer(c, a) <=> Newer(c, b)
         /\ Same(a, c) <=> Same(b, c)
<1>1. CASE ~Readable(c)
  BY <1>1 DEF Newer, Same
<1>2. CASE Readable(c)
  <2>1. VersionType(a) /\ VersionType(b) /\ VersionType(c)
    BY <1>2, ReadableType DEF Same
  <2>2. SameNumbers(a, b) /\ SameNumbers(b, a)
    BY DEF Same, SameNumbers
  <2>3. (Ahead(c, a) <=> Ahead(c, b)) /\ (Ahead(a, c) <=> Ahead(b, c))
    BY <2>1, <2>2, AheadOfSame
  <2>4. SameNumbers(a, c) <=> SameNumbers(b, c)
    BY <2>3 DEF SameNumbers
  <2>5. SameNumbers(c, a) <=> SameNumbers(c, b)
    BY <2>3 DEF SameNumbers
  <2>6. Readable(a) /\ Readable(b) /\ a.after = b.after
    BY DEF Same
  <2> QED
    BY <1>2, <2>3, <2>4, <2>5, <2>6 DEF Newer, Same
<1> QED
  BY <1>1, <1>2
=============================================================================
