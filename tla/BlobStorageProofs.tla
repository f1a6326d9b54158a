------------------------- MODULE BlobStorageProofs --------------------------
(***************************************************************************)
(* What blob selection keeps true, for every value of the constants.       *)
(*                                                                         *)
(* First what the loops of blob selection do to the blobs they are given,  *)
(* for any number of them.  A selection is a fold over blobs.  The table   *)
(* of its intermediate values exists by induction over the positions       *)
(* (TableExists), so every fold is a run of single steps (IsRun).  What a  *)
(* single step does (Takes) adds up to what the run does: every blob is    *)
(* kept or discarded (RunKeeps), never both (RunSeparates), in the order   *)
(* of the DA layer (RunOrders), within the room there is (RunFits).        *)
(*                                                                         *)
(* Then the two slot numbers: the clock refinement, the bound on deferral  *)
(* and the pace of recovery, for which it does not matter which blobs are  *)
(* kept.  Last the blobs: each way to select the blobs of a slot has the   *)
(* Outcome that the invariants of the stored blobs and of the rollup block *)
(* need.                                                                   *)
(***************************************************************************)
EXTENDS BlobStorage, WellFoundedInduction, TLAPS

\* The time each SMT leaf may take.
USE SMTT(40)

-----------------------------------------------------------------------------
(* Induction over data.                                                    *)

\* Induction over the natural numbers, with a set in the place of a predicate.
LEMMA NatInduct ==
    ASSUME NEW S, 0 \in S, \A n \in Nat : n \in S => n + 1 \in S
    PROVE  Nat \subseteq S
  <1> DEFINE R == {ss \in Nat \X Nat : ss[1] < ss[2]}
             C == Nat \ S
  <1> SUFFICES ASSUME C # {} PROVE FALSE
    OBVIOUS
  <1>1. IsWellFoundedOn(R, Nat)
    BY NatLessThanWellFounded DEF OpToRel
  <1>2. PICK g \in C : \A h \in C : ~ (<<h, g>> \in R)
    <2>1. C \subseteq Nat
      OBVIOUS
    <2> HIDE DEF C, R
    <2> QED
      BY Zenon, <2>1, <1>1, WFMin
  <1>3. g # 0 /\ g - 1 \in Nat /\ g - 1 < g /\ g = (g - 1) + 1
    BY <1>2
  <1>4. g - 1 \in S
    BY Zenon, <1>2, <1>3
  <1> QED
    BY Zenon, <1>2, <1>3, <1>4

\* The same up to n.
LEMMA UptoInduct ==
    ASSUME NEW n \in Nat, NEW S, 0 \in S, \A i \in 1..n : i - 1 \in S => i \in S
    PROVE  0..n \subseteq S
  <1> DEFINE T == {i \in Nat : i <= n => i \in S}
  <1>1. 0 \in T
    OBVIOUS
  <1>2. ASSUME NEW i \in Nat, i \in T PROVE i + 1 \in T
    <2>1. CASE i + 1 <= n
      <3>1. i + 1 \in 1..n /\ (i + 1) - 1 = i /\ i <= n
        BY <2>1
      <3>2. i \in S
        BY <1>2, <3>1
      <3>3. i + 1 \in S
        BY Zenon, <3>1, <3>2
      <3> QED
        BY <3>3
    <2>2. CASE ~(i + 1 <= n)
      BY <2>2
    <2> QED
      BY <2>1, <2>2
  <1>3. Nat \subseteq T
    <2> HIDE DEF T
    <2> QED
      BY <1>1, <1>2, NatInduct
  <1> QED
    BY <1>3

-----------------------------------------------------------------------------
(* The recursion behind FoldLeft: a table over the sets of positions.      *)

LEMMA MaxOf ==
    ASSUME NEW n \in Nat, NEW s \in SUBSET (1..n), s # {}
    PROVE  /\ Max(s) \in s
           /\ \A m \in Nat : s \subseteq 1..(m + 1) => s \ {Max(s)} \subseteq 1..m
  <1> DEFINE HasMax(t) == \E x \in t : \A y \in t : x >= y
             N == {m \in Nat : \A t \in SUBSET (1..m) : t # {} => HasMax(t)}
  <1>1. 0 \in N
    <2>1. 1..0 = {}
      OBVIOUS
    <2> HIDE DEF HasMax
    <2> QED
      BY Zenon, <2>1
  <1>2. ASSUME NEW m \in Nat, m \in N PROVE m + 1 \in N
    <2>1. ASSUME NEW t \in SUBSET (1..(m + 1)), t # {} PROVE HasMax(t)
      <3>1. CASE m + 1 \in t
        BY <3>1
      <3>2. CASE m + 1 \notin t
        <4>1. t \in SUBSET (1..m)
          BY <3>2
        <4> QED
          BY Zenon, <1>2, <2>1, <4>1
      <3> QED
        BY <3>1, <3>2
    <2> HIDE DEF HasMax
    <2> QED
      BY <2>1
  <1>3. n \in N
    <2> HIDE DEF N
    <2> QED
      BY <1>1, <1>2, NatInduct
  <1>4. HasMax(s)
    BY Zenon, <1>3
  <1>5. Max(s) \in s /\ \A y \in s : Max(s) >= y
    BY Zenon, <1>4 DEF Max
  <1>6. ASSUME NEW m \in Nat, s \subseteq 1..(m + 1), NEW y \in s \ {Max(s)} PROVE y \in 1..m
    <2>1. Max(s) \in 1..(m + 1) /\ y \in 1..(m + 1) /\ Max(s) >= y /\ y # Max(s)
      BY Zenon, <1>5, <1>6
    <2> QED
      BY <2>1
  <1> QED
    BY Zenon, <1>5, <1>6

\* The positions 1..i are those before i and i.
LEMMA MaxUpto ==
    ASSUME NEW i \in Nat, i # 0
    PROVE  Max(1..i) = i /\ (1..i) \ {Max(1..i)} = 1..(i - 1)
  <1>1. \E x \in 1..i : \A y \in 1..i : x >= y
    BY i \in 1..i
  <1>2. Max(1..i) \in 1..i /\ \A y \in 1..i : Max(1..i) >= y
    BY Zenon, <1>1 DEF Max
  <1> QED
    BY <1>2, i \in 1..i

\* The table of the values of a loop over the positions 1..n that starts from base.
IsTable(g, n, base, F) ==
    \A s \in SUBSET (1..n) :
        g[s] = IF s = {} THEN base ELSE F[<<Max(s), g[s \ {Max(s)}]>>]

\* A table exists: it is built for longer and longer prefixes.
LEMMA TableExists ==
    ASSUME NEW n \in Nat, NEW V, NEW base \in V, NEW F \in [(1..n) \X V -> V]
    PROVE  \E g \in [SUBSET (1..n) -> V] : IsTable(g, n, base, F)
  <1> DEFINE D == SUBSET (1..n)
             From(g, s) == IF s = {} THEN base ELSE F[<<Max(s), g[s \ {Max(s)}]>>]
             Good(g, m) == \A s \in D : s \subseteq 1..m => g[s] = From(g, s)
             N == {m \in Nat : \E g \in [D -> V] : Good(g, m)}
  <1>1. 0 \in N
    <2> DEFINE z == [s \in D |-> base]
    <2>1. z \in [D -> V] /\ Good(z, 0)
      OBVIOUS
    <2> HIDE DEF z, Good
    <2> QED
      BY <2>1
  <1>2. ASSUME NEW m \in Nat, m \in N PROVE m + 1 \in N
    <2>1. PICK g \in [D -> V] : Good(g, m)
      BY Zenon, <1>2
    <2> DEFINE h == [s \in D |-> From(g, s)]
    <2>2. \A s \in D : s # {} => Max(s) \in 1..n /\ s \ {Max(s)} \in D
      BY Zenon, MaxOf
    <2>3. ASSUME NEW s \in D PROVE From(g, s) \in V
      BY <2>2
    <2>4. h \in [D -> V]
      <3> HIDE DEF From
      <3> QED
        BY <2>3
    <2>5. ASSUME NEW s \in D, s \subseteq 1..(m + 1) PROVE h[s] = From(h, s)
      <3>1. CASE s = {}
        BY Zenon, <3>1
      <3>2. CASE s # {}
        <4> DEFINE t == s \ {Max(s)}
        <4>1. t \in D /\ t \subseteq 1..m
          BY Zenon, <2>2, <2>5, <3>2, MaxOf
        <4>2. g[t] = From(g, t)
          BY Zenon, <2>1, <4>1
        <4>3. h[t] = g[t]
          <5> HIDE DEF From
          <5> QED
            BY Zenon, <4>1, <4>2
        <4> QED
          BY Zenon, <3>2, <4>3
      <3> QED
        BY <3>1, <3>2
    <2>6. Good(h, m + 1)
      BY Zenon, <2>5
    <2> HIDE DEF h, Good
    <2> QED
      BY <2>4, <2>6
  <1>3. n \in N
    <2> HIDE DEF N
    <2> QED
      BY <1>1, <1>2, NatInduct
  <1>4. PICK g \in [D -> V] : Good(g, n)
    BY Zenon, <1>3
  <1>5. \A s \in D : g[s] = From(g, s)
    BY Zenon, <1>4
  <1> QED
    BY Zenon, <1>5 DEF IsTable
-----------------------------------------------------------------------------
(* Selecting one blob.                                                     *)

\* Where the gas of a blob is, a blob, and the accumulator of a selection.
Escrows == {"none", "direct", "derived"}
Blob == [id : Nat, slot : Nat, shape : Shapes, escrow : Escrows]
Acc == [room : Nat, unregistered : Nat, kept : Seq(Blob), discarded : SUBSET Nat]

\* The fields of a blob have their types.
LEMMA ShapeType ==
    ASSUME NEW b \in Blob
    PROVE  /\ b.id \in Nat /\ b.shape.size \in Nat /\ b.shape.length \in Nat
           /\ b.shape.registered \in BOOLEAN /\ b.shape.proof \in BOOLEAN
           /\ b.shape.sound \in BOOLEAN
  BY SizeAssumption DEF Blob

\* A blob moved to a place has its gas there, if its sender is registered.
Placed(b, place) == [b EXCEPT !.escrow = IF b.shape.registered THEN place ELSE "none"]

\* A step of selection takes a blob to its place, if there is room for it, or
\* discards it.
Takes(a, b, place, c) ==
    \/ /\ b.shape.size <= a.room /\ c.room = a.room - b.shape.size
       /\ c.kept = Append(a.kept, Placed(b, place)) /\ c.discarded = a.discarded
    \/ /\ c.room = a.room
       /\ c.kept = a.kept /\ c.discarded = a.discarded \cup {b.id}

\* push_or_ignore keeps the accumulator well formed, and is such a step.
LEMMA PushType ==
    ASSUME NEW a \in Acc, NEW b \in Blob
    PROVE  PushOrIgnore(a, b) \in Acc
  <1>1. a.room \in Nat /\ a.kept \in Seq(Blob) /\ a.discarded \in SUBSET Nat
    BY DEF Acc
  <1>2. b.shape.size \in Nat /\ b.id \in Nat
    BY ShapeType
  <1>3. CASE b.shape.size <= a.room
    <2>1. a.room - b.shape.size \in Nat /\ Append(a.kept, b) \in Seq(Blob)
      BY <1>1, <1>2, <1>3
    <2> QED
      BY Zenon, <1>3, <2>1 DEF PushOrIgnore, Acc
  <1>4. CASE ~(b.shape.size <= a.room)
    BY <1>1, <1>2, <1>4 DEF PushOrIgnore, Discard, Acc
  <1> QED
    BY <1>3, <1>4

LEMMA PushTakes ==
    ASSUME NEW a \in Acc, NEW b \in Blob, NEW place, NEW d \in Blob, d = Placed(b, place)
    PROVE  Takes(a, b, place, PushOrIgnore(a, d))
  <1>1. d.id = b.id /\ d.shape = b.shape
    BY DEF Placed, Blob
  <1>2. CASE b.shape.size <= a.room
    BY <1>1, <1>2 DEF PushOrIgnore, Acc, Takes
  <1>3. CASE ~(b.shape.size <= a.room)
    BY <1>1, <1>3 DEF PushOrIgnore, Discard, Acc, Takes
  <1> QED
    BY <1>2, <1>3

\* A discarded blob leaves everything else as it was.
LEMMA DiscardTakes ==
    ASSUME NEW a \in Acc, NEW b \in Blob, NEW place
    PROVE  Discard(a, b) \in Acc /\ Takes(a, b, place, Discard(a, b))
  BY ShapeType DEF Discard, Acc, Takes

\* A blob to be stored has its gas in a derived account, another one in the bank.
Place(defer) == IF defer THEN "derived" ELSE "direct"

\* Every way to select a blob is such a step.
LEMMA ConsiderTakes ==
    ASSUME NEW a \in Acc, NEW b \in Blob, b.escrow = "none", NEW defer \in BOOLEAN
    PROVE  /\ Consider(a, b, defer) \in Acc
           /\ Takes(a, b, Place(defer), Consider(a, b, defer))
  <1> DEFINE place == Place(defer)
             counted == [a EXCEPT !.unregistered = a.unregistered + 1]
  <1>1. counted \in Acc /\ counted.room = a.room /\ counted.kept = a.kept
        /\ counted.discarded = a.discarded
    BY DEF Acc
  <1>2. Placed(b, place) \in Blob
    BY DEF Placed, Blob, Escrows, Place
  <1>3. b.shape.registered => Reserve(b, defer) = Placed(b, place)
    BY DEF Reserve, Placed, Place
  <1>4. ~b.shape.registered => b = Placed(b, place)
    BY DEF Placed, Blob
  <1>5. CASE Consider(a, b, defer) = Discard(a, b)
    BY Zenon, <1>5, DiscardTakes
  <1>6. CASE b.shape.registered /\ Consider(a, b, defer) = PushOrIgnore(a, Reserve(b, defer))
    BY Zenon, <1>2, <1>3, <1>6, PushType, PushTakes
  <1>7. CASE Consider(a, b, defer) = Discard(counted, b)
    <2>1. /\ Discard(counted, b) \in Acc
          /\ Takes(counted, b, place, Discard(counted, b))
      BY Zenon, <1>1, DiscardTakes
    <2> QED
      BY Zenon, <1>1, <1>7, <2>1 DEF Takes
  <1>8. CASE ~b.shape.registered /\ Consider(a, b, defer) = PushOrIgnore(counted, b)
    <2>1. /\ PushOrIgnore(counted, b) \in Acc
          /\ Takes(counted, b, place, PushOrIgnore(counted, b))
      <3> HIDE DEF place, counted
      <3> QED
        BY Zenon, <1>1, <1>4, <1>8, PushType, PushTakes
    <2> QED
      BY Zenon, <1>1, <1>8, <2>1 DEF Takes
  <1>9. \/ Consider(a, b, defer) = Discard(a, b)
        \/ b.shape.registered /\ Consider(a, b, defer) = PushOrIgnore(a, Reserve(b, defer))
        \/ Consider(a, b, defer) = Discard(counted, b)
        \/ ~b.shape.registered /\ Consider(a, b, defer) = PushOrIgnore(counted, b)
    BY Zenon DEF Consider
  <1> QED
    BY Zenon, <1>5, <1>6, <1>7, <1>8, <1>9

\* The gas of a blob is in this place, if its sender has any there.
Held(b, place) == b.escrow = IF b.shape.registered THEN place ELSE "none"

\* A stored blob is taken out of its derived account.
LEMMA RetrieveTakes ==
    ASSUME NEW a \in Acc, NEW b \in Blob, Held(b, "derived"), NEW short
    PROVE  /\ Retrieve(a, b, short) \in Acc
           /\ Takes(a, b, "direct", Retrieve(a, b, short))
  <1>1. CASE b.escrow = "none"
    <2>1. b = Placed(b, "direct")
      BY <1>1 DEF Placed, Blob, Held
    <2>2. Retrieve(a, b, short) = PushOrIgnore(a, b)
      BY <1>1 DEF Retrieve
    <2> QED
      BY Zenon, <2>1, <2>2, PushType, PushTakes
  <1>2. CASE b.escrow # "none" /\ b.id \in short
    <2>1. Retrieve(a, b, short) = Discard(a, b)
      BY <1>2 DEF Retrieve
    <2> QED
      BY Zenon, <2>1, DiscardTakes
  <1>3. CASE b.escrow # "none" /\ b.id \notin short
    <2> DEFINE d == [b EXCEPT !.escrow = "direct"]
    <2>1. d = Placed(b, "direct") /\ d \in Blob
      BY <1>3 DEF Placed, Blob, Held, Escrows
    <2>2. Retrieve(a, b, short) = PushOrIgnore(a, d)
      BY <1>3 DEF Retrieve
    <2> HIDE DEF d
    <2> QED
      BY Zenon, <2>1, <2>2, PushType, PushTakes
  <1> QED
    BY <1>1, <1>2, <1>3

\* A blob that was selected before is taken as it is.
LEMMA PushAgainTakes ==
    ASSUME NEW a \in Acc, NEW b \in Blob, Held(b, "direct")
    PROVE  /\ PushOrIgnore(a, b) \in Acc
           /\ Takes(a, b, "direct", PushOrIgnore(a, b))
  <1>1. b = Placed(b, "direct")
    BY DEF Placed, Blob, Held
  <1> QED
    BY Zenon, <1>1, PushType, PushTakes
-----------------------------------------------------------------------------
\* A loop over blobs goes through one accumulator per blob.
IsRun(r, acc, blobs, place) ==
    /\ r \in [0..Len(blobs) -> Acc] /\ r[0] = acc
    /\ \A i \in 1..Len(blobs) : Takes(r[i - 1], blobs[i], place, r[i])

\* The values of a table over the prefixes stay in a set that the loop does not leave.
LEMMA PrefixesStay ==
    ASSUME NEW n \in Nat, NEW V, NEW it, it[{}] \in V,
           \A i \in 1..n : it[1..(i - 1)] \in V => it[1..i] \in V
    PROVE  \A i \in 0..n : it[1..i] \in V
  <1> DEFINE S == {i \in 0..n : it[1..i] \in V}
  <1>1. 0 \in S
    BY 1..0 = {}
  <1>2. ASSUME NEW i \in 1..n, i - 1 \in S PROVE i \in S
    <2>1. i \in 0..n
      OBVIOUS
    <2> QED
      BY Zenon, <1>2, <2>1
  <1>3. 0..n \subseteq S
    <2> HIDE DEF S
    <2> QED
      BY Zenon, <1>1, <1>2, UptoInduct
  <1> QED
    BY Zenon, <1>3

\* So the accumulators in a table of a loop that takes blobs are a run.
TakesAll(it, acc, blobs, place) ==
    /\ it[{}] = acc
    /\ \A i \in 1..Len(blobs) : it[1..(i - 1)] \in Acc =>
          it[1..i] \in Acc /\ Takes(it[1..(i - 1)], blobs[i], place, it[1..i])

LEMMA TableRuns ==
    ASSUME NEW acc \in Acc, NEW blobs \in Seq(Blob), NEW place, NEW it,
           TakesAll(it, acc, blobs, place)
    PROVE  \E r : IsRun(r, acc, blobs, place) /\ r[Len(blobs)] = it[1..Len(blobs)]
  <1> DEFINE n == Len(blobs)
             r == [i \in 0..n |-> it[1..i]]
  <1>1. n \in Nat
    OBVIOUS
  <1>2. \A i \in 0..n : it[1..i] \in Acc
    BY Zenon, <1>1, PrefixesStay DEF TakesAll
  <1>3. r[0] = acc /\ r[n] = it[1..n]
    BY <1>1, 1..0 = {} DEF TakesAll
  <1>4. ASSUME NEW i \in 1..n PROVE Takes(r[i - 1], blobs[i], place, r[i])
    <2>1. i \in 0..n /\ i - 1 \in 0..n
      BY <1>1
    <2> QED
      BY Zenon, <1>2, <2>1 DEF TakesAll
  <1>5. r \in [0..n -> Acc]
    BY Zenon, <1>2
  <1> HIDE DEF r
  <1> QED
    BY Zenon, <1>3, <1>4, <1>5 DEF IsRun

\* The sets of positions a table is unfolded at.
LEMMA PositionSets ==
    ASSUME NEW n \in Nat
    PROVE  /\ \A s \in SUBSET (1..n) : s # {} => Max(s) \in 1..n /\ s \ {Max(s)} \in SUBSET (1..n)
           /\ \A i \in 1..n : /\ 1..i \in SUBSET (1..n) /\ 1..i # {}
                              /\ Max(1..i) = i /\ (1..i) \ {Max(1..i)} = 1..(i - 1)
  <1>1. ASSUME NEW i \in 1..n PROVE 1..i \in SUBSET (1..n) /\ 1..i # {} /\ i \in Nat /\ i # 0
    OBVIOUS
  <1>2. \A s \in SUBSET (1..n) : s # {} => Max(s) \in s
    BY Zenon, MaxOf
  <1> QED
    BY Zenon, <1>1, <1>2, MaxUpto

\* The loop over new blobs,
LEMMA SelectRuns ==
    ASSUME NEW acc \in Acc, NEW blobs \in Seq(Blob), NEW defer \in BOOLEAN,
           \A i \in 1..Len(blobs) : blobs[i].escrow = "none"
    PROVE  \E r : /\ IsRun(r, acc, blobs, Place(defer))
                  /\ r[Len(blobs)] = SelectDaOrdering(acc, blobs, defer)
  <1> DEFINE n == Len(blobs)
             D == 1..n
             F == [p \in D \X Acc |-> Consider(p[2], blobs[p[1]], defer)]
             From(h, s) == IF s = {} THEN acc
                           ELSE Consider(h[s \ {Max(s)}], blobs[Max(s)], defer)
             it == CHOOSE h : h = [s \in SUBSET DOMAIN blobs |-> From(h, s)]
  <1>1. n \in Nat /\ DOMAIN blobs = D /\ \A i \in D : blobs[i] \in Blob
    OBVIOUS
  <1>2. F \in [D \X Acc -> Acc]
    BY Zenon, <1>1, ConsiderTakes
  <1>3. PICK g \in [SUBSET D -> Acc] : IsTable(g, n, acc, F)
    <2> HIDE DEF F, n
    <2> QED
      BY Zenon, <1>1, <1>2, TableExists
  <1>4. ASSUME NEW s \in SUBSET D PROVE g[s] = From(g, s)
    BY Zenon, <1>1, <1>3, PositionSets DEF IsTable
  <1>5. it = [s \in SUBSET D |-> From(it, s)]
    <2> HIDE DEF From, n
    <2> QED
      BY Zenon, <1>1, <1>3, <1>4
  <1>6. SelectDaOrdering(acc, blobs, defer) = it[DOMAIN blobs]
    BY Zenon DEF SelectDaOrdering, FoldLeft, MapThenFoldSet
  <1> HIDE DEF it
  <1>7. it[{}] = acc
    BY Zenon, <1>5
  <1>8. ASSUME NEW i \in D PROVE it[1..i] = Consider(it[1..(i - 1)], blobs[i], defer)
    <2>1. /\ 1..i \in SUBSET D /\ 1..i # {}
          /\ Max(1..i) = i /\ (1..i) \ {Max(1..i)} = 1..(i - 1)
      BY Zenon, <1>1, PositionSets
    <2> QED
      BY Zenon, <1>5, <2>1
  <1>9. ASSUME NEW i \in D, it[1..(i - 1)] \in Acc
        PROVE  it[1..i] \in Acc /\ Takes(it[1..(i - 1)], blobs[i], Place(defer), it[1..i])
    <2>1. /\ Consider(it[1..(i - 1)], blobs[i], defer) \in Acc
          /\ Takes(it[1..(i - 1)], blobs[i], Place(defer),
                   Consider(it[1..(i - 1)], blobs[i], defer))
      BY Zenon, <1>1, <1>9, ConsiderTakes
    <2> QED
      BY Zenon, <1>8, <2>1
  <1>10. TakesAll(it, acc, blobs, Place(defer))
    BY Zenon, <1>7, <1>9 DEF TakesAll
  <1>11. PICK r : IsRun(r, acc, blobs, Place(defer)) /\ r[n] = it[D]
    BY <1>10, TableRuns
  <1> QED
    BY Zenon, <1>1, <1>6, <1>11

\* the loop over stored blobs,
RetrieveAll(acc, blobs, short) == FoldLeft(LAMBDA a, b : Retrieve(a, b, short), acc, blobs)

LEMMA RetrieveRuns ==
    ASSUME NEW acc \in Acc, NEW blobs \in Seq(Blob), NEW short,
           \A i \in 1..Len(blobs) : Held(blobs[i], "derived")
    PROVE  \E r : /\ IsRun(r, acc, blobs, "direct")
                  /\ r[Len(blobs)] = RetrieveAll(acc, blobs, short)
  <1> DEFINE n == Len(blobs)
             D == 1..n
             F == [p \in D \X Acc |-> Retrieve(p[2], blobs[p[1]], short)]
             From(h, s) == IF s = {} THEN acc
                           ELSE Retrieve(h[s \ {Max(s)}], blobs[Max(s)], short)
             it == CHOOSE h : h = [s \in SUBSET DOMAIN blobs |-> From(h, s)]
  <1>1. n \in Nat /\ DOMAIN blobs = D /\ \A i \in D : blobs[i] \in Blob
    OBVIOUS
  <1>2. F \in [D \X Acc -> Acc]
    BY Zenon, <1>1, RetrieveTakes
  <1>3. PICK g \in [SUBSET D -> Acc] : IsTable(g, n, acc, F)
    <2> HIDE DEF F, n
    <2> QED
      BY Zenon, <1>1, <1>2, TableExists
  <1>4. ASSUME NEW s \in SUBSET D PROVE g[s] = From(g, s)
    BY Zenon, <1>1, <1>3, PositionSets DEF IsTable
  <1>5. it = [s \in SUBSET D |-> From(it, s)]
    <2> HIDE DEF From, n
    <2> QED
      BY Zenon, <1>1, <1>3, <1>4
  <1>6. RetrieveAll(acc, blobs, short) = it[DOMAIN blobs]
    BY Zenon DEF RetrieveAll, FoldLeft, MapThenFoldSet
  <1> HIDE DEF it
  <1>7. it[{}] = acc
    BY Zenon, <1>5
  <1>8. ASSUME NEW i \in D PROVE it[1..i] = Retrieve(it[1..(i - 1)], blobs[i], short)
    <2>1. /\ 1..i \in SUBSET D /\ 1..i # {}
          /\ Max(1..i) = i /\ (1..i) \ {Max(1..i)} = 1..(i - 1)
      BY Zenon, <1>1, PositionSets
    <2> QED
      BY Zenon, <1>5, <2>1
  <1>9. ASSUME NEW i \in D, it[1..(i - 1)] \in Acc
        PROVE  it[1..i] \in Acc /\ Takes(it[1..(i - 1)], blobs[i], "direct", it[1..i])
    <2>1. /\ Retrieve(it[1..(i - 1)], blobs[i], short) \in Acc
          /\ Takes(it[1..(i - 1)], blobs[i], "direct", Retrieve(it[1..(i - 1)], blobs[i], short))
      BY Zenon, <1>1, <1>9, RetrieveTakes
    <2> QED
      BY Zenon, <1>8, <2>1
  <1>10. TakesAll(it, acc, blobs, "direct")
    BY Zenon, <1>7, <1>9 DEF TakesAll
  <1>11. PICK r : IsRun(r, acc, blobs, "direct") /\ r[n] = it[D]
    BY <1>10, TableRuns
  <1> QED
    BY Zenon, <1>1, <1>6, <1>11

\* and the loop over selected ones are runs.
LEMMA PushRuns ==
    ASSUME NEW acc \in Acc, NEW blobs \in Seq(Blob),
           \A i \in 1..Len(blobs) : Held(blobs[i], "direct")
    PROVE  \E r : /\ IsRun(r, acc, blobs, "direct")
                  /\ r[Len(blobs)] = FoldLeft(PushOrIgnore, acc, blobs)
  <1> DEFINE n == Len(blobs)
             D == 1..n
             F == [p \in D \X Acc |-> PushOrIgnore(p[2], blobs[p[1]])]
             From(h, s) == IF s = {} THEN acc
                           ELSE PushOrIgnore(h[s \ {Max(s)}], blobs[Max(s)])
             it == CHOOSE h : h = [s \in SUBSET DOMAIN blobs |-> From(h, s)]
  <1>1. n \in Nat /\ DOMAIN blobs = D /\ \A i \in D : blobs[i] \in Blob
    OBVIOUS
  <1>2. F \in [D \X Acc -> Acc]
    BY Zenon, <1>1, PushAgainTakes
  <1>3. PICK g \in [SUBSET D -> Acc] : IsTable(g, n, acc, F)
    <2> HIDE DEF F, n
    <2> QED
      BY Zenon, <1>1, <1>2, TableExists
  <1>4. ASSUME NEW s \in SUBSET D PROVE g[s] = From(g, s)
    BY Zenon, <1>1, <1>3, PositionSets DEF IsTable
  <1>5. it = [s \in SUBSET D |-> From(it, s)]
    <2> HIDE DEF From, n
    <2> QED
      BY Zenon, <1>1, <1>3, <1>4
  <1>6. FoldLeft(PushOrIgnore, acc, blobs) = it[DOMAIN blobs]
    BY Zenon DEF FoldLeft, MapThenFoldSet
  <1> HIDE DEF it
  <1>7. it[{}] = acc
    BY Zenon, <1>5
  <1>8. ASSUME NEW i \in D PROVE it[1..i] = PushOrIgnore(it[1..(i - 1)], blobs[i])
    <2>1. /\ 1..i \in SUBSET D /\ 1..i # {}
          /\ Max(1..i) = i /\ (1..i) \ {Max(1..i)} = 1..(i - 1)
      BY Zenon, <1>1, PositionSets
    <2> QED
      BY Zenon, <1>5, <2>1
  <1>9. ASSUME NEW i \in D, it[1..(i - 1)] \in Acc
        PROVE  it[1..i] \in Acc /\ Takes(it[1..(i - 1)], blobs[i], "direct", it[1..i])
    <2>1. /\ PushOrIgnore(it[1..(i - 1)], blobs[i]) \in Acc
          /\ Takes(it[1..(i - 1)], blobs[i], "direct", PushOrIgnore(it[1..(i - 1)], blobs[i]))
      BY Zenon, <1>1, <1>9, PushAgainTakes
    <2> QED
      BY Zenon, <1>8, <2>1
  <1>10. TakesAll(it, acc, blobs, "direct")
    BY Zenon, <1>7, <1>9 DEF TakesAll
  <1>11. PICK r : IsRun(r, acc, blobs, "direct") /\ r[n] = it[D]
    BY <1>10, TableRuns
  <1> QED
    BY Zenon, <1>1, <1>6, <1>11

-----------------------------------------------------------------------------
(* What a run does to the blobs.                                           *)

\* The order of the DA layer, within a sequence and between two.
InOrder(blobs) == \A i, j \in DOMAIN blobs : i < j => Before(blobs[i], blobs[j])
AllBefore(some, blobs) == \A b \in Range(some) : \A d \in Range(blobs) : Before(b, d)

\* What is in an extended sequence,
LEMMA AppendFacts ==
    ASSUME NEW kept \in Seq(Blob), NEW b \in Blob
    PROVE  /\ Range(Append(kept, b)) = Range(kept) \cup {b}
           /\ Ids(Append(kept, b)) = Ids(kept) \cup {b.id}
           /\ InOrder(kept) /\ (\A d \in Range(kept) : Before(d, b)) => InOrder(Append(kept, b))
  <1> DEFINE n == Len(kept)
             all == Append(kept, b)
  <1>1. /\ n \in Nat /\ DOMAIN kept = 1..n /\ DOMAIN all = 1..(n + 1)
        /\ all[n + 1] = b /\ \A i \in 1..n : all[i] = kept[i]
    OBVIOUS
  <1>2. 1..(n + 1) = 1..n \cup {n + 1}
    BY <1>1
  <1> HIDE DEF n, all
  <1>3. Range(all) = Range(kept) \cup {b}
    <2>1. ASSUME NEW i \in 1..(n + 1) PROVE all[i] \in Range(kept) \cup {b}
      BY Zenon, <1>1, <1>2 DEF Range
    <2>2. \A i \in 1..n : kept[i] \in Range(all)
      BY Zenon, <1>1, <1>2 DEF Range
    <2>3. b \in Range(all)
      BY Zenon, <1>1, <1>2 DEF Range
    <2> QED
      BY Zenon, <1>1, <2>1, <2>2, <2>3 DEF Range
  <1>4. Ids(all) = Ids(kept) \cup {b.id}
    BY Zenon, <1>3 DEF Ids
  <1>5. ASSUME InOrder(kept), \A d \in Range(kept) : Before(d, b),
               NEW i \in 1..(n + 1), NEW j \in 1..(n + 1), i < j
        PROVE  Before(all[i], all[j])
    <2>1. i \in 1..n
      BY <1>1, <1>5
    <2>2. CASE j \in 1..n
      BY Zenon, <1>1, <1>5, <2>1, <2>2 DEF InOrder
    <2>3. CASE j = n + 1
      BY Zenon, <1>1, <1>5, <2>1, <2>3 DEF Range
    <2> QED
      BY <1>1, <1>5, <2>2, <2>3
  <1>6. InOrder(kept) /\ (\A d \in Range(kept) : Before(d, b)) => InOrder(all)
    BY Zenon, <1>1, <1>5 DEF InOrder
  <1> QED
    BY Zenon, <1>3, <1>4, <1>6 DEF all

\* and in two sequences one after the other.
LEMMA ConcatFacts ==
    ASSUME NEW s \in Seq(Blob), NEW t \in Seq(Blob)
    PROVE  /\ s \o t \in Seq(Blob)
           /\ Range(s \o t) = Range(s) \cup Range(t)
           /\ Ids(s \o t) = Ids(s) \cup Ids(t)
           /\ InOrder(s) /\ InOrder(t) /\ AllBefore(s, t) => InOrder(s \o t)
  <1> DEFINE m == Len(s)
             n == Len(t)
             all == s \o t
  <1>1. /\ m \in Nat /\ n \in Nat /\ all \in Seq(Blob)
        /\ DOMAIN s = 1..m /\ DOMAIN t = 1..n /\ DOMAIN all = 1..(m + n)
    OBVIOUS
  <1>2. \A i \in 1..m : all[i] = s[i]
    OBVIOUS
  <1>3. \A i \in 1..(m + n) : i \notin 1..m => i - m \in 1..n /\ all[i] = t[i - m]
    OBVIOUS
  <1>4. \A i \in 1..m : i \in 1..(m + n)
    BY <1>1
  <1>5. \A i \in 1..n : m + i \in 1..(m + n) /\ all[m + i] = t[i]
    OBVIOUS
  <1> HIDE DEF m, n, all
  <1>6. Range(all) = Range(s) \cup Range(t)
    <2>1. ASSUME NEW i \in 1..(m + n) PROVE all[i] \in Range(s) \cup Range(t)
      BY Zenon, <1>1, <1>2, <1>3 DEF Range
    <2>2. ASSUME NEW i \in 1..m PROVE s[i] \in Range(all)
      BY Zenon, <1>1, <1>2, <1>4 DEF Range
    <2>3. ASSUME NEW i \in 1..n PROVE t[i] \in Range(all)
      BY Zenon, <1>1, <1>5 DEF Range
    <2> QED
      BY Zenon, <1>1, <2>1, <2>2, <2>3 DEF Range
  <1>7. Ids(all) = Ids(s) \cup Ids(t)
    BY Zenon, <1>6 DEF Ids
  <1>8. ASSUME InOrder(s), InOrder(t), AllBefore(s, t),
               NEW i \in 1..(m + n), NEW j \in 1..(m + n), i < j
        PROVE  Before(all[i], all[j])
    <2>1. CASE i \in 1..m /\ j \in 1..m
      BY Zenon, <1>1, <1>2, <1>8, <2>1 DEF InOrder
    <2>2. CASE i \in 1..m /\ j \notin 1..m
      BY Zenon, <1>1, <1>2, <1>3, <1>8, <2>2 DEF AllBefore, Range
    <2>3. CASE i \notin 1..m /\ j \notin 1..m
      <3>1. i - m < j - m
        BY <1>1, <1>8
      <3> QED
        BY Zenon, <1>1, <1>3, <1>8, <2>3, <3>1 DEF InOrder
    <2>4. ~(i \notin 1..m /\ j \in 1..m)
      BY <1>1, <1>8
    <2> QED
      BY Zenon, <2>1, <2>2, <2>3, <2>4
  <1>9. InOrder(s) /\ InOrder(t) /\ AllBefore(s, t) => InOrder(all)
    BY Zenon, <1>1, <1>8 DEF InOrder
  <1> QED
    BY Zenon, <1>1, <1>6, <1>7, <1>9 DEF all

-----------------------------------------------------------------------------
\* A blob stays the same but for its gas.
LEMMA PlacedFacts ==
    ASSUME NEW b \in Blob, NEW place \in Escrows
    PROVE  /\ Placed(b, place) \in Blob
           /\ Placed(b, place).id = b.id /\ Placed(b, place).slot = b.slot
           /\ Placed(b, place).shape = b.shape /\ Held(Placed(b, place), place)
  BY DEF Placed, Blob, Escrows, Held

\* What one step does to the blobs of the accumulator.
Effect(a, b, place, c) ==
    \/ /\ c.kept = Append(a.kept, Placed(b, place))
       /\ Range(c.kept) = Range(a.kept) \cup {Placed(b, place)}
       /\ Ids(c.kept) = Ids(a.kept) \cup {b.id}
       /\ c.discarded = a.discarded
    \/ c.kept = a.kept /\ c.discarded = a.discarded \cup {b.id}

\* Every step that takes a blob has this effect.
LEMMA TakesFacts ==
    ASSUME NEW a \in Acc, NEW b \in Blob, NEW place \in Escrows, NEW c, Takes(a, b, place, c)
    PROVE  Effect(a, b, place, c)
  <1> DEFINE p == Placed(b, place)
  <1>1. p \in Blob /\ p.id = b.id
    BY Zenon, PlacedFacts
  <1>2. a.kept \in Seq(Blob)
    BY DEF Acc
  <1> HIDE DEF p
  <1>3. /\ Range(Append(a.kept, p)) = Range(a.kept) \cup {p}
        /\ Ids(Append(a.kept, p)) = Ids(a.kept) \cup {p.id}
    BY Zenon, <1>1, <1>2, AppendFacts
  <1> QED
    BY Zenon, <1>1, <1>3 DEF Takes, Effect, p

\* Every blob is kept or discarded, and one that is kept is in its place.
Keeps(res, acc, blobs, place) ==
    /\ Ids(res.kept) \cup res.discarded = Ids(acc.kept) \cup acc.discarded \cup Ids(blobs)
    /\ \A b \in Range(res.kept) :
          b \in Range(acc.kept) \/ \E d \in Range(blobs) : b = Placed(d, place)

\* So does every loop.
LEMMA RunKeeps ==
    ASSUME NEW acc \in Acc, NEW blobs \in Seq(Blob), NEW place \in Escrows,
           NEW r, IsRun(r, acc, blobs, place), NEW res, res = r[Len(blobs)]
    PROVE  res \in Acc /\ Keeps(res, acc, blobs, place)
  <1> DEFINE n == Len(blobs)
             Seen(i) == {blobs[j].id : j \in 1..i}
             Old == Ids(acc.kept) \cup acc.discarded
             InPlace(b) == b \in Range(acc.kept) \/ \E d \in Range(blobs) : b = Placed(d, place)
             S == {i \in 0..n : /\ Ids(r[i].kept) \cup r[i].discarded = Old \cup Seen(i)
                                /\ \A b \in Range(r[i].kept) : InPlace(b)}
  <1>1. /\ n \in Nat /\ DOMAIN blobs = 1..n /\ \A i \in 1..n : blobs[i] \in Blob
        /\ r[0] = acc /\ \A i \in 0..n : r[i] \in Acc
    BY DEF IsRun
  <1>2. 0 \in S
    <2>1. Seen(0) = {} /\ 0 \in 0..n
      BY <1>1
    <2> QED
      BY Zenon, <1>1, <2>1
  <1>3. ASSUME NEW i \in 1..n, i - 1 \in S PROVE i \in S
    <2>1. i \in 0..n /\ i - 1 \in 0..n /\ 1..i = 1..(i - 1) \cup {i}
      BY <1>1
    <2>2. Seen(i) = Seen(i - 1) \cup {blobs[i].id}
      BY Zenon, <2>1
    <2> DEFINE a == r[i - 1]
               c == r[i]
               b == blobs[i]
    <2>3. a \in Acc /\ b \in Blob /\ Takes(a, b, place, c)
      BY Zenon, <1>1, <2>1 DEF IsRun
    <2>4. InPlace(Placed(b, place))
      BY Zenon, <1>1 DEF Range
    <2>5. Ids(a.kept) \cup a.discarded = Old \cup Seen(i - 1) /\ \A e \in Range(a.kept) : InPlace(e)
      BY Zenon, <1>3
    <2> HIDE DEF Seen, Old, InPlace, a, b, c
    <2>6. Effect(a, b, place, c)
      BY Zenon, <2>3, TakesFacts
    <2>7. Seen(i) = Seen(i - 1) \cup {b.id}
      BY Zenon, <2>2 DEF b
    <2>8. Ids(c.kept) \cup c.discarded = Old \cup Seen(i)
      BY <2>5, <2>6, <2>7 DEF Effect
    <2>9. \A e \in Range(c.kept) : InPlace(e)
      BY Zenon, <2>4, <2>5, <2>6 DEF Effect
    <2> QED
      BY Zenon, <2>1, <2>8, <2>9 DEF c
  <1>4. n \in S
    <2> HIDE DEF S, n
    <2>1. 0..n \subseteq S
      BY Zenon, <1>1, <1>2, <1>3, UptoInduct
    <2> QED
      BY <1>1, <2>1
  <1>5. Seen(n) = Ids(blobs)
    BY Zenon, <1>1 DEF Ids, Range
  <1>6. res \in Acc
    BY <1>1
  <1> HIDE DEF Seen, Old
  <1>7. /\ Ids(res.kept) \cup res.discarded = Old \cup Ids(blobs)
        /\ \A b \in Range(res.kept) : InPlace(b)
    BY Zenon, <1>4, <1>5
  <1> QED
    BY Zenon, <1>6, <1>7 DEF Old, Keeps

\* No blob is there twice.
Distinct(blobs) == \A i, j \in DOMAIN blobs : i # j => blobs[i].id # blobs[j].id

\* No blob is both kept and discarded.
LEMMA RunSeparates ==
    ASSUME NEW acc \in Acc, acc.kept = <<>>, acc.discarded = {},
           NEW blobs \in Seq(Blob), Distinct(blobs), NEW place \in Escrows,
           NEW r, IsRun(r, acc, blobs, place), NEW res, res = r[Len(blobs)]
    PROVE  Ids(res.kept) \cap res.discarded = {}
  <1> DEFINE n == Len(blobs)
             Seen(i) == {blobs[j].id : j \in 1..i}
             S == {i \in 0..n : /\ Ids(r[i].kept) \cap r[i].discarded = {}
                                /\ Ids(r[i].kept) \cup r[i].discarded \subseteq Seen(i)}
  <1>1. /\ n \in Nat /\ DOMAIN blobs = 1..n /\ \A i \in 1..n : blobs[i] \in Blob
        /\ r[0] = acc /\ \A i \in 0..n : r[i] \in Acc
    BY DEF IsRun
  <1>2. 0 \in S
    <2>1. Ids(r[0].kept) = {} /\ r[0].discarded = {} /\ 0 \in 0..n
      BY <1>1 DEF Ids, Range
    <2> QED
      BY Zenon, <2>1
  <1>3. ASSUME NEW i \in 1..n, i - 1 \in S PROVE i \in S
    <2> DEFINE a == r[i - 1]
               c == r[i]
               b == blobs[i]
    <2>1. i \in 0..n /\ i - 1 \in 0..n /\ 1..i = 1..(i - 1) \cup {i} /\ i \notin 1..(i - 1)
          /\ \A j \in 1..(i - 1) : j \in 1..n
      BY <1>1
    <2>2. Seen(i) = Seen(i - 1) \cup {b.id}
      BY Zenon, <2>1
    <2>3. b.id \notin Seen(i - 1)
      BY Zenon, <1>1, <2>1 DEF Distinct
    <2>4. a \in Acc /\ b \in Blob /\ Takes(a, b, place, c)
      BY Zenon, <1>1, <2>1 DEF IsRun
    <2>5. Ids(a.kept) \cap a.discarded = {} /\ Ids(a.kept) \cup a.discarded \subseteq Seen(i - 1)
      BY Zenon, <1>3
    <2> HIDE DEF Seen, a, b, c
    <2>6. Effect(a, b, place, c)
      BY Zenon, <2>4, TakesFacts
    <2>7. Ids(c.kept) \cap c.discarded = {} /\ Ids(c.kept) \cup c.discarded \subseteq Seen(i)
      BY <2>2, <2>3, <2>5, <2>6 DEF Effect
    <2> QED
      BY Zenon, <2>1, <2>7 DEF c
  <1>4. n \in S
    <2> HIDE DEF S, n
    <2>1. 0..n \subseteq S
      BY Zenon, <1>1, <1>2, <1>3, UptoInduct
    <2> QED
      BY <1>1, <2>1
  <1> QED
    BY Zenon, <1>4

\* The kept blobs stay in the order of the DA layer.
LEMMA RunOrders ==
    ASSUME NEW acc \in Acc, InOrder(acc.kept),
           NEW blobs \in Seq(Blob), InOrder(blobs), AllBefore(acc.kept, blobs),
           NEW place \in Escrows,
           NEW r, IsRun(r, acc, blobs, place), NEW res, res = r[Len(blobs)]
    PROVE  InOrder(res.kept)
  <1> DEFINE n == Len(blobs)
             Ahead(b, i) == \A j \in 1..n : i < j => Before(b, blobs[j])
             S == {i \in 0..n : InOrder(r[i].kept) /\ \A b \in Range(r[i].kept) : Ahead(b, i)}
  <1>1. /\ n \in Nat /\ DOMAIN blobs = 1..n /\ \A i \in 1..n : blobs[i] \in Blob
        /\ r[0] = acc /\ \A i \in 0..n : r[i] \in Acc
    BY DEF IsRun
  <1>2. 0 \in S
    <2>1. ASSUME NEW b \in Range(acc.kept), NEW j \in 1..n PROVE Before(b, blobs[j])
      BY Zenon, <1>1 DEF AllBefore, Range
    <2>2. 0 \in 0..n
      BY <1>1
    <2> QED
      BY Zenon, <1>1, <2>1, <2>2
  <1>3. ASSUME NEW i \in 1..n, i - 1 \in S PROVE i \in S
    <2> DEFINE a == r[i - 1]
               c == r[i]
               b == blobs[i]
               p == Placed(b, place)
    <2>1. i \in 0..n /\ i - 1 \in 0..n /\ i - 1 < i /\ \A j \in 1..n : i < j => i - 1 < j
      BY <1>1
    <2>2. a \in Acc /\ b \in Blob /\ Takes(a, b, place, c)
      BY Zenon, <1>1, <2>1 DEF IsRun
    <2>3. InOrder(a.kept) /\ \A d \in Range(a.kept) : Ahead(d, i - 1)
      BY Zenon, <1>3
    <2>4. ASSUME NEW d \in Range(a.kept) PROVE Ahead(d, i) /\ Before(d, b)
      BY Zenon, <2>1, <2>3
    <2>5. Ahead(b, i)
      BY Zenon, <1>1 DEF InOrder
    <2>6. p \in Blob /\ p.id = b.id /\ p.slot = b.slot /\ p.shape = b.shape
      BY Zenon, <2>2, PlacedFacts
    <2>7. \A d : /\ Before(d, b) => Before(d, p)
                 /\ Before(b, d) => Before(p, d)
      <3> HIDE DEF p, b
      <3> QED
        BY <2>6 DEF Before
    <2>8. Ahead(p, i)
      BY Zenon, <2>5, <2>7
    <2> HIDE DEF Ahead, a, b, c, p
    <2>9. Effect(a, b, place, c)
      BY Zenon, <2>2, TakesFacts
    <2>10. a.kept \in Seq(Blob)
      BY <2>2 DEF Acc
    <2>11. InOrder(Append(a.kept, p))
      BY Zenon, <2>3, <2>4, <2>6, <2>7, <2>10, AppendFacts
    <2>12. InOrder(c.kept) /\ \A d \in Range(c.kept) : Ahead(d, i)
      BY Zenon, <2>3, <2>4, <2>8, <2>9, <2>11 DEF Effect, p
    <2> QED
      BY Zenon, <2>1, <2>12 DEF c
  <1>4. n \in S
    <2> HIDE DEF S, n
    <2>1. 0..n \subseteq S
      BY Zenon, <1>1, <1>2, <1>3, UptoInduct
    <2> QED
      BY <1>1, <2>1
  <1> QED
    BY Zenon, <1>4

-----------------------------------------------------------------------------
(* The size of blobs, and the room that is left.                           *)

\* The sizes of the prefixes.
Sizes(t, blobs) ==
    /\ t[0] = 0
    /\ \A i \in 1..Len(blobs) : t[i] = t[i - 1] + blobs[i].shape.size

\* The last of them is the size of the whole.
LEMMA SizesExist ==
    ASSUME NEW blobs \in Seq(Blob)
    PROVE  \E t \in [0..Len(blobs) -> Nat] : Sizes(t, blobs) /\ t[Len(blobs)] = TotalSize(blobs)
  <1> DEFINE n == Len(blobs)
             D == 1..n
             F == [p \in D \X Nat |-> p[2] + blobs[p[1]].shape.size]
             From(h, s) == IF s = {} THEN 0
                           ELSE h[s \ {Max(s)}] + blobs[Max(s)].shape.size
             it == CHOOSE h : h = [s \in SUBSET DOMAIN blobs |-> From(h, s)]
             t == [i \in 0..n |-> it[1..i]]
  <1>1. n \in Nat /\ DOMAIN blobs = D /\ \A i \in D : blobs[i].shape.size \in Nat
    BY ShapeType
  <1>2. F \in [D \X Nat -> Nat]
    BY <1>1
  <1>3. PICK g \in [SUBSET D -> Nat] : IsTable(g, n, 0, F)
    <2> HIDE DEF F, n
    <2> QED
      BY Zenon, <1>1, <1>2, TableExists, 0 \in Nat
  <1>4. ASSUME NEW s \in SUBSET D PROVE g[s] = From(g, s)
    BY Zenon, <1>1, <1>3, PositionSets DEF IsTable
  <1>5. it = [s \in SUBSET D |-> From(it, s)]
    <2> HIDE DEF From, n
    <2> QED
      BY Zenon, <1>1, <1>3, <1>4
  <1>6. TotalSize(blobs) = it[DOMAIN blobs]
    BY Zenon DEF TotalSize, FoldLeft, MapThenFoldSet
  <1> HIDE DEF it
  <1>7. it[{}] = 0
    BY Zenon, <1>5
  <1>8. ASSUME NEW i \in D PROVE it[1..i] = it[1..(i - 1)] + blobs[i].shape.size
    <2>1. /\ 1..i \in SUBSET D /\ 1..i # {}
          /\ Max(1..i) = i /\ (1..i) \ {Max(1..i)} = 1..(i - 1)
      BY Zenon, <1>1, PositionSets
    <2> QED
      BY Zenon, <1>5, <2>1
  <1>9. \A i \in 0..n : it[1..i] \in Nat
    <2>1. \A i \in D : it[1..(i - 1)] \in Nat => it[1..i] \in Nat
      <3> HIDE DEF n
      <3> QED
        BY <1>1, <1>8
    <2>2. it[{}] \in Nat
      BY <1>7
    <2> HIDE DEF n
    <2> QED
      BY Zenon, <1>1, <2>1, <2>2, PrefixesStay
  <1>10. t \in [0..n -> Nat]
    BY Zenon, <1>9
  <1>11. t[0] = 0 /\ t[n] = it[D]
    BY <1>1, <1>7, 1..0 = {}
  <1>12. ASSUME NEW i \in D PROVE t[i] = t[i - 1] + blobs[i].shape.size
    <2>1. i \in 0..n /\ i - 1 \in 0..n
      BY <1>1
    <2> QED
      BY Zenon, <1>8, <2>1
  <1> HIDE DEF t
  <1>13. Sizes(t, blobs)
    BY Zenon, <1>11, <1>12 DEF Sizes
  <1> QED
    BY Zenon, <1>1, <1>6, <1>10, <1>11, <1>13

\* One blob more adds its size; no blobs have none.
LEMMA SizeOfAppend ==
    ASSUME NEW blobs \in Seq(Blob), NEW b \in Blob
    PROVE  /\ TotalSize(blobs) \in Nat
           /\ TotalSize(Append(blobs, b)) = TotalSize(blobs) + b.shape.size
  <1> DEFINE n == Len(blobs)
             all == Append(blobs, b)
  <1>1. /\ n \in Nat /\ all \in Seq(Blob) /\ Len(all) = n + 1 /\ all[n + 1] = b
        /\ \A i \in 1..n : all[i] = blobs[i]
    OBVIOUS
  <1>2. PICK t \in [0..n -> Nat] : Sizes(t, blobs) /\ t[n] = TotalSize(blobs)
    BY Zenon, SizesExist
  <1> HIDE DEF n, all
  <1>3. PICK u \in [0..(n + 1) -> Nat] : Sizes(u, all) /\ u[n + 1] = TotalSize(all)
    <2>1. \E u \in [0..Len(all) -> Nat] : Sizes(u, all) /\ u[Len(all)] = TotalSize(all)
      BY Zenon, <1>1, SizesExist
    <2> QED
      BY Zenon, <1>1, <2>1
  <1> DEFINE S == {i \in 0..n : t[i] = u[i]}
  <1>4. 0 \in S
    BY <1>1, <1>2, <1>3 DEF Sizes
  <1>5. ASSUME NEW i \in 1..n, i - 1 \in S PROVE i \in S
    <2>1. i \in 0..n /\ i \in 1..(n + 1) /\ all[i] = blobs[i]
      BY <1>1
    <2>2. t[i] = t[i - 1] + blobs[i].shape.size
      BY Zenon, <1>2 DEF Sizes, n
    <2>3. u[i] = u[i - 1] + all[i].shape.size
      BY Zenon, <1>1, <1>3, <2>1 DEF Sizes
    <2> QED
      BY Zenon, <1>5, <2>1, <2>2, <2>3
  <1>6. n \in S
    <2> HIDE DEF S
    <2>1. 0..n \subseteq S
      BY Zenon, <1>1, <1>4, <1>5, UptoInduct
    <2> QED
      BY <1>1, <2>1
  <1>7. u[n + 1] = u[n] + b.shape.size
    <2>1. n + 1 \in 1..(n + 1) /\ (n + 1) - 1 = n
      BY <1>1
    <2> QED
      BY Zenon, <1>1, <1>3, <2>1 DEF Sizes
  <1>8. TotalSize(blobs) \in Nat
    BY <1>1, <1>2
  <1> QED
    BY Zenon, <1>2, <1>3, <1>6, <1>7, <1>8 DEF all

LEMMA SizeOfNone == TotalSize(<<>>) = 0
  <1>1. <<>> \in Seq(Blob) /\ Len(<<>>) = 0
    OBVIOUS
  <1> QED
    BY Zenon, <1>1, SizesExist DEF Sizes

\* The room and the kept blobs together are what they were.
LEMMA RunFits ==
    ASSUME NEW acc \in Acc, NEW blobs \in Seq(Blob), NEW place \in Escrows,
           NEW r, IsRun(r, acc, blobs, place), NEW res, res = r[Len(blobs)]
    PROVE  TotalSize(res.kept) + res.room = TotalSize(acc.kept) + acc.room
  <1> DEFINE n == Len(blobs)
             S == {i \in 0..n : TotalSize(r[i].kept) + r[i].room = TotalSize(acc.kept) + acc.room}
  <1>1. /\ n \in Nat /\ \A i \in 1..n : blobs[i] \in Blob
        /\ r[0] = acc /\ \A i \in 0..n : r[i] \in Acc
    BY DEF IsRun
  <1>2. 0 \in S
    BY <1>1
  <1>3. ASSUME NEW i \in 1..n, i - 1 \in S PROVE i \in S
    <2> DEFINE a == r[i - 1]
               c == r[i]
               b == blobs[i]
               p == Placed(b, place)
    <2>1. i \in 0..n /\ i - 1 \in 0..n
      BY <1>1
    <2>2. a \in Acc /\ b \in Blob /\ Takes(a, b, place, c)
      BY Zenon, <1>1, <2>1 DEF IsRun
    <2>3. p \in Blob /\ p.shape = b.shape
      BY Zenon, <2>2, PlacedFacts
    <2>4. TotalSize(a.kept) + a.room = TotalSize(acc.kept) + acc.room
      BY Zenon, <1>3
    <2> HIDE DEF a, b, c, p
    <2>5. a.kept \in Seq(Blob) /\ a.room \in Nat
      BY <2>2 DEF Acc
    <2>6. b.shape.size \in Nat
      BY <2>2, ShapeType
    <2>7. /\ TotalSize(a.kept) \in Nat
          /\ TotalSize(Append(a.kept, p)) = TotalSize(a.kept) + b.shape.size
      BY Zenon, <2>3, <2>5, SizeOfAppend
    <2>8. \/ c.kept = Append(a.kept, p) /\ c.room = a.room - b.shape.size
          \/ c.kept = a.kept /\ c.room = a.room
      BY Zenon, <2>2 DEF Takes, p
    <2>9. TotalSize(c.kept) + c.room = TotalSize(a.kept) + a.room
      <3> DEFINE size == TotalSize(a.kept)
      <3>1. CASE c.kept = Append(a.kept, p) /\ c.room = a.room - b.shape.size
        <4>1. TotalSize(c.kept) = size + b.shape.size /\ size \in Nat
          BY Zenon, <2>7, <3>1
        <4> HIDE DEF size
        <4>2. TotalSize(c.kept) + c.room = size + a.room
          BY <2>5, <2>6, <3>1, <4>1
        <4> QED
          BY Zenon, <4>2 DEF size
      <3>2. CASE c.kept = a.kept /\ c.room = a.room
        BY Zenon, <3>2
      <3> QED
        BY Zenon, <2>8, <3>1, <3>2
    <2> QED
      BY Zenon, <2>1, <2>4, <2>9 DEF c
  <1>4. n \in S
    <2> HIDE DEF S, n
    <2>1. 0..n \subseteq S
      BY Zenon, <1>1, <1>2, <1>3, UptoInduct
    <2> QED
      BY <1>1, <2>1
  <1> QED
    BY Zenon, <1>4
-----------------------------------------------------------------------------
(* Sequences of blobs.                                                     *)

\* The blobs of a sequence of sequences, in order.
Flatten(q) == FoldLeft(LAMBDA a, b : a \o b, <<>>, q)

LEMMA FlattenFacts ==
    ASSUME NEW n \in Nat, NEW q \in [1..n -> Seq(Blob)],
           \A i \in 1..n : InOrder(q[i]),
           \A i, j \in 1..n : i < j => AllBefore(q[i], q[j])
    PROVE  /\ Flatten(q) \in Seq(Blob)
           /\ Range(Flatten(q)) = UNION {Range(q[i]) : i \in 1..n}
           /\ InOrder(Flatten(q))
  <1> DEFINE D == 1..n
             F == [p \in D \X Seq(Blob) |-> p[2] \o q[p[1]]]
             From(h, s) == IF s = {} THEN <<>> ELSE h[s \ {Max(s)}] \o q[Max(s)]
             it == CHOOSE h : h = [s \in SUBSET DOMAIN q |-> From(h, s)]
  <1>1. DOMAIN q = D /\ \A i \in D : q[i] \in Seq(Blob)
    OBVIOUS
  <1>2. F \in [D \X Seq(Blob) -> Seq(Blob)] /\ <<>> \in Seq(Blob)
    BY <1>1
  <1>3. PICK g \in [SUBSET D -> Seq(Blob)] : IsTable(g, n, <<>>, F)
    <2> HIDE DEF F
    <2> QED
      BY Zenon, <1>2, TableExists
  <1>4. ASSUME NEW s \in SUBSET D PROVE g[s] = From(g, s)
    BY Zenon, <1>3, PositionSets DEF IsTable
  <1>5. it = [s \in SUBSET D |-> From(it, s)]
    <2> HIDE DEF From
    <2> QED
      BY Zenon, <1>1, <1>3, <1>4
  <1>6. Flatten(q) = it[DOMAIN q]
    BY Zenon DEF Flatten, FoldLeft, MapThenFoldSet
  <1> HIDE DEF it
  <1>7. it[{}] = <<>>
    BY Zenon, <1>5
  <1>8. ASSUME NEW i \in D PROVE it[1..i] = it[1..(i - 1)] \o q[i]
    <2>1. /\ 1..i \in SUBSET D /\ 1..i # {}
          /\ Max(1..i) = i /\ (1..i) \ {Max(1..i)} = 1..(i - 1)
      BY Zenon, PositionSets
    <2> QED
      BY Zenon, <1>5, <2>1
  <1> DEFINE Upto(i) == UNION {Range(q[j]) : j \in 1..i}
             S == {i \in 0..n : /\ it[1..i] \in Seq(Blob) /\ InOrder(it[1..i])
                                /\ Range(it[1..i]) = Upto(i)}
  <1>9. 0 \in S
    <2>1. 1..0 = {} /\ 0 \in 0..n
      OBVIOUS
    <2>2. <<>> \in Seq(Blob) /\ Range(<<>>) = {} /\ InOrder(<<>>)
      BY DEF Range, InOrder
    <2> QED
      BY Zenon, <1>7, <2>1, <2>2
  <1>10. ASSUME NEW i \in D, i - 1 \in S PROVE i \in S
    <2> DEFINE s == it[1..(i - 1)]
    <2>1. i \in 0..n /\ 1..i = 1..(i - 1) \cup {i} /\ \A j \in 1..(i - 1) : j \in D /\ j < i
      OBVIOUS
    <2>2. s \in Seq(Blob) /\ InOrder(s) /\ Range(s) = Upto(i - 1)
      BY Zenon, <1>10
    <2>3. AllBefore(s, q[i])
      <3>1. ASSUME NEW b \in Range(s), NEW d \in Range(q[i]) PROVE Before(b, d)
        <4>1. PICK j \in 1..(i - 1) : b \in Range(q[j])
          BY Zenon, <2>2
        <4>2. AllBefore(q[j], q[i])
          BY Zenon, <2>1
        <4> QED
          BY Zenon, <4>1, <4>2 DEF AllBefore
      <3> QED
        BY Zenon, <3>1 DEF AllBefore
    <2>4. /\ s \o q[i] \in Seq(Blob) /\ InOrder(s \o q[i])
          /\ Range(s \o q[i]) = Range(s) \cup Range(q[i])
      <3> HIDE DEF s
      <3> QED
        BY Zenon, <2>2, <2>3, ConcatFacts
    <2>5. ASSUME NEW x PROVE x \in Upto(i) <=> x \in Upto(i - 1) \/ x \in Range(q[i])
      BY Zenon, <2>1
    <2> HIDE DEF Upto
    <2>6. Range(s \o q[i]) = Upto(i)
      BY Zenon, <2>2, <2>4, <2>5
    <2> QED
      BY Zenon, <1>8, <2>1, <2>4, <2>6
  <1>11. n \in S
    <2> HIDE DEF S
    <2>1. 0..n \subseteq S
      BY Zenon, <1>9, <1>10, UptoInduct
    <2> QED
      BY <2>1
  <1> QED
    BY Zenon, <1>1, <1>6, <1>11

-----------------------------------------------------------------------------
(* The blobs of a DA block.                                                *)

\* The blobs of one kind, in the order of their positions.
LEMMA OfKindFacts ==
    ASSUME NEW blobs \in Seq(Blob), NEW proof \in BOOLEAN, NEW slot, NEW k \in Nat,
           \A i \in 1..Len(blobs) : blobs[i].id = k + i /\ blobs[i].slot = slot
    PROVE  /\ OfKind(blobs, proof) \in Seq(Blob)
           /\ Range(OfKind(blobs, proof)) = {b \in Range(blobs) : b.shape.proof = proof}
           /\ InOrder(OfKind(blobs, proof))
  <1> DEFINE n == Len(blobs)
             D == 1..n
             Step(a, b) == IF b.shape.proof = proof THEN Append(a, b) ELSE a
             F == [p \in D \X Seq(Blob) |-> Step(p[2], blobs[p[1]])]
             From(h, s) == IF s = {} THEN <<>> ELSE Step(h[s \ {Max(s)}], blobs[Max(s)])
             it == CHOOSE h : h = [s \in SUBSET DOMAIN blobs |-> From(h, s)]
  <1>1. n \in Nat /\ DOMAIN blobs = D /\ \A i \in D : blobs[i] \in Blob
    OBVIOUS
  <1>2. F \in [D \X Seq(Blob) -> Seq(Blob)] /\ <<>> \in Seq(Blob)
    BY <1>1
  <1>3. PICK g \in [SUBSET D -> Seq(Blob)] : IsTable(g, n, <<>>, F)
    <2> HIDE DEF F, n
    <2> QED
      BY Zenon, <1>1, <1>2, TableExists
  <1>4. ASSUME NEW s \in SUBSET D PROVE g[s] = From(g, s)
    BY Zenon, <1>1, <1>3, PositionSets DEF IsTable
  <1>5. it = [s \in SUBSET D |-> From(it, s)]
    <2> HIDE DEF From, n
    <2> QED
      BY Zenon, <1>1, <1>3, <1>4
  <1>6. OfKind(blobs, proof) = it[DOMAIN blobs]
    BY Zenon DEF OfKind, FoldLeft, MapThenFoldSet
  <1> HIDE DEF it
  <1>7. it[{}] = <<>>
    BY Zenon, <1>5
  <1>8. ASSUME NEW i \in D PROVE it[1..i] = Step(it[1..(i - 1)], blobs[i])
    <2>1. /\ 1..i \in SUBSET D /\ 1..i # {}
          /\ Max(1..i) = i /\ (1..i) \ {Max(1..i)} = 1..(i - 1)
      BY Zenon, <1>1, PositionSets
    <2> QED
      BY Zenon, <1>5, <2>1
  <1> DEFINE Chosen(i) == {b \in {blobs[j] : j \in 1..i} : b.shape.proof = proof}
             S == {i \in 0..n : /\ it[1..i] \in Seq(Blob) /\ InOrder(it[1..i])
                                /\ Range(it[1..i]) = Chosen(i)}
  <1>9. 0 \in S
    <2>1. 1..0 = {} /\ 0 \in 0..n
      BY <1>1
    <2>2. <<>> \in Seq(Blob) /\ Range(<<>>) = {} /\ InOrder(<<>>)
      BY DEF Range, InOrder
    <2> QED
      BY Zenon, <1>7, <2>1, <2>2
  <1>10. ASSUME NEW i \in D, i - 1 \in S PROVE i \in S
    <2> DEFINE a == it[1..(i - 1)]
               b == blobs[i]
    <2>1. i \in 0..n /\ i - 1 \in 0..n /\ 1..i = 1..(i - 1) \cup {i}
          /\ \A j \in 1..(i - 1) : j \in D /\ k + j < k + i
      BY <1>1
    <2>2. a \in Seq(Blob) /\ InOrder(a) /\ Range(a) = Chosen(i - 1) /\ b \in Blob
      BY Zenon, <1>1, <1>10
    <2>3. CASE b.shape.proof = proof
      <3>1. it[1..i] = Append(a, b)
        BY Zenon, <1>8, <2>3
      <3>2. Chosen(i) = Chosen(i - 1) \cup {b}
        BY Zenon, <2>1, <2>3
      <3>3. ASSUME NEW d \in Range(a) PROVE Before(d, b)
        <4>1. PICK j \in 1..(i - 1) : d = blobs[j] /\ d.shape.proof = proof
          BY Zenon, <2>2
        <4>2. j \in D /\ k + j < k + i
          BY Zenon, <2>1
        <4>3. d.id = k + j /\ d.slot = slot /\ b.id = k + i /\ b.slot = slot
          BY Zenon, <4>1, <4>2
        <4> QED
          BY Zenon, <2>3, <4>1, <4>2, <4>3 DEF Before
      <3> HIDE DEF Chosen, a, b
      <3>4. /\ Append(a, b) \in Seq(Blob) /\ InOrder(Append(a, b))
            /\ Range(Append(a, b)) = Range(a) \cup {b}
        <4>1. Append(a, b) \in Seq(Blob)
          BY <2>2
        <4> QED
          BY Zenon, <2>2, <3>3, <4>1, AppendFacts
      <3> QED
        BY Zenon, <2>1, <2>2, <3>1, <3>2, <3>4
    <2>4. CASE b.shape.proof # proof
      <3>1. it[1..i] = a
        BY Zenon, <1>8, <2>4
      <3>2. Chosen(i) = Chosen(i - 1)
        BY Zenon, <2>1, <2>4
      <3> HIDE DEF Chosen
      <3> QED
        BY Zenon, <2>1, <2>2, <3>1, <3>2
    <2> QED
      BY Zenon, <2>3, <2>4
  <1>11. n \in S
    <2> HIDE DEF S, n
    <2>1. 0..n \subseteq S
      BY Zenon, <1>1, <1>9, <1>10, UptoInduct
    <2> QED
      BY <1>1, <2>1
  <1>12. Chosen(n) = {b \in Range(blobs) : b.shape.proof = proof}
    BY Zenon, <1>1 DEF Range
  <1> HIDE DEF Chosen
  <1> QED
    BY Zenon, <1>1, <1>6, <1>11, <1>12

\* A DA block brings blobs of its own slot, batches first, with nothing in escrow.
LEMMA IncomingFacts ==
    ASSUME trueSlot \in Nat, arrived \in Nat, NEW shapes \in Arrivals
    PROVE  /\ Len(shapes) \in Nat
           /\ Incoming(shapes) \in Seq(Blob)
           /\ InOrder(Incoming(shapes)) /\ Distinct(Incoming(shapes))
           /\ Ids(Incoming(shapes)) = (arrived + 1)..(arrived + Len(shapes))
           /\ \A b \in Range(Incoming(shapes)) : b.slot = trueSlot + 1 /\ b.escrow = "none"
  <1> DEFINE n == Len(shapes)
             blob(i) == [id |-> arrived + i, slot |-> trueSlot + 1,
                         shape |-> shapes[i], escrow |-> "none"]
             blobs == [i \in DOMAIN shapes |-> blob(i)]
             batches == OfKind(blobs, FALSE)
             proofs == OfKind(blobs, TRUE)
             all == batches \o proofs
  <1>1. n \in Nat /\ DOMAIN shapes = 1..n /\ \A i \in 1..n : shapes[i] \in Shapes
    BY SizeAssumption DEF Arrivals
  <1>2. ASSUME NEW i \in 1..n
        PROVE  blob(i) \in Blob /\ blob(i).id = arrived + i /\ blob(i).slot = trueSlot + 1
               /\ blob(i).escrow = "none"
    BY <1>1 DEF Blob, Escrows
  <1>3. blobs \in [1..n -> Blob] /\ \A i \in 1..n : blobs[i] = blob(i)
    <2> HIDE DEF blob
    <2> QED
      BY Zenon, <1>1, <1>2
  <1> HIDE DEF n, blob, blobs
  <1>4. blobs \in Seq(Blob) /\ Len(blobs) = n /\ DOMAIN blobs = 1..n
    BY <1>1, <1>3
  <1>5. \A i \in 1..Len(blobs) : blobs[i].id = arrived + i /\ blobs[i].slot = trueSlot + 1
    BY Zenon, <1>2, <1>3, <1>4
  <1>6. /\ batches \in Seq(Blob) /\ proofs \in Seq(Blob) /\ InOrder(batches) /\ InOrder(proofs)
        /\ Range(batches) = {b \in Range(blobs) : b.shape.proof = FALSE}
        /\ Range(proofs) = {b \in Range(blobs) : b.shape.proof = TRUE}
    BY Zenon, <1>4, <1>5, OfKindFacts, TRUE \in BOOLEAN, FALSE \in BOOLEAN
  <1> HIDE DEF batches, proofs
  <1>7. ASSUME NEW b \in Range(blobs)
        PROVE  /\ b \in Blob /\ b.slot = trueSlot + 1 /\ b.escrow = "none"
               /\ \E i \in 1..n : b = blobs[i] /\ b.id = arrived + i
    <2>1. PICK i \in 1..n : b = blobs[i]
      BY Zenon, <1>4 DEF Range
    <2>2. b = blob(i)
      BY Zenon, <1>3, <2>1
    <2> QED
      BY Zenon, <1>2, <2>1, <2>2
  <1>8. AllBefore(batches, proofs)
    <2>1. ASSUME NEW b \in Range(batches), NEW d \in Range(proofs) PROVE Before(b, d)
      BY Zenon, <1>6, <1>7 DEF Before
    <2> QED
      BY Zenon, <2>1 DEF AllBefore
  <1>9. /\ all \in Seq(Blob) /\ InOrder(all)
        /\ Range(all) = Range(batches) \cup Range(proofs)
    BY Zenon, <1>6, <1>8, ConcatFacts
  <1> HIDE DEF all
  <1>10. Range(all) = Range(blobs)
    <2>1. ASSUME NEW b \in Range(blobs) PROVE b.shape.proof = TRUE \/ b.shape.proof = FALSE
      BY <1>7, ShapeType
    <2> QED
      BY Zenon, <1>6, <1>9, <2>1
  <1>11. Ids(all) = (arrived + 1)..(arrived + n)
    <2>1. \A i \in 1..n : arrived + i \in (arrived + 1)..(arrived + n)
      BY <1>1
    <2>2. \A k \in (arrived + 1)..(arrived + n) :
            k - arrived \in 1..n /\ arrived + (k - arrived) = k
      BY <1>1
    <2>3. \A i \in 1..n : blobs[i] \in Range(all) /\ blobs[i].id = arrived + i
      BY Zenon, <1>4, <1>5, <1>10 DEF Range
    <2>4. ASSUME NEW k \in Ids(all) PROVE k \in (arrived + 1)..(arrived + n)
      <3>1. PICK b \in Range(blobs) : k = b.id
        BY Zenon, <1>10 DEF Ids
      <3>2. PICK i \in 1..n : b.id = arrived + i
        BY Zenon, <1>7
      <3> QED
        BY Zenon, <2>1, <3>1, <3>2
    <2>5. ASSUME NEW k \in (arrived + 1)..(arrived + n) PROVE k \in Ids(all)
      BY Zenon, <2>2, <2>3 DEF Ids
    <2> QED
      BY Zenon, <2>4, <2>5
  <1>12. ASSUME NEW i \in DOMAIN all, NEW j \in DOMAIN all, i < j PROVE all[i].id # all[j].id
    <2>1. all[i] \in Range(blobs) /\ all[j] \in Range(blobs) /\ Before(all[i], all[j])
      BY Zenon, <1>9, <1>10, <1>12 DEF Range, InOrder
    <2>2. all[i].slot = trueSlot + 1 /\ all[j].slot = trueSlot + 1
          /\ all[i] \in Blob /\ all[j] \in Blob
      BY Zenon, <1>7, <2>1
    <2>3. PICK k \in 1..n : all[i] = blobs[k] /\ all[i].id = arrived + k
      BY Zenon, <1>7, <2>1
    <2>4. PICK l \in 1..n : all[j] = blobs[l] /\ all[j].id = arrived + l
      BY Zenon, <1>7, <2>1
    <2>5. all[i].id = all[j].id => all[i] = all[j]
      <3>1. arrived + k = arrived + l => k = l
        BY <1>1
      <3> QED
        BY Zenon, <2>3, <2>4, <3>1
    <2>6. ~Before(all[i], all[i])
      BY <2>2, ShapeType DEF Before
    <2> QED
      BY Zenon, <2>1, <2>5, <2>6
  <1>13. Distinct(all)
    <2>1. \A i, j \in DOMAIN all : i # j => i < j \/ j < i
      BY <1>9
    <2> QED
      BY Zenon, <1>12, <2>1 DEF Distinct
  <1>14. Incoming(shapes) = all
    BY Zenon DEF Incoming, all, batches, proofs, blobs, blob
  <1> QED
    BY Zenon, <1>1, <1>7, <1>9, <1>10, <1>11, <1>13, <1>14 DEF n

-----------------------------------------------------------------------------
(* The slot numbers.                                                       *)

SlotInv ==
    /\ trueSlot \in Nat /\ visible \in Nat
    /\ visible <= trueSlot
    /\ trueSlot - visible < Clock!Lag

\* Only slots that are true and not yet visible hold blobs.
WaitInv ==
    /\ DOMAIN deferred = Slots
    /\ \A s \in Slots : deferred[s] # <<>> => visible < s /\ s <= trueSlot

IInv == SlotInv /\ WaitInv

\* What a slot does to the slot numbers and to the stored blobs.
Moves(increase) ==
    /\ Advance(increase)
    /\ increase \in Nat
    /\ visible + increase <= trueSlot + 1
    /\ trueSlot + 1 - (visible + increase) < Clock!Lag

Stores(increase) ==
    \/ deferred' = TakeSlots(increase, deferred)
    \/ \E blobs : deferred' = TakeSlots(increase, StoreBatches(blobs))

\* However the preferred sequencer chooses, the visible slot number does not
\* pass the true one and does not fall behind.
LEMMA IncreaseInRange ==
    ASSUME SlotInv, DEFERRED_SLOTS_COUNT > 0, NEW run \in BOOLEAN,
           NEW requested \in 1..MAX_VISIBLE_HEIGHT_INCREASE_PER_SLOT
    PROVE  /\ VisibleIncrease(run, requested) \in Nat
           /\ visible + VisibleIncrease(run, requested) <= trueSlot + 1
           /\ trueSlot + 1 - (visible + VisibleIncrease(run, requested)) < Clock!Lag
  <1> DEFINE gap == trueSlot + 1 - visible
             most == MAX_VISIBLE_HEIGHT_INCREASE_PER_SLOT
             limit == Lesser(gap, most)
             chosen == Lesser(requested, limit)
  <1>1. gap \in Int /\ gap >= 1 /\ most \in Int /\ most >= 1
        /\ requested \in Int /\ requested >= 1
    BY SlotAssumption DEF SlotInv
  <1>2. limit \in Int /\ limit >= 1 /\ limit <= gap
    <2> HIDE DEF gap, most
    <2> QED
      BY <1>1 DEF Lesser
  <1>3. chosen \in Int /\ chosen >= 1 /\ chosen <= limit
    <2> HIDE DEF limit
    <2> QED
      BY <1>1, <1>2 DEF Lesser
  <1>4. Clock!Lag = DEFERRED_SLOTS_COUNT
    BY SlotAssumption DEF Clock!Lag
  <1>5. VisibleIncrease(run, requested) =
          IF run THEN chosen ELSE IF visible + DEFERRED_SLOTS_COUNT <= trueSlot + 1 THEN 1 ELSE 0
    BY DEF VisibleIncrease
  <1> HIDE DEF chosen, limit
  <1>6. CASE run
    BY <1>2, <1>3, <1>4, <1>5, <1>6, SlotAssumption DEF SlotInv
  <1>7. CASE ~run
    BY <1>4, <1>5, <1>7, SlotAssumption DEF SlotInv
  <1> QED
    BY <1>6, <1>7

\* The steps of one slot, by the way its blobs are selected.
LEMMA BasedMoves ==
    ASSUME IInv, NEW shapes, BasedSlot(shapes)
    PROVE  Moves(trueSlot + 1 - visible) /\ UNCHANGED deferred
  BY SlotAssumption DEF IInv, SlotInv, BasedSlot, Moves, Advance, Clock!Lag

LEMMA RecoveryLastMoves ==
    ASSUME IInv, NEW shapes, RecoveryLastSlot(shapes)
    PROVE  Moves(1) /\ Stores(1)
  BY SlotAssumption DEF IInv, SlotInv, RecoveryLastSlot, Moves, Stores, Advance, Clock!Lag

LEMMA RecoveryMoves ==
    ASSUME IInv, NEW shapes, NEW short, RecoverySlot(shapes, short)
    PROVE  Moves(2) /\ Stores(2)
  <1>1. Moves(2)
    BY SlotAssumption DEF IInv, SlotInv, RecoverySlot, Moves, Advance, Clock!Lag
  <1>2. Stores(2)
    BY Zenon DEF RecoverySlot, Stores
  <1> QED
    BY <1>1, <1>2

LEMMA PreferredMoves ==
    ASSUME IInv, NEW copies, NEW malformed, NEW shapes, NEW short,
           NEW requested \in 1..MAX_VISIBLE_HEIGHT_INCREASE_PER_SLOT,
           PreferredSlot(copies, malformed, requested, shapes, short)
    PROVE  \E increase : Moves(increase) /\ Stores(increase)
  <1> DEFINE run == HasRun(next, copies, index, batch)
             increase == VisibleIncrease(run, requested)
  <1>1. DEFERRED_SLOTS_COUNT > 0 /\ Advance(increase) /\ SelectOthers(shapes, increase, short)
    BY DEF PreferredSlot, HasPreferred
  <1>2. run \in BOOLEAN
    BY DEF HasRun
  <1>3. Moves(increase)
    <2> HIDE DEF run
    <2> QED
      BY <1>1, <1>2, IncreaseInRange DEF IInv, Moves
  <1>4. Stores(increase)
    <2> HIDE DEF increase
    <2> QED
      BY <1>1 DEF SelectOthers, Stores
  <1> QED
    BY <1>3, <1>4

\* A slot is stored for at the top and taken from at the bottom.
LEMMA MovesIInv ==
    ASSUME IInv, NEW increase, Moves(increase),
           \/ Stores(increase)
           \/ UNCHANGED deferred /\ increase = trueSlot + 1 - visible /\ visible = trueSlot
    PROVE  IInv'
  <1>1. /\ trueSlot' = trueSlot + 1 /\ visible' = visible + increase
        /\ increase \in Nat /\ trueSlot \in Nat /\ visible \in Nat
    BY DEF Moves, Advance, IInv, SlotInv
  <1>2. SlotInv'
    <2>1. trueSlot' - visible' < Clock!Lag
      BY <1>1 DEF Moves
    <2>2. (Clock!Lag)' = Clock!Lag
      BY DEF Clock!Lag
    <2>3. trueSlot' \in Nat /\ visible' \in Nat /\ visible' <= trueSlot'
      BY <1>1 DEF Moves
    <2> QED
      BY <2>1, <2>2, <2>3 DEF SlotInv
  <1>3. ASSUME NEW s \in Slots, deferred'[s] # <<>>, Stores(increase)
        PROVE  visible' < s /\ s <= trueSlot'
    <2>1. s \in Int
      BY SlotAssumption DEF Slots
    <2>2. s \notin (visible + 1)..(visible + increase)
      BY <1>3 DEF Stores, TakeSlots
    <2>3. deferred[s] # <<>> \/ s = trueSlot + 1
      BY <1>3, <2>2 DEF Stores, TakeSlots, StoreBatches, IInv, WaitInv
    <2>4. visible < s /\ s <= trueSlot + 1
      BY <1>1, <2>1, <2>3 DEF IInv, WaitInv, SlotInv
    <2> QED
      BY <1>1, <2>1, <2>2, <2>4
  <1>4. CASE Stores(increase)
    <2>1. DOMAIN deferred' = Slots
      BY <1>4 DEF Stores, TakeSlots
    <2> QED
      BY <1>2, <1>3, <1>4, <2>1 DEF IInv, WaitInv
  <1>5. CASE UNCHANGED deferred /\ visible = trueSlot
    <2>1. ASSUME NEW s \in Slots PROVE deferred[s] = <<>>
      <3>1. s \in Int
        BY SlotAssumption DEF Slots
      <3> QED
        BY <1>1, <1>5, <3>1 DEF IInv, WaitInv
    <2> QED
      BY Zenon, <1>2, <1>5, <2>1 DEF IInv, WaitInv
  <1> QED
    BY <1>4, <1>5

LEMMA InitIInv == Init => IInv
  BY SlotAssumption DEF Init, IInv, SlotInv, WaitInv, Clock!Lag

\* Every step is a slot that moves the clock, or leaves slots and blobs alone.
LEMMA StepMoves ==
    ASSUME IInv, [Next]_vars
    PROVE  \/ UNCHANGED <<trueSlot, visible, deferred>>
           \/ \E increase :
                 /\ Moves(increase)
                 /\ \/ Stores(increase)
                    \/ UNCHANGED deferred /\ increase = trueSlot + 1 - visible /\ visible = trueSlot
  <1>1. ASSUME NEW shapes, BasedSlot(shapes)
        PROVE  Moves(trueSlot + 1 - visible) /\ UNCHANGED deferred /\ visible = trueSlot
    <2>1. visible = trueSlot
      BY <1>1 DEF BasedSlot, IInv, SlotInv, Clock!Lag
    <2> QED
      BY <1>1, <2>1, BasedMoves
  <1>2. CASE InitiateWithdrawal \/ Withdraw \/ Deposit \/ Register
    BY <1>2 DEF InitiateWithdrawal, Withdraw, Deposit, Register, slotVars, blobVars
  <1>3. CASE UNCHANGED vars
    BY <1>3 DEF vars, slotVars, blobVars
  <1>4. CASE Next
    BY ZenonT(40), <1>1, <1>2, <1>4, RecoveryLastMoves, RecoveryMoves, PreferredMoves DEF Next
  <1> QED
    BY <1>3, <1>4

LEMMA Inductive == IInv /\ [Next]_vars => IInv'
  <1> SUFFICES ASSUME IInv, [Next]_vars PROVE IInv'
    OBVIOUS
  <1>1. CASE UNCHANGED <<trueSlot, visible, deferred>>
    BY <1>1, Zenon DEF IInv, SlotInv, WaitInv, Clock!Lag
  <1> QED
    BY <1>1, StepMoves, MovesIInv

LEMMA Invariance == Spec => []IInv
  BY InitIInv, Inductive, PTL DEF Spec
-----------------------------------------------------------------------------
\* A deferred blob waits for fewer than DEFERRED_SLOTS_COUNT slots, whatever
\* the preferred sequencer posts, requests or omits.
THEOREM DeferralIsBounded == Spec => []NeverOverdue
  <1>1. IInv => NeverOverdue
    <2> SUFFICES ASSUME IInv, NEW s \in Slots, deferred[s] # <<>>
                 PROVE  visible < s /\ s <= trueSlot /\ trueSlot - s < DEFERRED_SLOTS_COUNT
      BY DEF NeverOverdue
    <2>1. s \in Int /\ visible < s /\ s <= trueSlot
      BY SlotAssumption DEF Slots, IInv, WaitInv
    <2>2. trueSlot \in Nat /\ visible \in Nat /\ trueSlot - visible < Clock!Lag
      BY DEF IInv, SlotInv
    <2> QED
      BY <2>1, <2>2, SlotAssumption DEF Clock!Lag
  <1> QED
    BY <1>1, Invariance, PTL

\* The slot numbers of blob selection implement SlotClock: every DA block is
\* one tick, and the calls of the registry stutter.
THEOREM SlotsImplementClock == Spec => ImplementsClock
  <1>1. Init => Clock!Init
    BY DEF Init, Clock!Init
  <1>2. IInv /\ [Next]_vars => [Clock!Tick]_<<trueSlot, visible>>
    <2> SUFFICES ASSUME IInv, [Next]_vars PROVE [Clock!Tick]_<<trueSlot, visible>>
      OBVIOUS
    <2>1. ASSUME NEW increase, Moves(increase) PROVE Clock!Tick
      <3>1. trueSlot \in Nat /\ visible \in Nat /\ increase \in Nat
        BY <2>1 DEF Moves, IInv, SlotInv
      <3>2. trueSlot' = trueSlot + 1 /\ visible' = visible + increase
        BY <2>1 DEF Moves, Advance
      <3>3. trueSlot' - visible' < Clock!Lag
        BY <2>1, <3>1, <3>2 DEF Moves
      <3>4. visible' \in visible..trueSlot'
        BY <2>1, <3>1, <3>2 DEF Moves
      <3> QED
        BY <3>2, <3>3, <3>4 DEF Clock!Tick
    <2> QED
      BY <2>1, StepMoves
  <1> QED
    BY <1>1, <1>2, Invariance, PTL DEF Spec, ImplementsClock, Clock!Spec

\* Without a preferred sequencer every slot brings the visible slot number one
\* closer to the true one until they are equal.
THEOREM RecoveryCatchesUp == Spec => RecoveryGains
  <1> DEFINE gains == trueSlot' > trueSlot /\ ~HasPreferred =>
                        trueSlot' = visible' \/ trueSlot' - visible' < trueSlot - visible
  <1>1. IInv /\ [Next]_vars => [gains]_vars
    <2> SUFFICES ASSUME IInv, Next PROVE gains
      OBVIOUS
    <2>1. trueSlot \in Nat /\ visible \in Nat
      BY DEF IInv, SlotInv
    <2>2. ASSUME NEW shapes, BasedSlot(shapes) \/ RecoveryLastSlot(shapes) PROVE gains
      <3>1. Advance(trueSlot + 1 - visible) \/ (Advance(1) /\ trueSlot + 1 - visible = 1)
        BY <2>2, Zenon DEF BasedSlot, RecoveryLastSlot
      <3> QED
        BY <2>1, <3>1 DEF Advance
    <2>3. ASSUME NEW shapes, NEW short, RecoverySlot(shapes, short) PROVE gains
      BY <2>1, <2>3 DEF RecoverySlot, Advance
    <2>4. ASSUME NEW copies, NEW malformed, NEW requested, NEW shapes, NEW short,
                 PreferredSlot(copies, malformed, requested, shapes, short)
          PROVE  gains
      BY <2>4 DEF PreferredSlot
    <2>5. CASE InitiateWithdrawal \/ Withdraw \/ Deposit \/ Register
      BY <2>1, <2>5 DEF InitiateWithdrawal, Withdraw, Deposit, Register, slotVars
    <2> QED
      BY ZenonT(40), <2>2, <2>3, <2>4, <2>5 DEF Next
  <1> QED
    BY <1>1, Invariance, PTL DEF Spec, RecoveryGains
-----------------------------------------------------------------------------
(* The stored blobs.                                                       *)

\* The blobs stored for a slot are blobs of that slot, in order, with their gas
\* in escrow, and no blob is stored twice.
Waits(stored) ==
    /\ stored \in [Slots -> Seq(Blob)]
    /\ \A s \in Slots : \A b \in Range(stored[s]) : b.slot = s /\ Held(b, "derived")
    /\ \A s \in Slots : InOrder(stored[s])
    /\ \A s, t \in Slots : s # t => Ids(stored[s]) \cap Ids(stored[t]) = {}

\* The slots that become visible when the visible slot number grows by n, those of
\* them with blobs, and the blobs stored for all slots and for these.
Due(n) == (visible + 1)..(visible + n)
Filled(n, stored) == {s \in Due(n) : stored[s] # <<>>}
PendingIn(stored) == UNION {Ids(stored[s]) : s \in Slots}
DueIn(n, stored) == UNION {Ids(stored[s]) : s \in Due(n)}

\* The blobs stored for the slots that become visible, in order.
LEMMA StoredForFacts ==
    ASSUME visible \in Nat, NEW n \in Nat, visible + n <= MaxSlot, NEW stored, Waits(stored)
    PROVE  /\ StoredFor(n, stored) \in Seq(Blob) /\ InOrder(StoredFor(n, stored))
           /\ Ids(StoredFor(n, stored)) = DueIn(n, stored)
           /\ \A b \in Range(StoredFor(n, stored)) :
                 b.slot \in Filled(n, stored) /\ Held(b, "derived")
  <1> DEFINE q == [i \in 1..n |-> stored[visible + i]]
             all == Flatten(q)
  <1>1. \A i \in 1..n : visible + i \in Slots /\ visible + i \in Due(n)
    BY SlotAssumption DEF Slots, Due
  <1>2. \A s \in Due(n) : s - visible \in 1..n /\ visible + (s - visible) = s
    BY DEF Due
  <1>3. q \in [1..n -> Seq(Blob)] /\ \A i \in 1..n : InOrder(q[i])
    BY Zenon, <1>1 DEF Waits
  <1>4. ASSUME NEW i \in 1..n, NEW j \in 1..n, i < j PROVE AllBefore(q[i], q[j])
    <2>1. ASSUME NEW b \in Range(q[i]), NEW d \in Range(q[j]) PROVE Before(b, d)
      <3>1. b.slot = visible + i /\ d.slot = visible + j
        BY Zenon, <1>1 DEF Waits
      <3>2. visible + i < visible + j
        BY <1>4
      <3> QED
        BY Zenon, <3>1, <3>2 DEF Before
    <2> QED
      BY Zenon, <2>1 DEF AllBefore
  <1>5. /\ all \in Seq(Blob) /\ InOrder(all)
        /\ Range(all) = UNION {Range(q[i]) : i \in 1..n}
    <2> HIDE DEF q
    <2> QED
      BY Zenon, <1>3, <1>4, FlattenFacts
  <1> HIDE DEF all
  <1>6. ASSUME NEW b PROVE b \in Range(all) <=> \E s \in Due(n) : b \in Range(stored[s])
    <2>1. b \in Range(all) <=> \E i \in 1..n : b \in Range(stored[visible + i])
      BY Zenon, <1>5
    <2> QED
      BY Zenon, <1>1, <1>2, <2>1
  <1>7. \A s \in Due(n) : s \in Slots
    BY SlotAssumption DEF Slots, Due
  <1>8. Ids(all) = DueIn(n, stored)
    <2>1. ASSUME NEW x \in Ids(all) PROVE x \in DueIn(n, stored)
      <3>1. PICK b \in Range(all) : x = b.id
        BY Zenon DEF Ids
      <3>2. PICK s \in Due(n) : b \in Range(stored[s])
        BY Zenon, <1>6
      <3>3. x \in Ids(stored[s])
        BY Zenon, <3>1, <3>2 DEF Ids
      <3> QED
        BY Zenon, <3>3 DEF DueIn
    <2>2. ASSUME NEW x \in DueIn(n, stored) PROVE x \in Ids(all)
      <3>1. PICK s \in Due(n) : x \in Ids(stored[s])
        BY Zenon DEF DueIn
      <3>2. PICK b \in Range(stored[s]) : x = b.id
        BY Zenon, <3>1 DEF Ids
      <3> QED
        BY Zenon, <1>6, <3>2 DEF Ids
    <2> QED
      BY Zenon, <2>1, <2>2
  <1>9. ASSUME NEW b \in Range(all) PROVE b.slot \in Filled(n, stored) /\ Held(b, "derived")
    <2>1. PICK s \in Due(n) : b \in Range(stored[s])
      BY Zenon, <1>6
    <2>2. stored[s] # <<>>
      BY <2>1 DEF Range
    <2> QED
      BY Zenon, <1>7, <2>1, <2>2 DEF Waits, Filled
  <1> QED
    BY Zenon, <1>5, <1>8, <1>9 DEF StoredFor, Flatten, all

\* Storing the blobs of a new slot.
LEMMA StoreFacts ==
    ASSUME trueSlot \in Nat, trueSlot < MaxSlot, Waits(deferred), deferred[trueSlot + 1] = <<>>,
           NEW kept \in Seq(Blob), InOrder(kept), Ids(kept) \cap Pending = {},
           \A b \in Range(kept) : b.slot = trueSlot + 1 /\ Held(b, "derived")
    PROVE  /\ Waits(StoreBatches(kept))
           /\ PendingIn(StoreBatches(kept)) = Pending \cup Ids(kept)
           /\ \A s \in Slots : s # trueSlot + 1 => StoreBatches(kept)[s] = deferred[s]
  <1> DEFINE top == trueSlot + 1
             stored == StoreBatches(kept)
  <1>1. top \in Slots
    BY SlotAssumption DEF Slots
  <1>2. /\ stored \in [Slots -> Seq(Blob)] /\ stored[top] = kept
        /\ \A s \in Slots : s # top => stored[s] = deferred[s]
    BY <1>1 DEF StoreBatches, Waits
  <1>3. Ids(deferred[top]) = {}
    BY DEF Ids, Range
  <1> HIDE DEF top, stored
  <1>4. \A s \in Slots : Ids(deferred[s]) \subseteq Pending
    BY Zenon DEF Pending
  <1>5. PendingIn(stored) = Pending \cup Ids(kept)
    <2>1. ASSUME NEW x \in PendingIn(stored) PROVE x \in Pending \cup Ids(kept)
      <3>1. PICK s \in Slots : x \in Ids(stored[s])
        BY Zenon DEF PendingIn
      <3>2. s = top \/ stored[s] = deferred[s]
        BY Zenon, <1>2
      <3> QED
        BY Zenon, <1>2, <1>4, <3>1, <3>2
    <2>2. ASSUME NEW x \in Pending PROVE x \in PendingIn(stored)
      <3>1. PICK s \in Slots : x \in Ids(deferred[s])
        BY Zenon DEF Pending
      <3>2. s # top
        BY Zenon, <1>3, <3>1
      <3> QED
        BY Zenon, <1>2, <3>1, <3>2 DEF PendingIn
    <2>3. ASSUME NEW x \in Ids(kept) PROVE x \in PendingIn(stored)
      BY Zenon, <1>1, <1>2 DEF PendingIn
    <2> QED
      BY Zenon, <2>1, <2>2, <2>3
  <1>6. ASSUME NEW s \in Slots
        PROVE  InOrder(stored[s]) /\ \A b \in Range(stored[s]) : b.slot = s /\ Held(b, "derived")
    BY Zenon, <1>2 DEF Waits, top
  <1>7. ASSUME NEW s \in Slots, NEW t \in Slots, s # t
        PROVE  Ids(stored[s]) \cap Ids(stored[t]) = {}
    <2>1. CASE s # top /\ t # top
      BY Zenon, <1>2, <1>7, <2>1 DEF Waits
    <2>2. CASE s = top
      <3>1. stored[s] = kept /\ Ids(stored[t]) \subseteq Pending
        BY Zenon, <1>2, <1>4, <1>7, <2>2
      <3> QED
        BY <3>1
    <2>3. CASE t = top
      <3>1. stored[t] = kept /\ Ids(stored[s]) \subseteq Pending
        BY Zenon, <1>2, <1>4, <1>7, <2>3
      <3> QED
        BY <3>1
    <2> QED
      BY Zenon, <2>1, <2>2, <2>3
  <1> QED
    BY Zenon, <1>2, <1>5, <1>6, <1>7 DEF Waits, stored, top

\* Taking the blobs of the slots that become visible.
LEMMA TakeFacts ==
    ASSUME visible \in Nat, NEW n \in Nat, visible + n <= MaxSlot, NEW stored, Waits(stored)
    PROVE  /\ Waits(TakeSlots(n, stored))
           /\ PendingIn(TakeSlots(n, stored)) = PendingIn(stored) \ DueIn(n, stored)
           /\ DueIn(n, stored) \subseteq PendingIn(stored)
  <1> DEFINE left == TakeSlots(n, stored)
  <1>1. \A s \in Due(n) : s \in Slots
    BY SlotAssumption DEF Slots, Due
  <1>2. <<>> \in Seq(Blob) /\ Range(<<>>) = {} /\ Ids(<<>>) = {} /\ InOrder(<<>>)
    BY DEF Ids, Range, InOrder
  <1>3. /\ \A s \in Slots : s \in Due(n) => left[s] = <<>>
        /\ \A s \in Slots : s \notin Due(n) => left[s] = stored[s]
    BY Zenon DEF TakeSlots, Due
  <1>4. left \in [Slots -> Seq(Blob)]
    <2>1. ASSUME NEW s \in Slots
          PROVE  (IF s \in (visible + 1)..(visible + n) THEN <<>> ELSE stored[s]) \in Seq(Blob)
      BY Zenon, <1>2 DEF Waits
    <2> QED
      BY Zenon, <2>1 DEF TakeSlots
  <1> HIDE DEF left
  <1>5. ASSUME NEW s \in Slots
        PROVE  InOrder(left[s]) /\ \A b \in Range(left[s]) : b.slot = s /\ Held(b, "derived")
    BY Zenon, <1>2, <1>3 DEF Waits
  <1>6. ASSUME NEW s \in Slots, NEW t \in Slots, s # t
        PROVE  Ids(left[s]) \cap Ids(left[t]) = {}
    <2>1. Ids(left[s]) \subseteq Ids(stored[s]) /\ Ids(left[t]) \subseteq Ids(stored[t])
      BY Zenon, <1>2, <1>3
    <2>2. Ids(stored[s]) \cap Ids(stored[t]) = {}
      BY Zenon, <1>6 DEF Waits
    <2> QED
      BY Zenon, <2>1, <2>2
  <1>7. ASSUME NEW x \in PendingIn(left) PROVE x \in PendingIn(stored) /\ x \notin DueIn(n, stored)
    <2>1. PICK s \in Slots : x \in Ids(left[s])
      BY Zenon DEF PendingIn
    <2>2. s \notin Due(n) /\ x \in Ids(stored[s])
      BY Zenon, <1>2, <1>3, <2>1
    <2>3. ASSUME NEW t \in Due(n), x \in Ids(stored[t]) PROVE FALSE
      <3>1. t \in Slots /\ s # t
        BY Zenon, <1>1, <2>2
      <3>2. Ids(stored[s]) \cap Ids(stored[t]) = {}
        BY Zenon, <3>1 DEF Waits
      <3> QED
        BY Zenon, <2>2, <2>3, <3>2
    <2> QED
      BY Zenon, <2>2, <2>3 DEF PendingIn, DueIn
  <1>8. ASSUME NEW x \in PendingIn(stored), x \notin DueIn(n, stored) PROVE x \in PendingIn(left)
    <2>1. PICK s \in Slots : x \in Ids(stored[s])
      BY Zenon DEF PendingIn
    <2>2. s \notin Due(n)
      BY Zenon, <1>8, <2>1 DEF DueIn
    <2> QED
      BY Zenon, <1>3, <2>1, <2>2 DEF PendingIn
  <1>9. DueIn(n, stored) \subseteq PendingIn(stored)
    BY Zenon, <1>1 DEF DueIn, PendingIn
  <1> QED
    BY Zenon, <1>4, <1>5, <1>6, <1>7, <1>8, <1>9 DEF Waits, left
-----------------------------------------------------------------------------
(* What a slot selects.                                                    *)

\* The kept blobs are of these slots, in order, paid from the bank, and fit.
Chosen(acc, slots) ==
    /\ acc \in Acc /\ InOrder(acc.kept)
    /\ \A b \in Range(acc.kept) : b.slot \in slots /\ Held(b, "direct")
    /\ TotalSize(acc.kept) + acc.room = Room

\* The blobs a selection is done with, and the blobs a DA block brings.
Handled(acc) == Ids(acc.kept) \cup acc.discarded
New(shapes) == (arrived + 1)..(arrived + Len(shapes))

\* The empty accumulator has chosen nothing.
LEMMA NothingYet ==
    /\ Accumulator \in Acc /\ Accumulator.kept = <<>> /\ Accumulator.discarded = {}
    /\ Chosen(Accumulator, {}) /\ Handled(Accumulator) = {}
  <1>1. /\ Accumulator \in Acc /\ Accumulator.kept = <<>> /\ Accumulator.discarded = {}
        /\ Accumulator.room = Room
    BY SizeAssumption DEF Accumulator, Acc
  <1>2. Range(<<>>) = {} /\ Ids(<<>>) = {} /\ InOrder(<<>>)
    BY DEF Ids, Range, InOrder
  <1>3. TotalSize(<<>>) + Room = Room
    <2>1. 0 + Room = Room
      BY SizeAssumption
    <2> QED
      BY Zenon, <2>1, SizeOfNone
  <1> QED
    BY Zenon, <1>1, <1>2, <1>3 DEF Chosen, Handled

\* More slots may be named than have blobs.
LEMMA ChosenMore ==
    ASSUME NEW acc, NEW slots, Chosen(acc, slots), NEW more, slots \subseteq more
    PROVE  Chosen(acc, more)
  BY Zenon DEF Chosen

\* A loop that takes blobs to the bank adds their slots.
LEMMA RunChooses ==
    ASSUME NEW acc, NEW old, Chosen(acc, old), NEW blobs \in Seq(Blob), InOrder(blobs),
           AllBefore(acc.kept, blobs), NEW slots, \A b \in Range(blobs) : b.slot \in slots,
           NEW r, IsRun(r, acc, blobs, "direct"), NEW res, res = r[Len(blobs)]
    PROVE  Chosen(res, old \cup slots) /\ Handled(res) = Handled(acc) \cup Ids(blobs)
  <1>1. acc \in Acc /\ InOrder(acc.kept) /\ TotalSize(acc.kept) + acc.room = Room
        /\ "direct" \in Escrows
    BY DEF Chosen, Escrows
  <1>2. res \in Acc /\ Keeps(res, acc, blobs, "direct")
    BY Zenon, <1>1, RunKeeps
  <1>3. InOrder(res.kept)
    BY Zenon, <1>1, RunOrders
  <1>4. TotalSize(res.kept) + res.room = Room
    BY Zenon, <1>1, RunFits
  <1>5. ASSUME NEW b \in Range(res.kept) PROVE b.slot \in old \cup slots /\ Held(b, "direct")
    <2>1. CASE b \in Range(acc.kept)
      BY Zenon, <2>1 DEF Chosen
    <2>2. ASSUME NEW d \in Range(blobs), b = Placed(d, "direct")
          PROVE  b.slot \in slots /\ Held(b, "direct")
      <3>1. d \in Blob
        BY DEF Range
      <3> QED
        BY Zenon, <1>1, <2>2, <3>1, PlacedFacts
    <2> QED
      BY Zenon, <1>2, <2>1, <2>2 DEF Keeps
  <1> QED
    BY Zenon, <1>2, <1>3, <1>4, <1>5 DEF Chosen, Handled, Keeps

\* The blobs of the slot, used now.
LEMMA SelectNow ==
    ASSUME trueSlot \in Nat, arrived \in Nat, NEW shapes \in Arrivals,
           NEW acc, NEW old, Chosen(acc, old), \A s \in old : s < trueSlot + 1
    PROVE  LET new == SelectDaOrdering(acc, Incoming(shapes), FALSE)
           IN  Chosen(new, old \cup {trueSlot + 1}) /\ Handled(new) = Handled(acc) \cup New(shapes)
  <1> DEFINE in == Incoming(shapes)
             new == SelectDaOrdering(acc, in, FALSE)
             slots == {trueSlot + 1}
  <1>1. /\ in \in Seq(Blob) /\ InOrder(in) /\ Ids(in) = New(shapes)
        /\ \A b \in Range(in) : b.slot = trueSlot + 1 /\ b.escrow = "none"
    BY Zenon, IncomingFacts DEF New
  <1> HIDE DEF in
  <1>2. acc \in Acc /\ Place(FALSE) = "direct"
    BY DEF Chosen, Place
  <1>3. \A i \in 1..Len(in) : in[i].escrow = "none"
    <2>1. \A i \in 1..Len(in) : in[i] \in Range(in)
      BY <1>1 DEF Range
    <2> QED
      BY Zenon, <1>1, <2>1
  <1>4. PICK r : IsRun(r, acc, in, "direct") /\ r[Len(in)] = new
    <2>1. \E r : IsRun(r, acc, in, Place(FALSE)) /\ r[Len(in)] = new
      BY Zenon, <1>1, <1>2, <1>3, SelectRuns, FALSE \in BOOLEAN
    <2> QED
      BY Zenon, <1>2, <2>1
  <1> HIDE DEF new
  <1>5. AllBefore(acc.kept, in)
    <2>1. ASSUME NEW b \in Range(acc.kept), NEW d \in Range(in) PROVE Before(b, d)
      BY Zenon, <1>1 DEF Chosen, Before
    <2> QED
      BY Zenon, <2>1 DEF AllBefore
  <1>6. \A b \in Range(in) : b.slot \in slots
    BY Zenon, <1>1
  <1> HIDE DEF slots
  <1>7. Chosen(new, old \cup slots) /\ Handled(new) = Handled(acc) \cup Ids(in)
    BY Zenon, <1>1, <1>4, <1>5, <1>6, RunChooses
  <1> QED
    BY Zenon, <1>1, <1>7 DEF new, in, slots

\* The blobs of the slot, to be stored.
LEMMA SelectLater ==
    ASSUME trueSlot \in Nat, arrived \in Nat, NEW shapes \in Arrivals
    PROVE  LET new == SelectDaOrdering(Accumulator, Incoming(shapes), TRUE)
           IN  /\ new.kept \in Seq(Blob) /\ InOrder(new.kept)
               /\ \A b \in Range(new.kept) : b.slot = trueSlot + 1 /\ Held(b, "derived")
               /\ Handled(new) = New(shapes) /\ Ids(new.kept) \cap new.discarded = {}
  <1> DEFINE in == Incoming(shapes)
             new == SelectDaOrdering(Accumulator, in, TRUE)
  <1>1. /\ in \in Seq(Blob) /\ InOrder(in) /\ Distinct(in) /\ Ids(in) = New(shapes)
        /\ \A b \in Range(in) : b.slot = trueSlot + 1 /\ b.escrow = "none"
    BY Zenon, IncomingFacts DEF New
  <1> HIDE DEF in
  <1>2. Place(TRUE) = "derived" /\ "derived" \in Escrows
    BY DEF Place, Escrows
  <1>3. \A i \in 1..Len(in) : in[i].escrow = "none"
    <2>1. \A i \in 1..Len(in) : in[i] \in Range(in)
      BY <1>1 DEF Range
    <2> QED
      BY Zenon, <1>1, <2>1
  <1>4. /\ Accumulator \in Acc /\ Accumulator.kept = <<>> /\ Accumulator.discarded = {}
        /\ InOrder(Accumulator.kept) /\ Handled(Accumulator) = {}
    BY Zenon, NothingYet DEF Chosen
  <1>5. PICK r : IsRun(r, Accumulator, in, "derived") /\ r[Len(in)] = new
    <2>1. \E r : IsRun(r, Accumulator, in, Place(TRUE)) /\ r[Len(in)] = new
      BY Zenon, <1>1, <1>3, <1>4, SelectRuns, TRUE \in BOOLEAN
    <2> QED
      BY Zenon, <1>2, <2>1
  <1> HIDE DEF new
  <1>6. Range(Accumulator.kept) = {}
    BY <1>4 DEF Range
  <1>7. AllBefore(Accumulator.kept, in)
    BY Zenon, <1>6 DEF AllBefore
  <1>8. InOrder(new.kept)
    BY Zenon, <1>1, <1>2, <1>4, <1>5, <1>7, RunOrders
  <1>9. Ids(new.kept) \cap new.discarded = {}
    BY Zenon, <1>1, <1>2, <1>4, <1>5, RunSeparates
  <1>10. new \in Acc /\ Keeps(new, Accumulator, in, "derived")
    BY Zenon, <1>1, <1>2, <1>4, <1>5, RunKeeps
  <1>11. Handled(new) = New(shapes)
    BY Zenon, <1>1, <1>4, <1>10 DEF Handled, Keeps
  <1>12. ASSUME NEW b \in Range(new.kept) PROVE b.slot = trueSlot + 1 /\ Held(b, "derived")
    <2>1. PICK d \in Range(in) : b = Placed(d, "derived")
      BY Zenon, <1>6, <1>10 DEF Keeps
    <2>2. d \in Blob
      BY <1>1 DEF Range
    <2> QED
      BY Zenon, <1>1, <1>2, <2>1, <2>2, PlacedFacts
  <1>13. new.kept \in Seq(Blob)
    BY <1>10 DEF Acc
  <1> QED
    BY Zenon, <1>8, <1>9, <1>11, <1>12, <1>13 DEF new, in

\* The blobs stored for the next n slots.
LEMMA RetrieveChosen ==
    ASSUME visible \in Nat, NEW n \in Nat, visible + n <= MaxSlot, NEW stored, Waits(stored),
           NEW acc, NEW old, Chosen(acc, old), AllBefore(acc.kept, StoredFor(n, stored)), NEW short
    PROVE  LET all == RetrieveStored(acc, n, stored, short)
           IN  /\ Chosen(all, old \cup Filled(n, stored))
               /\ Handled(all) = Handled(acc) \cup DueIn(n, stored)
  <1> DEFINE in == StoredFor(n, stored)
             all == RetrieveStored(acc, n, stored, short)
             slots == Filled(n, stored)
  <1>1. /\ in \in Seq(Blob) /\ InOrder(in) /\ Ids(in) = DueIn(n, stored)
        /\ \A b \in Range(in) : b.slot \in slots /\ Held(b, "derived")
    BY Zenon, StoredForFacts
  <1>2. all = RetrieveAll(acc, in, short)
    BY Zenon DEF RetrieveStored, RetrieveAll
  <1> HIDE DEF in, all, slots
  <1>3. acc \in Acc
    BY DEF Chosen
  <1>4. \A i \in 1..Len(in) : Held(in[i], "derived")
    <2>1. \A i \in 1..Len(in) : in[i] \in Range(in)
      BY <1>1 DEF Range
    <2> QED
      BY Zenon, <1>1, <2>1
  <1>5. PICK r : IsRun(r, acc, in, "direct") /\ r[Len(in)] = all
    BY Zenon, <1>1, <1>2, <1>3, <1>4, RetrieveRuns
  <1>6. AllBefore(acc.kept, in)
    BY DEF in
  <1>7. \A b \in Range(in) : b.slot \in slots
    BY Zenon, <1>1
  <1>8. Chosen(all, old \cup slots) /\ Handled(all) = Handled(acc) \cup Ids(in)
    BY Zenon, <1>1, <1>5, <1>6, <1>7, RunChooses
  <1> QED
    BY Zenon, <1>1, <1>8 DEF all, slots

\* Taking chosen blobs once more, as recovery does, changes nothing of this.
LEMMA PushChosen ==
    ASSUME NEW acc, NEW slots, Chosen(acc, slots)
    PROVE  LET again == FoldLeft(PushOrIgnore, Accumulator, acc.kept)
           IN  Chosen(again, slots) /\ Handled(again) = Ids(acc.kept)
  <1> DEFINE in == acc.kept
             again == FoldLeft(PushOrIgnore, Accumulator, in)
  <1>1. /\ in \in Seq(Blob) /\ InOrder(in)
        /\ \A b \in Range(in) : b.slot \in slots /\ Held(b, "direct")
    BY DEF Chosen, Acc
  <1> HIDE DEF in
  <1>2. \A i \in 1..Len(in) : Held(in[i], "direct")
    <2>1. \A i \in 1..Len(in) : in[i] \in Range(in)
      BY <1>1 DEF Range
    <2> QED
      BY Zenon, <1>1, <2>1
  <1>3. Accumulator \in Acc /\ Chosen(Accumulator, {}) /\ Handled(Accumulator) = {}
    BY Zenon, NothingYet
  <1>4. PICK r : IsRun(r, Accumulator, in, "direct") /\ r[Len(in)] = again
    BY Zenon, <1>1, <1>2, <1>3, PushRuns
  <1> HIDE DEF again
  <1>5. Range(Accumulator.kept) = {}
    BY NothingYet DEF Range
  <1>6. AllBefore(Accumulator.kept, in)
    BY Zenon, <1>5 DEF AllBefore
  <1>7. Chosen(again, {} \cup slots) /\ Handled(again) = Handled(Accumulator) \cup Ids(in)
    BY ZenonT(40), <1>1, <1>3, <1>4, <1>6, RunChooses
  <1>8. {} \cup slots = slots /\ {} \cup Ids(in) = Ids(in)
    BY Zenon
  <1> QED
    BY Zenon, <1>3, <1>7, <1>8 DEF again, in
-----------------------------------------------------------------------------
(* The stored blobs and the settled ones.                                  *)

\* The inductive invariant of the stored blobs.
BlobInv == Waits(deferred) /\ arrived \in Nat /\ NoneLost

\* What a slot does to the blobs.
Outcome(shapes, n) ==
    /\ Waits(deferred')
    /\ arrived' = arrived + Len(shapes)
    /\ NoneLost'
    /\ \E acc : Chosen(acc, Due(n)) /\ selected' = acc.kept

\* The new positions follow the old ones.
LEMMA NewFacts ==
    ASSUME arrived \in Nat, NEW shapes \in Arrivals
    PROVE  /\ Len(shapes) \in Nat
           /\ 1..arrived \cup New(shapes) = 1..(arrived + Len(shapes))
           /\ 1..arrived \cap New(shapes) = {}
  <1>1. Len(shapes) \in Nat
    BY DEF Arrivals
  <1> QED
    BY <1>1 DEF New

\* Nothing is lost when the blobs of the slot are settled at once,
LEMMA NowAccount ==
    ASSUME BlobInv, NEW shapes \in Arrivals, visible \in Nat, NEW n \in Nat, visible + n <= MaxSlot,
           deferred' = TakeSlots(n, deferred), arrived' = arrived + Len(shapes),
           settled' = settled \cup DueIn(n, deferred) \cup New(shapes)
    PROVE  Waits(deferred') /\ NoneLost'
  <1>1. /\ Waits(deferred') /\ PendingIn(deferred') = PendingIn(deferred) \ DueIn(n, deferred)
        /\ DueIn(n, deferred) \subseteq PendingIn(deferred)
    BY Zenon, TakeFacts DEF BlobInv
  <1>2. /\ PendingIn(deferred) \cup settled = 1..arrived
        /\ PendingIn(deferred) \cap settled = {}
    BY Zenon DEF BlobInv, NoneLost, Pending, PendingIn
  <1>3. /\ 1..arrived \cup New(shapes) = 1..arrived'
        /\ 1..arrived \cap New(shapes) = {}
    BY Zenon, NewFacts DEF BlobInv
  <1> DEFINE P == PendingIn(deferred)
             D == DueIn(n, deferred)
             Q == PendingIn(deferred')
  <1> HIDE DEF P, D, Q
  <1>4. Q \cup settled' = 1..arrived'
    BY <1>1, <1>2, <1>3 DEF P, D, Q
  <1>5. Q \cap settled' = {}
    BY <1>1, <1>2, <1>3 DEF P, D, Q
  <1> QED
    BY Zenon, <1>1, <1>4, <1>5 DEF NoneLost, Pending, PendingIn, Q

\* and when those that are kept are stored.
LEMMA LaterAccount ==
    ASSUME BlobInv, NEW shapes \in Arrivals, visible \in Nat, NEW n \in Nat, visible + n <= MaxSlot,
           trueSlot \in Nat, trueSlot < MaxSlot, deferred[trueSlot + 1] = <<>>,
           NEW kept \in Seq(Blob), InOrder(kept),
           \A b \in Range(kept) : b.slot = trueSlot + 1 /\ Held(b, "derived"),
           NEW discarded, Ids(kept) \cup discarded = New(shapes), Ids(kept) \cap discarded = {},
           deferred' = TakeSlots(n, StoreBatches(kept)), arrived' = arrived + Len(shapes),
           settled' = settled \cup DueIn(n, StoreBatches(kept)) \cup discarded
    PROVE  Waits(StoreBatches(kept)) /\ Waits(deferred') /\ NoneLost'
  <1> DEFINE stored == StoreBatches(kept)
  <1>1. Pending \cup settled = 1..arrived /\ Pending \cap settled = {}
    BY Zenon DEF BlobInv, NoneLost
  <1>2. /\ 1..arrived \cup New(shapes) = 1..arrived'
        /\ 1..arrived \cap New(shapes) = {}
    BY Zenon, NewFacts DEF BlobInv
  <1>3. Ids(kept) \cap Pending = {}
    BY <1>1, <1>2
  <1>4. Waits(stored) /\ PendingIn(stored) = Pending \cup Ids(kept)
    BY Zenon, <1>3, StoreFacts DEF BlobInv
  <1> HIDE DEF stored
  <1>5. /\ Waits(deferred') /\ PendingIn(deferred') = PendingIn(stored) \ DueIn(n, stored)
        /\ DueIn(n, stored) \subseteq PendingIn(stored)
    BY Zenon, <1>4, TakeFacts DEF stored
  <1> DEFINE K == Ids(kept)
             D == DueIn(n, stored)
             Q == PendingIn(deferred')
             N == New(shapes)
             O == 1..arrived
             A == 1..arrived'
             P == Pending
  <1>6. settled' = settled \cup D \cup discarded
    BY Zenon DEF stored
  <1>7. /\ P \cup settled = O /\ P \cap settled = {} /\ O \cup N = A /\ O \cap N = {}
        /\ K \cup discarded = N /\ K \cap discarded = {}
        /\ Q = (P \cup K) \ D /\ D \subseteq P \cup K
    BY Zenon, <1>1, <1>2, <1>4, <1>5
  <1> HIDE DEF K, D, Q, N, O, A, P
  <1>8. Q \cup settled' = A /\ Q \cap settled' = {}
    BY <1>6, <1>7
  <1> QED
    BY Zenon, <1>4, <1>5, <1>8 DEF NoneLost, Pending, PendingIn, Q, A, stored

-----------------------------------------------------------------------------
\* Each way to select the blobs of a slot has this outcome.
LEMMA BasedOutcome ==
    ASSUME IInv, BlobInv, NEW shapes \in Arrivals, BasedSlot(shapes)
    PROVE  Outcome(shapes, trueSlot + 1 - visible)
  <1> DEFINE acc == SelectDaOrdering(Accumulator, Incoming(shapes), FALSE)
  <1>1. /\ trueSlot \in Nat /\ visible \in Nat /\ visible = trueSlot
        /\ trueSlot < MaxSlot /\ visible + 0 <= MaxSlot
    BY SlotAssumption DEF BasedSlot, IInv, SlotInv, Clock!Lag, Advance
  <1>2. Due(trueSlot + 1 - visible) = {trueSlot + 1} /\ Due(0) = {}
    BY <1>1 DEF Due
  <1>3. Chosen(acc, {} \cup {trueSlot + 1}) /\ Handled(acc) = {} \cup New(shapes)
    <2>1. Chosen(Accumulator, {}) /\ Handled(Accumulator) = {}
      BY Zenon, NothingYet
    <2> QED
      BY Zenon, <1>1, <2>1, SelectNow DEF BlobInv
  <1>4. deferred' = deferred /\ Output(shapes, acc.kept, acc.discarded)
    BY Zenon DEF BasedSlot
  <1> HIDE DEF acc
  <1>5. deferred' = TakeSlots(0, deferred)
    <2>1. DOMAIN deferred = Slots /\ deferred = [s \in DOMAIN deferred |-> deferred[s]]
      BY DEF BlobInv, Waits
    <2>2. TakeSlots(0, deferred) = [s \in Slots |-> IF s \in Due(0) THEN <<>> ELSE deferred[s]]
      BY Zenon DEF TakeSlots, Due
    <2> QED
      BY Zenon, <1>2, <1>4, <2>1, <2>2
  <1>6. settled' = settled \cup DueIn(0, deferred) \cup New(shapes)
    <2>1. DueIn(0, deferred) = {}
      BY Zenon, <1>2 DEF DueIn
    <2>2. settled' = settled \cup Handled(acc)
      BY Zenon, <1>4 DEF Output, Handled
    <2> QED
      BY Zenon, <1>3, <2>1, <2>2
  <1>7. arrived' = arrived + Len(shapes) /\ selected' = acc.kept
    BY Zenon, <1>4 DEF Output
  <1>8. Waits(deferred') /\ NoneLost'
    BY Zenon, <1>1, <1>5, <1>6, <1>7, NowAccount, 0 \in Nat
  <1>9. Chosen(acc, Due(trueSlot + 1 - visible))
    BY Zenon, <1>2, <1>3, ChosenMore
  <1> QED
    BY Zenon, <1>7, <1>8, <1>9 DEF Outcome

LEMMA RecoveryLastOutcome ==
    ASSUME IInv, BlobInv, NEW shapes \in Arrivals, RecoveryLastSlot(shapes)
    PROVE  Outcome(shapes, 1)
  <1> DEFINE current == SelectDaOrdering(Accumulator, Incoming(shapes), FALSE)
             acc == FoldLeft(PushOrIgnore, Accumulator, current.kept)
             all == RetrieveStored(acc, 1, deferred, {})
  <1>1. /\ deferred' = TakeSlots(1, deferred)
        /\ Output(shapes, all.kept, current.discarded \cup all.discarded)
    BY Zenon DEF RecoveryLastSlot
  <1>2. /\ trueSlot \in Nat /\ visible \in Nat /\ visible + 1 = trueSlot + 1
        /\ visible + 1 <= MaxSlot /\ trueSlot + 1 \in Slots
    BY SlotAssumption DEF RecoveryLastSlot, IInv, SlotInv, Advance, Slots
  <1>3. Due(1) = {trueSlot + 1}
    BY <1>2 DEF Due
  <1>4. Waits(deferred) /\ arrived \in Nat
    BY DEF BlobInv
  <1>5. deferred[trueSlot + 1] = <<>>
    <2>1. ~(trueSlot + 1 <= trueSlot)
      BY <1>2
    <2> QED
      BY Zenon, <1>2, <2>1 DEF IInv, WaitInv
  <1>6. Chosen(current, {} \cup {trueSlot + 1}) /\ Handled(current) = {} \cup New(shapes)
    <2>1. Chosen(Accumulator, {}) /\ Handled(Accumulator) = {}
      BY Zenon, NothingYet
    <2> QED
      BY Zenon, <1>2, <1>4, <2>1, SelectNow
  <1> HIDE DEF current
  <1>7. Chosen(acc, {} \cup {trueSlot + 1}) /\ Handled(acc) = Ids(current.kept)
    BY Zenon, <1>6, PushChosen
  <1> HIDE DEF acc
  <1>8. DueIn(1, deferred) = {}
    <2>1. Ids(deferred[trueSlot + 1]) = {}
      BY <1>5 DEF Ids, Range
    <2> QED
      BY Zenon, <1>3, <2>1 DEF DueIn
  <1>9. AllBefore(acc.kept, StoredFor(1, deferred))
    <2>1. Ids(StoredFor(1, deferred)) = {}
      BY Zenon, <1>2, <1>4, <1>8, StoredForFacts, 1 \in Nat
    <2>2. Range(StoredFor(1, deferred)) = {}
      BY Zenon, <2>1 DEF Ids
    <2> QED
      BY Zenon, <2>2 DEF AllBefore
  <1>10. /\ Chosen(all, ({} \cup {trueSlot + 1}) \cup Filled(1, deferred))
         /\ Handled(all) = Handled(acc) \cup DueIn(1, deferred)
    BY Zenon, <1>2, <1>4, <1>7, <1>9, RetrieveChosen, 1 \in Nat
  <1> HIDE DEF all
  <1>11. Chosen(all, Due(1))
    <2>1. ({} \cup {trueSlot + 1}) \cup Filled(1, deferred) \subseteq Due(1)
      BY Zenon, <1>3 DEF Filled
    <2> QED
      BY Zenon, <1>10, <2>1, ChosenMore
  <1>12. arrived' = arrived + Len(shapes) /\ selected' = all.kept
    BY Zenon, <1>1 DEF Output
  <1>13. settled' = settled \cup DueIn(1, deferred) \cup New(shapes)
    <2>1. settled' = settled \cup Ids(all.kept) \cup (current.discarded \cup all.discarded)
      BY Zenon, <1>1 DEF Output
    <2>2. Ids(all.kept) \cup all.discarded = Ids(current.kept)
      BY Zenon, <1>7, <1>8, <1>10 DEF Handled
    <2>3. Ids(current.kept) \cup current.discarded = New(shapes)
      BY Zenon, <1>6 DEF Handled
    <2> QED
      BY <1>8, <2>1, <2>2, <2>3
  <1>14. Waits(deferred') /\ NoneLost'
    BY Zenon, <1>1, <1>2, <1>12, <1>13, NowAccount, 1 \in Nat
  <1> QED
    BY Zenon, <1>11, <1>12, <1>14 DEF Outcome

LEMMA RecoveryOutcome ==
    ASSUME IInv, BlobInv, NEW shapes \in Arrivals, NEW short, RecoverySlot(shapes, short)
    PROVE  Outcome(shapes, 2)
  <1> DEFINE new == SelectDaOrdering(Accumulator, Incoming(shapes), TRUE)
             stored == StoreBatches(new.kept)
             acc == RetrieveStored(Accumulator, 2, stored, short)
  <1>1. /\ deferred' = TakeSlots(2, stored)
        /\ Output(shapes, acc.kept, new.discarded \cup acc.discarded)
    BY Zenon DEF RecoverySlot
  <1>2. /\ trueSlot \in Nat /\ visible \in Nat /\ trueSlot < MaxSlot
        /\ visible + 2 <= MaxSlot /\ trueSlot + 1 \in Slots
    BY SlotAssumption DEF RecoverySlot, IInv, SlotInv, Advance, Slots
  <1>3. Waits(deferred) /\ arrived \in Nat
    BY DEF BlobInv
  <1>4. deferred[trueSlot + 1] = <<>>
    <2>1. ~(trueSlot + 1 <= trueSlot)
      BY <1>2
    <2> QED
      BY Zenon, <1>2, <2>1 DEF IInv, WaitInv
  <1>5. /\ new.kept \in Seq(Blob) /\ InOrder(new.kept)
        /\ \A b \in Range(new.kept) : b.slot = trueSlot + 1 /\ Held(b, "derived")
        /\ Handled(new) = New(shapes) /\ Ids(new.kept) \cap new.discarded = {}
    BY Zenon, <1>2, <1>3, SelectLater
  <1> HIDE DEF new
  <1>6. Waits(stored)
    <2>1. Ids(new.kept) \cap Pending = {}
      BY Zenon, <1>3, <1>5, NewFacts DEF Handled, BlobInv, NoneLost
    <2> QED
      BY Zenon, <1>2, <1>3, <1>4, <1>5, <2>1, StoreFacts
  <1> HIDE DEF stored
  <1>7. /\ Chosen(Accumulator, {}) /\ Handled(Accumulator) = {}
        /\ AllBefore(Accumulator.kept, StoredFor(2, stored))
    <2>1. Range(Accumulator.kept) = {}
      BY NothingYet DEF Range
    <2> QED
      BY Zenon, <2>1, NothingYet DEF AllBefore
  <1>8. /\ Chosen(acc, {} \cup Filled(2, stored))
        /\ Handled(acc) = Handled(Accumulator) \cup DueIn(2, stored)
    BY Zenon, <1>2, <1>6, <1>7, RetrieveChosen, 2 \in Nat
  <1> HIDE DEF acc
  <1>9. Chosen(acc, Due(2))
    <2>1. {} \cup Filled(2, stored) \subseteq Due(2)
      BY Zenon DEF Filled
    <2> QED
      BY Zenon, <1>8, <2>1, ChosenMore
  <1>10. arrived' = arrived + Len(shapes) /\ selected' = acc.kept
    BY Zenon, <1>1 DEF Output
  <1>11. settled' = settled \cup DueIn(2, stored) \cup new.discarded
    <2>1. settled' = settled \cup Ids(acc.kept) \cup (new.discarded \cup acc.discarded)
      BY Zenon, <1>1 DEF Output
    <2>2. Ids(acc.kept) \cup acc.discarded = DueIn(2, stored)
      BY Zenon, <1>7, <1>8 DEF Handled
    <2> QED
      BY <2>1, <2>2
  <1>12. Waits(deferred') /\ NoneLost'
    BY Zenon, <1>1, <1>2, <1>4, <1>5, <1>10, <1>11, LaterAccount, 2 \in Nat DEF Handled, stored
  <1> QED
    BY Zenon, <1>9, <1>10, <1>12 DEF Outcome

LEMMA OthersOutcome ==
    ASSUME IInv, BlobInv, NEW shapes \in Arrivals, NEW n \in Nat, Moves(n), NEW short,
           SelectOthers(shapes, n, short)
    PROVE  Outcome(shapes, n)
  <1> DEFINE old == RetrieveStored(Accumulator, n, deferred, short)
             useNow == visible + n = trueSlot + 1
  <1>1. /\ trueSlot \in Nat /\ visible \in Nat /\ trueSlot < MaxSlot /\ visible <= trueSlot
        /\ visible + n <= MaxSlot /\ trueSlot + 1 \in Slots /\ visible + n <= trueSlot + 1
    BY SlotAssumption DEF Moves, IInv, SlotInv, Advance, Slots
  <1>2. Waits(deferred) /\ arrived \in Nat
    BY DEF BlobInv
  <1>3. \A s \in Due(n) : s \in Slots /\ s \in Int
    BY <1>1, SlotAssumption DEF Slots, Due
  <1>4. /\ Chosen(Accumulator, {}) /\ Handled(Accumulator) = {}
        /\ AllBefore(Accumulator.kept, StoredFor(n, deferred))
    <2>1. Range(Accumulator.kept) = {}
      BY NothingYet DEF Range
    <2> QED
      BY Zenon, <2>1, NothingYet DEF AllBefore
  <1>5. Chosen(old, Filled(n, deferred)) /\ Handled(old) = DueIn(n, deferred)
    <2>1. /\ Chosen(old, {} \cup Filled(n, deferred))
          /\ Handled(old) = Handled(Accumulator) \cup DueIn(n, deferred)
      BY Zenon, <1>1, <1>2, <1>4, RetrieveChosen
    <2>2. {} \cup Filled(n, deferred) = Filled(n, deferred)
          /\ {} \cup DueIn(n, deferred) = DueIn(n, deferred)
      BY Zenon
    <2> QED
      BY Zenon, <1>4, <2>1, <2>2
  <1>6. CASE useNow
    <2> DEFINE new == SelectDaOrdering(old, Incoming(shapes), FALSE)
    <2>1. /\ deferred' = TakeSlots(n, deferred)
          /\ Output(shapes, new.kept, old.discarded \cup new.discarded)
      <3>1. ~useNow = FALSE
        BY <1>6
      <3> HIDE DEF old, useNow
      <3> QED
        BY Zenon, <1>6, <3>1 DEF SelectOthers, old, useNow
    <2> HIDE DEF old
    <2>2. \A s \in Filled(n, deferred) : s < trueSlot + 1
      <3>1. \A s \in Filled(n, deferred) : s \in Int /\ s <= trueSlot
        BY Zenon, <1>3 DEF Filled, IInv, WaitInv
      <3> QED
        BY <1>1, <3>1
    <2>3. /\ Chosen(new, Filled(n, deferred) \cup {trueSlot + 1})
          /\ Handled(new) = Handled(old) \cup New(shapes)
      BY Zenon, <1>1, <1>2, <1>5, <2>2, SelectNow
    <2> HIDE DEF new
    <2>4. Chosen(new, Due(n))
      <3>1. trueSlot + 1 \in Due(n)
        BY <1>1, <1>6 DEF Due
      <3>2. Filled(n, deferred) \cup {trueSlot + 1} \subseteq Due(n)
        BY Zenon, <3>1 DEF Filled
      <3> QED
        BY Zenon, <2>3, <3>2, ChosenMore
    <2>5. arrived' = arrived + Len(shapes) /\ selected' = new.kept
      BY Zenon, <2>1 DEF Output
    <2>6. settled' = settled \cup DueIn(n, deferred) \cup New(shapes)
      <3>1. settled' = settled \cup Ids(new.kept) \cup (old.discarded \cup new.discarded)
        BY Zenon, <2>1 DEF Output
      <3>2. Ids(new.kept) \cup new.discarded = DueIn(n, deferred) \cup New(shapes)
        BY Zenon, <1>5, <2>3 DEF Handled
      <3>3. old.discarded \subseteq DueIn(n, deferred)
        BY Zenon, <1>5 DEF Handled
      <3> QED
        BY <3>1, <3>2, <3>3
    <2>7. Waits(deferred') /\ NoneLost'
      BY Zenon, <1>1, <2>1, <2>5, <2>6, NowAccount
    <2> QED
      BY Zenon, <2>4, <2>5, <2>7 DEF Outcome
  <1>7. CASE ~useNow
    <2> DEFINE new == SelectDaOrdering(Accumulator, Incoming(shapes), TRUE)
               stored == StoreBatches(new.kept)
    <2>1. /\ deferred' = TakeSlots(n, stored)
          /\ Output(shapes, old.kept, old.discarded \cup new.discarded)
      <3>1. ~useNow = TRUE
        BY <1>7
      <3> HIDE DEF old, useNow
      <3> QED
        BY Zenon, <1>7, <3>1 DEF SelectOthers, old, useNow
    <2> HIDE DEF old
    <2>2. /\ new.kept \in Seq(Blob) /\ InOrder(new.kept)
          /\ \A b \in Range(new.kept) : b.slot = trueSlot + 1 /\ Held(b, "derived")
          /\ Handled(new) = New(shapes) /\ Ids(new.kept) \cap new.discarded = {}
      BY Zenon, <1>1, <1>2, SelectLater
    <2> HIDE DEF new
    <2>3. deferred[trueSlot + 1] = <<>>
      <3>1. ~(trueSlot + 1 <= trueSlot)
        BY <1>1
      <3> QED
        BY Zenon, <1>1, <3>1 DEF IInv, WaitInv
    <2>4. DueIn(n, deferred) = DueIn(n, stored)
      <3>1. \A s \in Due(n) : s # trueSlot + 1
        BY <1>1, <1>7 DEF Due
      <3>2. \A s \in Slots : s # trueSlot + 1 => stored[s] = deferred[s]
        BY <1>2 DEF StoreBatches, Waits
      <3>3. \A s \in Due(n) : stored[s] = deferred[s]
        BY Zenon, <1>3, <3>1, <3>2
      <3> HIDE DEF stored
      <3> QED
        BY Zenon, <3>3 DEF DueIn
    <2> HIDE DEF stored
    <2>5. Chosen(old, Due(n))
      <3>1. Filled(n, deferred) \subseteq Due(n)
        BY Zenon DEF Filled
      <3> QED
        BY Zenon, <1>5, <3>1, ChosenMore
    <2>6. arrived' = arrived + Len(shapes) /\ selected' = old.kept
      BY Zenon, <2>1 DEF Output
    <2>7. settled' = settled \cup DueIn(n, stored) \cup new.discarded
      <3>1. settled' = settled \cup Ids(old.kept) \cup (old.discarded \cup new.discarded)
        BY Zenon, <2>1 DEF Output
      <3>2. Ids(old.kept) \cup old.discarded = DueIn(n, stored)
        BY Zenon, <1>5, <2>4 DEF Handled
      <3> QED
        BY Zenon, <3>1, <3>2
    <2>8. Waits(deferred') /\ NoneLost'
      BY Zenon, <1>1, <2>1, <2>2, <2>3, <2>6, <2>7, LaterAccount DEF Handled, stored
    <2> QED
      BY Zenon, <2>5, <2>6, <2>8 DEF Outcome
  <1> QED
    BY Zenon, <1>6, <1>7

-----------------------------------------------------------------------------
(* The blobs of the block, and the invariants.                             *)

\* The next sequence number stays a number.
TrackInv == next \in Nat /\ batch \subseteq Nat

\* What holds of the block of the last slot.
BlockInv ==
    /\ \A b \in Range(selected) : Held(b, "direct")
    /\ SelectionFits

\* The size of blobs is a number.
LEMMA SizeType == ASSUME NEW blobs \in Seq(Blob) PROVE TotalSize(blobs) \in Nat
  <1>1. Len(blobs) \in Nat /\ Len(blobs) \in 0..Len(blobs)
    OBVIOUS
  <1> QED
    BY Zenon, <1>1, SizesExist

\* Chosen blobs make a good block.
LEMMA ChosenFits ==
    ASSUME NEW acc, NEW slots, Chosen(acc, slots), selected' = acc.kept
    PROVE  /\ BlockInv'
           /\ \A b \in Range(selected') : b.slot \in slots
           /\ InOrder(selected')
  <1>1. acc.kept \in Seq(Blob) /\ acc.room \in Nat
    BY DEF Chosen, Acc
  <1>2. TotalSize(acc.kept) \in Nat /\ TotalSize(acc.kept) + acc.room = Room
    BY Zenon, <1>1, SizeType DEF Chosen
  <1>3. TotalSize(acc.kept) <= Room
    <2> DEFINE size == TotalSize(acc.kept)
    <2> HIDE DEF size
    <2>1. size \in Nat /\ size + acc.room = Room
      BY Zenon, <1>2 DEF size
    <2>2. size <= Room
      BY <1>1, <2>1, SizeAssumption
    <2> QED
      BY Zenon, <2>2 DEF size
  <1>5. SelectionFits'
    BY Zenon, <1>3 DEF SelectionFits
  <1>6. \A b \in Range(selected') : b.slot \in slots /\ Held(b, "direct")
    BY Zenon DEF Chosen
  <1>7. InOrder(selected')
    BY Zenon DEF Chosen
  <1> QED
    BY Zenon, <1>5, <1>6, <1>7 DEF BlockInv

\* What every slot has in common: the clock moves, and the blobs follow.
Slot(shapes, n) == Moves(n) /\ Outcome(shapes, n)

\* A slot with a preferred sequencer grows by what it chose, within its limits.
LEMMA PreferredOutcome ==
    ASSUME IInv, BlobInv, NEW copies, NEW malformed, NEW shapes \in Arrivals, NEW short,
           NEW requested \in 1..MAX_VISIBLE_HEIGHT_INCREASE_PER_SLOT,
           PreferredSlot(copies, malformed, requested, shapes, short)
    PROVE  \E n : Slot(shapes, n)
  <1> DEFINE run == HasRun(next, copies, index, batch)
             n == VisibleIncrease(run, requested)
  <1>1. DEFERRED_SLOTS_COUNT > 0 /\ Advance(n) /\ SelectOthers(shapes, n, short)
    BY DEF PreferredSlot, HasPreferred
  <1>2. run \in BOOLEAN
    BY DEF HasRun
  <1>3. n \in Nat /\ Moves(n)
    <2> HIDE DEF run
    <2> QED
      BY <1>1, <1>2, IncreaseInRange DEF IInv, Moves
  <1> HIDE DEF n
  <1>4. Outcome(shapes, n)
    BY Zenon, <1>1, <1>3, OthersOutcome
  <1> QED
    BY Zenon, <1>3, <1>4 DEF Slot

\* Every step is a slot, or a call of the registry, which leaves the blobs alone.
LEMMA StepOutcome ==
    ASSUME IInv, BlobInv, [Next]_vars
    PROVE  \/ UNCHANGED <<slotVars, trackerVars, blobVars>>
           \/ \E shapes \in Arrivals : \E n : Slot(shapes, n)
  <1>1. ASSUME NEW shapes \in Arrivals, BasedSlot(shapes) PROVE Slot(shapes, trueSlot + 1 - visible)
    BY Zenon, <1>1, BasedMoves, BasedOutcome DEF Slot
  <1>2. ASSUME NEW shapes \in Arrivals, RecoveryLastSlot(shapes) PROVE Slot(shapes, 1)
    BY Zenon, <1>2, RecoveryLastMoves, RecoveryLastOutcome DEF Slot
  <1>3. ASSUME NEW shapes \in Arrivals, NEW short, RecoverySlot(shapes, short) PROVE Slot(shapes, 2)
    BY Zenon, <1>3, RecoveryMoves, RecoveryOutcome DEF Slot
  <1>4. CASE InitiateWithdrawal \/ Withdraw \/ Deposit \/ Register
    BY Zenon, <1>4 DEF InitiateWithdrawal, Withdraw, Deposit, Register
  <1>5. CASE UNCHANGED vars
    BY Zenon, <1>5 DEF vars
  <1>6. CASE Next
    BY ZenonT(40), <1>1, <1>2, <1>3, <1>4, <1>6, PreferredOutcome DEF Next
  <1> QED
    BY Zenon, <1>5, <1>6

\* The two invariants hold at first, and every step keeps them.
LEMMA InitBlobs == Init => BlobInv /\ BlockInv
  <1> SUFFICES ASSUME Init PROVE BlobInv /\ BlockInv
    OBVIOUS
  <1>1. /\ deferred = [s \in Slots |-> <<>>] /\ selected = <<>>
        /\ arrived = 0 /\ settled = {}
    BY DEF Init
  <1>2. <<>> \in Seq(Blob) /\ Range(<<>>) = {} /\ Ids(<<>>) = {} /\ InOrder(<<>>)
    BY DEF Range, Ids, InOrder
  <1>3. Waits(deferred)
    BY Zenon, <1>1, <1>2 DEF Waits
  <1>4. Pending = {} /\ 1..0 = {} /\ 0 \in Nat
    BY <1>1, <1>2 DEF Pending
  <1>5. NoneLost
    BY Zenon, <1>1, <1>4 DEF NoneLost
  <1>6. SelectionFits
    <2>1. 0 <= Room
      BY SizeAssumption
    <2>2. TotalSize(selected) <= Room
      BY Zenon, <1>1, <2>1, SizeOfNone
    <2> QED
      BY Zenon, <2>2 DEF SelectionFits
  <1> QED
    BY Zenon, <1>1, <1>2, <1>3, <1>4, <1>5, <1>6 DEF BlobInv, BlockInv

LEMMA NextBlobs == IInv /\ BlobInv /\ BlockInv /\ [Next]_vars => BlobInv' /\ BlockInv'
  <1> SUFFICES ASSUME IInv, BlobInv, BlockInv, [Next]_vars PROVE BlobInv' /\ BlockInv'
    OBVIOUS
  <1>1. CASE UNCHANGED <<slotVars, trackerVars, blobVars>>
    <2>1. UNCHANGED <<deferred, selected, arrived, settled>>
      BY Zenon, <1>1 DEF blobVars
    <2>2. BlobInv'
      BY Zenon, <2>1 DEF BlobInv, NoneLost, Pending
    <2> QED
      BY Zenon, <2>1, <2>2 DEF BlockInv, SelectionFits
  <1>2. ASSUME NEW shapes \in Arrivals, NEW n, Slot(shapes, n) PROVE BlobInv' /\ BlockInv'
    <2>1. Waits(deferred') /\ NoneLost' /\ arrived' = arrived + Len(shapes)
      BY Zenon, <1>2 DEF Slot, Outcome
    <2>2. arrived' \in Nat
      <3>1. Len(shapes) \in Nat
        BY DEF Arrivals
      <3> QED
        BY <2>1, <3>1 DEF BlobInv
    <2>3. PICK acc : Chosen(acc, Due(n)) /\ selected' = acc.kept
      BY Zenon, <1>2 DEF Slot, Outcome
    <2>4. BlockInv'
      BY Zenon, <2>3, ChosenFits
    <2> QED
      BY Zenon, <2>1, <2>2, <2>4 DEF BlobInv
  <1> QED
    BY Zenon, <1>1, <1>2, StepOutcome

LEMMA BlobInvariance == Spec => [](IInv /\ BlobInv /\ BlockInv)
  BY InitIInv, Inductive, InitBlobs, NextBlobs, PTL DEF Spec

\* The number after a run is one more than the number of its batch.
LEMMA NextNumberType ==
    ASSUME TrackInv, NEW copies
    PROVE  NextNumber(next, copies, index, batch) \in Nat
  <1> DEFINE Ends(m) == EndsRun(m, next, copies, index, batch)
             last == CHOOSE m \in batch : Ends(m)
  <1>1. CASE HasRun(next, copies, index, batch)
    <2>1. last \in batch
      <3> HIDE DEF Ends
      <3>1. \E m \in batch : Ends(m)
        BY Zenon, <1>1 DEF HasRun, Ends
      <3> QED
        BY Zenon, <3>1
    <2>2. NextNumber(next, copies, index, batch) = 1 + last
      BY Zenon, <1>1 DEF NextNumber
    <2> HIDE DEF last
    <2> QED
      BY <2>1, <2>2 DEF TrackInv
  <1>2. CASE ~HasRun(next, copies, index, batch)
    BY Zenon, <1>2 DEF NextNumber, TrackInv
  <1> QED
    BY Zenon, <1>1, <1>2

LEMMA NextTrack == TrackInv /\ [Next]_vars => TrackInv'
  <1> SUFFICES ASSUME TrackInv, [Next]_vars PROVE TrackInv'
    OBVIOUS
  <1>1. ASSUME NEW shapes, NEW short,
               BasedSlot(shapes) \/ RecoveryLastSlot(shapes) \/ RecoverySlot(shapes, short)
        PROVE  TrackInv'
    BY Zenon, <1>1 DEF BasedSlot, RecoveryLastSlot, RecoverySlot, trackerVars, TrackInv
  <1>2. ASSUME NEW copies, NEW malformed, NEW requested, NEW shapes, NEW short,
               PreferredSlot(copies, malformed, requested, shapes, short)
        PROVE  TrackInv'
    <2>1. next' = NextNumber(next, copies, index, batch) /\ batch' = batch
      BY Zenon, <1>2 DEF PreferredSlot
    <2> QED
      BY Zenon, <2>1, NextNumberType DEF TrackInv
  <1>3. CASE InitiateWithdrawal \/ Withdraw \/ Deposit \/ Register
    BY Zenon, <1>3 DEF InitiateWithdrawal, Withdraw, Deposit, Register, trackerVars, TrackInv
  <1>4. CASE UNCHANGED vars
    BY Zenon, <1>4 DEF vars, trackerVars, TrackInv
  <1> QED
    BY ZenonT(40), <1>1, <1>2, <1>3, <1>4 DEF Next

-----------------------------------------------------------------------------
\* Every blob of another sender than the preferred one waits in storage, or was
\* selected or discarded, and never two of these: no way to select the blobs of a
\* slot, and no change from one way to another, loses a blob or uses it twice.
THEOREM EveryBlobCounted == Spec => []NoneLost
  <1>1. BlobInv => NoneLost
    BY DEF BlobInv
  <1> QED
    BY <1>1, BlobInvariance, PTL

\* The assertions about reserved gas hold: a stored blob of a known sender has its
\* gas in a derived account, a selected one has it in the bank, and a blob of
\* another sender has none.
THEOREM GasFollowsBlob == Spec => []EscrowMatchesPlace
  <1>1. BlobInv /\ BlockInv => EscrowMatchesPlace
    BY Zenon DEF BlobInv, BlockInv, Waits, Held, EscrowMatchesPlace
  <1> QED
    BY <1>1, BlobInvariance, PTL

\* The blobs of a rollup block fit into it, stored ones and new ones together.
THEOREM BlocksFit == Spec => []SelectionFits
  <1>1. BlockInv => SelectionFits
    BY DEF BlockInv
  <1> QED
    BY <1>1, BlobInvariance, PTL

\* A rollup block executes blobs of the slots it makes visible and of no others, in
\* the order of the DA layer, batches of a slot before its proofs.
THEOREM BlocksAreVisibleParts == Spec => BlockIsVisiblePart
  <1> DEFINE part ==
        trueSlot' > trueSlot =>
          /\ \A b \in Range(selected') : visible < b.slot /\ b.slot <= visible'
          /\ \A i, j \in DOMAIN selected' : i < j => Before(selected'[i], selected'[j])
  <1>1. IInv /\ BlobInv /\ [Next]_vars => [part]_vars
    <2> SUFFICES ASSUME IInv, BlobInv, [Next]_vars PROVE part
      OBVIOUS
    <2>1. trueSlot \in Nat /\ visible \in Nat
      BY DEF IInv, SlotInv
    <2>2. CASE UNCHANGED <<slotVars, trackerVars, blobVars>>
      BY <2>1, <2>2 DEF slotVars
    <2>3. ASSUME NEW shapes \in Arrivals, NEW n, Slot(shapes, n) PROVE part
      <3>1. PICK acc : Chosen(acc, Due(n)) /\ selected' = acc.kept
        BY Zenon, <2>3 DEF Slot, Outcome
      <3>2. (\A b \in Range(selected') : b.slot \in Due(n)) /\ InOrder(selected')
        BY Zenon, <3>1, ChosenFits
      <3>3. n \in Nat /\ visible' = visible + n
        BY <2>3 DEF Slot, Moves, Advance
      <3>4. \A s \in Due(n) : visible < s /\ s <= visible'
        BY <2>1, <3>3 DEF Due
      <3> QED
        BY Zenon, <3>2, <3>4 DEF InOrder
    <2> QED
      BY Zenon, <2>2, <2>3, StepOutcome
  <1> QED
    BY <1>1, BlobInvariance, PTL DEF Spec, BlockIsVisiblePart

\* A slot that makes no slot visible, and so has no rollup block, executes no blob,
\* preferred or not.
THEOREM NoBlobsWithoutBlock == Spec => NoBlockNoBlobs
  <1> DEFINE none == trueSlot' > trueSlot /\ visible' = visible => selected' = <<>> /\ ran' = {}
  <1>1. IInv /\ BlobInv /\ TrackInv /\ [Next]_vars => [none]_vars
    <2> SUFFICES ASSUME IInv, BlobInv, TrackInv, Next, trueSlot' > trueSlot, visible' = visible
                 PROVE  selected' = <<>> /\ ran' = {}
      OBVIOUS
    <2>1. trueSlot \in Nat /\ visible \in Nat
      BY DEF IInv, SlotInv
    <2>2. selected' = <<>>
      <3>1. CASE UNCHANGED <<slotVars, trackerVars, blobVars>>
        BY <2>1, <3>1 DEF slotVars
      <3>2. ASSUME NEW shapes \in Arrivals, NEW n, Slot(shapes, n) PROVE selected' = <<>>
        <4>1. PICK acc : Chosen(acc, Due(n)) /\ selected' = acc.kept
          BY Zenon, <3>2 DEF Slot, Outcome
        <4>2. \A b \in Range(selected') : b.slot \in Due(n)
          BY Zenon, <4>1, ChosenFits
        <4>3. n = 0
          BY <2>1, <3>2 DEF Slot, Moves, Advance
        <4>4. Due(n) = {}
          BY <2>1, <4>3 DEF Due
        <4>5. Range(selected') = {}
          BY Zenon, <4>2, <4>4
        <4>6. selected' \in Seq(Blob)
          BY <4>1 DEF Chosen, Acc
        <4>7. DOMAIN selected' = {}
          BY Zenon, <4>5 DEF Range
        <4>8. Len(selected') = 0
          BY <4>6, <4>7
        <4> QED
          BY <4>6, <4>8
      <3> QED
        BY Zenon, <3>1, <3>2, StepOutcome
    <2>3. ASSUME NEW shapes, NEW short,
                 BasedSlot(shapes) \/ RecoveryLastSlot(shapes) \/ RecoverySlot(shapes, short)
          PROVE  ran' = {}
      BY Zenon, <2>3 DEF BasedSlot, RecoveryLastSlot, RecoverySlot
    <2>4. ASSUME NEW copies, NEW malformed, NEW shapes, NEW short,
                 NEW requested \in 1..MAX_VISIBLE_HEIGHT_INCREASE_PER_SLOT,
                 PreferredSlot(copies, malformed, requested, shapes, short)
          PROVE  ran' = {}
      <3> DEFINE run == HasRun(next, copies, index, batch)
                 after == NextNumber(next, copies, index, batch)
      <3>1. /\ visible' = visible + VisibleIncrease(run, requested)
            /\ ran' \in MayRun(next..(after - 1), malformed)
        BY <2>4 DEF PreferredSlot, Advance
      <3>2. CASE run
        <4>1. VisibleIncrease(run, requested) \in Nat /\ VisibleIncrease(run, requested) >= 1
          BY <2>1, <3>2, SlotAssumption DEF VisibleIncrease, Lesser, IInv, SlotInv
        <4> HIDE DEF run
        <4>2. FALSE
          BY <2>1, <3>1, <4>1
        <4> QED
          BY <4>2
      <3>3. CASE ~run
        <4>1. after = next /\ next \in Nat
          BY Zenon, <3>3 DEF NextNumber, TrackInv
        <4> HIDE DEF after
        <4>2. next..(after - 1) = {}
          BY <4>1
        <4>3. ran' \in MayRun({}, malformed)
          BY Zenon, <3>1, <4>2
        <4> QED
          BY Zenon, <4>3 DEF MayRun
      <3> QED
        BY <3>2, <3>3
    <2>5. CASE InitiateWithdrawal \/ Withdraw \/ Deposit \/ Register
      BY <2>1, <2>5 DEF InitiateWithdrawal, Withdraw, Deposit, Register, slotVars
    <2>6. ran' = {}
      BY ZenonT(40), <2>3, <2>4, <2>5 DEF Next
    <2> QED
      BY <2>2, <2>6
  <1>2. Init => TrackInv
    BY NumberAssumption DEF Init, TrackInv, Numbers
  <1> QED
    BY <1>1, <1>2, NextTrack, BlobInvariance, PTL DEF Spec, NoBlockNoBlobs
=============================================================================
