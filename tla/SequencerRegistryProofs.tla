---------------------- MODULE SequencerRegistryProofs -----------------------
(***************************************************************************)
(* A withdrawal is not ready while a blob of the sequencer is deferred, and *)
(* the module accounts always cover the stakes and the bonds, for every    *)
(* number of sequencers and slots and every gas price.                     *)
(***************************************************************************)
EXTENDS SequencerRegistry, FiniteSetTheorems, TLAPS

\* Induction over the natural numbers, with a set in the place of a predicate.
LEMMA NatInduct ==
    ASSUME NEW S, 0 \in S, \A n \in Nat : n \in S => n + 1 \in S
    PROVE  Nat \subseteq S
  <1> DEFINE R == {ss \in Nat \X Nat : ss[1] < ss[2]}
             C == Nat \ S
  <1> SUFFICES ASSUME C # {} PROVE FALSE
    OBVIOUS
  <1>1. IsWellFoundedOn(R, Nat)
    BY NatLessThanWellFounded DEF OpToRel
  <1>2. PICK g \in C : \A h \in C : ~ (<<h, g>> \in R)
    <2>1. C \subseteq Nat
      OBVIOUS
    <2> HIDE DEF C, R
    <2> QED
      BY Zenon, <2>1, <1>1, WFMin
  <1>3. g # 0 /\ g - 1 \in Nat /\ g - 1 < g /\ g = (g - 1) + 1
    BY <1>2
  <1>4. g - 1 \in S
    BY Zenon, <1>2, <1>3
  <1> QED
    BY Zenon, <1>2, <1>3, <1>4

\* Induction over the subsets of a finite set.
LEMMA SubsetInduct ==
    ASSUME NEW D, IsFiniteSet(D), NEW P, {} \in P,
           \A T \in SUBSET D : T # {} /\ (\A x \in T : T \ {x} \in P) => T \in P
    PROVE  SUBSET D \subseteq P
  <1> DEFINE N == {n \in Nat : \A T \in SUBSET D : Cardinality(T) <= n => T \in P}
  <1>1. \A T \in SUBSET D : /\ IsFiniteSet(T) /\ Cardinality(T) \in Nat
                            /\ Cardinality(T) = 0 => T = {}
    BY FS_Subset, FS_CardinalityType, FS_EmptySet
  <1>2. 0 \in N
    BY <1>1
  <1>3. ASSUME NEW n \in Nat, n \in N PROVE n + 1 \in N
    <2>1. ASSUME NEW T \in SUBSET D, Cardinality(T) <= n + 1, T # {} PROVE T \in P
      <3>1. ASSUME NEW x \in T PROVE T \ {x} \in P
        <4>1. Cardinality(T \ {x}) = Cardinality(T) - 1 /\ T \ {x} \in SUBSET D
          BY <1>1, FS_RemoveElement
        <4> QED
          BY <1>1, <1>3, <2>1, <4>1
      <3> QED
        BY <2>1, <3>1
    <2>2. \A T \in SUBSET D : Cardinality(T) <= n + 1 => T \in P
      BY Zenon, <2>1
    <2> QED
      BY <2>2
  <1>4. Nat \subseteq N
    <2> HIDE DEF N
    <2> QED
      BY <1>2, <1>3, NatInduct
  <1> QED
    BY <1>1, <1>4

-----------------------------------------------------------------------------
(* Sums over the accounts of a table.                                      *)

\* The recursion behind MapThenSumSet: the sum over s takes one element of s and the sum
\* over the rest.  Sums(f) is the table of the sums of f over the subsets of its domain.
Some(s) == CHOOSE x \in s : TRUE
SumFrom(f, g, s) == IF s = {} THEN 0 ELSE f[Some(s)] + g[s \ {Some(s)}]
Sums(f) == CHOOSE g : g = [s \in SUBSET DOMAIN f |-> SumFrom(f, g, s)]

\* MapThenSumSet is that recursion.
LEMMA SumIsSums == ASSUME NEW f PROVE SumOf(f) = Sums(f)[DOMAIN f]
  BY DEF SumOf, Sums, SumFrom, Some, MapThenSumSet, MapThenFoldSet

\* A table of sums exists: it is built for larger and larger subsets.
LEMMA SumsExist ==
    ASSUME NEW D, IsFiniteSet(D), NEW f \in [D -> Int]
    PROVE  \E g \in [SUBSET D -> Int] : \A s \in SUBSET D : g[s] = SumFrom(f, g, s)
  <1> DEFINE Upto(g, n) == \A s \in SUBSET D : Cardinality(s) <= n => g[s] = SumFrom(f, g, s)
             N == {n \in Nat : \E g \in [SUBSET D -> Int] : Upto(g, n)}
  <1>0. \A s \in SUBSET D : IsFiniteSet(s) /\ Cardinality(s) \in Nat
                            /\ Cardinality(s) <= Cardinality(D)
    BY FS_Subset, FS_CardinalityType
  <1>1. 0 \in N
    <2> DEFINE z == [s \in SUBSET D |-> 0]
    <2>1. z \in [SUBSET D -> Int] /\ Upto(z, 0)
      BY <1>0, FS_EmptySet DEF SumFrom
    <2> HIDE DEF z, Upto
    <2> QED
      BY <2>1
  <1>2. ASSUME NEW n \in Nat, n \in N PROVE n + 1 \in N
    <2>1. PICK g \in [SUBSET D -> Int] : Upto(g, n)
      BY Zenon, <1>2
    <2> DEFINE h == [s \in SUBSET D |-> SumFrom(f, g, s)]
    <2>2. \A s \in SUBSET D : s # {} => Some(s) \in s /\ s \ {Some(s)} \in SUBSET D
      BY DEF Some
    <2>3. h \in [SUBSET D -> Int]
      BY <2>2 DEF SumFrom
    <2>4. ASSUME NEW s \in SUBSET D, Cardinality(s) <= n + 1 PROVE h[s] = SumFrom(f, h, s)
      <3>1. CASE s = {}
        BY Zenon, <3>1 DEF SumFrom
      <3>2. CASE s # {}
        <4> DEFINE t == s \ {Some(s)}
        <4>1. Cardinality(t) = Cardinality(s) - 1 /\ t \in SUBSET D
          BY <1>0, <2>2, <3>2, FS_RemoveElement
        <4>2. g[t] = SumFrom(f, g, t)
          BY <1>0, <2>1, <2>4, <4>1
        <4>3. h[t] = g[t]
          BY <4>1, <4>2
        <4> QED
          BY <3>2, <4>3 DEF SumFrom
      <3> QED
        BY <3>1, <3>2
    <2>5. Upto(h, n + 1)
      BY Zenon, <2>4
    <2> HIDE DEF h, Upto
    <2> QED
      BY <2>3, <2>5
  <1>3. Cardinality(D) \in N
    <2> HIDE DEF N
    <2> QED
      BY <1>0, <1>1, <1>2, NatInduct
  <1>4. PICK g \in [SUBSET D -> Int] : Upto(g, Cardinality(D))
    BY Zenon, <1>3
  <1>5. \A s \in SUBSET D : g[s] = SumFrom(f, g, s)
    BY <1>0, <1>4
  <1> QED
    BY <1>5

\* So the recursive definition holds of the table.
LEMMA SumsDef ==
    ASSUME NEW D, IsFiniteSet(D), NEW f \in [D -> Int], NEW s \in SUBSET D
    PROVE  Sums(f)[s] = SumFrom(f, Sums(f), s)
  <1>1. DOMAIN f = D
    OBVIOUS
  <1>2. \E g : g = [t \in SUBSET DOMAIN f |-> SumFrom(f, g, t)]
    <2>1. PICK g \in [SUBSET D -> Int] : \A t \in SUBSET D : g[t] = SumFrom(f, g, t)
      BY Zenon, SumsExist
    <2>2. g = [t \in SUBSET DOMAIN f |-> SumFrom(f, g, t)]
      BY <1>1, <2>1
    <2> QED
      BY Zenon, <2>2
  <1>3. Sums(f) = [t \in SUBSET DOMAIN f |-> SumFrom(f, Sums(f), t)]
    BY Zenon, <1>2 DEF Sums
  <1> QED
    BY Zenon, <1>1, <1>3

\* The sums of integers are integers.
LEMMA SumsType ==
    ASSUME NEW D, IsFiniteSet(D), NEW f \in [D -> Int]
    PROVE  \A s \in SUBSET D : Sums(f)[s] \in Int
  <1> DEFINE P == {s \in SUBSET D : Sums(f)[s] \in Int}
  <1>1. {} \in P
    <2>1. Sums(f)[{}] = SumFrom(f, Sums(f), {})
      BY Zenon, SumsDef
    <2> QED
      BY <2>1 DEF SumFrom
  <1>2. ASSUME NEW s \in SUBSET D, s # {}, \A x \in s : s \ {x} \in P PROVE s \in P
    <2>1. Some(s) \in s
      BY <1>2 DEF Some
    <2>2. Sums(f)[s] = f[Some(s)] + Sums(f)[s \ {Some(s)}]
      BY ZenonT(40), <1>2, SumsDef DEF SumFrom
    <2>3. f[Some(s)] \in Int /\ Sums(f)[s \ {Some(s)}] \in Int
      BY <1>2, <2>1
    <2> QED
      BY <2>2, <2>3
  <1>3. SUBSET D \subseteq P
    <2> HIDE DEF P
    <2> QED
      BY Zenon, <1>1, <1>2, SubsetInduct
  <1> QED
    BY <1>3

\* Any element can be taken out of a sum, not only the one the recursion chooses.
LEMMA SumsRemove ==
    ASSUME NEW D, IsFiniteSet(D), NEW f \in [D -> Int], NEW t \in SUBSET D, NEW z \in t
    PROVE  Sums(f)[t] = f[z] + Sums(f)[t \ {z}]
  <1> DEFINE P == {s \in SUBSET D : \A y \in s : Sums(f)[s] = f[y] + Sums(f)[s \ {y}]}
  <1>1. {} \in P
    OBVIOUS
  <1>2. ASSUME NEW s \in SUBSET D, s # {}, \A x \in s : s \ {x} \in P PROVE s \in P
    <2> DEFINE c == Some(s)
    <2>1. c \in s
      BY <1>2 DEF Some
    <2>2. Sums(f)[s] = f[c] + Sums(f)[s \ {c}]
      BY <1>2, SumsDef DEF SumFrom
    <2> HIDE DEF c
    <2>3. ASSUME NEW y \in s, y # c PROVE Sums(f)[s] = f[y] + Sums(f)[s \ {y}]
      <3> DEFINE r == s \ {c, y}
      <3>1. Sums(f)[s \ {c}] = f[y] + Sums(f)[r]
        <4>1. s \ {c} \in P /\ y \in s \ {c} /\ (s \ {c}) \ {y} = r
          BY Zenon, <1>2, <2>1, <2>3
        <4> QED
          BY Zenon, <4>1
      <3>2. Sums(f)[s \ {y}] = f[c] + Sums(f)[r]
        <4>1. s \ {y} \in P /\ c \in s \ {y} /\ (s \ {y}) \ {c} = r
          BY Zenon, <1>2, <2>1, <2>3
        <4> QED
          BY Zenon, <4>1
      <3>3. f[c] \in Int /\ f[y] \in Int /\ Sums(f)[r] \in Int
        BY <2>1, SumsType
      <3> QED
        BY <2>2, <3>1, <3>2, <3>3
    <2> QED
      BY Zenon, <2>2, <2>3
  <1>3. SUBSET D \subseteq P
    <2> HIDE DEF P
    <2> QED
      BY Zenon, <1>1, <1>2, SubsetInduct
  <1> QED
    BY <1>3

\* The sum over the whole domain.
LEMMA SumsWhole ==
    ASSUME NEW D, IsFiniteSet(D), NEW f \in [D -> Int], NEW x \in D
    PROVE  /\ Sums(f)[D] = f[x] + Sums(f)[D \ {x}]
           /\ f[x] \in Int /\ Sums(f)[D] \in Int /\ Sums(f)[D \ {x}] \in Int
  <1>1. D \in SUBSET D /\ D \ {x} \in SUBSET D
    OBVIOUS
  <1>2. Sums(f)[D] \in Int /\ Sums(f)[D \ {x}] \in Int
    BY <1>1, SumsType
  <1>3. Sums(f)[D] = f[x] + Sums(f)[D \ {x}]
    BY <1>1, SumsRemove
  <1> QED
    BY <1>2, <1>3

\* Equal summands have equal sums.
LEMMA SumsAgree ==
    ASSUME NEW D, IsFiniteSet(D), NEW f \in [D -> Int], NEW h \in [D -> Int]
    PROVE  \A s \in SUBSET D : (\A y \in s : f[y] = h[y]) => Sums(f)[s] = Sums(h)[s]
  <1> DEFINE P == {s \in SUBSET D : (\A y \in s : f[y] = h[y]) => Sums(f)[s] = Sums(h)[s]}
  <1>1. {} \in P
    BY Zenon, SumsDef DEF SumFrom
  <1>2. ASSUME NEW s \in SUBSET D, s # {}, \A x \in s : s \ {x} \in P PROVE s \in P
    <2> DEFINE c == Some(s)
    <2>1. c \in s
      BY <1>2 DEF Some
    <2>2. Sums(f)[s] = f[c] + Sums(f)[s \ {c}] /\ Sums(h)[s] = h[c] + Sums(h)[s \ {c}]
      BY <1>2, SumsDef DEF SumFrom
    <2> HIDE DEF c
    <2> QED
      BY Zenon, <1>2, <2>1, <2>2
  <1>3. SUBSET D \subseteq P
    <2> HIDE DEF P
    <2> QED
      BY Zenon, <1>1, <1>2, SubsetInduct
  <1> QED
    BY <1>3

\* A sum of natural numbers is one, and bounds each of them.
LEMMA SumNat ==
    ASSUME NEW D, IsFiniteSet(D), NEW f \in [D -> Nat]
    PROVE  /\ SumOf(f) \in Nat
           /\ \A x \in D : f[x] <= SumOf(f)
  <1> DEFINE P == {s \in SUBSET D : Sums(f)[s] \in Nat}
  <1>0. f \in [D -> Int] /\ DOMAIN f = D
    OBVIOUS
  <1>1. {} \in P
    BY <1>0, SumsDef DEF SumFrom
  <1>2. ASSUME NEW s \in SUBSET D, s # {}, \A x \in s : s \ {x} \in P PROVE s \in P
    <2>1. PICK y \in s : TRUE
      BY <1>2
    <2>2. Sums(f)[s] = f[y] + Sums(f)[s \ {y}]
      BY <1>0, SumsRemove
    <2>3. f[y] \in Nat /\ Sums(f)[s \ {y}] \in Nat
      BY <1>2, <2>1
    <2> QED
      BY <2>2, <2>3
  <1>3. SUBSET D \subseteq P
    <2> HIDE DEF P
    <2> QED
      BY Zenon, <1>1, <1>2, SubsetInduct
  <1>4. ASSUME NEW x \in D PROVE f[x] <= Sums(f)[D]
    <2>1. Sums(f)[D] = f[x] + Sums(f)[D \ {x}]
      BY Zenon, <1>0, SumsWhole
    <2>2. Sums(f)[D \ {x}] \in Nat /\ f[x] \in Nat
      BY <1>3
    <2> QED
      BY <2>1, <2>2
  <1> QED
    BY <1>0, <1>3, <1>4, SumIsSums

\* Changing one summand.
LEMMA SumUpdate ==
    ASSUME NEW D, IsFiniteSet(D), NEW f \in [D -> Int], NEW x \in D, NEW v \in Int
    PROVE  /\ SumOf(f) \in Int
           /\ SumOf([f EXCEPT ![x] = v]) = SumOf(f) - f[x] + v
  <1> DEFINE h == [f EXCEPT ![x] = v]
  <1>1. h \in [D -> Int] /\ h[x] = v /\ \A y \in D \ {x} : h[y] = f[y]
    OBVIOUS
  <1>2. DOMAIN f = D /\ DOMAIN h = D
    OBVIOUS
  <1> HIDE DEF h
  <1>3. Sums(f)[D] = f[x] + Sums(f)[D \ {x}] /\ Sums(h)[D] = v + Sums(h)[D \ {x}]
    BY Zenon, <1>1, SumsWhole
  <1>4. Sums(f)[D \ {x}] = Sums(h)[D \ {x}]
    <2>1. D \ {x} \in SUBSET D
      OBVIOUS
    <2> QED
      BY <1>1, <2>1, SumsAgree
  <1>5. Sums(f)[D \ {x}] \in Int /\ f[x] \in Int /\ Sums(f)[D] \in Int
    BY Zenon, SumsWhole
  <1>6. SumOf(f) = Sums(f)[D] /\ SumOf(h) = Sums(h)[D]
    BY <1>2, SumIsSums
  <1>7. SumOf(h) = SumOf(f) - f[x] + v
    BY <1>3, <1>4, <1>5, <1>6
  <1> QED
    BY <1>5, <1>6, <1>7 DEF h

\* Equal summands.
LEMMA SumConstant ==
    ASSUME NEW D, IsFiniteSet(D), NEW v \in Int
    PROVE  SumOf([x \in D |-> v]) = v * Cardinality(D)
  <1> DEFINE f == [x \in D |-> v]
             P == {s \in SUBSET D : Sums(f)[s] = v * Cardinality(s)}
  <1>0. f \in [D -> Int] /\ DOMAIN f = D /\ \A x \in D : f[x] = v
    OBVIOUS
  <1> HIDE DEF f
  <1>a. \A s \in SUBSET D : IsFiniteSet(s) /\ Cardinality(s) \in Nat
    BY FS_Subset, FS_CardinalityType
  <1>1. {} \in P
    <2>1. Sums(f)[{}] = 0
      BY Zenon, <1>0, SumsDef DEF SumFrom
    <2> QED
      BY <2>1, FS_EmptySet
  <1>2. ASSUME NEW s \in SUBSET D, s # {}, \A x \in s : s \ {x} \in P PROVE s \in P
    <2>1. PICK y \in s : TRUE
      BY <1>2
    <2>2. Sums(f)[s] = v + Sums(f)[s \ {y}]
      BY <1>0, SumsRemove
    <2>3. Cardinality(s \ {y}) = Cardinality(s) - 1 /\ Cardinality(s) \in Nat
      BY <1>a, FS_RemoveElement
    <2>4. Sums(f)[s \ {y}] = v * (Cardinality(s) - 1)
      BY <1>2, <2>3
    <2>5. v * (Cardinality(s) - 1) = v * Cardinality(s) - v
      BY <2>3
    <2>6. v * Cardinality(s) \in Int
      BY <2>3
    <2> QED
      BY <2>2, <2>4, <2>5, <2>6
  <1>3. SUBSET D \subseteq P
    <2> HIDE DEF P
    <2> QED
      BY Zenon, <1>1, <1>2, SubsetInduct
  <1> QED
    BY <1>0, <1>3, SumIsSums DEF f

-----------------------------------------------------------------------------
(* The withdrawal.                                                         *)

\* The time each SMT leaf may take.
USE SMTT(40)

ClockInv ==
    /\ trueSlot \in Nat /\ visible \in Nat
    /\ visible <= trueSlot
    /\ trueSlot - visible < Clock!Lag

TableInv ==
    /\ standing \in [Sequencers -> {"active", "pending", "gone"}]
    /\ readyAt \in [Sequencers -> Nat]
    /\ DOMAIN escrow = Blobs

\* A deferred blob is in a true slot, while transactions run in one that is not
\* visible, and a pending withdrawal waits for that slot to be visible.
EscrowInv ==
    \A s \in Sequencers, k \in Slots : escrow[<<s, k>>] # 0 =>
        /\ k <= trueSlot
        /\ phase = "execute" => visible < k
        /\ standing[s] = "pending" => k < readyAt[s]

IInv == ClockInv /\ TableInv /\ EscrowInv

\* A step that stores no blob, makes no withdrawal pending and leaves the slot
\* numbers alone keeps the invariant.
Calm ==
    /\ UNCHANGED <<trueSlot, visible>> /\ phase' \in {phase, "panicked"}
    /\ standing' \in [Sequencers -> {"active", "pending", "gone"}]
    /\ readyAt' \in [Sequencers -> Nat]
    /\ \A s \in Sequencers : standing'[s] = "pending" =>
          standing[s] = "pending" /\ readyAt'[s] = readyAt[s]
    /\ DOMAIN escrow' = Blobs
    /\ \A s \in Sequencers, k \in Slots : escrow'[<<s, k>>] \in {0, escrow[<<s, k>>]}

LEMMA CalmKeeps ==
    ASSUME IInv, Calm PROVE IInv'
  <1>1. ClockInv'
    <2>1. (Clock!Lag)' = Clock!Lag
      BY DEF Clock!Lag
    <2> QED
      BY <2>1 DEF IInv, ClockInv, Calm
  <1>2. TableInv'
    BY DEF Calm, TableInv
  <1>3. ASSUME NEW s \in Sequencers, NEW k \in Slots, escrow'[<<s, k>>] # 0
        PROVE  /\ k <= trueSlot'
               /\ phase' = "execute" => visible' < k
               /\ standing'[s] = "pending" => k < readyAt'[s]
    <2>1. escrow[<<s, k>>] # 0
      BY <1>3 DEF Calm
    <2>2. standing'[s] = "pending" => standing[s] = "pending" /\ readyAt'[s] = readyAt[s]
      BY DEF Calm
    <2>3. trueSlot' = trueSlot /\ visible' = visible /\ (phase' = "execute" => phase = "execute")
      BY DEF Calm
    <2> QED
      BY <2>1, <2>2, <2>3 DEF IInv, EscrowInv
  <1>4. EscrowInv'
    BY <1>3 DEF EscrowInv
  <1> QED
    BY <1>1, <1>2, <1>4 DEF IInv

LEMMA InitIInv == Init => IInv
  <1> SUFFICES ASSUME Init PROVE IInv
    OBVIOUS
  <1>1. ClockInv
    BY SlotAssumption DEF Init, ClockInv, Clock!Lag
  <1>2. TableInv
    <2>1. PICK s \in Sequencers :
            standing = [t \in Sequencers |-> IF t = s THEN "active" ELSE "gone"]
      BY DEF Init
    <2> QED
      BY <2>1 DEF Init, TableInv
  <1>3. EscrowInv
    BY DEF Init, EscrowInv, Blobs
  <1> QED
    BY <1>1, <1>2, <1>3 DEF IInv

\* The slot numbers move; nothing is executed yet.
LEMMA BeginSlotKeeps ==
    ASSUME IInv, NEW senders, BeginSlot(senders) PROVE IInv'
  <1>1. /\ trueSlot \in Nat /\ visible \in Nat
        /\ trueSlot' = trueSlot + 1 /\ visible' \in visible..trueSlot'
        /\ trueSlot' - visible' < Clock!Lag
        /\ phase' = "select"
    BY DEF BeginSlot, Clock!Tick, IInv, ClockInv
  <1>2. UNCHANGED <<standing, readyAt, escrow>>
    BY DEF BeginSlot, standingVars, blobVars
  <1>3. ClockInv'
    <2>1. (Clock!Lag)' = Clock!Lag
      BY DEF Clock!Lag
    <2> QED
      BY <1>1, <2>1 DEF ClockInv
  <1>4. TableInv'
    BY <1>2 DEF IInv, TableInv
  <1>5. EscrowInv'
    <2> SUFFICES ASSUME NEW s \in Sequencers, NEW k \in Slots, escrow'[<<s, k>>] # 0
                 PROVE  k <= trueSlot' /\ (standing'[s] = "pending" => k < readyAt'[s])
      BY <1>1 DEF EscrowInv
    <2>1. escrow[<<s, k>>] # 0
      BY <1>2
    <2>2. k <= trueSlot /\ (standing[s] = "pending" => k < readyAt[s])
      BY <2>1 DEF IInv, EscrowInv
    <2>3. k \in Int
      BY SlotAssumption DEF Slots
    <2>4. k <= trueSlot'
      BY <1>1, <2>2, <2>3
    <2> QED
      BY <1>2, <2>2, <2>4
  <1> QED
    BY <1>3, <1>4, <1>5 DEF IInv

\* Execution begins when the visible slots have been emptied.
LEMMA BeginExecutionKeeps ==
    ASSUME IInv, BeginExecution PROVE IInv'
  <1>1. UNCHANGED <<trueSlot, visible, standing, readyAt, escrow>>
    BY DEF BeginExecution, standingVars, blobVars
  <1>2. ClockInv' /\ TableInv'
    <2>1. (Clock!Lag)' = Clock!Lag
      BY DEF Clock!Lag
    <2> QED
      BY <1>1, <2>1 DEF IInv, ClockInv, TableInv
  <1>3. ASSUME NEW s \in Sequencers, NEW k \in Slots, escrow[<<s, k>>] # 0
        PROVE  visible < k
    <2>1. <<s, k>> \in Blobs
      BY DEF Blobs
    <2>2. ~(<<s, k>>[2] <= visible)
      BY <1>3, <2>1 DEF BeginExecution
    <2>3. k \in Int /\ visible \in Int
      BY SlotAssumption DEF Slots, IInv, ClockInv
    <2> QED
      BY <2>2, <2>3
  <1>4. EscrowInv'
    BY <1>1, <1>3 DEF IInv, EscrowInv
  <1> QED
    BY <1>2, <1>4 DEF IInv

\* Only an active sequencer's blob is deferred, in the slot that just began.
LEMMA DeferKeeps ==
    ASSUME IInv, NEW s \in Sequencers, NEW fits, Defer(s, fits) PROVE IInv'
  <1> DEFINE kept == IF fits THEN Check + Deferral ELSE 0
  <1>1. /\ phase = "select" /\ standing[s] = "active"
        /\ escrow' = [escrow EXCEPT ![<<s, trueSlot>>] = kept]
        /\ UNCHANGED <<trueSlot, visible, phase, standing, readyAt>>
    BY DEF Defer, Posts, slotVars, standingVars
  <1>2. ClockInv' /\ TableInv'
    <2>1. (Clock!Lag)' = Clock!Lag
      BY DEF Clock!Lag
    <2> QED
      BY <1>1, <2>1 DEF IInv, ClockInv, TableInv
  <1>3. ASSUME NEW t \in Sequencers, NEW k \in Slots, escrow'[<<t, k>>] # 0
        PROVE  k <= trueSlot /\ (standing[t] = "pending" => k < readyAt[t])
    <2>1. <<t, k>> \in DOMAIN escrow
      BY DEF IInv, TableInv, Blobs
    <2>2. CASE t = s /\ k = trueSlot
      BY <1>1, <2>2 DEF IInv, ClockInv
    <2>3. CASE ~(t = s /\ k = trueSlot)
      <3>1. <<t, k>> # <<s, trueSlot>>
        BY <2>3
      <3>2. escrow'[<<t, k>>] = escrow[<<t, k>>]
        BY <1>1, <2>1, <3>1
      <3> QED
        BY <1>3, <3>2 DEF IInv, EscrowInv
    <2> QED
      BY <2>2, <2>3
  <1>4. EscrowInv'
    BY <1>1, <1>3 DEF EscrowInv
  <1> QED
    BY <1>2, <1>4 DEF IInv

\* A deferred blob is at most DEFERRED_SLOTS_COUNT slots ahead of the visible
\* slot number, so ready_at is later.
LEMMA InitiateWithdrawalKeeps ==
    ASSUME IInv, NEW s \in Sequencers, InitiateWithdrawal(s) PROVE IInv'
  <1> DEFINE ready == visible + DEFERRED_SLOTS_COUNT + 1
  <1>1. /\ standing' = [standing EXCEPT ![s] = "pending"]
        /\ readyAt' = [readyAt EXCEPT ![s] = ready]
        /\ UNCHANGED <<trueSlot, visible, phase, escrow>>
    BY DEF InitiateWithdrawal, slotVars, blobVars
  <1>2. ready \in Nat /\ trueSlot < ready
    BY SlotAssumption DEF IInv, ClockInv, Clock!Lag
  <1>3. ClockInv'
    <2>1. (Clock!Lag)' = Clock!Lag
      BY DEF Clock!Lag
    <2> QED
      BY <1>1, <2>1 DEF IInv, ClockInv
  <1> HIDE DEF ready
  <1>4. TableInv'
    BY <1>1, <1>2 DEF IInv, TableInv
  <1>5. ASSUME NEW t \in Sequencers, NEW k \in Slots, escrow[<<t, k>>] # 0, standing'[t] = "pending"
        PROVE  k < readyAt'[t]
    <2>1. k \in Int /\ trueSlot \in Int /\ k <= trueSlot
      BY <1>5, SlotAssumption DEF Slots, IInv, ClockInv, EscrowInv
    <2>2. CASE t = s
      <3>1. readyAt'[t] = ready
        BY <1>1, <2>2 DEF IInv, TableInv
      <3> QED
        BY <1>2, <2>1, <3>1
    <2>3. CASE t # s
      <3>1. standing[t] = "pending" /\ readyAt'[t] = readyAt[t]
        BY <1>1, <1>5, <2>3 DEF IInv, TableInv
      <3> QED
        BY <1>5, <3>1 DEF IInv, EscrowInv
    <2> QED
      BY <2>2, <2>3
  <1>6. EscrowInv'
    BY <1>1, <1>5 DEF IInv, EscrowInv
  <1> QED
    BY <1>3, <1>4, <1>6 DEF IInv

\* A known sequencer leaves or becomes active; no blob is stored.
LEMMA StandingCalm ==
    ASSUME IInv, NEW s \in Sequencers, UNCHANGED <<trueSlot, visible, phase, escrow>>,
           \/ standing' = [standing EXCEPT ![s] = "gone"] /\ readyAt' = [readyAt EXCEPT ![s] = 0]
           \/ standing' = [standing EXCEPT ![s] = "active"] /\ readyAt' = [readyAt EXCEPT ![s] = 0]
           \/ standing' = [standing EXCEPT ![s] = "active"] /\ readyAt' = readyAt
    PROVE  Calm
  BY DEF IInv, TableInv, Calm

\* The blob of a sequencer leaves its derived account, or nothing changes.
LEMMA EscrowCalm ==
    ASSUME IInv, UNCHANGED <<trueSlot, visible, standing, readyAt>>,
           phase' \in {phase, "panicked"},
           \/ UNCHANGED escrow
           \/ \E s \in Sequencers, k \in Slots : escrow' = [escrow EXCEPT ![<<s, k>>] = 0]
    PROVE  Calm
  <1>1. CASE UNCHANGED escrow
    BY <1>1 DEF IInv, TableInv, Calm
  <1>2. ASSUME NEW s \in Sequencers, NEW k \in Slots, escrow' = [escrow EXCEPT ![<<s, k>>] = 0]
        PROVE  Calm
    <2>1. ASSUME NEW t \in Sequencers, NEW j \in Slots
          PROVE  escrow'[<<t, j>>] \in {0, escrow[<<t, j>>]}
      BY <1>2 DEF IInv, TableInv, Blobs
    <2> QED
      BY <1>2, <2>1 DEF IInv, TableInv, Calm
  <1> QED
    BY Zenon, <1>1, <1>2

LEMMA SelectKeeps ==
    ASSUME IInv, NEW s \in Sequencers, Select(s) PROVE IInv'
  <1>1. CASE Ignore(s)
    BY <1>1, EscrowCalm, CalmKeeps DEF Ignore, slotVars, standingVars, blobVars
  <1>2. CASE Malformed(s)
    BY Zenon, <1>2, StandingCalm, CalmKeeps DEF Malformed, Slash, slotVars, blobVars
  <1>3. CASE Unfunded(s)
    BY <1>3, EscrowCalm, CalmKeeps DEF Unfunded, slotVars, standingVars, blobVars
  <1>4. ASSUME NEW fits, SelectNow(s, fits) \/ SelectPreferred(s, fits) PROVE IInv'
    BY <1>4, EscrowCalm, CalmKeeps
      DEF SelectNow, SelectPreferred, ReserveDirect, slotVars, standingVars
  <1>5. ASSUME NEW k \in Slots, NEW need, Refund(s, k, need) PROVE IInv'
    BY Zenon, <1>5, EscrowCalm, CalmKeeps DEF Refund, slotVars, standingVars
  <1>6. ASSUME NEW k \in Slots, NEW need, NEW fits, Retrieve(s, k, need, fits) PROVE IInv'
    BY Zenon, <1>6, EscrowCalm, CalmKeeps DEF Retrieve, slotVars, standingVars
  <1> QED
    BY <1>1, <1>2, <1>3, <1>4, <1>5, <1>6, DeferKeeps DEF Select

LEMMA ExecuteKeeps ==
    ASSUME IInv, NEW s \in Sequencers, Execute(s) PROVE IInv'
  <1>1. ASSUME NEW k, ReturnEscrowedFunds(s, k) \/ \E n \in 1..Check : Penalize(s, k, n)
        PROVE  IInv'
    <2>1. /\ UNCHANGED <<trueSlot, visible, standing, readyAt, escrow>>
          /\ phase' \in {phase, "panicked"}
      BY <1>1 DEF ReturnEscrowedFunds, Penalize, standingVars, blobVars
    <2> QED
      BY <2>1, EscrowCalm, CalmKeeps
  <1>2. ASSUME NEW amount, Register(s, amount) PROVE IInv'
    BY Zenon, <1>2, StandingCalm, CalmKeeps DEF Register, slotVars, blobVars
  <1>3. ASSUME NEW amount, Deposit(s, amount) PROVE IInv'
    BY Zenon, <1>3, StandingCalm, CalmKeeps DEF Deposit, slotVars, blobVars
  <1>4. CASE Withdraw(s)
    BY Zenon, <1>4, StandingCalm, CalmKeeps DEF Withdraw, slotVars, blobVars
  <1> QED
    BY <1>1, <1>2, <1>3, <1>4, InitiateWithdrawalKeeps DEF Execute

LEMMA Inductive == IInv /\ [Next]_vars => IInv'
  <1> SUFFICES ASSUME IInv, [Next]_vars PROVE IInv'
    OBVIOUS
  <1>1. CASE UNCHANGED vars
    BY <1>1, EscrowCalm, CalmKeeps DEF vars, slotVars, standingVars, blobVars
  <1>2. CASE Next
    BY <1>2, BeginSlotKeeps, BeginExecutionKeeps, SelectKeeps, ExecuteKeeps DEF Next
  <1> QED
    BY <1>1, <1>2
-----------------------------------------------------------------------------
\* initiate_withdrawal waits long enough: when a withdrawal is ready, every
\* deferred blob of the sequencer has been selected or dropped.
THEOREM WithdrawalWaits == Spec => []ReadyIsSelected
  <1>1. IInv => ReadyIsSelected
    <2> SUFFICES ASSUME IInv, phase = "execute", NEW s \in Sequencers, Ready(s),
                        NEW k \in Slots, escrow[<<s, k>>] # 0
                 PROVE  FALSE
      BY DEF ReadyIsSelected
    <2>1. visible < k /\ k < readyAt[s] /\ readyAt[s] <= visible
      BY DEF IInv, EscrowInv, Ready
    <2>2. k \in Int /\ visible \in Int /\ readyAt[s] \in Int
      BY SlotAssumption DEF Slots, IInv, ClockInv, TableInv
    <2> QED
      BY <2>1, <2>2
  <1> QED
    BY <1>1, InitIInv, Inductive, PTL DEF Spec

-----------------------------------------------------------------------------
(* The accounts.                                                           *)

\* What TypeOK says of the slot, the senders and the known sequencers.  A sequencer
\* whose blob of this slot is not yet validated has nothing in the account of that blob.
SlotInv ==
    /\ trueSlot <= MaxSlot
    /\ phase \in {"select", "execute", "panicked"} /\ block \in BOOLEAN /\ waits \in BOOLEAN
    /\ running \in Blobs \cup {None}
    /\ posters \subseteq Sequencers /\ preferred \in Sequencers \cup {None}
    /\ \A s \in Sequencers : readyAt[s] <= MaxSlot + DEFERRED_SLOTS_COUNT + 1
    /\ phase = "select" => /\ trueSlot >= 1
                           /\ \A s \in posters : escrow[<<s, trueSlot>>] = 0

\* No account is overdrawn, and the module accounts cover what they owe.  The penalties
\* of the batch that runs have left the bank.
AccountInv ==
    /\ stake \in [Sequencers -> Nat] /\ funds \in [Sequencers -> Nat]
    /\ escrow \in [Blobs -> Nat] /\ bond \in [Blobs -> Nat]
    /\ registry \in Nat /\ bank \in Nat /\ paid \in Nat /\ penalty \in 0..paid
    /\ RegistrySolvent /\ BankSolvent /\ Conserved

\* There are finitely many blobs.
LEMMA BlobsFinite == IsFiniteSet(Blobs)
  <1>1. IsFiniteSet(Slots)
    BY FS_Interval, SlotAssumption DEF Slots
  <1> QED
    BY <1>1, FS_Product, SequencersAssumption DEF Blobs

\* No account is overdrawn.
LEMMA AccountTypes ==
    ASSUME AccountInv
    PROVE  /\ stake \in [Sequencers -> Nat] /\ funds \in [Sequencers -> Nat]
           /\ escrow \in [Blobs -> Nat] /\ bond \in [Blobs -> Nat]
           /\ registry \in Nat /\ bank \in Nat /\ paid \in Nat
           /\ penalty \in Nat /\ penalty <= paid
  BY DEF AccountInv

\* One account of a table changes.
LEMMA StakeSum ==
    ASSUME AccountInv, NEW s \in Sequencers, NEW v \in Nat, stake' = [stake EXCEPT ![s] = v]
    PROVE  /\ stake' \in [Sequencers -> Nat] /\ stake[s] \in Nat
           /\ SumOf(stake') = SumOf(stake) - stake[s] + v
  <1>1. /\ stake \in [Sequencers -> Int] /\ stake \in [Sequencers -> Nat]
        /\ IsFiniteSet(Sequencers) /\ v \in Int
    BY AccountTypes, SequencersAssumption
  <1>2. SumOf([stake EXCEPT ![s] = v]) = SumOf(stake) - stake[s] + v
    BY Zenon, <1>1, SumUpdate
  <1> QED
    BY <1>1, <1>2

LEMMA FundsSum ==
    ASSUME AccountInv, NEW s \in Sequencers, NEW v \in Nat, funds' = [funds EXCEPT ![s] = v]
    PROVE  /\ funds' \in [Sequencers -> Nat] /\ funds[s] \in Nat
           /\ SumOf(funds') = SumOf(funds) - funds[s] + v
  <1>1. /\ funds \in [Sequencers -> Int] /\ funds \in [Sequencers -> Nat]
        /\ IsFiniteSet(Sequencers) /\ v \in Int
    BY AccountTypes, SequencersAssumption
  <1>2. SumOf([funds EXCEPT ![s] = v]) = SumOf(funds) - funds[s] + v
    BY Zenon, <1>1, SumUpdate
  <1> QED
    BY <1>1, <1>2

LEMMA EscrowSum ==
    ASSUME AccountInv, NEW b \in Blobs, NEW v \in Nat, escrow' = [escrow EXCEPT ![b] = v]
    PROVE  /\ escrow' \in [Blobs -> Nat] /\ escrow[b] \in Nat
           /\ SumOf(escrow') = SumOf(escrow) - escrow[b] + v
  <1>1. escrow \in [Blobs -> Int] /\ escrow \in [Blobs -> Nat] /\ IsFiniteSet(Blobs) /\ v \in Int
    BY AccountTypes, BlobsFinite
  <1>2. SumOf([escrow EXCEPT ![b] = v]) = SumOf(escrow) - escrow[b] + v
    BY Zenon, <1>1, SumUpdate
  <1> QED
    BY <1>1, <1>2

LEMMA BondSum ==
    ASSUME AccountInv, NEW b \in Blobs, NEW v \in Nat, bond' = [bond EXCEPT ![b] = v]
    PROVE  /\ bond' \in [Blobs -> Nat] /\ bond[b] \in Nat
           /\ SumOf(bond') = SumOf(bond) - bond[b] + v
  <1>1. bond \in [Blobs -> Int] /\ bond \in [Blobs -> Nat] /\ IsFiniteSet(Blobs) /\ v \in Int
    BY AccountTypes, BlobsFinite
  <1>2. SumOf([bond EXCEPT ![b] = v]) = SumOf(bond) - bond[b] + v
    BY Zenon, <1>1, SumUpdate
  <1> QED
    BY <1>1, <1>2

\* The sums are natural numbers.
LEMMA SumsNat ==
    ASSUME AccountInv
    PROVE  /\ SumOf(stake) \in Nat /\ SumOf(funds) \in Nat
           /\ SumOf(escrow) \in Nat /\ SumOf(bond) \in Nat
  BY SumNat, BlobsFinite, SequencersAssumption DEF AccountInv

\* A step moves tokens and makes none: what the tables and the module accounts gain and
\* lose adds up, and the module accounts cover what is added to the tables they back.
LEMMA Transfer ==
    ASSUME AccountInv,
           stake' \in [Sequencers -> Nat], funds' \in [Sequencers -> Nat],
           escrow' \in [Blobs -> Nat], bond' \in [Blobs -> Nat],
           registry' \in Int, bank' \in Nat, paid' \in Nat, penalty' \in 0..paid',
           SumOf(stake') - SumOf(stake) <= registry' - registry,
           SumOf(bond') - SumOf(bond) <= (bank' + penalty') - (bank + penalty),
           SumOf(funds') + SumOf(escrow') + registry' + bank' + paid'
               = SumOf(funds) + SumOf(escrow) + registry + bank + paid
    PROVE  AccountInv'
  <1>1. /\ SumOf(stake) \in Nat /\ SumOf(bond) \in Nat
        /\ SumOf(stake') \in Nat /\ SumOf(bond') \in Nat
    BY SumNat, BlobsFinite, SequencersAssumption DEF AccountInv
  <1>2. registry \in Nat /\ bank \in Nat /\ penalty \in Nat /\ penalty' \in Nat
    BY AccountTypes
  <1>3. SumOf(stake') <= registry'
    BY <1>1, <1>2 DEF AccountInv, RegistrySolvent
  <1>4. SumOf(bond') <= bank' + penalty'
    <2>1. SumOf(bond) <= bank + penalty
      BY DEF AccountInv, BankSolvent
    <2> QED
      BY <1>1, <1>2, <2>1
  <1>5. registry' \in Nat
    BY <1>1, <1>3
  <1>6. Conserved'
    BY DEF AccountInv, Conserved, Total
  <1> QED
    BY <1>3, <1>4, <1>5, <1>6 DEF AccountInv, RegistrySolvent, BankSolvent

\* Outside of a batch nothing leaves the bank.
LEMMA CalmTransfer ==
    ASSUME AccountInv, penalty' = penalty,
           stake' \in [Sequencers -> Nat], funds' \in [Sequencers -> Nat],
           escrow' \in [Blobs -> Nat], bond' \in [Blobs -> Nat],
           registry' \in Int, bank' \in Nat, paid' \in Nat, paid <= paid',
           SumOf(stake') - SumOf(stake) <= registry' - registry,
           SumOf(bond') - SumOf(bond) <= bank' - bank,
           SumOf(funds') + SumOf(escrow') + registry' + bank' + paid'
               = SumOf(funds) + SumOf(escrow) + registry + bank + paid
    PROVE  AccountInv'
  <1>1. penalty \in Nat /\ penalty <= paid /\ bank \in Nat /\ paid \in Nat
    BY AccountTypes
  <1>2. penalty' \in 0..paid' /\ bank' - bank = (bank' + penalty') - (bank + penalty)
    BY <1>1
  <1> QED
    BY <1>2, Transfer

\* No tokens move.
LEMMA NoTransfer ==
    ASSUME AccountInv, UNCHANGED <<stake, funds, escrow, bond, registry, bank, paid, penalty>>
    PROVE  AccountInv'
  BY DEF AccountInv, RegistrySolvent, BankSolvent, Conserved, Total

\* A stake is charged or lost: the tokens stay with the module.
LEMMA ChargeTransfer ==
    ASSUME AccountInv, NEW s \in Sequencers, NEW v \in Nat, v <= stake[s],
           stake' = [stake EXCEPT ![s] = v],
           UNCHANGED <<funds, escrow, bond, registry, bank, paid, penalty>>
    PROVE  AccountInv'
  <1>1. /\ stake' \in [Sequencers -> Nat] /\ SumOf(stake) \in Nat /\ stake[s] \in Nat
        /\ SumOf(stake') = SumOf(stake) - stake[s] + v
    BY Zenon, SumsNat, StakeSum
  <1>2. funds' \in [Sequencers -> Nat] /\ escrow' \in [Blobs -> Nat] /\ bond' \in [Blobs -> Nat]
    BY DEF AccountInv
  <1>3. registry' \in Int /\ bank' \in Nat /\ paid' \in Nat /\ paid <= paid' /\ SumOf(bond) \in Nat
    BY SumsNat, AccountTypes
  <1> QED
    BY <1>1, <1>2, <1>3, CalmTransfer

\* validate_blob moves the cost of the checks from the stake to the bank.
LEMMA ReserveTransfer ==
    ASSUME IInv, SlotInv, AccountInv, phase = "select", NEW s \in Sequencers, NEW charge \in Nat,
           NEW fits \in BOOLEAN, ReserveDirect(s, charge, fits)
    PROVE  AccountInv'
  <1> DEFINE v == stake[s] - charge - Check
             d == IF fits THEN Check ELSE 0
             b == <<s, trueSlot>>
  <1>0. stake[s] \in Nat /\ Check \in Nat
    BY CostAssumption DEF AccountInv
  <1>1. /\ v \in Nat /\ v = stake[s] - charge - Check
        /\ d \in Nat /\ d <= Check /\ b \in Blobs
    BY <1>0, SlotAssumption DEF ReserveDirect, SlotInv, IInv, ClockInv, Blobs, Slots
  <1>2. /\ stake' = [stake EXCEPT ![s] = v] /\ bond' = [bond EXCEPT ![b] = d]
        /\ registry' = registry - Check /\ bank' = bank + Check
        /\ UNCHANGED <<funds, escrow, paid, penalty>>
    BY DEF ReserveDirect, slotVars, batchVars
  <1> HIDE DEF v, d, b
  <1>3. /\ stake' \in [Sequencers -> Nat] /\ SumOf(stake) \in Nat
        /\ SumOf(stake') = SumOf(stake) - stake[s] + v
    BY Zenon, <1>1, <1>2, SumsNat, StakeSum
  <1>4. /\ bond' \in [Blobs -> Nat] /\ SumOf(bond) \in Nat /\ bond[b] \in Nat
        /\ SumOf(bond') = SumOf(bond) - bond[b] + d
    BY Zenon, <1>1, <1>2, SumsNat, BondSum
  <1>5. registry \in Nat /\ bank \in Nat /\ SumOf(funds) \in Nat /\ SumOf(escrow) \in Nat
    BY SumsNat DEF AccountInv
  <1>6. registry' \in Int /\ bank' \in Nat /\ paid' \in Nat /\ paid \in Nat /\ paid <= paid'
        /\ funds' \in [Sequencers -> Nat] /\ escrow' \in [Blobs -> Nat]
    BY <1>0, <1>2, <1>5, AccountTypes
  <1>7. SumOf(stake') - SumOf(stake) <= registry' - registry
    BY <1>0, <1>1, <1>2, <1>3, <1>5
  <1>8. SumOf(bond') - SumOf(bond) <= bank' - bank
    BY <1>0, <1>1, <1>2, <1>4, <1>5
  <1>9. SumOf(funds') + SumOf(escrow') + registry' + bank' + paid'
               = SumOf(funds) + SumOf(escrow) + registry + bank + paid
    BY <1>0, <1>2, <1>5, <1>6
  <1> QED
    BY <1>2, <1>3, <1>4, <1>6, <1>7, <1>8, <1>9, CalmTransfer

\* validate_blob moves the cost of a deferred blob from the stake to its derived account,
\* which is empty: a sequencer has one blob in a slot.
LEMMA DeferTransfer ==
    ASSUME IInv, SlotInv, AccountInv, NEW s \in Sequencers, NEW fits \in BOOLEAN, Defer(s, fits)
    PROVE  AccountInv'
  <1> DEFINE cost == Check + Deferral
             v == stake[s] - Parse - cost
             e == IF fits THEN cost ELSE 0
             b == <<s, trueSlot>>
  <1>0. stake[s] \in Nat /\ Parse \in Nat /\ cost \in Nat
    BY CostAssumption, AccountTypes
  <1>1. /\ v \in Nat /\ v = stake[s] - Parse - cost
        /\ e \in Nat /\ b \in Blobs /\ escrow[b] = 0
    BY <1>0, SlotAssumption DEF Defer, Posts, SlotInv, IInv, ClockInv, Blobs, Slots
  <1>2. /\ stake' = [stake EXCEPT ![s] = v] /\ escrow' = [escrow EXCEPT ![b] = e]
        /\ registry' = registry - cost
        /\ UNCHANGED <<funds, bond, bank, penalty>>
    BY DEF Defer, slotVars, batchVars
  <1>a. paid' \in Nat /\ paid <= paid'
    BY <1>0, AccountTypes DEF Defer
  <1>b. paid' = paid + cost - e
    BY <1>0, AccountTypes DEF Defer
  <1> HIDE DEF v, e, b, cost
  <1>3. /\ stake' \in [Sequencers -> Nat] /\ SumOf(stake) \in Nat
        /\ SumOf(stake') = SumOf(stake) - stake[s] + v
    BY Zenon, <1>1, <1>2, SumsNat, StakeSum
  <1>4. /\ escrow' \in [Blobs -> Nat] /\ SumOf(escrow) \in Nat
        /\ SumOf(escrow') = SumOf(escrow) - escrow[b] + e
    BY Zenon, <1>1, <1>2, SumsNat, EscrowSum
  <1>5. /\ SumOf(funds) \in Nat /\ SumOf(bond) \in Nat
        /\ registry \in Nat /\ bank \in Nat /\ paid \in Nat
    BY SumsNat, AccountTypes
  <1>6. /\ registry' \in Int /\ bank' \in Nat
        /\ funds' \in [Sequencers -> Nat] /\ bond' \in [Blobs -> Nat]
    BY <1>0, <1>2, <1>5, AccountTypes
  <1>7. SumOf(stake') - SumOf(stake) <= registry' - registry
    BY <1>0, <1>1, <1>2, <1>3, <1>5
  <1>8. SumOf(bond') - SumOf(bond) <= bank' - bank
    BY <1>2, <1>5
  <1>9. SumOf(funds') + SumOf(escrow') + registry' + bank' + paid'
               = SumOf(funds) + SumOf(escrow) + registry + bank + paid
    <2>1. SumOf(escrow') = SumOf(escrow) + e /\ e \in Nat
      BY <1>1, <1>4
    <2>2. SumOf(funds') = SumOf(funds) /\ bank' = bank /\ registry' = registry - cost
      BY <1>2
    <2>3. paid' = paid + cost - e
      BY <1>b
    <2>4. SumOf(escrow) \in Nat
      BY <1>4
    <2> QED
      BY <1>0, <1>5, <2>1, <2>2, <2>3, <2>4
  <1> QED
    BY <1>2, <1>3, <1>4, <1>6, <1>7, <1>8, <1>9, <1>a, CalmTransfer

\* A derived account is emptied: a part goes to the bank, where at most that part is
\* reserved for the blob, and the rest to the rollup address.
LEMMA EscrowTransfer ==
    ASSUME AccountInv, NEW s \in Sequencers, NEW b \in Blobs,
           NEW need \in Nat, need <= escrow[b], NEW d \in Nat, d <= need,
           escrow' = [escrow EXCEPT ![b] = 0],
           bond' = [bond EXCEPT ![b] = d] \/ bond' = bond,
           bank' = bank + need,
           funds' = [funds EXCEPT ![s] = @ + escrow[b] - need],
           UNCHANGED <<stake, registry, paid, penalty>>
    PROVE  AccountInv'
  <1> DEFINE y == funds[s] + escrow[b] - need
  <1>0. escrow[b] \in Nat /\ funds[s] \in Nat /\ registry \in Nat /\ bank \in Nat /\ paid \in Nat
    BY AccountTypes
  <1>1. y \in Nat /\ y = funds[s] + escrow[b] - need /\ funds' = [funds EXCEPT ![s] = y]
    BY <1>0
  <1> HIDE DEF y
  <1>2. funds' \in [Sequencers -> Nat] /\ SumOf(funds') = SumOf(funds) - funds[s] + y
    BY Zenon, <1>1, FundsSum
  <1>3. escrow' \in [Blobs -> Nat] /\ SumOf(escrow') = SumOf(escrow) - escrow[b] + 0
    <2>1. 0 \in Nat
      OBVIOUS
    <2> QED
      BY Zenon, <2>1, EscrowSum
  <1>4. SumOf(funds) \in Nat /\ SumOf(escrow) \in Nat /\ SumOf(bond) \in Nat /\ SumOf(stake) \in Nat
    BY SumsNat
  <1>5. bond' \in [Blobs -> Nat] /\ SumOf(bond') - SumOf(bond) <= bank' - bank
    <2>1. CASE bond' = bond
      BY <1>0, <1>4, <2>1, AccountTypes
    <2>2. CASE bond' = [bond EXCEPT ![b] = d]
      <3>1. /\ bond' \in [Blobs -> Nat] /\ bond[b] \in Nat
            /\ SumOf(bond') = SumOf(bond) - bond[b] + d
        BY Zenon, <2>2, BondSum
      <3> QED
        BY <1>0, <1>4, <3>1
    <2> QED
      BY <2>1, <2>2
  <1>6. /\ registry' \in Int /\ bank' \in Nat /\ paid' \in Nat /\ paid <= paid'
        /\ stake' \in [Sequencers -> Nat]
        /\ SumOf(stake') - SumOf(stake) <= registry' - registry
    BY <1>0, <1>4, AccountTypes
  <1>7. SumOf(funds') + SumOf(escrow') + registry' + bank' + paid'
               = SumOf(funds) + SumOf(escrow) + registry + bank + paid
    BY <1>0, <1>1, <1>2, <1>3, <1>4
  <1> QED
    BY <1>2, <1>3, <1>5, <1>6, <1>7, CalmTransfer

\* penalize_sequencer: the bank pays out, or the node panics.
LEMMA PenalizeTransfer ==
    ASSUME AccountInv, NEW s \in Sequencers, NEW k \in Slots, NEW n \in Nat, Penalize(s, k, n)
    PROVE  AccountInv'
  <1>1. UNCHANGED <<stake, funds, escrow, bond, registry>>
    BY DEF Penalize, blobVars
  <1>2. CASE UNCHANGED <<bank, paid, penalty>>
    BY Zenon, <1>1, <1>2, NoTransfer
  <1>3. CASE n <= bank /\ bank' = bank - n /\ paid' = paid + n /\ penalty' = penalty + n
    <2>1. registry \in Nat /\ bank \in Nat /\ paid \in Nat /\ penalty \in Nat /\ penalty <= paid
      BY AccountTypes
    <2>2. /\ stake' \in [Sequencers -> Nat] /\ funds' \in [Sequencers -> Nat]
          /\ escrow' \in [Blobs -> Nat] /\ bond' \in [Blobs -> Nat]
      BY <1>1, AccountTypes
    <2>3. SumOf(funds) \in Nat /\ SumOf(escrow) \in Nat /\ SumOf(bond) \in Nat /\ SumOf(stake) \in Nat
      BY SumsNat
    <2>4. registry' \in Int /\ bank' \in Nat /\ paid' \in Nat /\ penalty' \in 0..paid'
      BY <1>1, <1>3, <2>1
    <2>5. /\ SumOf(stake') - SumOf(stake) <= registry' - registry
          /\ SumOf(bond') - SumOf(bond) <= (bank' + penalty') - (bank + penalty)
      BY <1>1, <1>3, <2>1, <2>3
    <2>6. SumOf(funds') + SumOf(escrow') + registry' + bank' + paid'
               = SumOf(funds) + SumOf(escrow) + registry + bank + paid
      BY <1>1, <1>3, <2>1, <2>3
    <2> QED
      BY <2>2, <2>4, <2>5, <2>6, Transfer
  <1> QED
    BY <1>2, <1>3 DEF Penalize, batchVars

\* return_escrowed_funds_to_sequencer moves what the penalties left of the bond back to the
\* stake, or the node panics.
LEMMA ReturnTransfer ==
    ASSUME AccountInv, NEW s \in Sequencers, NEW k \in Slots, ReturnEscrowedFunds(s, k)
    PROVE  AccountInv'
  <1> DEFINE b == <<s, k>>
             v == stake[s] + (bond[b] - penalty)
  <1>0. CASE UNCHANGED <<bond, stake, registry, bank, penalty>>
    BY Zenon, <1>0, NoTransfer DEF ReturnEscrowedFunds
  <1>1. CASE ~ UNCHANGED <<bond, stake, registry, bank, penalty>>
    <2>1. /\ penalty <= bond[b] /\ penalty' = 0
          /\ stake' = [stake EXCEPT ![s] = v] /\ bond' = [bond EXCEPT ![b] = 0]
          /\ registry' = registry + (bond[b] - penalty) /\ bank' = bank - (bond[b] - penalty)
          /\ UNCHANGED <<funds, escrow, paid>>
      BY Zenon, <1>1 DEF ReturnEscrowedFunds, batchVars
    <2>2. b \in Blobs
      BY DEF Blobs
    <2>3. /\ stake[s] \in Nat /\ bond[b] \in Nat /\ registry \in Nat /\ bank \in Nat
          /\ paid \in Nat /\ penalty \in Nat
      BY <2>2, AccountTypes
    <2>4. v \in Nat /\ v = stake[s] + (bond[b] - penalty) /\ 0 \in Nat
      BY <2>1, <2>3
    <2> HIDE DEF v, b
    <2>5. stake' \in [Sequencers -> Nat] /\ SumOf(stake') = SumOf(stake) - stake[s] + v
      BY Zenon, <2>1, <2>4, StakeSum
    <2>6. bond' \in [Blobs -> Nat] /\ SumOf(bond') = SumOf(bond) - bond[b] + 0
      BY Zenon, <2>1, <2>2, <2>4, BondSum
    <2>7. SumOf(funds) \in Nat /\ SumOf(escrow) \in Nat /\ SumOf(bond) \in Nat /\ SumOf(stake) \in Nat
      BY SumsNat
    <2>8. SumOf(bond) <= bank + penalty /\ bond[b] <= SumOf(bond)
      BY <2>2, AccountTypes, SumNat, BlobsFinite DEF AccountInv, BankSolvent
    <2>9. /\ registry' \in Int /\ bank' \in Nat /\ paid' \in Nat /\ penalty' \in 0..paid'
          /\ funds' \in [Sequencers -> Nat] /\ escrow' \in [Blobs -> Nat]
      <3>1. registry' \in Int /\ bank' \in Nat
        BY <2>1, <2>3, <2>7, <2>8
      <3>2. paid' \in Nat /\ penalty' \in 0..paid'
        BY <2>1, <2>3
      <3> QED
        BY <2>1, <3>1, <3>2, AccountTypes
    <2>10. SumOf(stake') - SumOf(stake) <= registry' - registry
      BY <2>1, <2>3, <2>4, <2>5, <2>7
    <2>11. SumOf(bond') - SumOf(bond) <= (bank' + penalty') - (bank + penalty)
      BY <2>1, <2>3, <2>6, <2>7
    <2>12. SumOf(funds') + SumOf(escrow') + registry' + bank' + paid'
               = SumOf(funds) + SumOf(escrow) + registry + bank + paid
      BY <2>1, <2>3, <2>7
    <2> QED
      BY <2>5, <2>6, <2>9, <2>10, <2>11, <2>12, Transfer
  <1> QED
    BY <1>0, <1>1

\* Tokens move between the rollup address of a sequencer and the module's account; the
\* stake becomes at most what it was, changed by that amount.
LEMMA StakeTransfer ==
    ASSUME AccountInv, NEW s \in Sequencers, NEW amount \in Int, NEW v \in Nat, NEW y \in Nat,
           y = funds[s] - amount, v <= stake[s] + amount,
           stake' = [stake EXCEPT ![s] = v], funds' = [funds EXCEPT ![s] = y],
           registry' = registry + amount,
           UNCHANGED <<escrow, bond, bank, paid, penalty>>
    PROVE  AccountInv'
  <1>1. stake[s] \in Nat /\ funds[s] \in Nat /\ registry \in Nat /\ bank \in Nat /\ paid \in Nat
    BY AccountTypes
  <1>2. stake' \in [Sequencers -> Nat] /\ SumOf(stake') = SumOf(stake) - stake[s] + v
    BY Zenon, StakeSum
  <1>3. funds' \in [Sequencers -> Nat] /\ SumOf(funds') = SumOf(funds) - funds[s] + y
    BY Zenon, FundsSum
  <1>4. SumOf(funds) \in Nat /\ SumOf(escrow) \in Nat /\ SumOf(bond) \in Nat /\ SumOf(stake) \in Nat
    BY SumsNat
  <1>5. /\ registry' \in Int /\ bank' \in Nat /\ paid' \in Nat /\ paid <= paid'
        /\ escrow' \in [Blobs -> Nat] /\ bond' \in [Blobs -> Nat]
        /\ SumOf(bond') - SumOf(bond) <= bank' - bank
    BY <1>1, <1>4, AccountTypes
  <1>6. SumOf(stake') - SumOf(stake) <= registry' - registry
    BY <1>1, <1>2, <1>4
  <1>7. SumOf(funds') + SumOf(escrow') + registry' + bank' + paid'
               = SumOf(funds) + SumOf(escrow) + registry + bank + paid
    BY <1>1, <1>3, <1>4
  <1> QED
    BY <1>2, <1>3, <1>5, <1>6, <1>7, CalmTransfer

-----------------------------------------------------------------------------
\* Blob selection overdraws no account.
LEMMA SelectAccounts ==
    ASSUME IInv, SlotInv, AccountInv, NEW s \in Sequencers, Select(s) PROVE AccountInv'
  <1>1. CASE Ignore(s)
    BY Zenon, <1>1, NoTransfer DEF Ignore, blobVars, accountVars, slotVars, batchVars
  <1>2. CASE Malformed(s)
    <2>1. stake[s] \in Nat /\ 0 \in Nat /\ 0 <= stake[s]
      BY AccountTypes
    <2>2. /\ stake' = [stake EXCEPT ![s] = 0]
          /\ UNCHANGED <<funds, escrow, bond, registry, bank, paid, penalty>>
      BY <1>2 DEF Malformed, Slash, blobVars, accountVars, slotVars, batchVars
    <2> QED
      BY Zenon, <2>1, <2>2, ChargeTransfer
  <1>3. CASE Unfunded(s)
    <2> DEFINE v == stake[s] - Parse
    <2>1. v \in Nat /\ v <= stake[s]
      BY <1>3, AccountTypes, CostAssumption DEF Unfunded
    <2>2. /\ stake' = [stake EXCEPT ![s] = v]
          /\ UNCHANGED <<funds, escrow, bond, registry, bank, paid, penalty>>
      BY <1>3 DEF Unfunded, blobVars, accountVars, slotVars, batchVars
    <2> HIDE DEF v
    <2> QED
      BY Zenon, <2>1, <2>2, ChargeTransfer
  <1>4. ASSUME NEW fits \in BOOLEAN, SelectNow(s, fits) \/ SelectPreferred(s, fits)
        PROVE  AccountInv'
    <2>1. phase = "select" /\ Parse \in Nat /\ 0 \in Nat
      BY <1>4, CostAssumption DEF SelectNow, SelectPreferred, Posts
    <2>2. ReserveDirect(s, Parse, fits) \/ ReserveDirect(s, 0, fits)
      BY Zenon, <1>4 DEF SelectNow, SelectPreferred
    <2> QED
      BY Zenon, <2>1, <2>2, ReserveTransfer
  <1>5. ASSUME NEW k \in Slots, NEW need \in Needs, Refund(s, k, need) PROVE AccountInv'
    <2> DEFINE b == <<s, k>>
    <2>1. b \in Blobs
      BY DEF Blobs
    <2>2. escrow[b] \in Nat /\ funds[s] \in Nat /\ bank \in Nat
      BY <2>1, AccountTypes
    <2>3. /\ escrow' = [escrow EXCEPT ![b] = 0] /\ funds' = [funds EXCEPT ![s] = @ + escrow[b]]
          /\ UNCHANGED <<bond, stake, registry, bank, paid, penalty>>
      BY <1>5 DEF Refund, accountVars, slotVars, batchVars
    <2>4. /\ funds[s] + escrow[b] - 0 = funds[s] + escrow[b] /\ bank' = bank + 0
          /\ 0 \in Nat /\ 0 <= escrow[b] /\ 0 <= 0
      BY <2>2, <2>3
    <2>5. funds' = [funds EXCEPT ![s] = @ + escrow[b] - 0]
      BY Zenon, <2>3, <2>4
    <2> HIDE DEF b
    <2> QED
      BY Zenon, <2>1, <2>3, <2>4, <2>5, EscrowTransfer
  <1>6. ASSUME NEW k \in Slots, NEW need \in Needs, NEW fits \in BOOLEAN, Retrieve(s, k, need, fits)
        PROVE  AccountInv'
    <2> DEFINE b == <<s, k>>
               d == IF fits THEN need ELSE 0
    <2>1. b \in Blobs /\ need \in Nat /\ need <= escrow[b] /\ d \in Nat /\ d <= need
      BY <1>6, CostAssumption DEF Blobs, Retrieve
    <2>2. /\ escrow' = [escrow EXCEPT ![b] = 0] /\ bond' = [bond EXCEPT ![b] = d]
          /\ bank' = bank + need /\ funds' = [funds EXCEPT ![s] = @ + escrow[b] - need]
          /\ UNCHANGED <<stake, registry, paid, penalty>>
      BY <1>6 DEF Retrieve, slotVars, batchVars
    <2> HIDE DEF b, d
    <2> QED
      BY Zenon, <2>1, <2>2, EscrowTransfer
  <1> QED
    BY Zenon, <1>1, <1>2, <1>3, <1>4, <1>5, <1>6, DeferTransfer DEF Select

\* No transaction and no return of a bond overdraws an account.
LEMMA ExecuteAccounts ==
    ASSUME AccountInv, NEW s \in Sequencers, Execute(s) PROVE AccountInv'
  <1>0. stake[s] \in Nat /\ funds[s] \in Nat /\ registry \in Nat
    BY AccountTypes
  <1>1. ASSUME NEW k \in Slots, NEW n \in 1..Check, Penalize(s, k, n) PROVE AccountInv'
    <2>1. n \in Nat
      BY CostAssumption
    <2> QED
      BY Zenon, <1>1, <2>1, PenalizeTransfer
  <1>2. ASSUME NEW amount \in 0..Supply, amount <= funds[s],
               NEW v \in Nat, v <= stake[s] + amount,
               stake' = [stake EXCEPT ![s] = v], funds' = [funds EXCEPT ![s] = @ - amount],
               registry' = registry + amount, UNCHANGED <<escrow, bond, bank, paid, penalty>>
        PROVE  AccountInv'
    <2> DEFINE y == funds[s] - amount
    <2>0. amount \in Nat
      BY CostAssumption
    <2>1. amount \in Int /\ y \in Nat /\ y = funds[s] - amount
      BY <1>0, <1>2, <2>0
    <2>2. funds' = [funds EXCEPT ![s] = y]
      BY <1>2
    <2> HIDE DEF y
    <2> QED
      BY Zenon, <1>2, <2>1, <2>2, StakeTransfer
  <1>a. ASSUME NEW amount \in 0..Supply, Register(s, amount) PROVE AccountInv'
    <2>1. amount \in Nat /\ amount <= stake[s] + amount
      BY <1>0, CostAssumption
    <2> QED
      BY Zenon, <1>2, <1>a, <2>1 DEF Register, blobVars, slotVars, batchVars
  <1>b. ASSUME NEW amount \in 0..Supply, Deposit(s, amount) PROVE AccountInv'
    <2> DEFINE v == stake[s] + amount
    <2>1. v \in Nat /\ v <= stake[s] + amount /\ stake' = [stake EXCEPT ![s] = v]
      BY <1>0, <1>b, CostAssumption DEF Deposit
    <2> HIDE DEF v
    <2> QED
      BY Zenon, <1>2, <1>b, <2>1 DEF Deposit, blobVars, slotVars, batchVars
  <1>3. CASE InitiateWithdrawal(s)
    BY Zenon, <1>3, NoTransfer DEF InitiateWithdrawal, blobVars, accountVars, slotVars, batchVars
  <1>4. CASE Withdraw(s)
    <2> DEFINE a == 0 - stake[s]
               y == funds[s] + stake[s]
    <2>1. a \in Int /\ y \in Nat /\ y = funds[s] - a /\ 0 \in Nat /\ 0 <= stake[s] + a
      BY <1>0
    <2>2. /\ stake' = [stake EXCEPT ![s] = 0] /\ funds' = [funds EXCEPT ![s] = y]
          /\ UNCHANGED <<escrow, bond, bank, paid, penalty>>
      BY <1>4 DEF Withdraw, blobVars, slotVars, batchVars
    <2>3. registry' = registry + a
      BY <1>0, <1>4 DEF Withdraw
    <2> HIDE DEF a, y
    <2> QED
      BY Zenon, <2>1, <2>2, <2>3, StakeTransfer
  <1> QED
    BY Zenon, <1>1, <1>a, <1>b, <1>3, <1>4, ReturnTransfer DEF Execute

\* AccountInv is preserved by every step.
LEMMA NextAccounts ==
    ASSUME IInv, SlotInv, AccountInv, [Next]_vars PROVE AccountInv'
  <1>1. CASE UNCHANGED vars
    BY Zenon, <1>1, NoTransfer DEF vars, blobVars, accountVars, slotVars, batchVars
  <1>2. ASSUME NEW senders, BeginSlot(senders) PROVE AccountInv'
    BY Zenon, <1>2, NoTransfer DEF BeginSlot, blobVars, accountVars, batchVars
  <1>3. CASE BeginExecution
    BY Zenon, <1>3, NoTransfer DEF BeginExecution, blobVars, accountVars, batchVars
  <1> QED
    BY Zenon, <1>1, <1>2, <1>3, SelectAccounts, ExecuteAccounts DEF Next

-----------------------------------------------------------------------------
\* A step within a slot keeps SlotInv when it only takes senders out, forgets the
\* preferred sequencer or resets a withdrawal, and stores no blob of a sender that is left.
LEMMA CalmSlot ==
    ASSUME IInv, SlotInv, UNCHANGED slotVars,
           posters' \subseteq posters, preferred' \in {preferred, None},
           \A s \in Sequencers : readyAt'[s] <= MaxSlot + DEFERRED_SLOTS_COUNT + 1,
           \A s \in posters' : escrow[<<s, trueSlot>>] = 0 => escrow'[<<s, trueSlot>>] = 0
    PROVE  SlotInv'
  BY DEF SlotInv, slotVars, batchVars, Blobs, Slots

\* The bound on ready_at survives a reset of one entry.
LEMMA ResetReadyAt ==
    ASSUME IInv, SlotInv, NEW s \in Sequencers,
           readyAt' = [readyAt EXCEPT ![s] = 0] \/ readyAt' = readyAt
    PROVE  \A t \in Sequencers : readyAt'[t] <= MaxSlot + DEFERRED_SLOTS_COUNT + 1
  BY SlotAssumption DEF SlotInv, IInv, TableInv

\* The blob accounts and the slot are left alone.
LEMMA StandingSlot ==
    ASSUME IInv, SlotInv, NEW s \in Sequencers, UNCHANGED <<slotVars, escrow>>,
           posters' \subseteq posters, preferred' \in {preferred, None},
           readyAt' = [readyAt EXCEPT ![s] = 0] \/ readyAt' = readyAt
    PROVE  SlotInv'
  <1>1. \A t \in Sequencers : readyAt'[t] <= MaxSlot + DEFERRED_SLOTS_COUNT + 1
    BY Zenon, ResetReadyAt
  <1>2. \A t \in posters' : escrow[<<t, trueSlot>>] = 0 => escrow'[<<t, trueSlot>>] = 0
    OBVIOUS
  <1> QED
    BY Zenon, <1>1, <1>2, CalmSlot

\* SlotInv is preserved by blob selection.
LEMMA SelectSlot ==
    ASSUME IInv, SlotInv, NEW s \in Sequencers, Select(s) PROVE SlotInv'
  <1>0. ASSUME NEW k, escrow' = [escrow EXCEPT ![<<s, k>>] = 0]
        PROVE  \A t \in posters : escrow[<<t, trueSlot>>] = 0 => escrow'[<<t, trueSlot>>] = 0
    BY <1>0
  <1>1. CASE Ignore(s) \/ Unfunded(s)
    <2>1. /\ UNCHANGED <<slotVars, preferred, readyAt, escrow>>
          /\ posters' \subseteq posters
      BY <1>1 DEF Ignore, Unfunded, Posts, standingVars, blobVars
    <2>2. preferred' \in {preferred, None} /\ readyAt' = readyAt
      BY <2>1
    <2> QED
      BY Zenon, <2>1, <2>2, StandingSlot
  <1>2. CASE Malformed(s)
    <2>1. /\ UNCHANGED <<slotVars, escrow>> /\ readyAt' = [readyAt EXCEPT ![s] = 0]
          /\ posters' \subseteq posters /\ preferred' \in {preferred, None}
      BY <1>2 DEF Malformed, Posts, Slash, blobVars
    <2> QED
      BY Zenon, <2>1, StandingSlot
  <1>3. ASSUME NEW fits, SelectNow(s, fits) \/ SelectPreferred(s, fits) PROVE SlotInv'
    <2>1. /\ UNCHANGED <<slotVars, preferred, readyAt, escrow>>
          /\ posters' \subseteq posters
      BY <1>3 DEF SelectNow, SelectPreferred, ReserveDirect, Posts, standingVars
    <2>2. preferred' \in {preferred, None} /\ readyAt' = readyAt
      BY <2>1
    <2> QED
      BY Zenon, <2>1, <2>2, StandingSlot
  <1>4. ASSUME NEW fits, Defer(s, fits) PROVE SlotInv'
    <2>1. /\ UNCHANGED <<slotVars, preferred, readyAt>> /\ posters' = posters \ {s}
          /\ \E v : escrow' = [escrow EXCEPT ![<<s, trueSlot>>] = v]
      BY Zenon, <1>4 DEF Defer, Posts, standingVars
    <2>2. \A t \in posters' : escrow'[<<t, trueSlot>>] = escrow[<<t, trueSlot>>]
      BY <2>1
    <2>3. /\ posters' \subseteq posters /\ preferred' \in {preferred, None}
          /\ \A t \in Sequencers : readyAt'[t] <= MaxSlot + DEFERRED_SLOTS_COUNT + 1
      BY Zenon, <2>1, ResetReadyAt
    <2> QED
      BY Zenon, <2>1, <2>2, <2>3, CalmSlot
  <1>5. ASSUME NEW k, NEW need, Refund(s, k, need) PROVE SlotInv'
    <2>1. /\ UNCHANGED <<slotVars, posters, preferred, readyAt>>
          /\ escrow' = [escrow EXCEPT ![<<s, k>>] = 0]
      BY Zenon, <1>5 DEF Refund, standingVars
    <2>2. /\ posters' \subseteq posters /\ preferred' \in {preferred, None}
          /\ \A t \in Sequencers : readyAt'[t] <= MaxSlot + DEFERRED_SLOTS_COUNT + 1
      BY Zenon, <2>1, ResetReadyAt
    <2>3. \A t \in posters' : escrow[<<t, trueSlot>>] = 0 => escrow'[<<t, trueSlot>>] = 0
      BY Zenon, <2>1, <1>0
    <2> QED
      BY Zenon, <2>1, <2>2, <2>3, CalmSlot
  <1>6. ASSUME NEW k, NEW need, NEW fits, Retrieve(s, k, need, fits) PROVE SlotInv'
    <2>1. /\ UNCHANGED <<slotVars, posters, preferred, readyAt>>
          /\ escrow' = [escrow EXCEPT ![<<s, k>>] = 0]
      BY Zenon, <1>6 DEF Retrieve, standingVars
    <2>2. /\ posters' \subseteq posters /\ preferred' \in {preferred, None}
          /\ \A t \in Sequencers : readyAt'[t] <= MaxSlot + DEFERRED_SLOTS_COUNT + 1
      BY Zenon, <2>1, ResetReadyAt
    <2>3. \A t \in posters' : escrow[<<t, trueSlot>>] = 0 => escrow'[<<t, trueSlot>>] = 0
      BY Zenon, <2>1, <1>0
    <2> QED
      BY Zenon, <2>1, <2>2, <2>3, CalmSlot
  <1> QED
    BY Zenon, <1>1, <1>2, <1>3, <1>4, <1>5, <1>6 DEF Select

\* SlotInv is preserved by execution.
LEMMA ExecuteSlot ==
    ASSUME IInv, SlotInv, NEW s \in Sequencers, Execute(s) PROVE SlotInv'
  <1>1. ASSUME NEW k \in Slots, ReturnEscrowedFunds(s, k) \/ \E n \in 1..Check : Penalize(s, k, n)
        PROVE  SlotInv'
    <2>1. /\ UNCHANGED <<trueSlot, block, waits, posters, preferred, readyAt, escrow>>
          /\ phase' \in {phase, "panicked"}
      BY Zenon, <1>1 DEF ReturnEscrowedFunds, Penalize, standingVars, blobVars
    <2>2. running' \in {running, None, <<s, k>>} /\ <<s, k>> \in Blobs
      BY <1>1 DEF ReturnEscrowedFunds, Penalize, batchVars, Blobs
    <2>3. Blobs' = Blobs
      BY DEF Blobs, Slots
    <2> QED
      BY <2>1, <2>2, <2>3 DEF SlotInv
  <1>2. ASSUME NEW amount, Register(s, amount) PROVE SlotInv'
    BY <1>2, StandingSlot DEF Register, blobVars
  <1>3. ASSUME NEW amount, Deposit(s, amount) PROVE SlotInv'
    <2>1. /\ UNCHANGED <<slotVars, escrow, posters, preferred>>
          /\ readyAt' = [readyAt EXCEPT ![s] = 0]
      BY Zenon, <1>3 DEF Deposit, blobVars
    <2>2. posters' \subseteq posters /\ preferred' \in {preferred, None}
      BY <2>1
    <2> QED
      BY Zenon, <2>1, <2>2, StandingSlot
  <1>4. CASE Withdraw(s)
    <2>1. /\ UNCHANGED <<slotVars, escrow, posters, preferred>>
          /\ readyAt' = [readyAt EXCEPT ![s] = 0]
      BY Zenon, <1>4 DEF Withdraw, blobVars
    <2>2. posters' \subseteq posters /\ preferred' \in {preferred, None}
      BY <2>1
    <2> QED
      BY Zenon, <2>1, <2>2, StandingSlot
  <1>5. CASE InitiateWithdrawal(s)
    <2>1. /\ UNCHANGED <<slotVars, posters, preferred, escrow>>
          /\ readyAt' = [readyAt EXCEPT ![s] = visible + DEFERRED_SLOTS_COUNT + 1]
      BY <1>5 DEF InitiateWithdrawal, blobVars
    <2>2. visible + DEFERRED_SLOTS_COUNT + 1 <= MaxSlot + DEFERRED_SLOTS_COUNT + 1
      BY SlotAssumption DEF IInv, ClockInv, SlotInv
    <2>3. \A t \in Sequencers : readyAt'[t] <= MaxSlot + DEFERRED_SLOTS_COUNT + 1
      BY <2>1, <2>2 DEF SlotInv, IInv, TableInv
    <2>4. /\ posters' \subseteq posters /\ preferred' \in {preferred, None}
          /\ \A t \in posters' : escrow[<<t, trueSlot>>] = 0 => escrow'[<<t, trueSlot>>] = 0
      BY <2>1
    <2> QED
      BY Zenon, <2>1, <2>3, <2>4, CalmSlot
  <1> QED
    BY Zenon, <1>1, <1>2, <1>3, <1>4, <1>5 DEF Execute

\* A blob in escrow is in an earlier slot than the one that begins.
LEMMA BeginSlotSlot ==
    ASSUME IInv, SlotInv, NEW senders \in SUBSET Sequencers, BeginSlot(senders) PROVE SlotInv'
  <1>1. /\ trueSlot \in Nat /\ trueSlot < MaxSlot /\ trueSlot' = trueSlot + 1
        /\ phase' = "select" /\ posters' = senders
        /\ UNCHANGED <<preferred, readyAt, escrow, running>> /\ Blobs' = Blobs
    BY DEF BeginSlot, batchVars, Blobs, Slots, Clock!Tick, IInv, ClockInv, standingVars, blobVars
  <1>2. block' \in BOOLEAN /\ waits' \in BOOLEAN
    BY DEF BeginSlot
  <1>3. ASSUME NEW s \in senders PROVE escrow[<<s, trueSlot + 1>>] = 0
    <2>1. trueSlot + 1 \in Slots /\ ~(trueSlot + 1 <= trueSlot)
      BY <1>1, SlotAssumption DEF Slots
    <2> QED
      BY <2>1 DEF IInv, EscrowInv
  <1> QED
    BY <1>1, <1>2, <1>3, SlotAssumption DEF SlotInv

\* SlotInv is preserved by every step.
LEMMA NextSlot ==
    ASSUME IInv, SlotInv, [Next]_vars PROVE SlotInv'
  <1>1. CASE UNCHANGED vars
    <2>1. UNCHANGED <<slotVars, preferred, readyAt, escrow, posters>>
      BY <1>1 DEF vars, standingVars, blobVars
    <2>2. /\ posters' \subseteq posters /\ preferred' \in {preferred, None}
          /\ \A t \in posters' : escrow[<<t, trueSlot>>] = 0 => escrow'[<<t, trueSlot>>] = 0
      BY <2>1
    <2>3. \A t \in Sequencers : readyAt'[t] <= MaxSlot + DEFERRED_SLOTS_COUNT + 1
      BY Zenon, <2>1 DEF SlotInv
    <2> QED
      BY Zenon, <2>1, <2>2, <2>3, CalmSlot
  <1>2. CASE BeginExecution
    <2>1. /\ UNCHANGED <<trueSlot, block, waits, running, posters, preferred, readyAt, escrow>>
          /\ phase' = "execute"
      BY Zenon, <1>2 DEF BeginExecution, batchVars, standingVars, blobVars
    <2>2. Blobs' = Blobs
      BY DEF Blobs, Slots
    <2> QED
      BY <2>1, <2>2 DEF SlotInv
  <1> QED
    BY Zenon, <1>1, <1>2, BeginSlotSlot, SelectSlot, ExecuteSlot DEF Next

\* At genesis one sequencer has staked a part of its tokens.
LEMMA InitAccounts ==
    ASSUME Init PROVE SlotInv /\ AccountInv
  <1>1. PICK s \in Sequencers :
          /\ preferred \in {s, None}
          /\ stake = [t \in Sequencers |-> IF t = s THEN SeqBond ELSE 0]
          /\ funds = [t \in Sequencers |-> IF t = s THEN Supply - SeqBond ELSE Supply]
    BY DEF Init
  <1>2. SlotInv
    <2>1. /\ trueSlot = 0 /\ phase = "execute" /\ block = FALSE /\ waits = FALSE /\ posters = {}
          /\ running = None /\ \A t \in Sequencers : readyAt[t] = 0
      BY DEF Init
    <2>2. 0 <= MaxSlot /\ 0 <= MaxSlot + DEFERRED_SLOTS_COUNT + 1
      BY SlotAssumption
    <2>3. preferred \in Sequencers \cup {None}
      BY Zenon, <1>1
    <2> QED
      BY Zenon, <2>1, <2>2, <2>3 DEF SlotInv
  <1> DEFINE none == [t \in Sequencers |-> 0]
             all == [t \in Sequencers |-> Supply]
             empty == [b \in Blobs |-> 0]
  <1>3. /\ SeqBond \in Nat /\ Supply \in Nat /\ SeqBond \in Int /\ Supply - SeqBond \in Int
        /\ Supply - SeqBond \in Nat /\ 0 \in Int /\ Supply \in Int
    BY CostAssumption
  <1>4. /\ stake \in [Sequencers -> Nat] /\ funds \in [Sequencers -> Nat]
        /\ escrow \in [Blobs -> Nat] /\ bond \in [Blobs -> Nat]
        /\ registry = SeqBond /\ bank = 0 /\ paid = 0 /\ penalty = 0
        /\ escrow = empty /\ bond = empty
    BY <1>1, <1>3 DEF Init
  <1>5. /\ stake = [none EXCEPT ![s] = SeqBond] /\ funds = [all EXCEPT ![s] = Supply - SeqBond]
    BY Zenon, <1>1
  <1>b. /\ none \in [Sequencers -> Int] /\ all \in [Sequencers -> Int]
        /\ none[s] = 0 /\ all[s] = Supply
    BY <1>3
  <1>6. /\ SumOf(none) = 0 * Cardinality(Sequencers)
        /\ SumOf(all) = Supply * Cardinality(Sequencers)
        /\ SumOf(empty) = 0 * Cardinality(Blobs)
    BY Zenon, <1>3, SumConstant, SequencersAssumption, BlobsFinite
  <1>7. Cardinality(Sequencers) \in Nat /\ Cardinality(Blobs) \in Nat
    BY FS_CardinalityType, SequencersAssumption, BlobsFinite
  <1>8. SumOf(none) = 0 /\ SumOf(empty) = 0 /\ SumOf(all) = Total
    BY <1>6, <1>7 DEF Total
  <1>a. Total \in Nat
    BY <1>3, <1>7 DEF Total
  <1>c. IsFiniteSet(Sequencers) /\ SeqBond \in Int /\ Supply - SeqBond \in Int
    BY <1>3, SequencersAssumption
  <1> HIDE DEF none, all, empty
  <1>9. SumOf([none EXCEPT ![s] = SeqBond]) = SumOf(none) - none[s] + SeqBond
    BY Zenon, <1>b, <1>c, SumUpdate
  <1>10. SumOf([all EXCEPT ![s] = Supply - SeqBond]) = SumOf(all) - all[s] + (Supply - SeqBond)
    BY Zenon, <1>b, <1>c, SumUpdate
  <1>11. RegistrySolvent /\ BankSolvent
    BY <1>3, <1>4, <1>5, <1>b, <1>8, <1>9 DEF RegistrySolvent, BankSolvent
  <1>12. Conserved
    <2>1. SumOf(funds) = Total - SeqBond /\ SumOf(escrow) = 0
      BY <1>3, <1>4, <1>5, <1>b, <1>8, <1>10, <1>a
    <2> QED
      BY <1>3, <1>4, <1>a, <2>1 DEF Conserved
  <1> QED
    BY <1>2, <1>3, <1>4, <1>11, <1>12 DEF AccountInv

\* The three invariants are inductive together.
LEMMA Accounting == Spec => [](IInv /\ SlotInv /\ AccountInv)
  <1>1. Init => IInv /\ SlotInv /\ AccountInv
    BY InitIInv, InitAccounts
  <1>2. IInv /\ SlotInv /\ AccountInv /\ [Next]_vars => (IInv /\ SlotInv /\ AccountInv)'
    BY Inductive, NextSlot, NextAccounts
  <1> QED
    BY <1>1, <1>2, PTL DEF Spec

\* Every variable has its type.  No account is overdrawn by a charge, a reserve, a refund
\* or a withdrawal, and none exceeds the tokens of genesis.
THEOREM TypeCorrect == Spec => []TypeOK
  <1>1. ASSUME IInv, SlotInv, AccountInv PROVE TypeOK
    <2>1. /\ trueSlot \in 0..MaxSlot /\ visible \in 0..MaxSlot
          /\ readyAt \in [Sequencers -> 0..(MaxSlot + DEFERRED_SLOTS_COUNT + 1)]
      BY <1>1, SlotAssumption DEF IInv, ClockInv, TableInv, SlotInv
    <2>2. /\ registry \in Nat /\ bank \in Nat /\ paid \in Nat
          /\ SumOf(stake) \in Nat /\ SumOf(bond) \in Nat
          /\ SumOf(funds) \in Nat /\ SumOf(escrow) \in Nat
      BY <1>1, AccountTypes, SumsNat
    <2>3. Total \in Nat
      BY FS_CardinalityType, SequencersAssumption, CostAssumption DEF Total
    <2>4. SumOf(funds) + SumOf(escrow) + registry + bank + paid = Total
      BY <1>1 DEF AccountInv, Conserved
    <2>5. /\ SumOf(funds) <= Total /\ SumOf(escrow) <= Total
          /\ registry \in 0..Total /\ bank \in 0..Total /\ paid \in 0..Total
      BY <2>2, <2>3, <2>4
    <2>6. SumOf(stake) <= Total /\ SumOf(bond) <= Total /\ penalty \in 0..Total
      <3>1. penalty \in Nat /\ penalty <= paid
        BY <1>1, AccountTypes
      <3>2. SumOf(stake) <= registry /\ SumOf(bond) <= bank + penalty
        BY <1>1 DEF AccountInv, RegistrySolvent, BankSolvent
      <3> QED
        BY <2>2, <2>3, <2>4, <3>1, <3>2
    <2>7. /\ stake \in [Sequencers -> Nat] /\ funds \in [Sequencers -> Nat]
          /\ escrow \in [Blobs -> Nat] /\ bond \in [Blobs -> Nat]
      BY <1>1, AccountTypes
    <2>8. /\ \A s \in Sequencers : stake[s] <= SumOf(stake) /\ funds[s] <= SumOf(funds)
          /\ \A b \in Blobs : escrow[b] <= SumOf(escrow) /\ bond[b] <= SumOf(bond)
      BY <2>7, SumNat, SequencersAssumption, BlobsFinite
    <2>9. stake \in [Sequencers -> 0..Total] /\ funds \in [Sequencers -> 0..Total]
      BY <2>2, <2>3, <2>5, <2>6, <2>7, <2>8
    <2>10. escrow \in [Blobs -> 0..Total] /\ bond \in [Blobs -> 0..Total]
      BY <2>2, <2>3, <2>5, <2>6, <2>7, <2>8
    <2> QED
      BY Zenon, <1>1, <2>1, <2>5, <2>6, <2>9, <2>10 DEF TypeOK, SlotInv, IInv, TableInv
  <1> QED
    BY <1>1, Accounting, PTL

\* The registry module's account covers the stakes of all known sequencers, so the
\* transfer of withdraw never fails: a slash or a charge leaves its tokens with the module.
THEOREM StakesCovered == Spec => []RegistrySolvent
  <1>1. AccountInv => RegistrySolvent
    BY DEF AccountInv
  <1> QED
    BY <1>1, Accounting, PTL

\* The bank covers the bonds of all selected blobs until they are returned, but for the
\* penalties of the batch that runs: a batch whose penalties were paid out of the bond of
\* another blob does not end, since the return of its own bond panics.
THEOREM BondsCovered == Spec => []BankSolvent
  <1>1. AccountInv => BankSolvent
    BY DEF AccountInv
  <1> QED
    BY <1>1, Accounting, PTL

\* Blob selection and execution neither create nor destroy gas tokens.
THEOREM TokensConserved == Spec => []Conserved
  <1>1. AccountInv => Conserved
    BY DEF AccountInv
  <1> QED
    BY <1>1, Accounting, PTL
=============================================================================
