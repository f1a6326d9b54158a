------------------------- MODULE StateManagerProofs -------------------------
(***************************************************************************)
(* The loop of a node keeps its maps and its disk in order whatever the DA *)
(* layer does between two calls, for DA chains of any height and any       *)
(* number of re-organisations and crashes.                                 *)
(*                                                                         *)
(* IInv says that the snapshots are a tree of blocks on the last one on    *)
(* disk, that the executed blocks of the state manager are what is above   *)
(* its last finalized block in that tree, and that the blocks between the  *)
(* two are those the storage has still to finalize; then what the place in *)
(* the loop and the search for the fork point add.  Leads, the order of    *)
(* ancestors, carries the argument: everything final is on one line.       *)
(***************************************************************************)
EXTENDS StateManager, WellFoundedInduction, TLAPS

-----------------------------------------------------------------------------
(* The inductive invariant.                                                 *)

Block == Seq(Nat)

\* The blocks from Genesis to b: the state after b.
PathTo(b) == [i \in 1..(Height(b) + 1) |-> At(b, i - 1)]

\* Blocks above root, each with all that lead from root to it.
Tree(T, root) ==
    \A b \in T :
        /\ b \in Block /\ Height(b) <= MaxHeight
        /\ Height(root) < Height(b) /\ Leads(root, b)
        /\ \A n \in (Height(root) + 1)..Height(b) : At(b, n) \in T

Above(T, root) == {b \in T : Height(root) < Height(b) /\ Leads(root, b)}

\* A block that continues the tree.
Continues(b, T, root) ==
    /\ b \in Block /\ Height(b) <= MaxHeight /\ b \notin T
    /\ Height(root) < Height(b) /\ Leads(root, b)
    /\ Parent(b) \in T \cup {root}

\* The last block on disk.
BaseOf(f, d) == At(f, Len(d) - 1)
Base == BaseOf(finalized, disk)

DaInv ==
    /\ head \in Block /\ Height(head) <= MaxHeight
    /\ \A b \in abandoned : b \in Block
    /\ finalized \in Block /\ Leads(finalized, head)
    /\ cached \in Block /\ Leads(cached, finalized)
    /\ reorgs \in Nat

DiskInv ==
    /\ Len(disk) \in 1..(Height(finalized) + 1)
    /\ disk = PathTo(Base)

NodeInv ==
    /\ next \in Nat /\ requested \in Nat /\ target \in Nat /\ block \in Block
    /\ candidate # NotRead => candidate \in Block
    /\ thisHead # NotRead => thisHead \in Block

\* The blocks from the disk to the last finalized one are yet to be finalized.
Pending ==
    /\ lastFinalized \in Block /\ Leads(Base, lastFinalized) /\ Leads(lastFinalized, finalized)
    /\ toFinalize \in Seq(Block) /\ Len(toFinalize) = Height(lastFinalized) - Height(Base)
    /\ \A i \in 1..Len(toFinalize) :
          /\ toFinalize[i] = At(lastFinalized, Height(Base) + i)
          /\ toFinalize[i] \in DOMAIN snapshots

\* The executed blocks of the state manager and the snapshots of the storage manager.
Forest ==
    /\ Tree(DOMAIN snapshots, Base)
    /\ Seen = Above(DOMAIN snapshots, lastFinalized)
    /\ \A b \in Seen : stateOn[b] = PathTo(b)
    /\ lastRoot = PathTo(lastFinalized)
    /\ seenOn = [h \in Heights |-> {b \in Seen : Height(b) = h}]
    /\ chainForks = blocksToParent

\* What the place in the loop says of them.
PlaceInv ==
    /\ pc # "finalize" => toFinalize = << >>
    /\ pc # "execute" => blocksToParent = DOMAIN snapshots
    /\ pc = "execute" => /\ Continues(block, DOMAIN snapshots, lastFinalized)
                         /\ blocksToParent = DOMAIN snapshots \cup {block}

SearchInv ==
    /\ pc # "probe" => candidate = NotRead /\ thisHead = NotRead
    /\ pc \in {"head", "probe"} => Seen # {}
    /\ pc = "probe" =>
        /\ low \in Nat /\ high \in Nat
        /\ Height(lastFinalized) < low /\ low <= high /\ high <= HighestSeen + 1
        /\ candidate # NotRead =>
              Height(candidate) = Middle /\ Leads(lastFinalized, candidate)

DownInv ==
    /\ toFinalize = << >> /\ Seen = {} /\ seenOn = [h \in Heights |-> {}]
    /\ candidate = NotRead /\ thisHead = NotRead

UpInv == Pending /\ Forest /\ PlaceInv /\ SearchInv

IInv ==
    /\ DaInv /\ DiskInv /\ NodeInv /\ AssertionsHold
    /\ pc # "down" => UpInv
    /\ pc = "down" => DownInv

-----------------------------------------------------------------------------
(* Sequences.                                                               *)

LEMMA EmptySeq ==
    ASSUME NEW S
    PROVE  /\ << >> \in Seq(S) /\ Len(<< >>) = 0
           /\ \A s \in Seq(S) : s # << >> => Len(s) \in Nat \ {0}
  OBVIOUS

LEMMA SeqEqual ==
    ASSUME NEW S, NEW s \in Seq(S), NEW t \in Seq(S),
           Len(s) = Len(t), \A i \in 1..Len(s) : s[i] = t[i]
    PROVE  s = t
  OBVIOUS

LEMMA ConcatProperties ==
    ASSUME NEW S, NEW s \in Seq(S), NEW t \in Seq(S)
    PROVE  /\ s \o t \in Seq(S) /\ Len(s \o t) = Len(s) + Len(t)
           /\ \A i \in 1..(Len(s) + Len(t)) :
                 (s \o t)[i] = IF i <= Len(s) THEN s[i] ELSE t[i - Len(s)]
  OBVIOUS

LEMMA SubSeqProperties ==
    ASSUME NEW S, NEW s, NEW m \in Int, NEW n \in Int, \A i \in m..n : s[i] \in S
    PROVE  /\ SubSeq(s, m, n) \in Seq(S)
           /\ Len(SubSeq(s, m, n)) = IF m <= n THEN n - m + 1 ELSE 0
           /\ \A i \in 1..(n - m + 1) : SubSeq(s, m, n)[i] = s[m + i - 1]
  OBVIOUS

LEMMA SubSeqFull == ASSUME NEW S, NEW s \in Seq(S) PROVE SubSeq(s, 1, Len(s)) = s
  OBVIOUS

LEMMA AppendProperties ==
    ASSUME NEW S, NEW s \in Seq(S), NEW x \in S
    PROVE  /\ Append(s, x) \in Seq(S) /\ Len(Append(s, x)) = Len(s) + 1
           /\ \A i \in 1..Len(s) : Append(s, x)[i] = s[i]
           /\ Append(s, x)[Len(s) + 1] = x
  OBVIOUS

-----------------------------------------------------------------------------
(* Blocks, their ancestors and the states after them.                       *)

\* The ancestor of a block at a height.
LEMMA AtType ==
    ASSUME NEW b \in Block, NEW n \in 0..Height(b)
    PROVE  /\ At(b, n) \in Block /\ Height(At(b, n)) = n
           /\ \A i \in 1..n : At(b, n)[i] = b[i]
  <1>1. \A i \in 1..n : b[i] \in Nat
    BY DEF Block, Height
  <1>2. 1 \in Int /\ n \in Int /\ n >= 0
    BY DEF Block, Height
  <1>3. /\ SubSeq(b, 1, n) \in Seq(Nat)
        /\ Len(SubSeq(b, 1, n)) = IF 1 <= n THEN n - 1 + 1 ELSE 0
        /\ \A i \in 1..(n - 1 + 1) : SubSeq(b, 1, n)[i] = b[1 + i - 1]
    BY <1>1, <1>2, SubSeqProperties DEF Block, Height
  <1> QED
    BY <1>2, <1>3 DEF At, Block, Height

\* Blocks with the same labels are equal.
LEMMA BlockEqual ==
    ASSUME NEW a \in Block, NEW b \in Block, Height(a) = Height(b),
           \A i \in 1..Height(a) : a[i] = b[i]
    PROVE  a = b
  BY SeqEqual DEF Block, Height

LEMMA HeightType == ASSUME NEW b \in Block PROVE Height(b) \in Nat
  BY DEF Block, Height

LEMMA AtSelf == ASSUME NEW b \in Block PROVE At(b, Height(b)) = b
  BY SubSeqFull DEF At, Block, Height

\* An ancestor of an ancestor.
LEMMA AtAt ==
    ASSUME NEW b \in Block, NEW n \in 0..Height(b), NEW m \in 0..n
    PROVE  At(At(b, n), m) = At(b, m)
  <1>1. Height(b) \in Nat
    BY HeightType
  <1>2. At(b, n) \in Block /\ Height(At(b, n)) = n /\ \A i \in 1..n : At(b, n)[i] = b[i]
    BY Zenon, AtType
  <1>3. m \in 0..Height(At(b, n)) /\ m \in 0..Height(b)
    BY <1>1, <1>2
  <1>4. /\ At(At(b, n), m) \in Block /\ Height(At(At(b, n), m)) = m
        /\ \A i \in 1..m : At(At(b, n), m)[i] = At(b, n)[i]
    BY Zenon, <1>2, <1>3, AtType
  <1>5. At(b, m) \in Block /\ Height(At(b, m)) = m /\ \A i \in 1..m : At(b, m)[i] = b[i]
    BY Zenon, <1>3, AtType
  <1>6. \A i \in 1..m : i \in 1..n
    OBVIOUS
  <1>7. \A i \in 1..m : At(At(b, n), m)[i] = At(b, m)[i]
    BY Zenon, <1>2, <1>4, <1>5, <1>6
  <1> QED
    BY Zenon, <1>4, <1>5, <1>7, BlockEqual

\* Leads is a partial order, linear below a block.
LEMMA LeadsRefl == ASSUME NEW b \in Block PROVE Leads(b, b)
  BY AtSelf, HeightType DEF Leads

LEMMA LeadsTrans ==
    ASSUME NEW a \in Block, NEW b \in Block, NEW c \in Block, Leads(a, b), Leads(b, c)
    PROVE  Leads(a, c)
  <1>1. Height(a) \in Nat /\ Height(b) \in Nat /\ Height(c) \in Nat
    BY HeightType
  <1>2. Height(a) \in 0..Height(b) /\ Height(b) \in 0..Height(c) /\ Height(a) <= Height(c)
    BY <1>1 DEF Leads
  <1>3. At(At(c, Height(b)), Height(a)) = At(c, Height(a))
    BY Zenon, <1>2, AtAt
  <1> QED
    BY Zenon, <1>2, <1>3 DEF Leads

\* The ancestors of a block lead to it.
LEMMA LeadsAt ==
    ASSUME NEW b \in Block, NEW n \in 0..Height(b)
    PROVE  At(b, n) \in Block /\ Height(At(b, n)) = n /\ Leads(At(b, n), b)
  <1>1. At(b, n) \in Block /\ Height(At(b, n)) = n
    BY Zenon, AtType
  <1>2. n <= Height(b)
    BY HeightType
  <1> QED
    BY Zenon, <1>1, <1>2 DEF Leads

\* A block and what leads to it have the same ancestors.
LEMMA AtOfLeads ==
    ASSUME NEW a \in Block, NEW b \in Block, Leads(a, b), NEW n \in 0..Height(a)
    PROVE  At(b, n) = At(a, n)
  <1>1. Height(a) \in 0..Height(b)
    BY HeightType DEF Leads
  <1>2. At(At(b, Height(a)), n) = At(b, n)
    BY Zenon, <1>1, AtAt
  <1> QED
    BY Zenon, <1>2 DEF Leads

\* Of two blocks that lead to a third the lower one leads to the other.
LEMMA LeadsLinear ==
    ASSUME NEW a \in Block, NEW b \in Block, NEW c \in Block,
           Leads(a, c), Leads(b, c), Height(a) <= Height(b)
    PROVE  Leads(a, b)
  <1>1. Height(a) \in 0..Height(b)
    BY HeightType
  <1>2. At(c, Height(a)) = At(b, Height(a))
    BY Zenon, <1>1, AtOfLeads
  <1> QED
    BY Zenon, <1>2 DEF Leads

\* An ancestor is a lower block.
LEMMA LeadsStrictly ==
    ASSUME NEW a \in Block, NEW b \in Block
    PROVE  a # b /\ Leads(a, b) <=> Height(a) < Height(b) /\ Leads(a, b)
  <1>1. Height(a) \in Nat /\ Height(b) \in Nat
    BY HeightType
  <1>2. ASSUME Leads(a, b), a # b PROVE Height(a) < Height(b)
    <2>1. Height(a) # Height(b)
      BY Zenon, <1>2, AtSelf DEF Leads
    <2> QED
      BY <1>1, <1>2, <2>1 DEF Leads
  <1>3. ASSUME Height(a) < Height(b) PROVE a # b
    BY <1>1, <1>3
  <1> QED
    BY Zenon, <1>2, <1>3

\* The parent of a block is one lower and leads to it.
LEMMA ParentFacts ==
    ASSUME NEW b \in Block, b # Genesis
    PROVE  /\ Height(b) >= 1 /\ Parent(b) = At(b, Height(b) - 1)
           /\ Parent(b) \in Block /\ Height(Parent(b)) = Height(b) - 1 /\ Leads(Parent(b), b)
  <1>1. Height(b) \in Nat /\ Height(b) >= 1
    BY EmptySeq DEF Block, Height, Genesis
  <1>2. Height(b) - 1 \in 0..Height(b)
    BY <1>1
  <1>3. Parent(b) = At(b, Height(b) - 1)
    BY DEF Parent, Height
  <1> QED
    BY Zenon, <1>1, <1>2, <1>3, LeadsAt

\* A block on top of another one.
LEMMA AppendFacts ==
    ASSUME NEW b \in Block, NEW x \in Nat
    PROVE  Append(b, x) \in Block /\ Height(Append(b, x)) = Height(b) + 1 /\ Leads(b, Append(b, x))
  <1> DEFINE c == Append(b, x)
  <1>1. /\ c \in Block /\ Height(c) = Height(b) + 1 /\ Height(b) \in Nat
        /\ \A i \in 1..Height(b) : c[i] = b[i]
    BY AppendProperties DEF Block, Height
  <1> HIDE DEF c
  <1>2. Height(b) \in 0..Height(c)
    BY <1>1
  <1>3. /\ At(c, Height(b)) \in Block /\ Height(At(c, Height(b))) = Height(b)
        /\ \A i \in 1..Height(b) : At(c, Height(b))[i] = c[i]
    BY Zenon, <1>1, <1>2, AtType
  <1>4. At(c, Height(b)) = b
    BY Zenon, <1>1, <1>3, BlockEqual
  <1>5. Height(b) <= Height(c)
    BY <1>1
  <1> QED
    BY Zenon, <1>1, <1>4, <1>5 DEF Leads, c

\* The least and the greatest of a set of heights.
LEMMA MinFacts ==
    ASSUME NEW S \in SUBSET Nat, S # {}
    PROVE  Min(S) \in S /\ \A y \in S : Min(S) <= y
  <1> DEFINE R == {ss \in Nat \X Nat : ss[1] < ss[2]}
  <1>1. IsWellFoundedOn(R, Nat)
    BY NatLessThanWellFounded DEF OpToRel
  <1>2. PICK g \in S : \A h \in S : ~ (<<h, g>> \in R)
    <2> HIDE DEF R
    <2> QED
      BY Zenon, <1>1, WFMin
  <1>3. ASSUME NEW h \in S PROVE g <= h
    <2>1. h \in Nat /\ g \in Nat
      OBVIOUS
    <2>2. ~ (h < g)
      BY Zenon, <1>2, <2>1
    <2> QED
      BY <2>1, <2>2
  <1> QED
    BY Zenon, <1>3 DEF Min

LEMMA MaxFacts ==
    ASSUME NEW N \in Nat, NEW S \in SUBSET (0..N), S # {}
    PROVE  Max(S) \in S /\ \A y \in S : Max(S) >= y
  <1> DEFINE D == {n \in Nat : N - n \in S}
  <1>1. D \in SUBSET Nat
    OBVIOUS
  <1>2. D # {}
    <2>1. PICK s : s \in S
      BY Zenon
    <2>2. N - s \in D
      BY <2>1
    <2> QED
      BY Zenon, <2>2
  <1>3. \A y \in S : N - y \in D
    OBVIOUS
  <1>4. N - Min(D) \in S /\ Min(D) \in Nat
    <2>1. Min(D) \in D
      <3> HIDE DEF D
      <3> QED
        BY Zenon, <1>1, <1>2, MinFacts
    <2> QED
      BY Zenon, <2>1
  <1>5. \A y \in D : Min(D) <= y
    <2> HIDE DEF D
    <2> QED
      BY Zenon, <1>1, <1>2, MinFacts
  <1> HIDE DEF D
  <1>6. \A y \in S : N - Min(D) >= y
    BY <1>3, <1>4, <1>5
  <1> QED
    BY Zenon, <1>4, <1>6 DEF Max

\* The larger and the smaller of two numbers.
LEMMA MinOfTwo ==
    ASSUME NEW a \in Nat, NEW b \in Nat
    PROVE  Min({a, b}) \in {a, b} /\ Min({a, b}) <= a /\ Min({a, b}) <= b
  <1>1. {a, b} \in SUBSET Nat /\ {a, b} # {}
    OBVIOUS
  <1> QED
    BY Zenon, <1>1, MinFacts

LEMMA MaxOfTwo ==
    ASSUME NEW a \in Nat, NEW b \in Nat
    PROVE  Max({a, b}) \in Nat
  <1>1. {a, b} \in SUBSET (0..(a + b)) /\ {a, b} # {} /\ a + b \in Nat
    OBVIOUS
  <1>2. Max({a, b}) \in {a, b}
    BY Zenon, <1>1, MaxFacts
  <1> QED
    BY Zenon, <1>2

LEMMA GenesisFacts == Genesis \in Block /\ Height(Genesis) = 0
  BY EmptySeq DEF Genesis, Block, Height

LEMMA GenesisLeads == ASSUME NEW b \in Block PROVE Leads(Genesis, b)
  <1>1. Height(b) \in Nat /\ 0 \in 0..Height(b)
    BY HeightType
  <1>2. At(b, 0) \in Block /\ Height(At(b, 0)) = 0
    BY Zenon, <1>1, AtType
  <1>3. At(b, 0) = Genesis
    BY <1>2, EmptySeq DEF Block, Height, Genesis
  <1>4. 0 <= Height(b)
    BY <1>1
  <1> QED
    BY Zenon, <1>3, <1>4, GenesisFacts DEF Leads

\* Of two blocks at one height neither leads to the other.
LEMMA SameHeight ==
    ASSUME NEW a \in Block, NEW b \in Block, Leads(a, b), Height(a) = Height(b)
    PROVE  a = b
  BY Zenon, AtSelf DEF Leads

\* What leads to a block and is below it leads to its parent.
LEMMA LeadsParent ==
    ASSUME NEW a \in Block, NEW b \in Block, Leads(a, b), Height(a) < Height(b)
    PROVE  /\ b # Genesis /\ Height(b) >= 1 /\ Parent(b) = At(b, Height(b) - 1)
           /\ Parent(b) \in Block /\ Height(Parent(b)) = Height(b) - 1
           /\ Leads(Parent(b), b) /\ Leads(a, Parent(b))
  <1>1. Height(a) \in Nat /\ Height(b) \in Nat
    BY HeightType
  <1>2. b # Genesis
    BY <1>1, GenesisFacts
  <1>3. /\ Height(b) >= 1 /\ Parent(b) = At(b, Height(b) - 1) /\ Parent(b) \in Block
        /\ Height(Parent(b)) = Height(b) - 1 /\ Leads(Parent(b), b)
    BY Zenon, <1>2, ParentFacts
  <1>4. Height(a) <= Height(Parent(b))
    BY <1>1, <1>3
  <1> QED
    BY Zenon, <1>2, <1>3, <1>4, LeadsLinear

\* The state after a block has one block for each height.
LEMMA PathFacts ==
    ASSUME NEW b \in Block
    PROVE  /\ PathTo(b) \in Seq(Block) /\ Len(PathTo(b)) = Height(b) + 1
           /\ \A i \in 1..(Height(b) + 1) : PathTo(b)[i] = At(b, i - 1)
           /\ PathTo(b)[Height(b) + 1] = b
  <1>1. Height(b) \in Nat /\ Height(b) + 1 \in Nat
    BY HeightType
  <1>2. \A i \in 1..(Height(b) + 1) : At(b, i - 1) \in Block
    <2>1. \A i \in 1..(Height(b) + 1) : i - 1 \in 0..Height(b)
      BY <1>1
    <2> QED
      BY Zenon, <2>1, AtType
  <1>3. PathTo(b) \in Seq(Block) /\ Len(PathTo(b)) = Height(b) + 1
    BY <1>1, <1>2 DEF PathTo
  <1>4. \A i \in 1..(Height(b) + 1) : PathTo(b)[i] = At(b, i - 1)
    BY Zenon DEF PathTo
  <1>5. Height(b) + 1 \in 1..(Height(b) + 1) /\ (Height(b) + 1) - 1 = Height(b)
    BY <1>1
  <1> QED
    BY Zenon, <1>3, <1>4, <1>5, AtSelf

\* From a to b: the path to a, followed by the blocks above a that lead to b.
Between(a, b) == [i \in 1..(Height(b) - Height(a)) |-> At(b, Height(a) + i)]

LEMMA BetweenFacts ==
    ASSUME NEW a \in Block, NEW b \in Block, Leads(a, b)
    PROVE  /\ Between(a, b) \in Seq(Block) /\ Len(Between(a, b)) = Height(b) - Height(a)
           /\ \A i \in 1..Len(Between(a, b)) : Between(a, b)[i] = At(b, Height(a) + i)
  <1>1. /\ Height(a) \in Nat /\ Height(b) \in Nat /\ Height(b) - Height(a) \in Nat
        /\ \A i \in 1..(Height(b) - Height(a)) : Height(a) + i \in 0..Height(b)
    BY HeightType DEF Leads
  <1>2. \A i \in 1..(Height(b) - Height(a)) : At(b, Height(a) + i) \in Block
    BY Zenon, <1>1, AtType
  <1>3. Between(a, b) \in Seq(Block) /\ Len(Between(a, b)) = Height(b) - Height(a)
    BY <1>1, <1>2 DEF Between
  <1> QED
    BY Zenon, <1>3 DEF Between

\* The state after b is the one after a, followed by what is between them.
LEMMA PathConcat ==
    ASSUME NEW a \in Block, NEW b \in Block, Leads(a, b)
    PROVE  PathTo(a) \o Between(a, b) = PathTo(b)
  <1> DEFINE p == PathTo(a)  q == Between(a, b)  r == PathTo(b)
  <1>1. /\ p \in Seq(Block) /\ Len(p) = Height(a) + 1
        /\ \A i \in 1..(Height(a) + 1) : p[i] = At(a, i - 1)
    BY Zenon, PathFacts
  <1>2. /\ r \in Seq(Block) /\ Len(r) = Height(b) + 1
        /\ \A i \in 1..(Height(b) + 1) : r[i] = At(b, i - 1)
    BY Zenon, PathFacts
  <1>3. /\ q \in Seq(Block) /\ Len(q) = Height(b) - Height(a)
        /\ \A i \in 1..Len(q) : q[i] = At(b, Height(a) + i)
    BY Zenon, BetweenFacts
  <1>4. \A n \in 0..Height(a) : At(b, n) = At(a, n)
    BY Zenon, AtOfLeads
  <1>5. Height(a) \in Nat /\ Height(b) \in Nat /\ Height(a) <= Height(b)
    BY HeightType DEF Leads
  <1> HIDE DEF p, q, r
  <1>a. /\ p \o q \in Seq(Block) /\ Len(p \o q) = Len(p) + Len(q)
        /\ \A i \in 1..(Len(p) + Len(q)) :
              (p \o q)[i] = IF i <= Len(p) THEN p[i] ELSE q[i - Len(p)]
    BY Zenon, <1>1, <1>3, ConcatProperties
  <1>6. p \o q \in Seq(Block) /\ Len(p \o q) = Len(r) /\ Len(p) + Len(q) = Len(r)
    BY <1>1, <1>2, <1>3, <1>5, <1>a
  <1>b. Len(p) = Height(a) + 1 /\ Len(q) = Height(b) - Height(a) /\ Len(r) = Height(b) + 1
    BY Zenon, <1>1, <1>2, <1>3
  <1>7. ASSUME NEW i \in 1..Len(r) PROVE (p \o q)[i] = r[i]
    <2>1. CASE i <= Len(p)
      <3>1. (p \o q)[i] = p[i] /\ i \in 1..(Height(a) + 1) /\ i - 1 \in 0..Height(a)
            /\ i \in 1..(Height(b) + 1)
        BY <1>1, <1>2, <1>5, <1>6, <1>7, <1>a, <2>1
      <3> QED
        BY Zenon, <1>1, <1>2, <1>4, <3>1
    <2>2. CASE ~ (i <= Len(p))
      <3>1. (p \o q)[i] = q[i - Len(p)]
        BY Zenon, <1>6, <1>7, <1>a, <2>2
      <3>2. ~ (i <= Height(a) + 1) /\ i \in 1..(Height(b) + 1)
        BY Zenon, <1>7, <1>b, <2>2
      <3>3. /\ i - (Height(a) + 1) \in 1..(Height(b) - Height(a))
            /\ Height(a) + (i - (Height(a) + 1)) = i - 1
        BY <1>5, <3>2
      <3>4. i - Len(p) \in 1..Len(q) /\ Height(a) + (i - Len(p)) = i - 1
        BY Zenon, <1>b, <3>3
      <3> QED
        BY Zenon, <1>2, <1>3, <3>1, <3>2, <3>4
    <2> QED
      BY Zenon, <2>1, <2>2
  <1>8. p \o q = r
    BY Zenon, <1>2, <1>6, <1>7, SeqEqual
  <1> QED
    BY Zenon, <1>8 DEF p, q, r

\* The state after a block is the one after its parent, followed by the block.
LEMMA PathAppend ==
    ASSUME NEW b \in Block, b # Genesis
    PROVE  Append(PathTo(Parent(b)), b) = PathTo(b)
  <1> DEFINE p == PathTo(Parent(b))  r == PathTo(b)
  <1>1. /\ Height(b) >= 1 /\ Parent(b) \in Block /\ Height(Parent(b)) = Height(b) - 1
        /\ Leads(Parent(b), b)
    BY Zenon, ParentFacts
  <1>2. Height(b) \in Nat
    BY HeightType
  <1>3. p \in Seq(Block) /\ Len(p) = (Height(b) - 1) + 1
        /\ \A i \in 1..((Height(b) - 1) + 1) : p[i] = At(Parent(b), i - 1)
    BY Zenon, <1>1, PathFacts
  <1>4. /\ r \in Seq(Block) /\ Len(r) = Height(b) + 1
        /\ \A i \in 1..(Height(b) + 1) : r[i] = At(b, i - 1)
    BY Zenon, PathFacts
  <1>5. \A n \in 0..(Height(b) - 1) : At(b, n) = At(Parent(b), n)
    BY Zenon, <1>1, AtOfLeads
  <1>6. At(b, Height(b)) = b
    BY Zenon, AtSelf
  <1> HIDE DEF p, r
  <1>7. Append(p, b) \in Seq(Block) /\ Len(Append(p, b)) = Len(r)
    BY <1>2, <1>3, <1>4, AppendProperties
  <1>8. ASSUME NEW i \in 1..Len(r) PROVE Append(p, b)[i] = r[i]
    <2>1. CASE i = Height(b) + 1
      <3>1. Append(p, b)[i] = b /\ i - 1 = Height(b) /\ i \in 1..(Height(b) + 1)
        BY <1>2, <1>3, <1>4, <2>1, AppendProperties
      <3> QED
        BY Zenon, <1>4, <1>6, <3>1
    <2>2. CASE i # Height(b) + 1
      <3>1. /\ Append(p, b)[i] = p[i] /\ i \in 1..((Height(b) - 1) + 1)
            /\ i - 1 \in 0..(Height(b) - 1) /\ i \in 1..(Height(b) + 1)
        BY <1>2, <1>3, <1>4, <1>8, <2>2, AppendProperties
      <3> QED
        BY Zenon, <1>3, <1>4, <1>5, <3>1
    <2> QED
      BY Zenon, <2>1, <2>2
  <1>9. Append(p, b) = r
    BY Zenon, <1>4, <1>7, <1>8, SeqEqual
  <1> QED
    BY Zenon, <1>9 DEF p, r

-----------------------------------------------------------------------------
(* Trees of blocks.                                                         *)

\* A member of a tree, or its root, and the way to it.
LEMMA TreeMember ==
    ASSUME NEW root \in Block, NEW T, Tree(T, root), NEW c \in T \cup {root}
    PROVE  /\ c \in Block /\ Leads(root, c) /\ Height(root) \in 0..Height(c)
           /\ \A n \in (Height(root) + 1)..Height(c) : At(c, n) \in T
           /\ c \in T => Height(root) < Height(c) /\ Height(c) <= MaxHeight
           /\ root \notin T
  <1>1. Height(root) \in Nat
    BY HeightType
  <1>2. root \notin T
    <2>1. ~ (Height(root) < Height(root))
      BY <1>1
    <2> QED
      BY Zenon, <2>1 DEF Tree
  <1>3. CASE c \in T
    <2>1. /\ c \in Block /\ Leads(root, c) /\ Height(root) < Height(c) /\ Height(c) <= MaxHeight
          /\ \A n \in (Height(root) + 1)..Height(c) : At(c, n) \in T
      BY Zenon, <1>3 DEF Tree
    <2>2. Height(c) \in Nat
      BY Zenon, <2>1, HeightType
    <2>3. Height(root) \in 0..Height(c)
      BY <1>1, <2>1, <2>2
    <2> QED
      BY Zenon, <1>2, <2>1, <2>3
  <1>4. CASE c = root
    <2>1. (Height(root) + 1)..Height(root) = {} /\ Height(root) \in 0..Height(root)
      BY <1>1
    <2> QED
      BY Zenon, <1>2, <1>4, <2>1, LeadsRefl
  <1> QED
    BY Zenon, <1>3, <1>4

\* The parent of a member is a member or the root.
LEMMA TreeParent ==
    ASSUME NEW root \in Block, NEW T, Tree(T, root), NEW c \in T
    PROVE  /\ c \in Block /\ c # Genesis /\ Parent(c) \in T \cup {root}
           /\ Parent(c) \in Block /\ Height(Parent(c)) = Height(c) - 1
           /\ Parent(c) = At(c, Height(c) - 1)
  <1>1. c \in Block /\ Leads(root, c) /\ Height(root) < Height(c)
    BY Zenon DEF Tree
  <1>2. Height(root) \in Nat /\ Height(c) \in Nat
    BY Zenon, <1>1, HeightType
  <1>3. /\ c # Genesis /\ Parent(c) \in Block /\ Height(Parent(c)) = Height(c) - 1
        /\ Leads(root, Parent(c)) /\ Parent(c) = At(c, Height(c) - 1)
    BY Zenon, <1>1, LeadsParent
  <1>4. CASE Height(c) = Height(root) + 1
    <2>1. Height(root) = Height(Parent(c))
      BY <1>2, <1>3, <1>4
    <2>2. root = Parent(c)
      BY Zenon, <1>3, <2>1, SameHeight
    <2> QED
      BY Zenon, <1>1, <1>3, <2>2
  <1>5. CASE Height(c) # Height(root) + 1
    <2>1. Height(c) - 1 \in (Height(root) + 1)..Height(c)
      BY <1>1, <1>2, <1>5
    <2>2. At(c, Height(c) - 1) \in T
      BY Zenon, <2>1 DEF Tree
    <2> QED
      BY Zenon, <1>1, <1>3, <2>2
  <1> QED
    BY Zenon, <1>4, <1>5

\* A block that continues a tree makes a larger one.
LEMMA TreeGrows ==
    ASSUME NEW root \in Block, NEW T, Tree(T, root), NEW b, Continues(b, T, root)
    PROVE  Tree(T \cup {b}, root)
  <1>1. /\ b \in Block /\ Height(b) <= MaxHeight /\ Height(root) < Height(b) /\ Leads(root, b)
        /\ Parent(b) \in T \cup {root}
    BY Zenon DEF Continues
  <1>2. /\ Parent(b) \in Block /\ Height(Parent(b)) = Height(b) - 1 /\ Leads(Parent(b), b)
    BY Zenon, <1>1, LeadsParent
  <1>3. Height(root) \in Nat /\ Height(b) \in Nat
    BY Zenon, <1>1, HeightType
  <1>4. ASSUME NEW n \in (Height(root) + 1)..Height(b) PROVE At(b, n) \in T \cup {b}
    <2>1. CASE n = Height(b)
      BY Zenon, <1>1, <2>1, AtSelf
    <2>2. CASE n # Height(b)
      <3>1. n \in 0..Height(Parent(b)) /\ n \in (Height(root) + 1)..Height(Parent(b))
        BY <1>2, <1>3, <1>4, <2>2
      <3>2. At(b, n) = At(Parent(b), n)
        BY Zenon, <1>1, <1>2, <3>1, AtOfLeads
      <3>3. At(Parent(b), n) \in T
        BY Zenon, <1>1, <3>1, TreeMember
      <3> QED
        BY Zenon, <3>2, <3>3
    <2> QED
      BY Zenon, <2>1, <2>2
  <1> QED
    BY Zenon, <1>1, <1>4 DEF Tree

\* What is above a member, or the root, is a tree.
LEMMA TreeAbove ==
    ASSUME NEW root \in Block, NEW T, Tree(T, root), NEW f \in T \cup {root}
    PROVE  Tree(Above(T, f), f)
  <1>1. f \in Block /\ Height(root) \in 0..Height(f) /\ Height(f) \in Nat
    BY Zenon, TreeMember, HeightType
  <1>2. ASSUME NEW b \in Above(T, f)
        PROVE  /\ b \in Block /\ Height(b) <= MaxHeight /\ Height(f) < Height(b) /\ Leads(f, b)
               /\ \A n \in (Height(f) + 1)..Height(b) : At(b, n) \in Above(T, f)
    <2>1. b \in T /\ Height(f) < Height(b) /\ Leads(f, b)
      BY Zenon DEF Above
    <2>2. b \in Block /\ Height(b) <= MaxHeight /\ Height(b) \in Nat
      BY Zenon, <2>1, HeightType DEF Tree
    <2>3. ASSUME NEW n \in (Height(f) + 1)..Height(b) PROVE At(b, n) \in Above(T, f)
      <3>1. n \in (Height(root) + 1)..Height(b) /\ n \in 0..Height(b) /\ Height(f) < n
            /\ Height(f) <= n
        BY <1>1, <2>2, <2>3
      <3>2. At(b, n) \in T
        BY Zenon, <2>1, <3>1 DEF Tree
      <3>3. At(b, n) \in Block /\ Height(At(b, n)) = n /\ Leads(At(b, n), b)
        BY Zenon, <2>2, <3>1, LeadsAt
      <3>4. Leads(f, At(b, n))
        BY Zenon, <1>1, <2>1, <2>2, <3>1, <3>3, LeadsLinear
      <3> QED
        BY Zenon, <3>1, <3>2, <3>3, <3>4 DEF Above
    <2> QED
      BY Zenon, <2>1, <2>2, <2>3
  <1> QED
    BY Zenon, <1>2 DEF Tree

\* All of a tree is above its root.
LEMMA AboveRoot ==
    ASSUME NEW root, NEW T, Tree(T, root)
    PROVE  Above(T, root) = T
  BY Zenon DEF Tree, Above

\* What is above a block above f is above f.
LEMMA AboveAbove ==
    ASSUME NEW root \in Block, NEW T, Tree(T, root), NEW a \in Block, NEW f \in Block, Leads(a, f)
    PROVE  Above(Above(T, a), f) = Above(T, f)
  <1>1. ASSUME NEW b \in Above(T, f) PROVE b \in Above(T, a)
    <2>1. b \in T /\ Height(f) < Height(b) /\ Leads(f, b) /\ b \in Block
      BY Zenon DEF Above, Tree
    <2>2. Leads(a, b)
      BY Zenon, <2>1, LeadsTrans
    <2>3. Height(a) < Height(b)
      BY Zenon, <2>1, HeightType, SMT DEF Leads
    <2> QED
      BY Zenon, <2>1, <2>2, <2>3 DEF Above
  <1> QED
    BY Zenon, <1>1 DEF Above

-----------------------------------------------------------------------------
(* The operations of the storage manager.                                  *)

\* The snapshots a state refers to are those between the disk and its block.
LEMMA ReferencesBetween ==
    ASSUME NEW root \in Block, Tree(DOMAIN snapshots, root), NEW c \in DOMAIN snapshots \cup {root}
    PROVE  References(c) = Between(root, c)
  <1> DEFINE T == DOMAIN snapshots
             From(n) == /\ n = 0 \/ At(c, n) \notin T
                        /\ \A m \in (n + 1)..Height(c) : At(c, m) \in T
             from == CHOOSE n \in 0..Height(c) : From(n)
  <1>1. /\ c \in Block /\ Leads(root, c) /\ Height(root) \in 0..Height(c) /\ root \notin T
        /\ \A n \in (Height(root) + 1)..Height(c) : At(c, n) \in T
    BY Zenon, TreeMember
  <1>2. Height(c) \in Nat /\ Height(root) \in Nat
    BY Zenon, <1>1, HeightType
  <1>3. At(c, Height(root)) = root
    BY Zenon, <1>1 DEF Leads
  <1>4. From(Height(root))
    BY Zenon, <1>1, <1>3
  <1>5. ASSUME NEW n \in 0..Height(c), From(n) PROVE n = Height(root)
    <2>1. ~ (n < Height(root))
      <3> SUFFICES ASSUME n < Height(root) PROVE FALSE
        OBVIOUS
      <3>1. Height(root) \in (n + 1)..Height(c)
        BY <1>1, <1>2, <1>5
      <3> QED
        BY Zenon, <1>1, <1>3, <1>5, <3>1
    <2>2. ~ (Height(root) < n)
      <3> SUFFICES ASSUME Height(root) < n PROVE FALSE
        OBVIOUS
      <3>1. n \in (Height(root) + 1)..Height(c) /\ n # 0
        BY <1>1, <1>2, <1>5
      <3> QED
        BY Zenon, <1>1, <1>5, <3>1
    <2> QED
      BY <1>2, <2>1, <2>2
  <1>6. from = Height(root)
    <2> HIDE DEF From
    <2> QED
      BY Zenon, <1>1, <1>4, <1>5
  <1>7. References(c) = [i \in 1..(Height(c) - from) |-> At(c, from + i)]
    BY Zenon DEF References
  <1> HIDE DEF from
  <1> QED
    BY Zenon, <1>6, <1>7 DEF Between

\* The state on top of a snapshot is the path to its block.
LEMMA StateUpToPath ==
    ASSUME NEW root \in Block, Tree(DOMAIN snapshots, root), NEW c \in DOMAIN snapshots \cup {root},
           disk = PathTo(root)
    PROVE  StateUpTo(c) = PathTo(c)
  <1>1. c \in Block /\ Leads(root, c)
    BY Zenon, TreeMember
  <1>2. References(c) = Between(root, c)
    BY Zenon, ReferencesBetween
  <1> QED
    BY Zenon, <1>1, <1>2, PathConcat DEF StateUpTo

\* The first block above the disk is the only one that is written.
LEMMA SegmentsOfFirst ==
    ASSUME NEW root \in Block, Tree(blocksToParent, root), NEW b \in blocksToParent,
           Height(b) = Height(root) + 1
    PROVE  Segments(b) = <<b>>
  <1> DEFINE T == blocksToParent
             From(n) == /\ At(b, n - 1) \notin T
                        /\ \A m \in n..(Height(b) - 1) : At(b, m) \in T
             from == CHOOSE n \in 1..Height(b) : From(n)
  <1>1. b \in Block /\ Leads(root, b) /\ root \notin T
    BY Zenon, TreeMember
  <1>2. Height(b) \in Nat /\ Height(root) \in Nat
    BY Zenon, <1>1, HeightType
  <1>3. At(b, Height(root)) = root /\ At(b, Height(b)) = b
    BY Zenon, <1>1, AtSelf DEF Leads
  <1>4. /\ Height(b) \in 1..Height(b) /\ Height(b) - 1 = Height(root)
        /\ Height(b)..(Height(b) - 1) = {}
    BY <1>2
  <1>5. From(Height(b))
    BY Zenon, <1>1, <1>3, <1>4
  <1>6. ASSUME NEW n \in 1..Height(b), From(n) PROVE n = Height(b)
    <2> SUFFICES ASSUME n # Height(b) PROVE FALSE
      OBVIOUS
    <2>1. Height(root) \in n..(Height(b) - 1)
      BY <1>2, <1>4
    <2> QED
      BY Zenon, <1>1, <1>3, <1>6, <2>1
  <1>7. from = Height(b)
    <2> HIDE DEF From
    <2> QED
      BY Zenon, <1>4, <1>5, <1>6
  <1>8. Segments(b) = [i \in 1..(Height(b) - from + 1) |-> At(b, from + i - 1)]
    BY Zenon DEF Segments
  <1> HIDE DEF from
  <1>9. Height(b) - from + 1 = 1 /\ from + 1 - 1 = Height(b)
    BY <1>2, <1>7
  <1>10. \A i \in 1..1 : from + i - 1 = Height(b)
    BY <1>2, <1>7
  <1>11. Segments(b) = [i \in 1..1 |-> b]
    BY Zenon, <1>3, <1>8, <1>9, <1>10
  <1> QED
    BY <1>11

-----------------------------------------------------------------------------
(* The disk.                                                                *)

\* A disk that ends with a finalized block.
LEMMA BaseIs ==
    ASSUME NEW f \in Block, NEW b \in Block, Leads(b, f), NEW d, d = PathTo(b)
    PROVE  BaseOf(f, d) = b /\ Len(d) \in 1..(Height(f) + 1)
  <1>1. Len(d) = Height(b) + 1
    BY Zenon, PathFacts
  <1>2. Height(b) \in Nat /\ Height(f) \in Nat /\ Height(b) <= Height(f)
    BY HeightType DEF Leads
  <1>3. Len(d) - 1 = Height(b) /\ Len(d) \in 1..(Height(f) + 1)
    BY <1>1, <1>2
  <1> QED
    BY Zenon, <1>3 DEF BaseOf, Leads

\* The last block on disk is final.
LEMMA BaseFacts ==
    ASSUME DaInv, DiskInv
    PROVE  /\ Base \in Block /\ Leads(Base, finalized)
           /\ Leads(finalized, head) /\ Leads(Base, head)
           /\ Height(Base) = Len(disk) - 1 /\ Len(disk) = Height(Base) + 1 /\ Height(Base) \in Nat
           /\ finalized \in Block /\ head \in Block /\ disk = PathTo(Base)
  <1>1. finalized \in Block /\ head \in Block /\ Leads(finalized, head) /\ disk = PathTo(Base)
    BY Zenon DEF DaInv, DiskInv
  <1>2. Len(disk) \in 1..(Height(finalized) + 1) /\ Height(finalized) \in Nat
    BY Zenon, <1>1, HeightType DEF DiskInv
  <1>3. Len(disk) - 1 \in 0..Height(finalized)
    BY <1>2
  <1>4. Base \in Block /\ Height(Base) = Len(disk) - 1 /\ Leads(Base, finalized)
    BY Zenon, <1>1, <1>3, LeadsAt DEF Base, BaseOf
  <1>5. Len(disk) = Height(Base) + 1 /\ Height(Base) \in Nat
    BY <1>2, <1>4
  <1>6. Leads(Base, head)
    BY Zenon, <1>1, <1>4, LeadsTrans
  <1> QED
    BY Zenon, <1>1, <1>4, <1>5, <1>6

\* Once the storage has finalized what it had to, the two managers agree on the blocks.
LEMMA NothingPending ==
    ASSUME DaInv, DiskInv, Pending, Forest, toFinalize = << >>
    PROVE  /\ Base = lastFinalized /\ lastFinalized \in Block
           /\ Seen = DOMAIN snapshots /\ Tree(Seen, lastFinalized)
           /\ disk = lastRoot /\ disk = PathTo(lastFinalized)
           /\ Leads(lastFinalized, finalized) /\ Leads(lastFinalized, head)
  <1>1. Base \in Block /\ lastFinalized \in Block /\ Leads(Base, lastFinalized)
    BY Zenon, BaseFacts DEF Pending
  <1>2. Height(Base) \in Nat /\ Height(lastFinalized) \in Nat
    BY Zenon, <1>1, HeightType
  <1>3. Height(lastFinalized) - Height(Base) = 0
    BY DEF Pending
  <1>4. Height(Base) = Height(lastFinalized)
    BY <1>2, <1>3
  <1>5. Base = lastFinalized
    BY Zenon, <1>1, <1>4, SameHeight
  <1>6. Seen = DOMAIN snapshots /\ Tree(DOMAIN snapshots, lastFinalized)
    BY Zenon, <1>5, AboveRoot DEF Forest
  <1> QED
    BY Zenon, <1>1, <1>5, <1>6, BaseFacts DEF Forest

-----------------------------------------------------------------------------
(* Steps that leave parts of the state alone.                              *)

\* Each part of the invariant is about some of the variables only.
LEMMA DaStays ==
    ASSUME DaInv, UNCHANGED <<daVars, cached>>
    PROVE  DaInv'
  BY DEF DaInv, daVars, Leads, At, Height, Block

LEMMA DiskStays ==
    ASSUME DiskInv, UNCHANGED <<finalized, disk>>
    PROVE  DiskInv' /\ Base' = Base
  <1>1. Base' = Base
    BY Zenon DEF Base
  <1> QED
    BY Zenon, <1>1 DEF DiskInv

LEMMA NodeStays ==
    ASSUME NodeInv, UNCHANGED <<next, requested, target, block, candidate, thisHead>>
    PROVE  NodeInv'
  BY DEF NodeInv

LEMMA TreesStay ==
    ASSUME Pending, Forest, Base' = Base, Leads(lastFinalized, finalized)',
           UNCHANGED <<snapshots, managerVars, toFinalize>>, chainForks' = blocksToParent'
    PROVE  Pending' /\ Forest'
  <1>1. /\ lastFinalized' = lastFinalized /\ toFinalize' = toFinalize /\ snapshots' = snapshots
        /\ stateOn' = stateOn /\ lastRoot' = lastRoot /\ seenOn' = seenOn
    BY Zenon DEF managerVars
  <1>2. Pending'
    BY Zenon, <1>1 DEF Pending
  <1>3. Seen' = Seen
    BY Zenon, <1>1 DEF Seen
  <1>4. Forest'
    BY Zenon, <1>1, <1>3 DEF Forest
  <1> QED
    BY Zenon, <1>2, <1>4

LEMMA SearchStays ==
    ASSUME SearchInv, UNCHANGED <<pc, managerVars, searchVars>>
    PROVE  SearchInv'
  <1>1. /\ pc' = pc /\ lastFinalized' = lastFinalized /\ stateOn' = stateOn /\ seenOn' = seenOn
        /\ low' = low /\ high' = high /\ candidate' = candidate /\ thisHead' = thisHead
    BY Zenon DEF managerVars, searchVars
  <1>2. Seen' = Seen /\ HighestSeen' = HighestSeen /\ Middle' = Middle
    BY Zenon, <1>1 DEF Seen, HighestSeen, Middle
  <1> QED
    BY Zenon, <1>1, <1>2 DEF SearchInv

LEMMA PlaceStays ==
    ASSUME PlaceInv, UNCHANGED <<pc, block, lastFinalized, toFinalize, snapshots, blocksToParent>>
    PROVE  PlaceInv'
  BY Zenon DEF PlaceInv

\* Between two steps of the runner only the DA layer and what is known of it change.
LEMMA UpStays ==
    ASSUME IInv, Base' = Base, Leads(lastFinalized, finalized) => Leads(lastFinalized, finalized)',
           UNCHANGED <<pc, block, managerVars, searchVars, toFinalize, storageVars>>
    PROVE  /\ pc' # "down" => UpInv'
           /\ pc' = "down" => DownInv'
  <1>1. /\ pc' = pc /\ UNCHANGED <<snapshots, managerVars, toFinalize>>
        /\ UNCHANGED <<pc, managerVars, searchVars>>
        /\ UNCHANGED <<pc, block, lastFinalized, toFinalize, snapshots, blocksToParent>>
        /\ chainForks' = chainForks /\ blocksToParent' = blocksToParent
        /\ candidate' = candidate /\ thisHead' = thisHead /\ stateOn' = stateOn /\ seenOn' = seenOn
    BY DEF managerVars, searchVars, storageVars
  <1>2. ASSUME pc # "down" PROVE UpInv'
    <2>1. Pending /\ Forest /\ PlaceInv /\ SearchInv
      BY Zenon, <1>2 DEF IInv, UpInv
    <2>2. Leads(lastFinalized, finalized)' /\ chainForks' = blocksToParent'
      BY Zenon, <1>1, <2>1 DEF Pending, Forest
    <2>3. Pending' /\ Forest'
      BY Zenon, <1>1, <2>1, <2>2, TreesStay
    <2>4. SearchInv'
      BY Zenon, <1>1, <2>1, SearchStays
    <2>5. PlaceInv'
      BY Zenon, <1>1, <2>1, PlaceStays
    <2> QED
      BY Zenon, <2>3, <2>4, <2>5 DEF UpInv
  <1>3. ASSUME pc = "down" PROVE DownInv'
    BY Zenon, <1>1, <1>3 DEF IInv, DownInv, Seen
  <1> QED
    BY Zenon, <1>1, <1>2, <1>3

\* Where the loop goes round with a new height.
LEMMA FetchAtSafe ==
    ASSUME NEW n \in Nat, FetchAt(n), target' \in Nat, toFinalize' = << >>,
           blocksToParent' = (DOMAIN snapshots)'
    PROVE  NodeInv' /\ PlaceInv' /\ SearchInv' /\ pc' = "fetch"
  <1>1. /\ pc' = "fetch" /\ next' = n /\ requested' = n /\ block' = Genesis
        /\ candidate' = NotRead /\ thisHead' = NotRead
    BY Zenon DEF FetchAt
  <1>2. NodeInv'
    BY Zenon, <1>1, GenesisFacts DEF NodeInv
  <1>3. pc' # "execute" /\ pc' # "probe" /\ pc' \notin {"head", "probe"}
    BY <1>1
  <1> QED
    BY Zenon, <1>1, <1>2, <1>3 DEF PlaceInv, SearchInv

\* Wherever the process ends, only the disk is left.
LEMMA StopSafe ==
    ASSUME IInv, Stop, UNCHANGED daVars, AssertionsHold'
    PROVE  IInv'
  <1>1. DaInv /\ DiskInv
    BY Zenon DEF IInv
  <1>2. /\ pc' = "down" /\ next' = 0 /\ requested' = 0 /\ target' = 0 /\ block' = Genesis
        /\ cached' = Genesis /\ stateOn' = << >> /\ seenOn' = [h \in Heights |-> {}]
        /\ candidate' = NotRead /\ thisHead' = NotRead /\ toFinalize' = << >> /\ disk' = disk
    BY DEF Stop
  <1>3. /\ head' = head /\ abandoned' = abandoned /\ finalized' = finalized /\ reorgs' = reorgs
    BY Zenon DEF daVars
  <1>4. DaInv'
    <2>1. Genesis \in Block /\ Leads(Genesis, finalized)
      BY Zenon, <1>1, GenesisFacts, GenesisLeads DEF DaInv
    <2> QED
      BY Zenon, <1>1, <1>2, <1>3, <2>1 DEF DaInv
  <1>5. DiskInv'
    BY Zenon, <1>1, <1>2, <1>3, DiskStays
  <1>6. NodeInv'
    <2>1. 0 \in Nat
      OBVIOUS
    <2> QED
      BY Zenon, <1>2, <2>1, GenesisFacts DEF NodeInv
  <1>7. DownInv'
    <2>1. Seen' = {}
      BY <1>2 DEF Seen
    <2> QED
      BY Zenon, <1>2, <2>1 DEF DownInv
  <1> QED
    BY Zenon, <1>2, <1>4, <1>5, <1>6, <1>7 DEF IInv

-----------------------------------------------------------------------------
(* The DA layer and the tasks that poll it.                                *)

LEMMA DaExtendSafe == IInv /\ DaExtend => IInv'
  <1> SUFFICES ASSUME IInv, DaExtend PROVE IInv'
    OBVIOUS
  <1>1. DaInv /\ DiskInv /\ NodeInv /\ AssertionsHold
    BY Zenon DEF IInv
  <1>2. /\ head' = Append(head, reorgs) /\ Height(head) < MaxHeight
        /\ abandoned' = abandoned /\ finalized' = finalized /\ reorgs' = reorgs
        /\ UNCHANGED <<next, requested, target, block, candidate, thisHead>>
        /\ UNCHANGED <<finalized, disk>> /\ cached' = cached /\ failures' = failures
        /\ UNCHANGED <<pc, block, managerVars, searchVars, toFinalize, storageVars>>
        /\ lastFinalized' = lastFinalized
    BY DEF DaExtend, nodeVars, fetchVars, managerVars, searchVars, storageVars
  <1>3. /\ head \in Block /\ reorgs \in Nat /\ finalized \in Block /\ Leads(finalized, head)
    BY Zenon, <1>1 DEF DaInv
  <1>4. /\ head' \in Block /\ Height(head') = Height(head) + 1 /\ Leads(head, head')
    BY Zenon, <1>2, <1>3, AppendFacts
  <1>5. Height(head') <= MaxHeight
    BY <1>2, <1>3, <1>4, HeightType, BoundsAssumption
  <1>6. Leads(finalized, head')
    BY Zenon, <1>3, <1>4, LeadsTrans
  <1>7. DaInv'
    BY Zenon, <1>1, <1>2, <1>4, <1>5, <1>6 DEF DaInv
  <1>8. DiskInv' /\ Base' = Base
    BY Zenon, <1>1, <1>2, DiskStays
  <1>9. NodeInv'
    BY Zenon, <1>1, <1>2, NodeStays
  <1>10. (pc' # "down" => UpInv') /\ (pc' = "down" => DownInv')
    BY Zenon, <1>2, <1>8, UpStays
  <1> QED
    BY Zenon, <1>1, <1>2, <1>7, <1>8, <1>9, <1>10 DEF IInv, AssertionsHold

\* Whatever fork becomes the best one follows the finalized block.
LEMMA ForksAreBlocks ==
    ASSUME DaInv, NEW b \in Forks
    PROVE  b \in Block /\ Height(b) <= MaxHeight /\ Leads(finalized, b)
  <1>1. ASSUME NEW n \in 0..(Height(head) - 1), NEW length \in 0..MaxHeight
        PROVE  Fork(n, length) \in Block
    <2>1. n \in 0..Height(head) /\ head \in Block /\ length \in Nat /\ reorgs + 1 \in Nat
      BY HeightType, BoundsAssumption DEF DaInv
    <2>2. At(head, n) \in Seq(Nat)
      BY Zenon, <2>1, AtType DEF Block
    <2>3. [i \in 1..length |-> reorgs + 1] \in Seq(Nat)
      BY <2>1
    <2> QED
      BY Zenon, <2>2, <2>3, ConcatProperties DEF Block, Fork
  <1>2. \A c \in abandoned : c \in Block
    BY Zenon DEF DaInv
  <1> QED
    BY <1>1, <1>2 DEF Forks

LEMMA DaReorgSafe == IInv /\ DaReorg => IInv'
  <1> SUFFICES ASSUME IInv, DaReorg PROVE IInv'
    OBVIOUS
  <1>1. DaInv /\ DiskInv /\ NodeInv /\ AssertionsHold
    BY Zenon DEF IInv
  <1>2. /\ head' \in Forks /\ reorgs' = reorgs + 1
        /\ abandoned' = abandoned \cup {head} /\ finalized' = finalized
        /\ UNCHANGED <<next, requested, target, block, candidate, thisHead>>
        /\ UNCHANGED <<finalized, disk>> /\ cached' = cached /\ failures' = failures
        /\ UNCHANGED <<pc, block, managerVars, searchVars, toFinalize, storageVars>>
        /\ lastFinalized' = lastFinalized
    BY Zenon DEF DaReorg, nodeVars, fetchVars, managerVars, searchVars, storageVars
  <1>3. head' \in Block /\ Height(head') <= MaxHeight /\ Leads(finalized, head')
    BY Zenon, <1>1, <1>2, ForksAreBlocks
  <1>4. reorgs' \in Nat
    BY <1>1, <1>2 DEF DaInv
  <1>5. DaInv'
    BY Zenon, <1>1, <1>2, <1>3, <1>4 DEF DaInv
  <1>6. DiskInv' /\ Base' = Base
    BY Zenon, <1>1, <1>2, DiskStays
  <1>7. NodeInv'
    BY Zenon, <1>1, <1>2, NodeStays
  <1>8. (pc' # "down" => UpInv') /\ (pc' = "down" => DownInv')
    BY Zenon, <1>2, <1>6, UpStays
  <1> QED
    BY Zenon, <1>1, <1>2, <1>5, <1>6, <1>7, <1>8 DEF IInv, AssertionsHold

\* The DA layer finalizes the next block of its best fork.
LEMMA NextFinalized ==
    ASSUME DaInv, DaFinalize
    PROVE  /\ finalized' \in Block /\ Height(finalized') = Height(finalized) + 1
           /\ Leads(finalized, finalized') /\ Leads(finalized', head)
  <1>1. /\ head \in Block /\ finalized \in Block /\ Leads(finalized, head)
        /\ finalized' = At(head, Height(finalized) + 1) /\ Height(finalized) < Height(head)
    BY Zenon DEF DaInv, DaFinalize
  <1>2. /\ Height(finalized) \in Nat /\ Height(head) \in Nat
    BY Zenon, <1>1, HeightType
  <1>3. Height(finalized) + 1 \in 0..Height(head) /\ Height(finalized) <= Height(finalized) + 1
    BY <1>1, <1>2
  <1>4. /\ finalized' \in Block /\ Height(finalized') = Height(finalized) + 1
        /\ Leads(finalized', head)
    BY Zenon, <1>1, <1>3, LeadsAt
  <1>5. Leads(finalized, finalized')
    BY Zenon, <1>1, <1>3, <1>4, LeadsLinear
  <1> QED
    BY Zenon, <1>4, <1>5

LEMMA DaFinalizeSafe == IInv /\ DaFinalize => IInv'
  <1> SUFFICES ASSUME IInv, DaFinalize PROVE IInv'
    OBVIOUS
  <1>1. DaInv /\ DiskInv /\ NodeInv /\ AssertionsHold
    BY Zenon DEF IInv
  <1>2. /\ head' = head /\ reorgs' = reorgs /\ abandoned' = abandoned
        /\ UNCHANGED <<next, requested, target, block, candidate, thisHead>>
        /\ disk' = disk /\ cached' = cached /\ failures' = failures
        /\ UNCHANGED <<pc, block, managerVars, searchVars, toFinalize, storageVars>>
        /\ lastFinalized' = lastFinalized
    BY Zenon DEF DaFinalize, nodeVars, fetchVars, managerVars, searchVars, storageVars
  <1>3. finalized' \in Block /\ Leads(finalized, finalized') /\ Leads(finalized', head)
    BY Zenon, <1>1, NextFinalized
  <1>4. Leads(cached, finalized')
    BY Zenon, <1>1, <1>3, LeadsTrans DEF DaInv
  <1>5. DaInv'
    BY Zenon, <1>1, <1>2, <1>3, <1>4 DEF DaInv
  <1>6. Base' = Base /\ Len(disk) \in 1..(Height(finalized') + 1)
    <2>1. Base \in Block /\ Leads(Base, finalized) /\ finalized \in Block /\ disk = PathTo(Base)
      BY Zenon, <1>1, BaseFacts
    <2>2. Leads(Base, finalized')
      BY Zenon, <1>3, <2>1, LeadsTrans
    <2>3. BaseOf(finalized', disk) = Base /\ Len(disk) \in 1..(Height(finalized') + 1)
      BY Zenon, <1>3, <2>1, <2>2, BaseIs
    <2> QED
      BY Zenon, <1>2, <2>3 DEF Base
  <1>7. DiskInv'
    BY Zenon, <1>1, <1>2, <1>6 DEF DiskInv
  <1>8. NodeInv'
    BY Zenon, <1>1, <1>2, NodeStays
  <1>9. CASE pc # "down"
    <2>1. lastFinalized \in Block /\ Leads(lastFinalized, finalized)
      BY Zenon, <1>9 DEF IInv, UpInv, Pending
    <2>2. Leads(lastFinalized, finalized')
      BY Zenon, <1>1, <1>3, <2>1, LeadsTrans DEF DaInv
    <2>3. (pc' # "down" => UpInv') /\ (pc' = "down" => DownInv')
      BY Zenon, <1>2, <1>6, <2>2, UpStays
    <2> QED
      BY Zenon, <1>1, <1>2, <1>5, <1>7, <1>8, <2>3 DEF IInv, AssertionsHold
  <1>10. CASE pc = "down"
    <2>1. DownInv'
      BY Zenon, <1>2, <1>10 DEF IInv, DownInv, Seen, managerVars, searchVars
    <2> QED
      BY Zenon, <1>1, <1>2, <1>5, <1>7, <1>8, <1>10, <2>1 DEF IInv, AssertionsHold
  <1> QED
    BY Zenon, <1>9, <1>10

LEMMA PollFinalizedSafe == IInv /\ PollFinalized => IInv'
  <1> SUFFICES ASSUME IInv, PollFinalized PROVE IInv'
    OBVIOUS
  <1>1. DaInv /\ DiskInv /\ NodeInv /\ AssertionsHold
    BY Zenon DEF IInv
  <1>2. /\ head' = head /\ reorgs' = reorgs /\ abandoned' = abandoned /\ finalized' = finalized
        /\ UNCHANGED <<next, requested, target, block, candidate, thisHead>>
        /\ UNCHANGED <<finalized, disk>> /\ cached' = finalized /\ failures' = failures
        /\ UNCHANGED <<pc, block, managerVars, searchVars, toFinalize, storageVars>>
        /\ lastFinalized' = lastFinalized
    BY Zenon DEF PollFinalized, daVars, fetchVars, managerVars, searchVars, storageVars
  <1>3. Leads(finalized, finalized)
    BY Zenon, <1>1, LeadsRefl DEF DaInv
  <1>4. DaInv'
    BY Zenon, <1>1, <1>2, <1>3 DEF DaInv
  <1>5. DiskInv' /\ Base' = Base
    BY Zenon, <1>1, <1>2, DiskStays
  <1>6. NodeInv'
    BY Zenon, <1>1, <1>2, NodeStays
  <1>7. (pc' # "down" => UpInv') /\ (pc' = "down" => DownInv')
    BY Zenon, <1>2, <1>5, UpStays
  <1> QED
    BY Zenon, <1>1, <1>2, <1>4, <1>5, <1>6, <1>7 DEF IInv, AssertionsHold

LEMMA UpdateTargetSafe == IInv /\ UpdateTarget => IInv'
  <1> SUFFICES ASSUME IInv, UpdateTarget PROVE IInv'
    OBVIOUS
  <1>1. DaInv /\ DiskInv /\ NodeInv /\ AssertionsHold
    BY Zenon DEF IInv
  <1>2. /\ UNCHANGED <<daVars, cached>> /\ target' = Height(head)
        /\ UNCHANGED <<next, requested, block, candidate, thisHead>>
        /\ UNCHANGED <<finalized, disk>> /\ failures' = failures
        /\ UNCHANGED <<pc, block, managerVars, searchVars, toFinalize, storageVars>>
        /\ lastFinalized' = lastFinalized /\ finalized' = finalized
    BY Zenon DEF UpdateTarget, daVars, fetchVars, managerVars, searchVars, storageVars
  <1>3. target' \in Nat
    BY Zenon, <1>1, <1>2, HeightType DEF DaInv
  <1>4. DaInv'
    BY Zenon, <1>1, <1>2, DaStays
  <1>5. DiskInv' /\ Base' = Base
    BY Zenon, <1>1, <1>2, DiskStays
  <1>6. NodeInv'
    BY Zenon, <1>1, <1>2, <1>3 DEF NodeInv
  <1>7. (pc' # "down" => UpInv') /\ (pc' = "down" => DownInv')
    BY Zenon, <1>2, <1>5, UpStays
  <1> QED
    BY Zenon, <1>1, <1>2, <1>4, <1>5, <1>6, <1>7 DEF IInv, AssertionsHold

LEMMA RollBackSafe == IInv /\ RollBack => IInv'
  <1> SUFFICES ASSUME IInv, RollBack PROVE IInv'
    OBVIOUS
  <1>1. DaInv /\ DiskInv /\ NodeInv /\ AssertionsHold
    BY Zenon DEF IInv
  <1>2. /\ UNCHANGED <<daVars, cached>> /\ requested' = target
        /\ UNCHANGED <<next, target, block, candidate, thisHead>>
        /\ UNCHANGED <<finalized, disk>> /\ failures' = failures
        /\ UNCHANGED <<pc, block, managerVars, searchVars, toFinalize, storageVars>>
        /\ lastFinalized' = lastFinalized /\ finalized' = finalized
    BY Zenon DEF RollBack, daVars, managerVars, searchVars, storageVars
  <1>3. DaInv'
    BY Zenon, <1>1, <1>2, DaStays
  <1>4. DiskInv' /\ Base' = Base
    BY Zenon, <1>1, <1>2, DiskStays
  <1>5. NodeInv'
    BY Zenon, <1>1, <1>2 DEF NodeInv
  <1>6. (pc' # "down" => UpInv') /\ (pc' = "down" => DownInv')
    BY Zenon, <1>2, <1>4, UpStays
  <1> QED
    BY Zenon, <1>1, <1>2, <1>3, <1>4, <1>5, <1>6 DEF IInv, AssertionsHold

-----------------------------------------------------------------------------
(* The loop of the runner, up to the execution of a block.                 *)

\* Outside "finalize" the storage has finalized what it had to.
LEMMA Running ==
    ASSUME IInv, pc # "down", pc # "finalize"
    PROVE  /\ DaInv /\ DiskInv /\ NodeInv /\ AssertionsHold
           /\ Pending /\ Forest /\ PlaceInv /\ SearchInv
           /\ toFinalize = << >> /\ Base = lastFinalized
           /\ Seen = DOMAIN snapshots /\ Tree(Seen, lastFinalized)
           /\ lastFinalized \in Block /\ head \in Block /\ finalized \in Block
           /\ Leads(lastFinalized, finalized) /\ Leads(finalized, head)
           /\ Leads(lastFinalized, head) /\ Height(lastFinalized) \in Nat /\ Height(head) \in Nat
           /\ disk = PathTo(lastFinalized)
  <1>1. /\ DaInv /\ DiskInv /\ NodeInv /\ AssertionsHold
        /\ Pending /\ Forest /\ PlaceInv /\ SearchInv
    BY Zenon DEF IInv, UpInv
  <1>2. toFinalize = << >>
    BY Zenon, <1>1 DEF PlaceInv
  <1>3. /\ Base = lastFinalized /\ Seen = DOMAIN snapshots /\ Tree(Seen, lastFinalized)
        /\ lastFinalized \in Block /\ Leads(lastFinalized, finalized) /\ Leads(lastFinalized, head)
        /\ disk = PathTo(lastFinalized)
    BY Zenon, <1>1, <1>2, NothingPending
  <1>4. head \in Block /\ finalized \in Block /\ Leads(finalized, head)
    BY Zenon, <1>1 DEF DaInv
  <1> QED
    BY Zenon, <1>1, <1>2, <1>3, <1>4, HeightType

\* Going round the loop with another height.
LEMMA FetchAgain ==
    ASSUME IInv, pc # "down", pc # "execute", toFinalize = << >>, NEW n \in Nat, FetchAt(n),
           target' \in Nat,
           UNCHANGED <<daVars, cached, managerVars, toFinalize, failures, storageVars>>
    PROVE  IInv'
  <1>1. /\ DaInv /\ DiskInv /\ NodeInv /\ AssertionsHold
        /\ Pending /\ Forest /\ PlaceInv /\ SearchInv
    BY Zenon DEF IInv, UpInv
  <1>2. /\ UNCHANGED <<daVars, cached>> /\ UNCHANGED <<finalized, disk>>
        /\ UNCHANGED <<snapshots, managerVars, toFinalize>> /\ failures' = failures
        /\ finalized' = finalized /\ lastFinalized' = lastFinalized /\ snapshots' = snapshots
        /\ chainForks' = chainForks /\ blocksToParent' = blocksToParent /\ toFinalize' = << >>
    BY DEF daVars, managerVars, storageVars
  <1>3. DaInv'
    BY Zenon, <1>1, <1>2, DaStays
  <1>4. DiskInv' /\ Base' = Base
    BY Zenon, <1>1, <1>2, DiskStays
  <1>5. /\ Leads(lastFinalized, finalized)' /\ chainForks' = blocksToParent'
        /\ blocksToParent' = (DOMAIN snapshots)'
    BY Zenon, <1>1, <1>2 DEF Pending, Forest, PlaceInv
  <1>6. Pending' /\ Forest'
    BY Zenon, <1>1, <1>2, <1>4, <1>5, TreesStay
  <1>7. NodeInv' /\ PlaceInv' /\ SearchInv' /\ pc' = "fetch"
    BY Zenon, <1>2, <1>5, FetchAtSafe
  <1>8. pc' # "down"
    BY <1>7
  <1> QED
    BY Zenon, <1>1, <1>2, <1>3, <1>4, <1>6, <1>7, <1>8 DEF IInv, UpInv, AssertionsHold

\* fetch_block and check_continuation: only a block on an executed one, or on the last
\* finalized one, is executed.
LEMMA FetchBlockSafe == IInv /\ FetchBlock => IInv'
  <1> SUFFICES ASSUME IInv, FetchBlock PROVE IInv'
    OBVIOUS
  <1> DEFINE n == IF next <= syncHeight THEN next ELSE requested
             b == At(head, n)
  <1>1. /\ pc = "fetch" /\ n <= Height(head) /\ CheckContinuation(b)
        /\ UNCHANGED <<daVars, cached>> /\ UNCHANGED <<managerVars, toFinalize>>
        /\ failures' = failures /\ target' = target
    BY Zenon DEF FetchBlock
  <1>2. pc # "down" /\ pc # "finalize" /\ pc # "execute" /\ pc # "probe"
    BY <1>1
  <1>3. /\ DaInv /\ DiskInv /\ NodeInv /\ AssertionsHold
        /\ Pending /\ Forest /\ PlaceInv /\ SearchInv
        /\ toFinalize = << >> /\ Base = lastFinalized
        /\ Seen = DOMAIN snapshots /\ Tree(Seen, lastFinalized)
        /\ lastFinalized \in Block /\ head \in Block
        /\ Leads(lastFinalized, finalized) /\ Height(lastFinalized) \in Nat /\ Height(head) \in Nat
    BY Zenon, <1>2, Running
  <1>4. n \in Nat /\ target \in Nat
    BY <1>3 DEF NodeInv
  <1> HIDE DEF n
  <1>5. n \in 0..Height(head)
    BY <1>1, <1>3, <1>4
  <1>6. b \in Block /\ Height(b) = n /\ Height(b) <= MaxHeight
    <2>1. b \in Block /\ Height(b) = n
      BY Zenon, <1>3, <1>5, AtType
    <2>2. Height(head) <= MaxHeight
      BY Zenon, <1>3 DEF DaInv
    <2>3. n <= MaxHeight
      BY <1>1, <1>3, <1>4, <2>2, BoundsAssumption
    <2> QED
      BY Zenon, <2>1, <2>3
  <1> HIDE DEF b
  <1>7. candidate = NotRead /\ thisHead = NotRead
    BY Zenon, <1>2, <1>3 DEF SearchInv
  <1>8. /\ blocksToParent = DOMAIN snapshots /\ chainForks = blocksToParent
    BY Zenon, <1>2, <1>3 DEF PlaceInv, Forest
  <1>9. DaInv'
    BY Zenon, <1>1, <1>3, DaStays
  <1>10. /\ finalized' = finalized /\ lastFinalized' = lastFinalized /\ stateOn' = stateOn
         /\ toFinalize' = << >>
    BY <1>1, <1>3 DEF daVars, managerVars
  <1>11. CASE /\ IsContinuation(b) /\ CreateStateFor(b) /\ pc' = "execute" /\ block' = b
              /\ UNCHANGED <<next, requested, searchVars>>
    <2>1. /\ blocksToParent' = blocksToParent \cup {b}
          /\ chainForks' = IF b \in blocksToParent THEN chainForks ELSE chainForks \cup {b}
          /\ snapshots' = snapshots /\ disk' = disk
          /\ UNCHANGED <<snapshots, managerVars, toFinalize>> /\ UNCHANGED <<finalized, disk>>
      BY <1>1, <1>10, <1>11 DEF CreateStateFor
    <2>2. /\ next' = next /\ requested' = requested /\ candidate' = candidate
          /\ thisHead' = thisHead
      BY <1>11 DEF searchVars
    <2>3. DiskInv' /\ Base' = Base
      BY Zenon, <1>3, <2>1, DiskStays
    <2>4. NodeInv'
      BY Zenon, <1>1, <1>3, <1>6, <1>11, <2>2 DEF NodeInv
    <2>5. b \notin blocksToParent /\ Height(lastFinalized) < Height(b)
          /\ Parent(b) \in DOMAIN snapshots \cup {lastFinalized}
      <3>1. /\ Height(b) > Height(lastFinalized) /\ b \notin Seen
            /\ Parent(b) \in DOMAIN snapshots \cup {lastFinalized}
        BY Zenon, <1>3, <1>11 DEF IsContinuation
      <3>2. Height(lastFinalized) < Height(b)
        BY <1>3, <1>4, <1>6, <3>1
      <3> QED
        BY Zenon, <1>3, <1>8, <3>1, <3>2
    <2>6. chainForks' = blocksToParent'
      BY Zenon, <1>8, <2>1, <2>5
    <2>7. Pending' /\ Forest'
      BY Zenon, <1>3, <1>10, <2>1, <2>3, <2>6, TreesStay
    <2>8. Leads(lastFinalized, b)
      <3>1. b # Genesis
        BY <1>3, <1>6, <2>5, GenesisFacts
      <3>2. Parent(b) \in Block /\ Leads(Parent(b), b)
        BY Zenon, <1>6, <3>1, ParentFacts
      <3>3. Leads(lastFinalized, Parent(b))
        BY Zenon, <1>3, <2>5, TreeMember
      <3> QED
        BY Zenon, <1>3, <1>6, <3>2, <3>3, LeadsTrans
    <2>9. Continues(b, DOMAIN snapshots, lastFinalized)
      BY Zenon, <1>6, <1>8, <2>5, <2>8 DEF Continues
    <2>10. PlaceInv'
      BY Zenon, <1>8, <1>10, <1>11, <2>1, <2>9 DEF PlaceInv
    <2>11. pc' # "probe" /\ pc' \notin {"head", "probe"} /\ pc' # "down"
      BY <1>11
    <2>12. SearchInv'
      BY Zenon, <1>7, <2>2, <2>11 DEF SearchInv
    <2> QED
      BY Zenon, <1>1, <1>3, <1>9, <2>3, <2>4, <2>7, <2>10, <2>11, <2>12
      DEF IInv, UpInv, AssertionsHold
  <1>12. CASE FetchAt(Height(lastFinalized) + 1) /\ UNCHANGED storageVars
    <2>1. UNCHANGED <<daVars, cached, managerVars, toFinalize, failures, storageVars>>
      BY Zenon, <1>1, <1>12
    <2>2. Height(lastFinalized) + 1 \in Nat
      BY <1>3
    <2> QED
      BY Zenon, <1>1, <1>2, <1>3, <1>4, <1>12, <2>1, <2>2, FetchAgain
  <1>13. CASE /\ Seen # {} /\ pc' = "head" /\ block' = b
              /\ UNCHANGED <<next, requested, searchVars, storageVars>>
    <2>1. /\ UNCHANGED <<snapshots, managerVars, toFinalize>> /\ UNCHANGED <<finalized, disk>>
          /\ next' = next /\ requested' = requested /\ candidate' = candidate
          /\ thisHead' = thisHead /\ snapshots' = snapshots
          /\ blocksToParent' = blocksToParent /\ chainForks' = chainForks
      BY <1>1, <1>10, <1>13 DEF searchVars, storageVars
    <2>2. DiskInv' /\ Base' = Base
      BY Zenon, <1>3, <2>1, DiskStays
    <2>3. NodeInv'
      BY Zenon, <1>1, <1>3, <1>6, <1>13, <2>1 DEF NodeInv
    <2>4. Pending' /\ Forest'
      BY Zenon, <1>3, <1>8, <1>10, <2>1, <2>2, TreesStay
    <2>5. pc' # "probe" /\ pc' # "execute" /\ pc' # "down"
      BY <1>13
    <2>6. PlaceInv' /\ SearchInv'
      BY Zenon, <1>7, <1>8, <1>10, <1>13, <2>1, <2>5 DEF PlaceInv, SearchInv, Seen
    <2> QED
      BY Zenon, <1>1, <1>3, <1>9, <2>2, <2>3, <2>4, <2>5, <2>6 DEF IInv, UpInv, AssertionsHold
  <1> QED
    BY Zenon, <1>1, <1>11, <1>12, <1>13 DEF CheckContinuation

LEMMA EndSlotSafe == IInv /\ EndSlot => IInv'
  <1> SUFFICES ASSUME IInv, EndSlot PROVE IInv'
    OBVIOUS
  <1>1. /\ pc = "finalize" /\ toFinalize = << >> /\ target' = Max({target, next})
        /\ FetchAt(next + 1)
        /\ UNCHANGED <<daVars, cached, managerVars, toFinalize, failures, storageVars>>
    BY Zenon DEF EndSlot
  <1>2. pc # "down" /\ pc # "execute"
    BY <1>1
  <1>3. next \in Nat /\ target \in Nat
    BY Zenon DEF IInv, NodeInv
  <1>4. next + 1 \in Nat
    BY <1>3
  <1>5. target' \in Nat
    BY Zenon, <1>1, <1>3, MaxOfTwo
  <1> QED
    BY Zenon, <1>1, <1>2, <1>4, <1>5, FetchAgain

-----------------------------------------------------------------------------
(* The search for the fork point.                                          *)

\* The executed blocks are at the heights from the last finalized one to the highest.
LEMMA SeenHeights ==
    ASSUME lastFinalized \in Block, Tree(Seen, lastFinalized), Seen # {},
           seenOn = [h \in Heights |-> {b \in Seen : Height(b) = h}]
    PROVE  /\ HighestSeen \in Nat /\ Height(lastFinalized) < HighestSeen
           /\ EarliestSeen = Height(lastFinalized) + 1
           /\ \E b \in Seen : b \in seenOn[EarliestSeen]
           /\ \A b \in seenOn[EarliestSeen] : Parent(b) = lastFinalized
  <1> DEFINE H == {h \in Heights : seenOn[h] # {}}
             first == Height(lastFinalized) + 1
  <1>1. MaxHeight \in Nat /\ Height(lastFinalized) \in Nat /\ first \in Nat
    BY BoundsAssumption, HeightType
  <1>2. ASSUME NEW b \in Seen
        PROVE  /\ b \in Block /\ Height(b) \in Heights /\ Height(b) \in H
               /\ Height(lastFinalized) < Height(b) /\ b \in seenOn[Height(b)]
    <2>1. b \in Block /\ Height(b) <= MaxHeight /\ Height(lastFinalized) < Height(b)
      BY Zenon DEF Tree
    <2>2. Height(b) \in Nat
      BY Zenon, <2>1, HeightType
    <2>3. Height(b) \in Heights
      BY <1>1, <2>1, <2>2 DEF Heights
    <2>4. b \in seenOn[Height(b)]
      BY Zenon, <2>3
    <2> QED
      BY Zenon, <2>1, <2>3, <2>4
  <1>3. ASSUME NEW h \in H PROVE h \in Nat /\ h >= first /\ h \in 0..MaxHeight
    <2>1. PICK b \in Seen : Height(b) = h
      BY Zenon
    <2>2. h \in Heights /\ Height(lastFinalized) < h
      BY Zenon, <1>2, <2>1
    <2> QED
      BY <1>1, <2>2 DEF Heights
  <1>4. PICK c : c \in Seen
    BY Zenon
  <1>5. first \in H
    <2>1. /\ c \in Block /\ Height(lastFinalized) < Height(c) /\ Height(c) \in Nat
      BY Zenon, <1>2, <1>4, HeightType
    <2>2. first \in (Height(lastFinalized) + 1)..Height(c) /\ first \in 0..Height(c)
      BY <1>1, <2>1
    <2>3. At(c, first) \in Seen
      BY Zenon, <1>4, <2>2 DEF Tree
    <2>4. Height(At(c, first)) = first
      BY Zenon, <2>1, <2>2, AtType
    <2> HIDE DEF first, H
    <2> QED
      BY Zenon, <1>2, <2>3, <2>4
  <1>6. HighestSeen = Max(H) /\ EarliestSeen = Min(H)
    BY Zenon DEF HighestSeen, EarliestSeen
  <1>7. H \in SUBSET Nat /\ H \in SUBSET (0..MaxHeight) /\ H # {}
    <2> HIDE DEF H
    <2> QED
      BY Zenon, <1>3, <1>5
  <1>8. Max(H) \in H
    <2> HIDE DEF H
    <2> QED
      BY Zenon, <1>1, <1>7, MaxFacts
  <1>9. Min(H) \in H /\ \A y \in H : Min(H) <= y
    <2> HIDE DEF H
    <2> QED
      BY Zenon, <1>7, MinFacts
  <1>10. HighestSeen \in Nat /\ Height(lastFinalized) < HighestSeen
    <2>1. HighestSeen \in Nat /\ HighestSeen >= first
      <3> HIDE DEF H, first
      <3> QED
        BY Zenon, <1>3, <1>6, <1>8
    <2> QED
      BY <1>1, <2>1
  <1>11. EarliestSeen = first
    <2>1. EarliestSeen \in Nat /\ EarliestSeen >= first /\ EarliestSeen <= first
      <3> HIDE DEF H, first
      <3> QED
        BY Zenon, <1>3, <1>5, <1>6, <1>9
    <2> QED
      BY <1>1, <2>1
  <1>12. seenOn[first] # {} /\ first \in Heights
    BY Zenon, <1>5
  <1>13. seenOn[first] = {b \in Seen : Height(b) = first}
    BY Zenon, <1>12
  <1>14. \E b \in Seen : b \in seenOn[EarliestSeen]
    BY Zenon, <1>11, <1>12, <1>13
  <1>15. ASSUME NEW b \in seenOn[EarliestSeen] PROVE Parent(b) = lastFinalized
    <2>1. b \in Seen /\ Height(b) = first
      BY Zenon, <1>11, <1>13
    <2>2. b \in Block /\ Leads(lastFinalized, b) /\ Height(lastFinalized) < Height(b)
      BY Zenon, <2>1 DEF Tree
    <2>3. /\ Parent(b) \in Block /\ Height(Parent(b)) = Height(b) - 1
          /\ Leads(lastFinalized, Parent(b))
      BY Zenon, <2>2, LeadsParent
    <2>4. Height(lastFinalized) = Height(Parent(b))
      BY <1>1, <2>1, <2>3
    <2> QED
      BY Zenon, <2>3, <2>4, SameHeight
  <1> QED
    BY Zenon, <1>10, <1>11, <1>14, <1>15

\* An iteration of the search leaves everything but the search as it is.
LEMMA SearchGoesOn ==
    ASSUME IInv, pc \in {"head", "probe"}, pc' = "probe",
           UNCHANGED <<daVars, cached>>, UNCHANGED fetchVars, target' = target,
           UNCHANGED <<managerVars, toFinalize>>, UNCHANGED storageVars, failures' = failures,
           low' \in Nat, high' \in Nat, Height(lastFinalized) < low', low' <= high',
           high' <= HighestSeen + 1,
           thisHead' # NotRead => thisHead' \in Block,
           candidate' # NotRead => /\ candidate' \in Block /\ Height(candidate') = Middle'
                                   /\ Leads(lastFinalized, candidate')
    PROVE  IInv'
  <1>1. pc # "down" /\ pc # "finalize" /\ pc # "execute"
        /\ pc' # "down" /\ pc' # "finalize" /\ pc' # "execute"
    OBVIOUS
  <1>2. /\ DaInv /\ DiskInv /\ NodeInv /\ AssertionsHold
        /\ Pending /\ Forest /\ PlaceInv /\ SearchInv /\ toFinalize = << >>
        /\ Leads(lastFinalized, finalized)
    BY Zenon, <1>1, Running
  <1>3. /\ UNCHANGED <<finalized, disk>> /\ UNCHANGED <<snapshots, managerVars, toFinalize>>
        /\ lastFinalized' = lastFinalized /\ finalized' = finalized /\ snapshots' = snapshots
        /\ blocksToParent' = blocksToParent /\ chainForks' = chainForks /\ stateOn' = stateOn
        /\ seenOn' = seenOn /\ toFinalize' = toFinalize
        /\ next' = next /\ requested' = requested /\ block' = block
    BY DEF daVars, managerVars, storageVars, fetchVars
  <1>4. DaInv'
    BY Zenon, <1>2, DaStays
  <1>5. DiskInv' /\ Base' = Base
    BY Zenon, <1>2, <1>3, DiskStays
  <1>6. /\ blocksToParent = DOMAIN snapshots /\ chainForks = blocksToParent /\ Seen # {}
    BY Zenon, <1>1, <1>2 DEF PlaceInv, Forest, SearchInv
  <1>7. Pending' /\ Forest'
    BY Zenon, <1>2, <1>3, <1>5, <1>6, TreesStay
  <1>8. NodeInv'
    BY Zenon, <1>2, <1>3 DEF NodeInv
  <1>9. PlaceInv'
    BY Zenon, <1>1, <1>2, <1>3, <1>6 DEF PlaceInv
  <1>10. HighestSeen' = HighestSeen /\ Seen' = Seen
    BY Zenon, <1>3 DEF HighestSeen, Seen
  <1>11. SearchInv'
    BY Zenon, <1>3, <1>6, <1>10 DEF SearchInv
  <1> QED
    BY Zenon, <1>1, <1>2, <1>4, <1>5, <1>7, <1>8, <1>9, <1>11 DEF IInv, UpInv, AssertionsHold

\* While the fork point is searched there are executed blocks.
LEMMA SearchFacts ==
    ASSUME IInv, pc \in {"head", "probe"}
    PROVE  /\ pc # "down" /\ pc # "finalize" /\ pc # "execute" /\ toFinalize = << >>
           /\ DaInv /\ NodeInv /\ Forest /\ SearchInv
           /\ lastFinalized \in Block /\ head \in Block /\ Leads(lastFinalized, head)
           /\ Height(lastFinalized) \in Nat /\ Height(head) \in Nat
           /\ HighestSeen \in Nat /\ Height(lastFinalized) < HighestSeen
           /\ EarliestSeen = Height(lastFinalized) + 1
           /\ \E b \in Seen : b \in seenOn[EarliestSeen]
           /\ \A b \in seenOn[EarliestSeen] : Parent(b) = lastFinalized
  <1>1. pc # "down" /\ pc # "finalize" /\ pc # "execute"
    OBVIOUS
  <1>2. /\ DaInv /\ NodeInv /\ Forest /\ SearchInv /\ toFinalize = << >>
        /\ lastFinalized \in Block /\ head \in Block /\ Leads(lastFinalized, head)
        /\ Height(lastFinalized) \in Nat /\ Height(head) \in Nat
        /\ Tree(Seen, lastFinalized)
    BY Zenon, <1>1, Running
  <1>3. Seen # {} /\ seenOn = [h \in Heights |-> {b \in Seen : Height(b) = h}]
    BY Zenon, <1>2 DEF SearchInv, Forest
  <1> QED
    BY Zenon, <1>1, <1>2, <1>3, SeenHeights

\* try_find_candidate_in_current_chain starts with a range that is not empty.
LEMMA ReadHeadSafe == IInv /\ ReadHead => IInv'
  <1> SUFFICES ASSUME IInv, ReadHead PROVE IInv'
    OBVIOUS
  <1> DEFINE l == Height(lastFinalized) + 1
             m == Min({HighestSeen, Height(head)})
             h == m + 1
  <1>1. pc = "head" /\ UNCHANGED daVars
    BY Zenon DEF ReadHead
  <1>2. /\ pc \in {"head", "probe"} /\ pc # "probe"
    BY <1>1
  <1>3. /\ pc # "down" /\ pc # "execute" /\ toFinalize = << >>
        /\ DaInv /\ NodeInv /\ Forest /\ SearchInv
        /\ Height(lastFinalized) \in Nat /\ Height(head) \in Nat
        /\ HighestSeen \in Nat /\ Height(lastFinalized) < HighestSeen
    BY Zenon, <1>2, SearchFacts
  <1>4. CASE /\ FetchAt(Height(lastFinalized) + 1)
             /\ UNCHANGED <<syncHeight, target, cached, managerVars, toFinalize, reported,
                            failures, storageVars>>
    <2>1. UNCHANGED <<daVars, cached, managerVars, toFinalize, failures, storageVars>>
          /\ target' = target
      BY Zenon, <1>1, <1>4
    <2>2. Height(lastFinalized) + 1 \in Nat /\ target \in Nat
      BY <1>3 DEF NodeInv
    <2> QED
      BY Zenon, <1>3, <1>4, <2>1, <2>2, FetchAgain
  <1>5. CASE ~(Height(head) <= Height(lastFinalized))
    <2>1. /\ m \in {HighestSeen, Height(head)} /\ m <= HighestSeen
      BY Zenon, <1>3, MinOfTwo
    <2> HIDE DEF m
    <2>2. /\ m \in Nat /\ Height(lastFinalized) < m
      BY <1>3, <1>5, <2>1
    <2>3. /\ ~(l >= h) /\ l \in Nat /\ h \in Nat /\ Height(lastFinalized) < l /\ l <= h
          /\ h <= HighestSeen + 1
      BY <1>3, <2>1, <2>2
    <2>4. /\ pc' = "probe" /\ low' = l /\ high' = h
          /\ UNCHANGED <<fetchVars, candidate, thisHead, syncHeight, target, cached,
                         managerVars, toFinalize, reported, failures, storageVars>>
      <3> HIDE DEF l
      <3> USE DEF m
      <3> QED
        BY Zenon, <1>5, <2>3 DEF ReadHead, l
    <2>5. /\ UNCHANGED <<daVars, cached>> /\ UNCHANGED fetchVars /\ target' = target
          /\ UNCHANGED <<managerVars, toFinalize>> /\ UNCHANGED storageVars /\ failures' = failures
          /\ candidate' = candidate /\ thisHead' = thisHead
      BY Zenon, <1>1, <2>4
    <2>6. candidate = NotRead /\ thisHead = NotRead
      BY Zenon, <1>2, <1>3 DEF SearchInv
    <2> HIDE DEF l, h
    <2> QED
      BY Zenon, <1>2, <2>3, <2>4, <2>5, <2>6, SearchGoesOn
  <1> QED
    BY Zenon, <1>4, <1>5 DEF ReadHead

\* The header is on the best fork when it is read, so it follows the last finalized block.
LEMMA ProbeHeaderSafe == IInv /\ ProbeHeader => IInv'
  <1> SUFFICES ASSUME IInv, ProbeHeader PROVE IInv'
    OBVIOUS
  <1>1. /\ pc = "probe" /\ pc' = pc /\ Middle <= Height(head) /\ candidate' = At(head, Middle)
        /\ UNCHANGED <<daVars, cached>> /\ UNCHANGED fetchVars /\ target' = target
        /\ UNCHANGED <<managerVars, toFinalize>> /\ UNCHANGED storageVars /\ failures' = failures
        /\ low' = low /\ high' = high /\ thisHead' = thisHead
    BY Zenon DEF ProbeHeader
  <1>2. pc \in {"head", "probe"} /\ pc' = "probe"
    BY <1>1
  <1>3. /\ NodeInv /\ SearchInv /\ lastFinalized \in Block /\ head \in Block
        /\ Leads(lastFinalized, head) /\ Height(lastFinalized) \in Nat /\ Height(head) \in Nat
    BY Zenon, <1>2, SearchFacts
  <1>4. /\ low \in Nat /\ high \in Nat /\ Height(lastFinalized) < low /\ low <= high
        /\ high <= HighestSeen + 1
    BY Zenon, <1>1, <1>3 DEF SearchInv
  <1>5. Middle \in Nat /\ Height(lastFinalized) <= Middle
    BY <1>3, <1>4 DEF Middle
  <1>6. Middle \in 0..Height(head) /\ Middle' = Middle
    BY <1>1, <1>3, <1>5 DEF Middle
  <1>7. /\ candidate' \in Block /\ Height(candidate') = Middle /\ Leads(candidate', head)
    BY Zenon, <1>1, <1>3, <1>6, LeadsAt
  <1>8. Leads(lastFinalized, candidate')
    BY Zenon, <1>3, <1>5, <1>7, LeadsLinear
  <1>9. thisHead' # NotRead => thisHead' \in Block
    BY Zenon, <1>1, <1>3 DEF NodeInv
  <1> QED
    BY Zenon, <1>1, <1>2, <1>4, <1>6, <1>7, <1>8, <1>9, SearchGoesOn

LEMMA ProbeHeadSafe == IInv /\ ProbeHead => IInv'
  <1> SUFFICES ASSUME IInv, ProbeHead PROVE IInv'
    OBVIOUS
  <1>1. /\ pc = "probe" /\ pc' = pc /\ thisHead' = head
        /\ UNCHANGED <<daVars, cached>> /\ UNCHANGED fetchVars /\ target' = target
        /\ UNCHANGED <<managerVars, toFinalize>> /\ UNCHANGED storageVars /\ failures' = failures
        /\ low' = low /\ high' = high /\ candidate' = candidate
    BY Zenon DEF ProbeHead
  <1>2. pc \in {"head", "probe"} /\ pc' = "probe"
    BY <1>1
  <1>3. NodeInv /\ SearchInv /\ head \in Block
    BY Zenon, <1>2, SearchFacts
  <1>4. /\ low \in Nat /\ high \in Nat /\ Height(lastFinalized) < low /\ low <= high
        /\ high <= HighestSeen + 1
        /\ candidate # NotRead => Height(candidate) = Middle /\ Leads(lastFinalized, candidate)
        /\ candidate # NotRead => candidate \in Block
    BY Zenon, <1>1, <1>3 DEF SearchInv, NodeInv
  <1>5. Middle' = Middle
    BY Zenon, <1>1 DEF Middle
  <1> QED
    BY Zenon, <1>1, <1>2, <1>3, <1>4, <1>5, SearchGoesOn

\* binary_search_for_fork_point and handle_exhausted_search: whatever the answers were, the
\* range stays between the last finalized block and the highest executed one, and the
\* consistency checks at its end pass.
LEMMA DecideSafe == IInv /\ Decide => IInv'
  <1> SUFFICES ASSUME IInv, Decide PROVE IInv'
    OBVIOUS
  <1>1. pc = "probe" /\ candidate # NotRead /\ thisHead # NotRead /\ UNCHANGED daVars
    BY Zenon DEF Decide
  <1>2. pc \in {"head", "probe"}
    BY <1>1
  <1>3. /\ pc # "down" /\ pc # "execute" /\ toFinalize = << >>
        /\ NodeInv /\ SearchInv /\ lastFinalized \in Block
        /\ Height(lastFinalized) \in Nat
        /\ HighestSeen \in Nat /\ Height(lastFinalized) < HighestSeen
        /\ \E b \in Seen : b \in seenOn[EarliestSeen]
        /\ \A b \in seenOn[EarliestSeen] : Parent(b) = lastFinalized
    BY Zenon, <1>2, SearchFacts
  <1>4. /\ low \in Nat /\ high \in Nat /\ Height(lastFinalized) < low /\ low <= high
        /\ high <= HighestSeen + 1
        /\ Height(candidate) = Middle /\ Leads(lastFinalized, candidate)
        /\ candidate \in Block /\ thisHead \in Block /\ block \in Block /\ target \in Nat
    BY Zenon, <1>1, <1>3 DEF SearchInv, NodeInv
  <1>5. Height(candidate) \in Nat /\ Height(thisHead) \in Nat /\ Height(block) \in Nat
    BY Zenon, <1>4, HeightType
  <1>6. Middle \in Nat /\ low <= Middle /\ Middle <= high
    BY <1>4 DEF Middle
  <1>7. ASSUME NEW n \in Nat, FetchAt(n),
               UNCHANGED <<syncHeight, target, cached, managerVars, toFinalize, reported,
                           failures, storageVars>>
        PROVE  IInv'
    <2>1. UNCHANGED <<daVars, cached, managerVars, toFinalize, failures, storageVars>>
          /\ target' = target
      BY Zenon, <1>1, <1>7
    <2> QED
      BY Zenon, <1>3, <1>4, <1>7, <2>1, FetchAgain
  <1>8. CASE HeadChanged \/ IsForkPoint(candidate)
    <2> DEFINE n == IF ~HeadChanged THEN Height(candidate)
                    ELSE IF Height(thisHead) < Height(block) THEN Height(thisHead) + 1
                    ELSE Height(block)
    <2>1. /\ FetchAt(n)
          /\ UNCHANGED <<syncHeight, target, cached, managerVars, toFinalize, reported,
                         failures, storageVars>>
      BY Zenon, <1>8 DEF Decide
    <2>2. n \in Nat
      BY <1>5
    <2> HIDE DEF n
    <2> QED
      BY Zenon, <1>7, <2>1, <2>2
  <1>9. CASE ~(HeadChanged \/ IsForkPoint(candidate))
    <2> DEFINE l == IF candidate \in Seen THEN Middle + 1 ELSE low
               h == IF candidate \in Seen THEN high ELSE Middle - 1
    <2>1. IF l > h
          THEN Exhausted(l, h)
          ELSE /\ low' = l /\ high' = h /\ searchHead' = thisHead
               /\ candidate' = NotRead /\ thisHead' = NotRead
               /\ UNCHANGED <<pc, fetchVars, syncHeight, target, cached, managerVars,
                              toFinalize, reported, failures, storageVars>>
      BY Zenon, <1>9 DEF Decide
    <2>2. l \in Nat /\ h \in Int /\ Height(lastFinalized) < l /\ h <= HighestSeen + 1
      BY <1>3, <1>4, <1>6
    <2>3. CASE l > h
      <3> DEFINE earliest == Height(lastFinalized) + 1
                 anySeen == CHOOSE b \in seenOn[EarliestSeen] : TRUE
      <3>1. ~(h > HighestSeen + 1) /\ ~(l < earliest)
        BY <1>3, <2>2
      <3>2. ASSUME l = earliest
            PROVE  Height(candidate) = earliest /\ Parent(anySeen) = Parent(candidate)
        <4>1. candidate \notin Seen
          BY <1>3, <1>4, <1>6, <3>2
        <4>2. l = low /\ h = Middle - 1
          BY Zenon, <4>1
        <4>3. Height(candidate) = earliest
          <5> HIDE DEF l, h
          <5>1. Middle = low
            BY <1>4, <1>6, <2>3, <4>2
          <5> QED
            BY Zenon, <1>4, <3>2, <4>2, <5>1
        <4>4. anySeen \in seenOn[EarliestSeen]
          BY Zenon, <1>3
        <4>5. Parent(anySeen) = lastFinalized
          BY Zenon, <1>3, <4>4
        <4>6. Height(lastFinalized) < Height(candidate)
          BY <1>3, <4>3
        <4>7. Parent(candidate) \in Block /\ Height(Parent(candidate)) = Height(candidate) - 1
              /\ Leads(lastFinalized, Parent(candidate))
          BY Zenon, <1>3, <1>4, <4>6, LeadsParent
        <4>8. Height(lastFinalized) = Height(Parent(candidate))
          BY <1>3, <4>3, <4>7
        <4> HIDE DEF anySeen
        <4> QED
          BY Zenon, <1>3, <4>3, <4>5, <4>7, <4>8, SameHeight
      <3>3. FetchAt(l) /\ UNCHANGED <<syncHeight, target, cached, managerVars, toFinalize,
                                      reported, failures, storageVars>>
        <4>1. Exhausted(l, h)
          BY Zenon, <2>1, <2>3
        <4> HIDE DEF l, h
        <4> QED
          BY Zenon, <3>1, <3>2, <4>1 DEF Exhausted
      <3> HIDE DEF l
      <3> QED
        BY Zenon, <1>7, <2>2, <3>3
    <2>4. CASE ~(l > h)
      <3>1. /\ low' = l /\ high' = h /\ candidate' = NotRead /\ thisHead' = NotRead
            /\ UNCHANGED <<pc, fetchVars, syncHeight, target, cached, managerVars,
                           toFinalize, reported, failures, storageVars>>
        <4> HIDE DEF l, h
        <4> QED
          BY Zenon, <2>1, <2>4
      <3> HIDE DEF l, h
      <3>2. h \in Nat /\ l <= h
        BY <2>2, <2>4
      <3>3. /\ UNCHANGED <<daVars, cached>> /\ UNCHANGED fetchVars /\ target' = target
            /\ UNCHANGED <<managerVars, toFinalize>> /\ UNCHANGED storageVars
            /\ failures' = failures /\ pc' = "probe"
        BY Zenon, <1>1, <3>1
      <3> QED
        BY Zenon, <1>2, <2>2, <3>1, <3>2, <3>3, SearchGoesOn
    <2> QED
      BY Zenon, <2>3, <2>4
  <1> QED
    BY Zenon, <1>8, <1>9

-----------------------------------------------------------------------------
(* Finalizing a transition.                                                 *)

\* The blocks on the root of a tree.
LEMMA FirstAbove ==
    ASSUME NEW root \in Block, NEW T, Tree(T, root), NEW c \in T
    PROVE  Parent(c) = root <=> Height(c) = Height(root) + 1
  <1>1. /\ c \in Block /\ Leads(root, c) /\ Height(root) < Height(c)
        /\ Height(root) \in Nat /\ Height(c) \in Nat
    BY Zenon, HeightType DEF Tree
  <1>2. /\ Parent(c) \in Block /\ Height(Parent(c)) = Height(c) - 1 /\ Leads(root, Parent(c))
    BY Zenon, <1>1, LeadsParent
  <1>3. ASSUME Parent(c) = root PROVE Height(c) = Height(root) + 1
    <2>1. Height(root) = Height(c) - 1
      BY Zenon, <1>2, <1>3
    <2> QED
      BY <1>1, <2>1
  <1>4. ASSUME Height(c) = Height(root) + 1 PROVE Parent(c) = root
    <2>1. Height(root) = Height(Parent(c))
      BY <1>1, <1>2, <1>4
    <2> QED
      BY Zenon, <1>2, <2>1, SameHeight
  <1> QED
    BY Zenon, <1>3, <1>4

\* With the first block above the disk go its siblings and all that follows them: what
\* is left is what follows that block.
LEMMA LosersGo ==
    ASSUME NEW root \in Block, Tree(chainForks, root), NEW b \in chainForks,
           Height(b) = Height(root) + 1
    PROVE  chainForks \ ({b} \cup Discarded({b})) = Above(chainForks, b)
  <1> DEFINE T == chainForks
             siblings == {c \in T : \E k \in {b} : c # k /\ Parent(c) = Parent(k)}
  <1>1. Discarded({b}) = {c \in T : \E s \in siblings : Leads(s, c)}
    BY Zenon DEF Discarded
  <1>2. b \in Block /\ Parent(b) = root /\ Height(root) \in Nat
    BY Zenon, FirstAbove, TreeMember, HeightType
  <1>3. siblings = {c \in T : c # b /\ Parent(c) = root}
    BY Zenon, <1>2
  <1> HIDE DEF siblings
  <1>4. ASSUME NEW c \in Above(T, b) PROVE c \notin {b} \cup Discarded({b})
    <2>1. c \in T /\ Height(b) < Height(c) /\ Leads(b, c) /\ c \in Block
      BY Zenon, TreeMember DEF Above
    <2>2. c # b
      BY Zenon, <1>2, <2>1, LeadsStrictly
    <2>3. ASSUME NEW s \in siblings, Leads(s, c) PROVE FALSE
      <3>1. s \in T /\ s # b /\ Parent(s) = root
        BY Zenon, <1>3
      <3>2. Height(s) = Height(b)
        BY Zenon, <3>1, FirstAbove
      <3> QED
        BY Zenon, <2>1, <2>3, <3>1, <3>2 DEF Leads
    <2> QED
      BY Zenon, <1>1, <2>2, <2>3
  <1>5. ASSUME NEW c \in T, c # b, c \notin Discarded({b}) PROVE c \in Above(T, b)
    <2>1. c \in Block /\ Height(root) < Height(c) /\ Height(c) \in Nat
      BY Zenon, TreeMember, HeightType
    <2>2. Height(b) \in (Height(root) + 1)..Height(c) /\ Height(b) \in 0..Height(c)
      BY <1>2, <2>1
    <2>3. At(c, Height(b)) \in T
      BY Zenon, <2>2 DEF Tree
    <2>4. Height(At(c, Height(b))) = Height(b) /\ Leads(At(c, Height(b)), c)
      BY Zenon, <2>1, <2>2, LeadsAt
    <2>5. Parent(At(c, Height(b))) = root
      BY Zenon, <2>3, <2>4, FirstAbove
    <2>6. At(c, Height(b)) = b
      BY Zenon, <1>1, <1>3, <1>5, <2>3, <2>4, <2>5
    <2>7. Leads(b, c)
      BY Zenon, <2>4, <2>6
    <2>8. Height(b) < Height(c)
      BY Zenon, <1>2, <1>5, <2>1, <2>7, LeadsStrictly
    <2> QED
      BY Zenon, <2>7, <2>8 DEF Above
  <1>6. Above(T, b) \subseteq T
    BY Zenon DEF Above
  <1> QED
    BY Zenon, <1>4, <1>5, <1>6

LEMMA RangeOfOne == ASSUME NEW b PROVE Range(<<b>>) = {b}
  BY DEF Range

\* The next transition is on disk: the first block above what is there.
LEMMA NextTransition ==
    ASSUME IInv, pc = "finalize", toFinalize # << >>
    PROVE  LET b == Head(toFinalize)
           IN  /\ b = At(lastFinalized, Height(Base) + 1) /\ b \in DOMAIN snapshots
               /\ b \in Block /\ Height(b) = Height(Base) + 1 /\ Parent(b) = Base
               /\ Leads(b, lastFinalized) /\ Leads(b, finalized)
               /\ Height(lastFinalized) \in Nat /\ Height(Base) \in Nat
               /\ Height(Base) < Height(lastFinalized)
  <1> DEFINE b == Head(toFinalize)
  <1>1. pc # "down"
    OBVIOUS
  <1>2. DaInv /\ DiskInv /\ Pending /\ Forest
    BY Zenon, <1>1 DEF IInv, UpInv
  <1>3. /\ lastFinalized \in Block /\ Leads(lastFinalized, finalized) /\ finalized \in Block
        /\ Base \in Block /\ Height(Base) \in Nat /\ Tree(DOMAIN snapshots, Base)
    BY Zenon, <1>2, BaseFacts DEF Pending, Forest, DaInv
  <1>4. /\ toFinalize \in Seq(Block) /\ Len(toFinalize) = Height(lastFinalized) - Height(Base)
        /\ Height(lastFinalized) \in Nat
    BY Zenon, <1>2, <1>3, HeightType DEF Pending
  <1>5. /\ 1 \in 1..Len(toFinalize) /\ b = toFinalize[1] /\ Height(Base) < Height(lastFinalized)
        /\ Height(Base) + 1 \in 0..Height(lastFinalized)
    BY <1>3, <1>4
  <1>6. b = At(lastFinalized, Height(Base) + 1) /\ b \in DOMAIN snapshots
    BY Zenon, <1>2, <1>5 DEF Pending
  <1> HIDE DEF b
  <1>7. b \in Block /\ Height(b) = Height(Base) + 1 /\ Leads(b, lastFinalized)
    BY Zenon, <1>3, <1>5, <1>6, LeadsAt
  <1>8. Leads(b, finalized)
    BY Zenon, <1>3, <1>7, LeadsTrans
  <1>9. Parent(b) = Base
    BY Zenon, <1>3, <1>6, <1>7, FirstAbove
  <1> QED
    BY Zenon, <1>3, <1>4, <1>5, <1>6, <1>7, <1>8, <1>9 DEF b

\* What the storage manager makes of it.
LEMMA FinalizeEffect ==
    ASSUME IInv, FinalizeTransition
    PROVE  LET b == Head(toFinalize)
           IN  /\ disk' = PathTo(b) /\ disk' = Append(disk, b)
               /\ (DOMAIN snapshots)' = Above(DOMAIN snapshots, b)
               /\ blocksToParent' = Above(DOMAIN snapshots, b)
               /\ chainForks' = Above(DOMAIN snapshots, b)
               /\ toFinalize' = Tail(toFinalize)
               /\ UNCHANGED <<pc, fetchVars, syncHeight, target, cached, managerVars, searchVars,
                              reported, failures>>
  <1> DEFINE b == Head(toFinalize)
  <1>1. pc = "finalize" /\ toFinalize # << >> /\ pc # "execute" /\ pc # "down"
    BY Zenon DEF FinalizeTransition
  <1>2. /\ b \in DOMAIN snapshots /\ b \in Block /\ Height(b) = Height(Base) + 1 /\ Parent(b) = Base
    BY Zenon, <1>1, NextTransition
  <1> HIDE DEF b
  <1>3. DaInv /\ DiskInv /\ Forest /\ PlaceInv
    BY Zenon, <1>1 DEF IInv, UpInv
  <1>4. /\ blocksToParent = DOMAIN snapshots /\ chainForks = DOMAIN snapshots
        /\ Tree(DOMAIN snapshots, Base) /\ Base \in Block /\ disk = PathTo(Base)
    BY Zenon, <1>1, <1>3, BaseFacts DEF Forest, PlaceInv
  <1>5. /\ Finalize(b) /\ toFinalize' = Tail(toFinalize)
        /\ UNCHANGED <<pc, fetchVars, syncHeight, target, cached, managerVars, searchVars,
                       reported, failures>>
    BY Zenon, <1>2 DEF FinalizeTransition, CanFinalize, b
  <1>6. Segments(b) = <<b>>
    BY Zenon, <1>2, <1>4, SegmentsOfFirst
  <1>7. Range(Segments(b)) = {b}
    BY Zenon, <1>6, RangeOfOne
  <1> DEFINE gone == {b} \cup Discarded({b})
  <1>8. /\ disk' = disk \o <<b>>
        /\ snapshots' = [c \in DOMAIN snapshots \ gone |-> snapshots[c]]
        /\ blocksToParent' = blocksToParent \ gone
        /\ chainForks' = chainForks \ gone
    BY Zenon, <1>5, <1>6, <1>7 DEF Finalize
  <1>9. DOMAIN snapshots \ gone = Above(DOMAIN snapshots, b)
    BY Zenon, <1>2, <1>4, LosersGo
  <1> HIDE DEF gone
  <1>10. /\ (DOMAIN snapshots)' = Above(DOMAIN snapshots, b)
         /\ blocksToParent' = Above(DOMAIN snapshots, b)
         /\ chainForks' = Above(DOMAIN snapshots, b)
    BY Zenon, <1>4, <1>8, <1>9
  <1>11. disk' = Append(disk, b)
    <2>1. disk \in Seq(Block)
      BY Zenon, <1>4, PathFacts
    <2> QED
      BY <1>2, <1>8, <2>1
  <1>12. b # Genesis
    <2>1. Height(b) # 0
      BY Zenon, <1>2, <1>4, HeightType, SMT
    <2> QED
      BY Zenon, <2>1, GenesisFacts
  <1>13. disk' = PathTo(b)
    BY Zenon, <1>2, <1>4, <1>11, <1>12, PathAppend
  <1> QED
    BY Zenon, <1>5, <1>10, <1>11, <1>13 DEF b

\* finalize never meets a block without a change set.
LEMMA FinalizeTransitionSafe == IInv /\ FinalizeTransition => IInv'
  <1> SUFFICES ASSUME IInv, FinalizeTransition PROVE IInv'
    OBVIOUS
  <1> DEFINE b == Head(toFinalize)
             T == DOMAIN snapshots
  <1>1. /\ pc = "finalize" /\ toFinalize # << >> /\ UNCHANGED daVars
        /\ pc # "execute" /\ pc # "down" /\ pc # "probe" /\ pc \notin {"head", "probe"}
    BY DEF FinalizeTransition
  <1>2. /\ b \in T /\ b \in Block /\ Height(b) = Height(Base) + 1
        /\ Leads(b, lastFinalized) /\ Leads(b, finalized)
        /\ Height(lastFinalized) \in Nat /\ Height(Base) \in Nat
        /\ Height(Base) < Height(lastFinalized)
    BY Zenon, <1>1, NextTransition
  <1>3. /\ disk' = PathTo(b) /\ (DOMAIN snapshots)' = Above(T, b)
        /\ blocksToParent' = Above(T, b) /\ chainForks' = Above(T, b)
        /\ toFinalize' = Tail(toFinalize)
        /\ UNCHANGED <<pc, fetchVars, syncHeight, target, cached, managerVars, searchVars,
                       reported, failures>>
    BY Zenon, FinalizeEffect
  <1> HIDE DEF b
  <1>4. /\ DaInv /\ DiskInv /\ NodeInv /\ AssertionsHold
        /\ Pending /\ Forest /\ PlaceInv /\ SearchInv
    BY Zenon, <1>1 DEF IInv, UpInv
  <1>5. /\ UNCHANGED <<daVars, cached>> /\ pc' = pc /\ failures' = failures
        /\ finalized' = finalized /\ lastFinalized' = lastFinalized /\ stateOn' = stateOn
        /\ seenOn' = seenOn /\ lastRoot' = lastRoot
        /\ candidate' = candidate /\ thisHead' = thisHead
        /\ UNCHANGED <<next, requested, target, block, candidate, thisHead>>
    BY <1>1, <1>3 DEF daVars, managerVars, searchVars, fetchVars
  <1>6. DaInv'
    BY Zenon, <1>4, <1>5, DaStays
  <1>7. NodeInv'
    BY Zenon, <1>4, <1>5, NodeStays
  <1>8. finalized \in Block /\ lastFinalized \in Block /\ Base \in Block
        /\ Tree(T, Base) /\ Leads(lastFinalized, finalized)
    BY Zenon, <1>4, BaseFacts DEF DaInv, Pending, Forest
  <1>9. BaseOf(finalized, PathTo(b)) = b /\ Len(PathTo(b)) \in 1..(Height(finalized) + 1)
    BY Zenon, <1>2, <1>8, BaseIs
  <1>10. Base' = b
    BY Zenon, <1>3, <1>5, <1>9 DEF Base
  <1>11. DiskInv'
    BY Zenon, <1>3, <1>5, <1>9, <1>10 DEF DiskInv
  <1>12. Pending'
    <2> DEFINE rest == Tail(toFinalize)
    <2>1. /\ toFinalize \in Seq(Block) /\ Len(toFinalize) = Height(lastFinalized) - Height(Base)
          /\ \A i \in 1..Len(toFinalize) : /\ toFinalize[i] = At(lastFinalized, Height(Base) + i)
                                           /\ toFinalize[i] \in T
      BY Zenon, <1>4 DEF Pending
    <2>2. /\ rest \in Seq(Block) /\ Len(rest) = Len(toFinalize) - 1
          /\ \A i \in 1..Len(rest) : rest[i] = toFinalize[i + 1]
      BY <1>1, <2>1
    <2> HIDE DEF rest
    <2>3. Len(rest) = Height(lastFinalized) - Height(b)
      BY <1>2, <2>1, <2>2
    <2>4. ASSUME NEW i \in 1..Len(rest)
          PROVE  rest[i] = At(lastFinalized, Height(b) + i) /\ rest[i] \in Above(T, b)
      <3> DEFINE c == rest[i]
                 n == Height(b) + i
      <3>1. /\ i + 1 \in 1..Len(toFinalize) /\ Height(Base) + (i + 1) = n
            /\ n \in 0..Height(lastFinalized) /\ Height(b) < n /\ Height(b) <= n
        BY <1>2, <2>1, <2>2
      <3>2. c = toFinalize[i + 1]
        BY Zenon, <2>2
      <3> HIDE DEF n, c
      <3>3. c = At(lastFinalized, n) /\ c \in T
        BY Zenon, <2>1, <3>1, <3>2
      <3>4. c \in Block /\ Height(c) = n /\ Leads(c, lastFinalized)
        BY Zenon, <1>8, <3>1, <3>3, LeadsAt
      <3>5. Leads(b, c)
        BY Zenon, <1>2, <1>8, <3>1, <3>4, LeadsLinear
      <3>6. c \in Above(T, b)
        BY Zenon, <3>1, <3>3, <3>4, <3>5 DEF Above
      <3> QED
        BY Zenon, <3>3, <3>6 DEF c, n
    <2> QED
      BY Zenon, <1>2, <1>3, <1>5, <1>8, <1>10, <2>2, <2>3, <2>4 DEF Pending, rest
  <1>13. Forest'
    <2>1. Tree(Above(T, b), b)
      BY Zenon, <1>2, <1>8, TreeAbove
    <2>2. Above(Above(T, b), lastFinalized) = Above(T, lastFinalized)
      BY Zenon, <1>2, <1>8, AboveAbove
    <2>3. Seen' = Seen
      BY Zenon, <1>5 DEF Seen
    <2> HIDE DEF T
    <2>4. Seen = Above(T, lastFinalized)
      BY Zenon, <1>4 DEF Forest, T
    <2> QED
      BY Zenon, <1>3, <1>4, <1>5, <1>10, <2>1, <2>2, <2>3, <2>4 DEF Forest
  <1>14. PlaceInv'
    BY Zenon, <1>1, <1>3, <1>5 DEF PlaceInv
  <1>15. SearchInv'
    BY Zenon, <1>1, <1>4, <1>5 DEF SearchInv
  <1> QED
    BY Zenon, <1>1, <1>4, <1>5, <1>6, <1>7, <1>11, <1>12, <1>13, <1>14, <1>15
    DEF IInv, UpInv, AssertionsHold

-----------------------------------------------------------------------------
(* A crash and a restart.                                                   *)

LEMMA CrashSafe == IInv /\ Crash => IInv'
  <1> SUFFICES ASSUME IInv, Crash PROVE IInv'
    OBVIOUS
  <1>1. Stop /\ UNCHANGED daVars /\ failures' = failures
    BY Zenon DEF Crash
  <1>2. AssertionsHold'
    BY Zenon, <1>1 DEF IInv, AssertionsHold
  <1> QED
    BY Zenon, <1>1, <1>2, StopSafe

\* After a restart the DA block at the height of the disk is the last block on disk.
LEMMA RestartSafe == IInv /\ Restart => IInv'
  <1> SUFFICES ASSUME IInv, Restart PROVE IInv'
    OBVIOUS
  <1> DEFINE height == Len(disk) - 1
  <1>1. /\ pc = "down" /\ lastFinalized' = At(head, height)
        /\ next' = height + 1 /\ requested' = height + 1 /\ lastRoot' = disk
        /\ pc' = "fetch" /\ cached' = finalized /\ target' = Height(head)
        /\ UNCHANGED <<daVars, crashes, block, stateOn, seenOn, searchVars, toFinalize, failures>>
        /\ chainForks' = {} /\ blocksToParent' = {} /\ snapshots' = << >> /\ disk' = disk
    BY Zenon DEF Restart, OpenStorage
  <1>2. DaInv /\ DiskInv /\ NodeInv /\ AssertionsHold /\ DownInv
    BY Zenon, <1>1 DEF IInv
  <1>3. /\ head' = head /\ abandoned' = abandoned /\ finalized' = finalized /\ reorgs' = reorgs
        /\ block' = block /\ stateOn' = stateOn /\ seenOn' = seenOn /\ toFinalize' = toFinalize
        /\ failures' = failures /\ candidate' = candidate /\ thisHead' = thisHead
    BY <1>1 DEF daVars, searchVars
  <1>4. /\ Base \in Block /\ Leads(Base, finalized) /\ Leads(finalized, head)
        /\ Height(Base) = height /\ Height(Base) \in Nat
        /\ finalized \in Block /\ head \in Block /\ disk = PathTo(Base) /\ Leads(Base, head)
    BY Zenon, <1>2, BaseFacts
  <1>5. lastFinalized' = Base
    BY Zenon, <1>1, <1>4 DEF Leads
  <1>6. DaInv'
    <2>1. Leads(finalized, finalized)
      BY Zenon, <1>4, LeadsRefl
    <2> QED
      BY Zenon, <1>1, <1>2, <1>3, <1>4, <2>1 DEF DaInv
  <1>7. UNCHANGED <<finalized, disk>>
    BY Zenon, <1>1, <1>3
  <1>8. DiskInv' /\ Base' = Base
    BY Zenon, <1>2, <1>7, DiskStays
  <1>9. height + 1 \in Nat /\ Height(head) \in Nat
    BY Zenon, <1>4, HeightType, SMT
  <1>10. /\ toFinalize = << >> /\ Seen = {} /\ seenOn = [h \in Heights |-> {}]
         /\ candidate = NotRead /\ thisHead = NotRead
    BY Zenon, <1>2 DEF DownInv
  <1>11. NodeInv'
    BY Zenon, <1>1, <1>2, <1>3, <1>9 DEF NodeInv
  <1>12. (DOMAIN snapshots)' = {}
    BY <1>1
  <1>13. Pending'
    <2>1. Leads(Base, Base)
      BY Zenon, <1>4, LeadsRefl
    <2>2. << >> \in Seq(Block) /\ Len(<< >>) = 0 /\ 1..0 = {}
      OBVIOUS
    <2>3. Height(Base) - Height(Base) = 0
      BY <1>4
    <2> QED
      BY Zenon, <1>3, <1>4, <1>5, <1>8, <1>10, <2>1, <2>2, <2>3 DEF Pending
  <1>14. Forest'
    <2>1. Seen' = {}
      BY Zenon, <1>3, <1>10 DEF Seen
    <2>2. Tree({}, Base) /\ Above({}, Base) = {}
      BY Zenon DEF Tree, Above
    <2>3. seenOn' = [h \in Heights |-> {b \in Seen' : Height(b) = h}]
      BY Zenon, <1>3, <1>10, <2>1
    <2> QED
      BY Zenon, <1>1, <1>4, <1>5, <1>8, <1>12, <2>1, <2>2, <2>3 DEF Forest
  <1>15. pc' # "execute" /\ pc' # "probe" /\ pc' \notin {"head", "probe"} /\ pc' # "down"
    BY <1>1
  <1>16. PlaceInv' /\ SearchInv'
    BY Zenon, <1>1, <1>3, <1>10, <1>12, <1>15 DEF PlaceInv, SearchInv
  <1> QED
    BY Zenon, <1>2, <1>3, <1>6, <1>8, <1>11, <1>13, <1>14, <1>15, <1>16
    DEF IInv, UpInv, AssertionsHold

-----------------------------------------------------------------------------
(* Recording an executed block.                                             *)

\* While a block is executed.
LEMMA Executing ==
    ASSUME IInv, pc = "execute"
    PROVE  LET seen == Seen \cup {block}
           IN  /\ Continues(block, Seen, lastFinalized) /\ Tree(seen, lastFinalized)
               /\ block \in Block /\ block # Genesis /\ block \notin DOMAIN snapshots
               /\ Parent(block) \in Seen \cup {lastFinalized}
               /\ Seen = DOMAIN snapshots /\ blocksToParent = seen /\ chainForks = seen
  <1>1. pc # "down" /\ pc # "finalize"
    OBVIOUS
  <1>2. /\ Forest /\ PlaceInv /\ Seen = DOMAIN snapshots /\ Tree(Seen, lastFinalized)
        /\ lastFinalized \in Block /\ Height(lastFinalized) \in Nat
    BY Zenon, <1>1, Running
  <1>3. /\ Continues(block, Seen, lastFinalized)
        /\ blocksToParent = Seen \cup {block} /\ chainForks = Seen \cup {block}
    BY Zenon, <1>2 DEF PlaceInv, Forest
  <1>4. /\ block \in Block /\ block \notin Seen /\ Height(lastFinalized) < Height(block)
        /\ Parent(block) \in Seen \cup {lastFinalized} /\ Leads(lastFinalized, block)
    BY Zenon, <1>3 DEF Continues
  <1>5. block # Genesis
    BY Zenon, <1>2, <1>4, LeadsParent
  <1>6. Tree(Seen \cup {block}, lastFinalized)
    BY Zenon, <1>2, <1>3, TreeGrows
  <1> QED
    BY Zenon, <1>2, <1>3, <1>4, <1>5, <1>6

\* The state a block is executed on is the one recorded for its parent.
LEMMA StateOfParent ==
    ASSUME IInv, pc = "execute"
    PROVE  /\ PreStateRoot(block) = StateUpTo(Parent(block))
           /\ Append(StateUpTo(Parent(block)), block) = PathTo(block)
  <1>1. pc # "down" /\ pc # "finalize"
    OBVIOUS
  <1>2. /\ Forest /\ Seen = DOMAIN snapshots /\ Tree(Seen, lastFinalized)
        /\ lastFinalized \in Block /\ disk = PathTo(lastFinalized)
    BY Zenon, <1>1, Running
  <1>3. block \in Block /\ block # Genesis /\ Parent(block) \in Seen \cup {lastFinalized}
    BY Zenon, Executing
  <1>4. StateUpTo(Parent(block)) = PathTo(Parent(block))
    BY Zenon, <1>2, <1>3, StateUpToPath
  <1>5. PreStateRoot(block) = PathTo(Parent(block))
    BY Zenon, <1>2, <1>3 DEF PreStateRoot, Forest
  <1> QED
    BY Zenon, <1>3, <1>4, <1>5, PathAppend

\* The heights of the executed blocks.
LEMMA ExecutedHeights ==
    ASSUME IInv, pc = "execute"
    PROVE  LET heights == {Height(b) : b \in Seen \cup {block}}
           IN  Max(heights) \in Nat /\ Min(heights) = Height(lastFinalized) + 1
  <1> DEFINE seen == Seen \cup {block}
             heights == {Height(b) : b \in seen}
             first == Height(lastFinalized) + 1
  <1>1. pc # "down" /\ pc # "finalize"
    OBVIOUS
  <1>2. lastFinalized \in Block /\ Height(lastFinalized) \in Nat
    BY Zenon, <1>1, Running
  <1>3. Tree(seen, lastFinalized) /\ block \in seen
    BY Zenon, Executing
  <1>4. ASSUME NEW b \in seen
        PROVE  /\ b \in Block /\ Height(b) \in Nat /\ Height(b) >= first
               /\ Height(b) \in 0..MaxHeight /\ first \in 0..Height(b)
               /\ first \in (Height(lastFinalized) + 1)..Height(b)
    <2>1. b \in Block /\ Height(b) <= MaxHeight /\ Height(lastFinalized) < Height(b)
      BY Zenon, <1>3 DEF Tree
    <2>2. Height(b) \in Nat
      BY Zenon, <2>1, HeightType
    <2> QED
      BY <1>2, <2>1, <2>2, BoundsAssumption
  <1>5. first \in heights
    <2>1. At(block, first) \in seen
      BY Zenon, <1>3, <1>4 DEF Tree
    <2>2. Height(At(block, first)) = first
      BY Zenon, <1>3, <1>4, AtType
    <2> HIDE DEF seen, first
    <2> QED
      BY Zenon, <2>1, <2>2
  <1> HIDE DEF seen, first
  <1>6. \A n \in heights : n \in Nat /\ n >= first /\ n \in 0..MaxHeight
    BY Zenon, <1>4
  <1> HIDE DEF heights
  <1>7. heights \in SUBSET Nat /\ heights \in SUBSET (0..MaxHeight) /\ heights # {}
    BY Zenon, <1>5, <1>6
  <1>8. Max(heights) \in heights
    BY Zenon, <1>7, MaxFacts, BoundsAssumption
  <1>9. Min(heights) \in heights /\ Min(heights) <= first
    BY Zenon, <1>5, <1>7, MinFacts
  <1>10. Min(heights) \in Nat /\ Min(heights) >= first /\ first \in Nat /\ Max(heights) \in Nat
    BY Zenon, <1>5, <1>6, <1>8, <1>9
  <1>11. Min(heights) = first
    BY <1>9, <1>10
  <1> QED
    BY Zenon, <1>10, <1>11 DEF heights, seen, first

\* What is taken to be final is final.
LEMMA EffectiveIsFinal ==
    ASSUME IInv, pc = "execute", NEW highest \in Nat
    PROVE  Leads(EffectiveFinalized(highest), finalized)
  <1> DEFINE f == EffectiveFinalized(highest)
  <1>1. pc # "down" /\ pc # "finalize"
    OBVIOUS
  <1>2. /\ DaInv /\ head \in Block /\ finalized \in Block /\ Leads(finalized, head)
        /\ Leads(lastFinalized, finalized)
    BY Zenon, <1>1, Running
  <1>3. cached \in Block /\ Leads(cached, finalized)
    BY Zenon, <1>2 DEF DaInv
  <1>4. CASE Height(cached) > highest
    <2>1. f = At(head, highest)
      BY Zenon, <1>4 DEF EffectiveFinalized
    <2> HIDE DEF f
    <2>2. Height(cached) \in Nat /\ Height(finalized) \in Nat /\ Height(head) \in Nat
      BY Zenon, <1>2, <1>3, HeightType
    <2>3. Height(cached) <= Height(finalized) /\ Height(finalized) <= Height(head)
      BY Zenon, <1>2, <1>3 DEF Leads
    <2>4. highest \in 0..Height(head) /\ highest <= Height(finalized)
      BY <1>4, <2>2, <2>3
    <2>5. f \in Block /\ Height(f) = highest /\ Leads(f, head)
      BY Zenon, <1>2, <2>1, <2>4, LeadsAt
    <2>6. Leads(f, finalized)
      BY Zenon, <1>2, <2>4, <2>5, LeadsLinear
    <2> QED
      BY Zenon, <2>6 DEF f
  <1>5. CASE ~(Height(cached) > highest)
    BY Zenon, <1>2, <1>3, <1>5 DEF EffectiveFinalized
  <1> QED
    BY Zenon, <1>4, <1>5

\* The blocks between the last finalized one and a later one of the tree.
LEMMA TransitionsFacts ==
    ASSUME IInv, pc = "execute", NEW f \in Seen \cup {block} \cup {lastFinalized}
    PROVE  LET seen == Seen \cup {block}
               transitions == FinalizedTransitions(f)
           IN  /\ f \in Block /\ Leads(lastFinalized, f)
               /\ transitions \in Seq(Block)
               /\ Len(transitions) = Height(f) - Height(lastFinalized)
               /\ DOMAIN transitions = 1..Len(transitions)
               /\ \A i \in 1..Len(transitions) :
                     /\ transitions[i] = At(f, Height(lastFinalized) + i)
                     /\ transitions[i] \in seen
               /\ transitions # << >> => Parent(transitions[1]) = lastFinalized /\ f \in seen
               /\ transitions = << >> => f = lastFinalized
  <1> DEFINE seen == Seen \cup {block}
             transitions == FinalizedTransitions(f)
             n == Height(f) - Height(lastFinalized)
  <1>1. pc # "down" /\ pc # "finalize"
    OBVIOUS
  <1>2. lastFinalized \in Block /\ Height(lastFinalized) \in Nat
    BY Zenon, <1>1, Running
  <1>3. Tree(seen, lastFinalized)
    BY Zenon, Executing
  <1>4. /\ f \in Block /\ Leads(lastFinalized, f) /\ Height(lastFinalized) \in 0..Height(f)
        /\ \A m \in (Height(lastFinalized) + 1)..Height(f) : At(f, m) \in seen
        /\ Height(f) \in Nat
    BY Zenon, <1>2, <1>3, TreeMember, HeightType
  <1> HIDE DEF seen
  <1>5. n \in Nat
    BY <1>2, <1>4
  <1>6. ASSUME NEW i \in 1..n
        PROVE  /\ At(f, Height(lastFinalized) + i) \in Block
               /\ At(f, Height(lastFinalized) + i) \in seen
               /\ Height(At(f, Height(lastFinalized) + i)) = Height(lastFinalized) + i
    <2>1. /\ Height(lastFinalized) + i \in (Height(lastFinalized) + 1)..Height(f)
          /\ Height(lastFinalized) + i \in 0..Height(f)
      BY <1>2, <1>4
    <2> QED
      BY Zenon, <1>4, <2>1, AtType
  <1>7. transitions = [i \in 1..n |-> At(f, Height(lastFinalized) + i)]
    BY Zenon DEF FinalizedTransitions
  <1> HIDE DEF n, transitions
  <1>8. /\ transitions \in Seq(Block) /\ Len(transitions) = n /\ DOMAIN transitions = 1..n
    BY <1>5, <1>6, <1>7
  <1>9. \A i \in 1..n : transitions[i] = At(f, Height(lastFinalized) + i) /\ transitions[i] \in seen
    BY Zenon, <1>6, <1>7
  <1>10. ASSUME transitions # << >> PROVE Parent(transitions[1]) = lastFinalized /\ f \in seen
    <2>1. n # 0
      BY <1>8, <1>10
    <2>2. 1 \in 1..n
      BY <1>5, <2>1
    <2>3. transitions[1] \in seen /\ Height(transitions[1]) = Height(lastFinalized) + 1
      BY Zenon, <1>6, <1>9, <2>2
    <2>4. Height(f) # Height(lastFinalized)
      BY <1>2, <1>4, <2>1 DEF n
    <2> QED
      BY Zenon, <1>2, <1>3, <2>3, <2>4, FirstAbove DEF seen
  <1>11. ASSUME transitions = << >> PROVE f = lastFinalized
    <2>1. Height(lastFinalized) = Height(f)
      BY <1>2, <1>4, <1>8, <1>11 DEF n
    <2> QED
      BY Zenon, <1>2, <1>4, <2>1, SameHeight
  <1> QED
    BY Zenon, <1>4, <1>8, <1>9, <1>10, <1>11 DEF n, transitions, seen

\* process_stf_changes: none of its checks fails, except the one on the finalized header.
LEMMA ProcessStfChangesSafe == IInv /\ ProcessStfChanges => IInv'
  <1> SUFFICES ASSUME IInv, ProcessStfChanges PROVE IInv'
    OBVIOUS
  <1> DEFINE root == Append(StateUpTo(Parent(block)), block)
             seen == Seen \cup {block}
             highest == Max({Height(b) : b \in seen})
             f == EffectiveFinalized(highest)
             stay == Survivors(seen, f)
             roots == [b \in seen |-> IF b = block THEN root ELSE stateOn[b]]
             transitions == FinalizedTransitions(f)
             entry == IF transitions = << >> THEN NoEntry ELSE Height(f)
             sound == /\ Min({Height(b) : b \in seen}) = Height(lastFinalized) + 1
                      /\ \A i \in DOMAIN transitions : transitions[i] \in seen
                      /\ transitions # << >> => Parent(transitions[1]) = lastFinalized
                      /\ \A b \in stay : Parent(b) \in stay \cup {f}
                      /\ PreStateRoot(block) = StateUpTo(Parent(block))
                      /\ CanSave(block)
  <1>1. pc = "execute" /\ UNCHANGED daVars /\ pc # "down" /\ pc # "finalize"
    BY DEF ProcessStfChanges
  <1>2. /\ IF f \notin seen \cup {lastFinalized}
           THEN Fail("effective finalized header")
           ELSE IF ~sound
           THEN Fail("process")
           ELSE /\ stateOn' = [b \in stay |-> roots[b]]
                /\ seenOn' = [h \in Heights |-> {b \in stay : Height(b) = h}]
                /\ lastFinalized' = f
                /\ lastRoot' = IF transitions = << >> THEN lastRoot ELSE roots[f]
                /\ SaveChangeSet(block, entry)
                /\ toFinalize' = transitions
                /\ pc' = "finalize"
                /\ UNCHANGED <<fetchVars, syncHeight, target, cached, searchVars, failures>>
    BY Zenon DEF ProcessStfChanges
  <1>3. CASE f \notin seen \cup {lastFinalized}
    <2>1. Fail("effective finalized header")
      BY Zenon, <1>2, <1>3
    <2>2. failures' = failures \cup {"effective finalized header"} /\ Stop
      BY Zenon, <2>1 DEF Fail
    <2>3. AssertionsHold'
      BY Zenon, <2>2 DEF IInv, AssertionsHold
    <2> QED
      BY Zenon, <1>1, <2>2, <2>3, StopSafe
  <1>4. CASE f \in seen \cup {lastFinalized}
    <2>1. /\ DaInv /\ DiskInv /\ NodeInv /\ AssertionsHold
          /\ Pending /\ Forest /\ PlaceInv /\ SearchInv /\ Base = lastFinalized
          /\ lastFinalized \in Block /\ Height(lastFinalized) \in Nat
      BY Zenon, <1>1, Running
    <2>2. /\ Tree(seen, lastFinalized) /\ block \in Block /\ block # Genesis
          /\ block \notin DOMAIN snapshots /\ Seen = DOMAIN snapshots
          /\ blocksToParent = seen /\ chainForks = seen
      BY Zenon, <1>1, Executing
    <2>3. highest \in Nat /\ Min({Height(b) : b \in seen}) = Height(lastFinalized) + 1
      BY Zenon, <1>1, ExecutedHeights
    <2> HIDE DEF highest
    <2>4. Leads(f, finalized)
      BY Zenon, <1>1, <2>3, EffectiveIsFinal
    <2>5. PreStateRoot(block) = StateUpTo(Parent(block)) /\ root = PathTo(block)
      BY Zenon, <1>1, StateOfParent
    <2> HIDE DEF f, root
    <2>6. /\ f \in Block /\ Leads(lastFinalized, f)
          /\ transitions \in Seq(Block)
          /\ Len(transitions) = Height(f) - Height(lastFinalized)
          /\ DOMAIN transitions = 1..Len(transitions)
          /\ \A i \in 1..Len(transitions) : /\ transitions[i] = At(f, Height(lastFinalized) + i)
                                            /\ transitions[i] \in seen
          /\ transitions # << >> => Parent(transitions[1]) = lastFinalized /\ f \in seen
          /\ transitions = << >> => f = lastFinalized
      BY Zenon, <1>1, <1>4, TransitionsFacts
    <2> HIDE DEF transitions
    <2>7. stay = Above(seen, f)
      <3>1. \A b \in seen : b \in Block
        BY Zenon, <2>2 DEF Tree
      <3>2. \A b \in seen : f # b /\ Leads(f, b) <=> Height(f) < Height(b) /\ Leads(f, b)
        BY Zenon, <2>6, <3>1, LeadsStrictly
      <3> HIDE DEF seen
      <3> QED
        BY Zenon, <3>2 DEF Survivors, Above
    <2>8. Tree(stay, f)
      <3> HIDE DEF stay, seen
      <3>1. Tree(Above(seen, f), f)
        BY Zenon, <1>4, <2>1, <2>2, TreeAbove
      <3> QED
        BY Zenon, <2>7, <3>1
    <2>9. \A b \in stay : Parent(b) \in stay \cup {f}
      <3> HIDE DEF stay
      <3> QED
        BY Zenon, <2>6, <2>8, TreeParent
    <2>10. CanSave(block)
      BY Zenon, <2>2 DEF CanSave, Children
    <2>11. sound
      <3> HIDE DEF stay, seen
      <3> QED
        BY Zenon, <2>3, <2>5, <2>6, <2>9, <2>10
    <2> HIDE DEF sound
    <2>12. /\ stateOn' = [b \in stay |-> roots[b]]
           /\ seenOn' = [h \in Heights |-> {b \in stay : Height(b) = h}]
           /\ lastFinalized' = f
           /\ lastRoot' = IF transitions = << >> THEN lastRoot ELSE roots[f]
           /\ SaveChangeSet(block, entry)
           /\ toFinalize' = transitions
           /\ pc' = "finalize"
           /\ UNCHANGED <<fetchVars, syncHeight, target, cached, searchVars, failures>>
      BY Zenon, <1>2, <1>4, <2>11
    <2>13. /\ snapshots' = [c \in DOMAIN snapshots \cup {block} |->
                               IF c = block THEN entry ELSE snapshots[c]]
           /\ chainForks' = chainForks /\ blocksToParent' = blocksToParent /\ disk' = disk
      BY Zenon, <2>12 DEF SaveChangeSet
    <2>14. (DOMAIN snapshots)' = seen
      <3> HIDE DEF entry
      <3> QED
        BY Zenon, <2>2, <2>13
    <2>15. \A b \in seen : roots[b] = PathTo(b)
      BY Zenon, <2>1, <2>5 DEF Forest
    <2> HIDE DEF roots, entry
    <2>16. stay \subseteq seen
      BY Zenon, <2>7 DEF Above
    <2> HIDE DEF seen, stay
    <2>17. Seen' = stay /\ \A b \in stay : stateOn'[b] = PathTo(b)
      BY Zenon, <2>12, <2>15, <2>16 DEF Seen
    <2>18. lastRoot' = PathTo(f)
      BY Zenon, <2>1, <2>6, <2>12, <2>15 DEF Forest
    <2>19. /\ UNCHANGED <<daVars, cached>> /\ UNCHANGED <<finalized, disk>>
           /\ finalized' = finalized /\ failures' = failures
           /\ UNCHANGED <<next, requested, target, block, candidate, thisHead>>
           /\ candidate' = candidate /\ thisHead' = thisHead
      BY <1>1, <2>12, <2>13 DEF daVars, fetchVars, searchVars
    <2>20. DaInv'
      BY Zenon, <2>1, <2>19, DaStays
    <2>21. DiskInv' /\ Base' = lastFinalized
      BY Zenon, <2>1, <2>19, DiskStays
    <2>22. NodeInv'
      BY Zenon, <2>1, <2>19, NodeStays
    <2>23. Pending'
      BY Zenon, <2>4, <2>6, <2>12, <2>14, <2>19, <2>21 DEF Pending
    <2>24. Forest'
      BY Zenon, <2>2, <2>7, <2>12, <2>13, <2>14, <2>17, <2>18, <2>21 DEF Forest
    <2>25. pc' # "execute" /\ pc' # "probe" /\ pc' \notin {"head", "probe"} /\ pc' # "down"
           /\ pc # "probe"
      BY <1>1, <2>12
    <2>26. PlaceInv'
      BY Zenon, <2>2, <2>12, <2>13, <2>14, <2>25 DEF PlaceInv
    <2>27. SearchInv'
      BY Zenon, <2>1, <2>19, <2>25 DEF SearchInv
    <2> QED
      BY Zenon, <2>1, <2>19, <2>20, <2>21, <2>22, <2>23, <2>24, <2>25, <2>26, <2>27
      DEF IInv, UpInv, AssertionsHold
  <1> QED
    BY Zenon, <1>3, <1>4

-----------------------------------------------------------------------------
(* The invariant.                                                           *)

LEMMA InitInv == Init => IInv
  <1> SUFFICES ASSUME Init PROVE IInv
    OBVIOUS
  <1>1. /\ chainForks = {} /\ blocksToParent = {} /\ snapshots = << >> /\ disk = <<Genesis>>
        /\ head = Genesis /\ abandoned = {} /\ finalized = Genesis /\ reorgs = 0
        /\ pc = "fetch" /\ next = 1 /\ requested = 1 /\ block = Genesis
        /\ target = 0 /\ cached = Genesis
        /\ stateOn = << >> /\ seenOn = [h \in Heights |-> {}]
        /\ lastFinalized = Genesis /\ lastRoot = <<Genesis>>
        /\ candidate = NotRead /\ thisHead = NotRead /\ toFinalize = << >> /\ failures = {}
    BY Zenon DEF Init, InitStorage
  <1>2. Genesis \in Block /\ Height(Genesis) = 0 /\ Leads(Genesis, Genesis)
    BY Zenon, GenesisFacts, LeadsRefl
  <1>3. <<Genesis>> = PathTo(Genesis)
    <2>1. PathTo(Genesis) = [i \in 1..1 |-> At(Genesis, i - 1)]
      BY <1>2 DEF PathTo
    <2>2. At(Genesis, 0) = Genesis
      BY Zenon, <1>2, AtSelf
    <2> QED
      BY <2>1, <2>2
  <1>4. DaInv
    <2>1. 0 \in Nat /\ 0 <= MaxHeight
      BY BoundsAssumption
    <2> QED
      BY Zenon, <1>1, <1>2, <2>1 DEF DaInv
  <1>5. Base = Genesis /\ Len(disk) \in 1..(Height(finalized) + 1)
    BY Zenon, <1>1, <1>2, <1>3, BaseIs DEF Base
  <1>6. DiskInv
    BY Zenon, <1>1, <1>3, <1>5 DEF DiskInv
  <1>7. NodeInv
    <2>1. 0 \in Nat /\ 1 \in Nat
      OBVIOUS
    <2> QED
      BY Zenon, <1>1, <1>2, <2>1 DEF NodeInv
  <1>8. DOMAIN snapshots = {} /\ Seen = {}
    BY <1>1 DEF Seen
  <1>9. Pending
    <2>1. << >> \in Seq(Block) /\ Len(<< >>) = 0 - 0 /\ 1..Len(<< >>) = {}
      OBVIOUS
    <2> QED
      BY Zenon, <1>1, <1>2, <1>5, <2>1 DEF Pending
  <1>10. Forest
    <2>1. Tree({}, Base) /\ Above({}, lastFinalized) = {}
      BY Zenon DEF Tree, Above
    <2>2. seenOn = [h \in Heights |-> {b \in Seen : Height(b) = h}]
      BY Zenon, <1>1, <1>8
    <2> QED
      BY Zenon, <1>1, <1>3, <1>8, <2>1, <2>2 DEF Forest
  <1>11. pc # "execute" /\ pc # "probe" /\ pc \notin {"head", "probe"} /\ pc # "down"
    BY <1>1
  <1>12. PlaceInv /\ SearchInv
    BY Zenon, <1>1, <1>8, <1>11 DEF PlaceInv, SearchInv
  <1>13. AssertionsHold
    BY Zenon, <1>1 DEF AssertionsHold
  <1> QED
    BY Zenon, <1>4, <1>6, <1>7, <1>9, <1>10, <1>11, <1>12, <1>13 DEF IInv, UpInv

LEMMA StutterInv == IInv /\ UNCHANGED vars => IInv'
  <1> SUFFICES ASSUME IInv, UNCHANGED vars PROVE IInv'
    OBVIOUS
  <1>1. /\ UNCHANGED <<daVars, cached>> /\ UNCHANGED <<finalized, disk>>
        /\ UNCHANGED <<next, requested, target, block, candidate, thisHead>>
        /\ UNCHANGED <<pc, block, managerVars, searchVars, toFinalize, storageVars>>
        /\ failures' = failures /\ finalized' = finalized /\ lastFinalized' = lastFinalized
    BY DEF vars, daVars, nodeVars, fetchVars, managerVars, searchVars, storageVars
  <1>2. DaInv /\ DiskInv /\ NodeInv /\ AssertionsHold
    BY Zenon DEF IInv
  <1>3. DaInv' /\ DiskInv' /\ NodeInv' /\ Base' = Base
    BY Zenon, <1>1, <1>2, DaStays, DiskStays, NodeStays
  <1>4. Leads(lastFinalized, finalized) => Leads(lastFinalized, finalized)'
    BY Zenon, <1>1
  <1>5. /\ pc' # "down" => UpInv'
        /\ pc' = "down" => DownInv'
    BY Zenon, <1>1, <1>3, <1>4, UpStays
  <1> QED
    BY Zenon, <1>1, <1>2, <1>3, <1>5 DEF IInv, AssertionsHold

LEMMA NextInv == IInv /\ [Next]_vars => IInv'
  <1> SUFFICES ASSUME IInv, [Next]_vars PROVE IInv'
    OBVIOUS
  <1>1. CASE Da
    BY Zenon, <1>1, DaExtendSafe, DaReorgSafe, DaFinalizeSafe DEF Da
  <1>2. CASE PollFinalized \/ UpdateTarget \/ Crash
    BY Zenon, <1>2, PollFinalizedSafe, UpdateTargetSafe, CrashSafe
  <1>3. CASE Runner
    BY Zenon, <1>3, FetchBlockSafe, RollBackSafe, ReadHeadSafe, ProbeHeaderSafe, ProbeHeadSafe,
       DecideSafe, ProcessStfChangesSafe, FinalizeTransitionSafe, EndSlotSafe, RestartSafe
    DEF Runner
  <1>4. CASE UNCHANGED vars
    BY Zenon, <1>4, StutterInv
  <1> QED
    BY Zenon, <1>1, <1>2, <1>3, <1>4 DEF Next

LEMMA AlwaysInv == Spec => []IInv
  BY InitInv, NextInv, PTL DEF Spec

-----------------------------------------------------------------------------
(* Theorems                                                                 *)

LEMMA InvAgree == IInv => MapsAgree
  <1> SUFFICES ASSUME IInv, pc \in {"fetch", "head", "probe"}
               PROVE  /\ Seen = UNION {seenOn[h] : h \in Heights}
                      /\ Seen = DOMAIN snapshots /\ Seen = blocksToParent /\ Seen = chainForks
                      /\ \A b \in Seen : Parent(b) \in Seen \cup {lastFinalized}
                      /\ disk = lastRoot /\ disk[Len(disk)] = lastFinalized
    BY Zenon DEF MapsAgree
  <1>1. pc # "down" /\ pc # "finalize" /\ pc # "execute"
    OBVIOUS
  <1>2. /\ Forest /\ PlaceInv /\ Seen = DOMAIN snapshots /\ Tree(Seen, lastFinalized)
        /\ lastFinalized \in Block /\ disk = PathTo(lastFinalized)
    BY Zenon, <1>1, Running
  <1>3. Seen = blocksToParent /\ Seen = chainForks /\ disk = lastRoot
    BY Zenon, <1>1, <1>2 DEF Forest, PlaceInv
  <1>4. \A b \in Seen : Parent(b) \in Seen \cup {lastFinalized}
    BY Zenon, <1>2, TreeParent
  <1>5. disk[Len(disk)] = lastFinalized
    BY Zenon, <1>2, PathFacts
  <1>6. Seen = UNION {seenOn[h] : h \in Heights}
    <2>1. seenOn = [h \in Heights |-> {b \in Seen : Height(b) = h}]
      BY Zenon, <1>2 DEF Forest
    <2>2. \A h \in Heights : seenOn[h] = {b \in Seen : Height(b) = h}
      BY Zenon, <2>1
    <2>3. ASSUME NEW b \in Seen PROVE Height(b) \in Heights
      <3>1. /\ b \in Block /\ Height(b) <= MaxHeight /\ Height(lastFinalized) < Height(b)
            /\ Height(lastFinalized) \in Nat /\ Height(b) \in Nat
        BY Zenon, <1>2, HeightType DEF Tree
      <3> QED
        BY <3>1, BoundsAssumption DEF Heights
    <2> QED
      BY Zenon, <2>2, <2>3
  <1> QED
    BY Zenon, <1>2, <1>3, <1>4, <1>5, <1>6

\* MapsAgree: between two slots the maps of the state manager and those of the storage manager
\* describe one tree on the last finalized block, which is the last one on disk.
THEOREM MapsAlwaysAgree == Spec => []MapsAgree
  BY AlwaysInv, InvAgree, PTL

\* AssertionsHold: the assertions of process_stf_changes, of the search for the fork point and
\* of the storage manager never fail, for chains of any length and any number of forks and
\* crashes; only the effective finalized header may be one the node has not executed.
THEOREM AssertionsAlwaysHold == Spec => []AssertionsHold
  <1>1. IInv => AssertionsHold
    BY Zenon DEF IInv
  <1> QED
    BY <1>1, AlwaysInv, PTL

LEMMA InitChain == Init => Chain!Init
  BY Zenon DEF Init, InitStorage, Chain!Init, Genesis

\* A step of the node finalizes a block on the DA layer, commits the next one, or does neither.
LEMMA StepChain ==
    IInv /\ [Next]_vars => [Chain!DaFinalizes \/ Chain!Commit]_<<finalized, disk>>
  <1> SUFFICES ASSUME IInv, [Next]_vars
               PROVE  \/ Chain!DaFinalizes \/ Chain!Commit
                      \/ UNCHANGED <<finalized, disk>>
    BY Zenon
  <1>1. CASE DaFinalize
    <2>1. /\ finalized' = At(head, Height(finalized) + 1) /\ Height(finalized) < Height(head)
          /\ disk' = disk
      BY <1>1 DEF DaFinalize, storageVars
    <2>2. /\ head \in Block /\ finalized \in Block /\ Leads(finalized, head)
          /\ Height(finalized) \in Nat /\ Height(head) \in Nat
      BY Zenon, HeightType DEF IInv, DaInv
    <2>3. Height(finalized) + 1 \in 0..Height(head) /\ Height(finalized) <= Height(finalized) + 1
      BY <2>1, <2>2
    <2>4. /\ finalized' \in Block /\ Height(finalized') = Height(finalized) + 1
          /\ Leads(finalized', head)
      BY Zenon, <2>1, <2>2, <2>3, LeadsAt
    <2>5. Leads(finalized, finalized')
      BY Zenon, <2>2, <2>3, <2>4, LeadsLinear
    <2> QED
      BY Zenon, <2>1, <2>4, <2>5 DEF Chain!DaFinalizes, Leads, At, Height
  <1>2. CASE FinalizeTransition
    <2> DEFINE b == Head(toFinalize)
    <2>1. pc = "finalize" /\ toFinalize # << >> /\ finalized' = finalized
      BY <1>2 DEF FinalizeTransition, daVars
    <2>2. disk' = Append(disk, b)
      BY Zenon, <1>2, FinalizeEffect
    <2>3. b \in Block /\ Height(b) = Height(Base) + 1 /\ Leads(b, finalized)
      BY Zenon, <2>1, NextTransition
    <2> HIDE DEF b
    <2>4. Len(disk) = Height(Base) + 1
      BY Zenon, BaseFacts DEF IInv
    <2>5. Len(disk) <= Len(finalized) /\ b = SubSeq(finalized, 1, Len(disk))
      BY Zenon, <2>3, <2>4 DEF Leads, At, Height
    <2> QED
      BY Zenon, <2>1, <2>2, <2>5 DEF Chain!Commit
  <1>3. CASE UNCHANGED <<finalized, disk>>
    BY Zenon, <1>3
  <1>4. ASSUME ~DaFinalize, ~FinalizeTransition PROVE UNCHANGED <<finalized, disk>>
    <2>1. CASE DaExtend \/ DaReorg \/ PollFinalized \/ UpdateTarget \/ UNCHANGED vars
      BY <2>1 DEF DaExtend, DaReorg, PollFinalized, UpdateTarget, vars, daVars, storageVars
    <2>2. CASE FetchBlock
      BY <2>2 DEF FetchBlock, CheckContinuation, CreateStateFor, daVars, storageVars
    <2>3. CASE RollBack \/ ProbeHeader \/ ProbeHead \/ EndSlot
      BY <2>3 DEF RollBack, ProbeHeader, ProbeHead, EndSlot, daVars, storageVars
    <2>4. CASE ReadHead
      BY <2>4 DEF ReadHead, Fail, Stop, daVars, storageVars
    <2>5. CASE Decide
      BY <2>5 DEF Decide, Exhausted, Fail, Stop, daVars, storageVars
    <2>6. CASE ProcessStfChanges
      BY <2>6 DEF ProcessStfChanges, SaveChangeSet, Fail, Stop, daVars
    <2>7. CASE Crash \/ Restart
      BY <2>7 DEF Crash, Stop, Restart, OpenStorage, daVars
    <2> QED
      BY Zenon, <1>4, <2>1, <2>2, <2>3, <2>4, <2>5, <2>6, <2>7 DEF Next, Da, Runner
  <1> QED
    BY Zenon, <1>1, <1>2, <1>3, <1>4

\* ImplementsChain: the node refines FinalizedChain.  The disk gets the finalized blocks one at
\* a time, in order and each once, across forks, failed assertions, crashes and restarts.
THEOREM DiskIsFinalizedChain == Spec => ImplementsChain
  <1>1. Spec => Chain!Spec
    BY InitChain, StepChain, AlwaysInv, PTL DEF Spec, Chain!Spec
  <1> QED
    BY <1>1 DEF ImplementsChain

\* The state root kept for an executed block, on whatever fork, is the one of the blocks that
\* lead to it, each executed on the state of its parent (state_on_block).
THEOREM StatesAreExecutions ==
    Spec => [](pc # "down" => \A b \in Seen : stateOn[b] = PathTo(b))
  <1>1. IInv => (pc # "down" => \A b \in Seen : stateOn[b] = PathTo(b))
    BY Zenon DEF IInv, UpInv, Forest
  <1> QED
    BY <1>1, AlwaysInv, PTL

\* The disk holds the blocks of the DA chain up to a final one: nothing that may still be
\* re-organised away is ever written.
THEOREM DiskFollowsFinality == Spec => [](disk = PathTo(Base) /\ Leads(Base, finalized))
  <1>1. IInv => disk = PathTo(Base) /\ Leads(Base, finalized)
    BY Zenon, BaseFacts DEF IInv
  <1> QED
    BY <1>1, AlwaysInv, PTL

\* Only process_stf_changes moves the last finalized block.
LEMMA FinalityStep ==
    IInv /\ [Next]_vars =>
        [pc # "down" /\ pc' # "down" => Leads(lastFinalized, lastFinalized')]_vars
  <1> SUFFICES ASSUME IInv, [Next]_vars, pc # "down", pc' # "down"
               PROVE  Leads(lastFinalized, lastFinalized')
    BY Zenon
  <1>1. lastFinalized \in Block /\ Leads(lastFinalized, lastFinalized)
    BY Zenon, LeadsRefl DEF IInv, UpInv, Pending
  <1>2. CASE lastFinalized' = lastFinalized
    BY Zenon, <1>1, <1>2
  <1>3. CASE ProcessStfChanges
    <2> DEFINE seen == Seen \cup {block}
               f == EffectiveFinalized(Max({Height(b) : b \in seen}))
    <2>1. pc = "execute" /\ f \in seen \cup {lastFinalized} /\ lastFinalized' = f
      BY Zenon, <1>3 DEF ProcessStfChanges, Fail, Stop
    <2> HIDE DEF f
    <2> QED
      BY Zenon, <2>1, TransitionsFacts
  <1>4. ASSUME ~ProcessStfChanges PROVE lastFinalized' = lastFinalized
    <2>1. CASE DaExtend \/ DaReorg \/ DaFinalize \/ PollFinalized \/ UpdateTarget \/ UNCHANGED vars
      BY <2>1 DEF DaExtend, DaReorg, DaFinalize, PollFinalized, UpdateTarget, vars, nodeVars,
                  managerVars
    <2>2. CASE FetchBlock \/ RollBack \/ ProbeHeader \/ ProbeHead \/ EndSlot
      BY <2>2 DEF FetchBlock, RollBack, ProbeHeader, ProbeHead, EndSlot, managerVars
    <2>3. CASE ReadHead
      BY <2>3 DEF ReadHead, Fail, Stop, managerVars
    <2>4. CASE Decide
      BY <2>4 DEF Decide, Exhausted, Fail, Stop, managerVars
    <2>5. CASE FinalizeTransition
      BY <2>5 DEF FinalizeTransition, Fail, Stop, managerVars
    <2>6. CASE Crash \/ Restart
      BY <2>6 DEF Crash, Stop, Restart
    <2> QED
      BY Zenon, <1>4, <2>1, <2>2, <2>3, <2>4, <2>5, <2>6 DEF Next, Da, Runner
  <1> QED
    BY Zenon, <1>2, <1>3, <1>4

\* While a process runs its last finalized block only moves to blocks that follow it
\* (last_processed_finalized_header).
THEOREM FinalityAdvances ==
    Spec => [][pc # "down" /\ pc' # "down" => Leads(lastFinalized, lastFinalized')]_vars
  BY FinalityStep, AlwaysInv, PTL DEF Spec

\* The request is lowered while the loop waits, and set to the height the loop asks for.
LEMMA RequestStep == IInv /\ requested <= next /\ [Next]_vars => (requested <= next)'
  <1> SUFFICES ASSUME IInv, requested <= next, [Next]_vars PROVE requested' <= next'
    OBVIOUS
  <1>1. next \in Nat /\ requested \in Nat /\ target \in Nat
    BY Zenon DEF IInv, NodeInv
  <1>2. next' \in Nat /\ requested' \in Nat
    <2>1. IInv'
      BY Zenon, NextInv
    <2> QED
      BY Zenon, <2>1 DEF IInv, NodeInv
  <1>3. CASE RollBack
    BY <1>1, <1>3 DEF RollBack
  <1>4. CASE next' = next /\ requested' = requested
    BY Zenon, <1>4
  <1>5. CASE next' = requested'
    BY <1>2, <1>5
  <1>6. ASSUME ~RollBack PROVE \/ next' = next /\ requested' = requested
                               \/ next' = requested'
    <2>1. CASE DaExtend \/ DaReorg \/ DaFinalize \/ PollFinalized \/ UpdateTarget \/ UNCHANGED vars
      BY <2>1 DEF DaExtend, DaReorg, DaFinalize, PollFinalized, UpdateTarget, vars, nodeVars,
                  fetchVars
    <2>2. CASE FetchBlock
      BY <2>2 DEF FetchBlock, CheckContinuation, FetchAt
    <2>3. CASE ProbeHeader \/ ProbeHead \/ EndSlot
      BY <2>3 DEF ProbeHeader, ProbeHead, EndSlot, FetchAt, fetchVars
    <2>4. CASE ReadHead
      BY <2>4 DEF ReadHead, FetchAt, Fail, Stop, fetchVars
    <2>5. CASE Decide
      BY <2>5 DEF Decide, Exhausted, FetchAt, Fail, Stop, fetchVars
    <2>6. CASE ProcessStfChanges
      BY <2>6 DEF ProcessStfChanges, Fail, Stop, fetchVars
    <2>7. CASE FinalizeTransition
      BY <2>7 DEF FinalizeTransition, Fail, Stop, fetchVars
    <2>8. CASE Crash \/ Restart
      BY <2>8 DEF Crash, Stop, Restart
    <2> QED
      BY Zenon, <1>6, <2>1, <2>2, <2>3, <2>4, <2>5, <2>6, <2>7, <2>8 DEF Next, Da, Runner
  <1> QED
    BY Zenon, <1>3, <1>4, <1>5, <1>6

\* The assertion in process_next_slot: the block that is fetched is not above the height the
\* loop asks for, however often the request is lowered while it waits.
THEOREM NoFutureBlock == Spec => [](requested <= next)
  <1>1. Init => requested <= next
    BY DEF Init
  <1> QED
    BY <1>1, RequestStep, AlwaysInv, PTL DEF Spec
=============================================================================
