------------------------- MODULE GroupCommitProofs --------------------------
(***************************************************************************)
(* The group of databases commits atomically, for any number of blocks and *)
(* crashes and whatever blocks do to the user state.  IInv adds to         *)
(* Recoverable how far a commit or a recovery has come.                    *)
(***************************************************************************)
EXTENDS GroupCommit, TLAPS

Types ==
    /\ db \in [Stores -> Versions]
    /\ undo \in [Nomt -> Versions \cup {NoUndo}]
    /\ pc \in {"down", "recover", "open", "commit", "bailed"}
    /\ step \in 1..7

\* Genesis is written to the kernel database first.
GenesisStarted == db["live"] = Empty /\ db["kernel"] = Empty => \A s \in Stores : db[s] = Empty

Progress ==
    /\ pc = "open" => \A s \in Stores : ~IsNewer(s)
    /\ pc = "commit" =>
          /\ step \in 1..6 /\ block = db["live"] + 1 /\ block \in Versions
          /\ \A s \in Stores : IF Position[s] < step THEN db[s] = block ELSE ~IsNewer(s)
    /\ pc = "recover" =>
          /\ step \in 1..6
          /\ db["live"] = Empty => db["kernel"] = Empty
          /\ \A s \in Stores : Position[s] < step => ~IsNewer(s)
    /\ pc = "bailed" => db["live"] = Empty

IInv == Types /\ Recoverable /\ GenesisStarted /\ Progress /\ RecoveryFits

USE DEF Stores, Nomt, Versions, Empty, NoUndo

LEMMA Positions ==
    /\ \A s \in Stores : Position[s] \in 1..6
    /\ Position["live"] = 6 /\ Position["kernel"] = 1
    /\ \A s, t \in Stores : Position[s] = Position[t] => s = t
  BY DEF Position

LEMMA InitIInv == Init => IInv
  BY BoundsAssumption DEF Init, IInv, Types, Recoverable, GenesisStarted, Progress,
         RecoveryFits, IsNewer, Root

LEMMA BeginIInv ==
    ASSUME IInv, BeginCommit
    PROVE  IInv'
  BY BoundsAssumption, Positions DEF IInv, Types, Recoverable, GenesisStarted, Progress,
         RecoveryFits, BeginCommit, IsNewer, Root

\* One database is written: it is one ahead of the live one, or it is the live one and all
\* of them are level.
LEMMA CommitIInv ==
    ASSUME NEW s \in Stores, IInv, CommitStore(s)
    PROVE  IInv'
<1>1. /\ db \in [Stores -> Versions] /\ db["live"] \in Int /\ block = db["live"] + 1
      /\ block \in Versions /\ Position[s] = step
      /\ \A t \in Stores : IF Position[t] < step THEN db[t] = block ELSE ~IsNewer(t)
      /\ undo \in [Nomt -> Versions \cup {NoUndo}]
  BY BoundsAssumption DEF IInv, Types, Progress, CommitStore
<1>2. /\ db' = [db EXCEPT ![s] = block]
      /\ undo' \in [Nomt -> Versions \cup {NoUndo}]
      /\ \A t \in Nomt : undo'[t] = IF t = s THEN db[t] ELSE undo[t]
  BY <1>1 DEF CommitStore, CommitNomt, CommitTables, CommitFlat
<1>3. Types'
  BY <1>1, <1>2, Positions DEF Types, CommitStore
<1>4. \A t \in Stores : t # s => db'[t] = db[t]
  BY <1>1, <1>2
<1>5. db'[s] = block
  BY <1>1, <1>2
<1>6. GenesisStarted'
  BY <1>1, <1>4, <1>5, Positions DEF GenesisStarted, IInv, CommitStore
<1>7. CASE s = "live"
  <2>1. \A t \in Stores : db'[t] = block
    BY <1>1, <1>4, <1>5, <1>7, Positions
  <2>2. step = 6 /\ pc' = "open"
    BY <1>1, <1>7, Positions DEF CommitStore
  <2>3. \A t \in Stores : ~IsNewer(t)'
    BY <2>1 DEF IsNewer, Root
  <2> QED BY <1>3, <1>6, <2>1, <2>2, <2>3
          DEF IInv, Recoverable, Progress, RecoveryFits, CommitStore
<1>8. CASE s # "live"
  <2>1. db'["live"] = db["live"] /\ step # 6 /\ pc' = "commit"
    BY <1>1, <1>4, <1>8, Positions DEF CommitStore
  <2>2. Recoverable'
    <3> SUFFICES ASSUME NEW t \in Stores
                 PROVE  /\ db'[t] \in {db["live"], db["live"] + 1}
                        /\ t \in Nomt /\ IsNewer(t)' => undo'[t] = db["live"]
      BY <2>1 DEF Recoverable
    <3>1. db'[t] \in {db["live"], db["live"] + 1}
      BY <1>1, <1>4, <1>5 DEF IInv, Recoverable
    <3>2. ASSUME t \in Nomt, t = s PROVE IsNewer(t)' => undo'[t] = db["live"]
      <4>1. undo'[t] = db[t]
        BY <1>2, <3>2
      <4>2. ~IsNewer(t)
        BY <1>1, <3>2, Positions
      <4>3. db[t] # block => db[t] = db["live"]
        BY <1>1 DEF IInv, Recoverable
      <4>4. db[t] = block => ~IsNewer(t)'
        BY <4>2, <1>1, <1>5, <2>1, <3>2 DEF IsNewer
      <4> QED BY <4>1, <4>3, <4>4
    <3>3. ASSUME t \in Nomt, t # s PROVE IsNewer(t)' => undo'[t] = db["live"]
      BY <1>2, <1>4, <2>1, <3>3 DEF IInv, Recoverable, IsNewer
    <3> QED BY <3>1, <3>2, <3>3
  <2>3. Progress'
    <3>1. \A t \in Stores : IF Position[t] < step' THEN db'[t] = block ELSE ~IsNewer(t)'
      <4> TAKE t \in Stores
      <4>1. CASE t = s
        BY <4>1, <1>1, <1>5, Positions DEF CommitStore
      <4>2. CASE t # s
        BY <4>2, <1>1, <1>4, <2>1, Positions DEF CommitStore, IsNewer
      <4> QED BY <4>1, <4>2
    <3> QED BY <3>1, <1>1, <2>1, Positions DEF Progress, CommitStore
  <2> QED BY <1>3, <1>6, <2>2, <2>3 DEF IInv, RecoveryFits, CommitStore
<1> QED BY <1>7, <1>8

LEMMA CrashIInv ==
    ASSUME IInv, Crash
    PROVE  IInv'
  BY DEF IInv, Types, Recoverable, GenesisStarted, Progress, RecoveryFits, Crash, IsNewer

LEMMA OpenIInv ==
    ASSUME IInv, Open
    PROVE  IInv'
  BY Positions DEF IInv, Types, Recoverable, GenesisStarted, Progress, RecoveryFits, Open,
         IsNewer, FirstCommitTorn

\* A database that differs from the live one is one ahead of it, so the rollback has what
\* it needs and leaves it level.
LEMMA RollBackIInv ==
    ASSUME NEW s \in Stores, IInv, RollBack(s)
    PROVE  IInv'
<1>1. /\ db \in [Stores -> Versions] /\ undo \in [Nomt -> Versions \cup {NoUndo}]
      /\ db["live"] \in Int /\ s # "live" /\ pc = "recover" /\ step' = step + 1
      /\ Position[s] = step /\ step \in 1..5 /\ ~failed
      /\ \A t \in Stores : db[t] \in {db["live"], db["live"] + 1}
  BY Positions DEF IInv, Types, Recoverable, RecoveryFits, RollBack
<1>2. CASE ~IsNewer(s)
  <2>1. \A t \in Stores : Position[t] < step' => ~IsNewer(t)
    BY <1>1, <1>2, Positions DEF IInv, Progress
  <2>2. UNCHANGED <<db, undo, pc, failed>>
    BY <1>2 DEF RollBack
  <2> QED BY <1>1, <2>1, <2>2
          DEF IInv, Types, Recoverable, GenesisStarted, Progress, RecoveryFits, IsNewer
<1>3. CASE IsNewer(s)
  <2>1. db[s] = db["live"] + 1
    BY <1>1, <1>3 DEF IsNewer
  <2>2. s \in Nomt => undo[s] = db["live"]
    BY <1>3 DEF IInv, Recoverable
  <2>3. db["live"] # Empty
    BY <2>1, <1>1 DEF IInv, Progress, GenesisStarted
  <2>4. CanRollBack(s) /\ RolledBack(s) = db["live"]
    BY <1>1, <2>1, <2>2, <2>3
       DEF CanRollBack, RolledBack, DeleteHeadSlot, DeleteVersion, DeleteArchivalVersion, Before
  <2>5. db' = [db EXCEPT ![s] = db["live"]] /\ UNCHANGED <<pc, failed>>
        /\ undo' = [n \in Nomt |-> IF n = s THEN NoUndo ELSE undo[n]]
    BY <1>3, <2>4 DEF RollBack
  <2>6. db'[s] = db["live"] /\ \A t \in Stores : t # s => db'[t] = db[t]
    BY <1>1, <2>5
  <2>7. db'["live"] = db["live"]
    BY <1>1, <2>6
  <2>8. ~IsNewer(s)'
    BY <2>6, <2>7 DEF IsNewer
  <2>9. \A t \in Stores : t # s => (IsNewer(t)' <=> IsNewer(t))
    BY <2>6, <2>7 DEF IsNewer
  <2>10. Types'
    BY <1>1, <2>5 DEF IInv, Types
  <2>11. Recoverable'
    BY <1>1, <2>5, <2>6, <2>7, <2>8, <2>9 DEF IInv, Recoverable
  <2>12. Progress'
    BY <1>1, <2>3, <2>5, <2>7, <2>8, <2>9, Positions DEF IInv, Progress
  <2> QED BY <1>1, <2>3, <2>5, <2>7, <2>10, <2>11, <2>12 DEF IInv, GenesisStarted, RecoveryFits
<1> QED BY <1>2, <1>3

LEMMA CheckIInv ==
    ASSUME IInv, CheckAll
    PROVE  IInv'
<1>1. \A s \in Stores : ~IsNewer(s)
  <2> TAKE s \in Stores
  <2> QED BY Positions DEF IInv, Progress, CheckAll, IsNewer
<1> QED BY <1>1, Zenon DEF IInv, Types, Recoverable, GenesisStarted, Progress, RecoveryFits,
                    CheckAll, IsNewer

LEMMA DeleteIInv ==
    ASSUME IInv, DeleteDatabases
    PROVE  IInv'
  BY BoundsAssumption DEF IInv, Types, Recoverable, GenesisStarted, Progress, RecoveryFits,
         DeleteDatabases, IsNewer

LEMMA Inductive ==
    ASSUME IInv, [Next]_vars
    PROVE  IInv'
<1>1. CASE Next
  BY <1>1, BeginIInv, CommitIInv, CrashIInv, OpenIInv, RollBackIInv, CheckIInv, DeleteIInv
     DEF Next, Recovery
<1>2. CASE UNCHANGED vars
  BY <1>2 DEF vars, IInv, Types, Recoverable, GenesisStarted, Progress, RecoveryFits, IsNewer
<1> QED BY <1>1, <1>2

LEMMA Invariance == Spec => []IInv
  BY InitIInv, Inductive, PTL DEF Spec
-----------------------------------------------------------------------------
\* At every point of a commit or of an interrupted recovery, what is on disk can be rolled
\* back to the block of the live database with one step per database.
THEOREM AlwaysRecoverable == Spec => []Recoverable
<1>1. IInv => Recoverable
  BY DEF IInv
<1> QED BY <1>1, Invariance, PTL

\* validate_commit_flag_and_rollback_if_necessary never panics: each rollback it starts
\* can be done, and check_all finds the roots equal.
THEOREM RecoveryNeverFails == Spec => []RecoveryFits
<1>1. IInv => RecoveryFits
  BY DEF IInv
<1> QED BY <1>1, Invariance, PTL

\* The six databases behave as one that commits a block atomically.
THEOREM CommitsAtomically == Spec => ImplementsAtomicCommit
<1>1. Init => Group!Init
  BY DEF Init, Group!Init, Group!Empty, Group!Closed, View
<1>2. ASSUME IInv, IInv', [Next]_vars
      PROVE  [Group!Open \/ Group!Commit \/ Group!Close]_<<db["live"], View>>
  <2> USE DEF Group!Open, Group!Commit, Group!Close, Group!Closed
  <2>1. pc = "open" => \A s \in Stores : ~IsNewer(s)
    BY <1>2 DEF IInv, Progress
  <2>2. pc' = "open" => \A s \in Stores : ~IsNewer(s)'
    BY <1>2 DEF IInv, Progress
  <2>3. /\ pc \in {"open", "commit"} => View = db["live"]
        /\ pc \notin {"open", "commit"} => View = -2
        /\ pc' \in {"open", "commit"} => View' = db'["live"]
        /\ pc' \notin {"open", "commit"} => View' = -2
    BY <2>1, <2>2 DEF View
  <2>4. CASE BeginCommit
    BY <2>3, <2>4 DEF BeginCommit
  <2>5. ASSUME NEW s \in Stores, CommitStore(s)
        PROVE  Group!Commit \/ UNCHANGED <<db["live"], View>>
    <3>1. s = "live" => db'["live"] = db["live"] + 1
      BY <1>2, <2>5 DEF CommitStore, CommitFlat, IInv, Types
    <3>2. s # "live" => db'["live"] = db["live"]
      BY <1>2, <2>5 DEF CommitStore, CommitNomt, CommitTables, CommitFlat, IInv, Types
    <3> QED BY <2>3, <2>5, <3>1, <3>2 DEF CommitStore
  <2>6. CASE Crash
    BY <2>3, <2>6 DEF Crash
  <2>7. CASE Open
    BY <2>3, <2>7 DEF Open
  <2>8. ASSUME NEW s \in Stores, RollBack(s)
        PROVE  UNCHANGED <<db["live"], View>>
    <3>1. db'["live"] = db["live"]
      BY <1>2, <2>8 DEF RollBack, IInv, Types
    <3> QED BY <2>3, <2>8, <3>1 DEF RollBack
  <2>9. CASE CheckAll
    BY <2>3, <2>9 DEF CheckAll
  <2>10. CASE DeleteDatabases
    <3>1. db'["live"] = db["live"]
      BY <1>2, <2>10 DEF DeleteDatabases, IInv, Progress
    <3> QED BY <2>3, <2>10, <3>1 DEF DeleteDatabases
  <2>11. CASE UNCHANGED vars
    BY <2>11 DEF vars, View, IsNewer
  <2> QED BY <1>2, <2>4, <2>5, <2>6, <2>7, <2>8, <2>9, <2>10, <2>11 DEF Next, Recovery
<1> QED BY <1>1, <1>2, Invariance, PTL DEF Spec, ImplementsAtomicCommit, Group!Spec
=============================================================================
