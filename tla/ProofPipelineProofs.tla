------------------------ MODULE ProofPipelineProofs -------------------------
(***************************************************************************)
(* The safety of the proof pipeline for every size of the channel, of the  *)
(* database and of a proof, and any number of crashes, failures and        *)
(* re-organisations.  Window is the heart of IInv: what was announced and  *)
(* is not proven fits into the channel and one proof, and what was not     *)
(* announced is not yet provable.                                          *)
(***************************************************************************)
EXTENDS ProofPipeline, TLAPS

Views == [next : Nat \ {0}, provable : Nat, oldest : Nat, infos : SUBSET Nat]

Types ==
    /\ mode \in {"zk", "optimistic"}
    /\ pc \in {"down", "broken", "notify", "idle", "execute"}
    /\ manager \in {"idle", "submit", "aggregate", "publish", "advance", "dead"}
    /\ head \in Nat /\ final \in 0..head /\ view \in [final..head -> Views]
    /\ next \in Nat \ {0} /\ sendNext \in Nat \ {0} /\ target \in Nat
    /\ channel \in Seq(Nat) /\ batch \in Seq(Nat)
    /\ posted \in SUBSET Nat /\ replaced \in SUBSET Nat
    /\ reorgs \in Nat

\* The announced slots that the manager has not read yet are in the channel, in order.
Announced ==
    /\ Len(channel) <= Channel
    /\ \A n \in 1..Len(channel) : channel[n] = sendNext - Len(channel) + n - 1

\* The manager loses no slot that it has read, unless it ends.
Read ==
    /\ manager # "dead" => next + Len(batch) = sendNext - Len(channel)
    /\ Len(batch) <= Jump
    /\ manager = "idle" => Len(batch) < Jump /\ (mode = "optimistic" => batch = <<>>)
    /\ mode = "optimistic" => Len(batch) <= 1 /\ manager # "submit"
    /\ manager = "advance" => \A n \in 1..Len(batch) : batch[n] \in posted \cup replaced

Window ==
    /\ sendNext <= next + Channel + Jump
    /\ next <= sendNext
    /\ \A s \in final..head : view[s].provable < sendNext \/ (s = head /\ pc = "notify")
    /\ \A s \in final..head : view[s].next <= next
    /\ pc = "notify" => target = Smaller(view[head].provable, head)

\* The ledger after a slot allows the node to start from it.
Startable ==
    \A s \in final..head :
        /\ s - Lag <= view[s].provable /\ (s > 0 => view[s].provable < s)
        /\ s > 0 => view[s].next <= s
        /\ s = 0 => view[s].next = 1 /\ view[s].provable = 0
        /\ MaxInfos >= Channel + Jump + Lag => s - view[s].next <= MaxInfos
        /\ view[s].infos \subseteq 1..s

NoReorg == reorgs = 0 => panicked = {} /\ (Up => sendNext <= head + 1)

Running == Up => Announced /\ Read /\ Window

IInv ==
    /\ Types /\ Running /\ Startable /\ NoReorg
    /\ NeverBroken /\ UnprovenIsKept /\ BatchContinues /\ NothingLeftOut

USE ConstantsAssumption

LEMMA InitIInv == Init => IInv
  BY DEF Init, IInv, Types, Views, Running, Startable, NoReorg, NeverBroken, UnprovenIsKept,
         BatchContinues, NothingLeftOut, Up

\* The manager's steps between two reads.
LEMMA ManagerIInv ==
    ASSUME IInv, Submit \/ Aggregate \/ GiveUp \/ Fail \/ \E s \in Slots : Prove(s)
    PROVE  IInv'
<1>1. /\ UNCHANGED <<pc, head, final, view, next, sendNext, target, channel, batch, posted,
                     replaced, mode, reorgs, panicked>>
      /\ \/ UNCHANGED manager
         \/ manager # "dead" /\ manager' \in {"aggregate", "publish", "dead"}
         \/ manager = "submit" /\ manager' = "idle" /\ Up /\ ~(Len(batch) >= Jump)
  BY DEF Submit, Aggregate, GiveUp, Fail, Prove, ledger, sender, bounds
<1>2. Types' BY <1>1 DEF IInv, Types
<1>3. Running'
  <2>1. Up' = Up BY <1>1 DEF Up
  <2>2. Announced' = Announced BY <1>1 DEF Announced
  <2>3. Window' = Window BY <1>1 DEF Window
  <2>4. Up /\ Read => Read'
    <3>1. Len(batch) \in Nat BY DEF IInv, Types
    <3>2. CASE UNCHANGED manager BY <3>2, <1>1 DEF Read
    <3>3. CASE manager # "dead" /\ manager' \in {"aggregate", "publish", "dead"}
      BY <3>3, <1>1, <3>1 DEF Read
    <3>4. CASE manager = "submit" /\ manager' = "idle" /\ ~(Len(batch) >= Jump)
      BY <3>4, <1>1, <3>1 DEF Read
    <3> QED BY <1>1, <3>2, <3>3, <3>4
  <2> QED BY <2>1, <2>2, <2>3, <2>4 DEF IInv, Running
<1>4. /\ Startable' = Startable /\ NoReorg' = NoReorg
      /\ NeverBroken' = NeverBroken /\ UnprovenIsKept' = UnprovenIsKept
      /\ BatchContinues' = BatchContinues /\ NothingLeftOut' = NothingLeftOut
  BY <1>1 DEF Startable, NoReorg, NeverBroken, UnprovenIsKept, BatchContinues,
              NothingLeftOut, Up
<1> QED BY <1>2, <1>3, <1>4 DEF IInv

LEMMA DownIInv == ASSUME IInv, Shutdown \/ Crash PROVE IInv'
<1>1. /\ UNCHANGED <<head, final, view, next, sendNext, target, channel, batch, posted,
                     replaced, manager, mode, reorgs, panicked>>
      /\ Up /\ pc' = "down"
  BY DEF Shutdown, Crash, ledger, sender, proving, bounds
<1>2. Types' BY <1>1, Zenon DEF IInv, Types
<1>3. Running' /\ NoReorg' /\ NeverBroken'
  BY <1>1, Zenon DEF IInv, Running, NoReorg, NeverBroken, Up
<1>4. /\ Startable' = Startable /\ UnprovenIsKept' = UnprovenIsKept
      /\ BatchContinues' = BatchContinues /\ NothingLeftOut' = NothingLeftOut
  BY <1>1, Zenon DEF Startable, UnprovenIsKept, BatchContinues, NothingLeftOut
<1> QED BY <1>2, <1>3, <1>4 DEF IInv

LEMMA PublishIInv == ASSUME IInv, Publish PROVE IInv'
<1>1. /\ UNCHANGED <<pc, head, final, view, next, sendNext, target, channel, batch,
                     replaced, mode, reorgs, panicked>>
      /\ Up /\ manager' = "advance" /\ posted' = posted \cup (Range(batch) \ replaced)
  BY DEF Publish, ledger, sender, bounds
<1>2. DOMAIN batch = 1..Len(batch) /\ Len(batch) \in Nat BY DEF IInv, Types
<1>3. \A n \in 1..Len(batch) : batch[n] \in posted' \cup replaced BY <1>1, <1>2 DEF Range
<1>4. \A s \in Range(batch) : \E n \in 1..Len(batch) : s = batch[n] BY <1>2 DEF Range
<1>5. Range(batch) \subseteq Nat BY <1>4, <1>2 DEF IInv, Types
<1>6. Types' BY <1>1, <1>5, Zenon DEF IInv, Types
<1>7. Running'
  <2>1. Up' = Up BY <1>1 DEF Up
  <2>2. Announced' = Announced BY <1>1 DEF Announced
  <2>3. Window' = Window BY <1>1 DEF Window
  <2>4. Read
    BY <1>1 DEF IInv, Running
  <2>5. Read' BY <1>1, <1>2, <1>3, <2>4 DEF Read, Publish
  <2> QED BY <2>1, <2>2, <2>3, <2>5, <1>1 DEF IInv, Running
<1>8. /\ Startable' = Startable /\ NoReorg' = NoReorg
      /\ NeverBroken' = NeverBroken /\ UnprovenIsKept' = UnprovenIsKept
      /\ BatchContinues' = BatchContinues
  BY <1>1 DEF Startable, NoReorg, NeverBroken, UnprovenIsKept, BatchContinues, Up
<1>9. NothingLeftOut' BY <1>1, Zenon DEF IInv, NothingLeftOut
<1> QED BY <1>6, <1>7, <1>8, <1>9 DEF IInv

LEMMA AdvanceIInv == ASSUME IInv, Advance PROVE IInv'
<1>1. /\ UNCHANGED <<pc, head, final, view, sendNext, target, channel, posted, replaced,
                     mode, reorgs, panicked>>
      /\ Up /\ manager = "advance" /\ manager' = "idle"
      /\ next' = next + Len(batch) /\ batch' = <<>>
  BY DEF Advance, ledger, bounds
<1>2. DOMAIN batch = 1..Len(batch) /\ Len(batch) \in Nat /\ next \in Nat \ {0}
  BY DEF IInv, Types
<1>3. Types' BY <1>1, <1>2 DEF IInv, Types
<1>4. Running'
  <2>1. Up' = Up BY <1>1 DEF Up
  <2>2. Announced' = Announced BY <1>1 DEF Announced
  <2>3. Read' BY <1>1, <1>2 DEF Read, IInv, Running, Types
  <2>4. Window'
    <3>1. Window /\ Read BY <1>1 DEF IInv, Running
    <3>2. /\ sendNext \in Nat /\ Len(channel) \in Nat
          /\ \A s \in final..head : view[s].next \in Nat
      BY DEF IInv, Types, Views
    <3>3. sendNext <= next' + Channel + Jump /\ next' <= sendNext
      BY <3>1, <3>2, <1>1, <1>2 DEF Window, Read
    <3>4. \A s \in final..head : view[s].next <= next'
      BY <3>1, <3>2, <1>1, <1>2 DEF Window
    <3> QED BY <3>1, <3>3, <3>4, <1>1 DEF Window
  <2> QED BY <2>1, <2>2, <2>3, <2>4, <1>1 DEF IInv, Running
<1>5. /\ Startable' = Startable /\ NoReorg' = NoReorg
      /\ NeverBroken' = NeverBroken /\ UnprovenIsKept' = UnprovenIsKept
  BY <1>1 DEF Startable, NoReorg, NeverBroken, UnprovenIsKept, Up
<1>6. BatchContinues' BY <1>1 DEF BatchContinues
<1>7. NothingLeftOut'
  <2>1. ASSUME NEW t \in 1..(next' - 1) PROVE t \in posted \cup replaced
    <3>1. CASE t <= next - 1 BY <3>1, <1>1, <1>2 DEF IInv, NothingLeftOut
    <3>2. CASE t > next - 1
      <4>1. t - next + 1 \in 1..Len(batch) BY <3>2, <1>1, <1>2
      <4>2. batch[t - next + 1] = next + (t - next + 1) - 1
        BY <4>1, <1>2 DEF IInv, BatchContinues
      <4>3. batch[t - next + 1] \in posted \cup replaced BY <4>1, <1>1 DEF IInv, Running, Read
      <4> QED BY <4>2, <4>3, <1>2
    <3> QED BY <3>1, <3>2, <1>1, <1>2
  <2> QED BY <2>1, <1>1 DEF IInv, NothingLeftOut
<1> QED BY <1>3, <1>4, <1>5, <1>6, <1>7 DEF IInv

LEMMA RestartIInv == ASSUME IInv, Restart PROVE IInv'
<1>1. /\ final \in Nat /\ view[final] \in Views
      /\ final \in final..head
  BY DEF IInv, Types
<1> DEFINE v == view[final]
<1>2. /\ v.next \in Nat \ {0} /\ v.provable \in Nat
      /\ final - Lag <= v.provable /\ (final > 0 => v.provable < final /\ v.next <= final)
      /\ final = 0 => v.next = 1 /\ v.provable = 0
      /\ MaxInfos >= Channel + Jump + Lag => final - v.next <= MaxInfos
  BY <1>1 DEF IInv, Startable, Views
<1>3. v.next..final \subseteq v.infos BY <1>1 DEF IInv, UnprovenIsKept
<1>4. 1..(v.next - 1) \subseteq posted \cup replaced BY <1>1 DEF IInv, NothingLeftOut
<1>5. /\ head' = final /\ final' = final /\ view' = [s \in {final} |-> view[s]]
      /\ next' = v.next /\ sendNext' = v.next /\ channel' = <<>> /\ batch' = <<>>
      /\ target' = Smaller(v.provable, final) /\ manager' = "idle"
      /\ reorgs' \in reorgs..MaxReorgs \cup {reorgs}
      /\ posted' = posted \/ posted' = posted \cap (1..final)
      /\ replaced' = replaced \cap (1..(v.next - 1))
      /\ UNCHANGED <<mode, panicked>>
  BY DEF Restart, Restrict, FirstToSend
<1>6. /\ pc' \in {"notify", "broken"}
      /\ MaxInfos >= Channel + Jump + Lag => pc' # "broken"
  BY <1>1, <1>2 DEF Restart, StartupFits
<1>7. final..final = {final} BY <1>1
<1>8. view'[final] = v BY <1>5
<1> HIDE DEF v
<1>9. Types'
  <2>1. view' \in [final..final -> Views] BY <1>1, <1>5, <1>7 DEF v
  <2>2. target' \in Nat BY <1>1, <1>2, <1>5 DEF Smaller
  <2>3. head' \in Nat /\ final' \in 0..head' /\ view' \in [final'..head' -> Views]
    BY <2>1, <1>1, <1>5
  <2>4. /\ mode \in {"zk", "optimistic"} /\ posted \in SUBSET Nat /\ replaced \in SUBSET Nat
        /\ reorgs \in Nat
    BY DEF IInv, Types
  <2>5. posted' \in SUBSET Nat /\ replaced' \in SUBSET Nat BY <2>4, <1>5, Zenon
  <2>6. reorgs' \in Nat BY <2>4, <1>5
  <2>7. channel' \in Seq(Nat) /\ batch' \in Seq(Nat) BY <1>5
  <2> QED BY <2>2, <2>3, <2>4, <2>7, <2>5, <2>6, <1>2, <1>5, <1>6 DEF Types
<1>10. Running'
  <2>1. Announced' BY <1>5 DEF Announced
  <2>2. Read' BY <1>2, <1>5 DEF Read
  <2>3. pc' = "notify" => Window' BY <1>1, <1>2, <1>5, <1>7, <1>8, SMTT(30) DEF Window
  <2> QED BY <2>1, <2>2, <2>3, <1>6 DEF Running, Up
<1>11. Startable'
  <2>1. v.infos \subseteq 1..final BY <1>1 DEF IInv, Startable, v
  <2> QED BY <2>1, <1>2, <1>5, <1>7, <1>8 DEF Startable
<1>12. NoReorg'
  <2>1. reorgs' = 0 => reorgs = 0 BY <1>5 DEF IInv, Types
  <2> QED BY <2>1, <1>1, <1>2, <1>5 DEF IInv, NoReorg, Restart
<1>13. NeverBroken' BY <1>6 DEF NeverBroken
<1>14. UnprovenIsKept' BY <1>3, <1>5, <1>7, <1>8 DEF UnprovenIsKept
<1>15. BatchContinues' BY <1>5 DEF BatchContinues
<1>16. NothingLeftOut'
  <2>1. 1..(v.next - 1) \subseteq 1..final BY <1>1, <1>2
  <2>2. 1..(v.next - 1) \subseteq posted' \cup replaced' BY <2>1, <1>4, <1>5
  <2> QED BY <2>2, <1>5, <1>7, <1>8 DEF NothingLeftOut
<1> QED BY <1>9, <1>10, <1>11, <1>12, <1>13, <1>14, <1>15, <1>16 DEF IInv

LEMMA NotifyIInv == ASSUME IInv, Notify PROVE IInv'
<1>1. /\ UNCHANGED <<pc, head, final, view, next, target, batch, posted, replaced, manager,
                     mode, reorgs, panicked>>
      /\ pc = "notify" /\ sendNext <= target /\ Len(channel) < Channel /\ manager # "dead"
      /\ sendNext' = sendNext + 1 /\ channel' = Append(channel, sendNext)
  BY DEF Notify, ledger, proving, bounds
<1>2. /\ sendNext \in Nat \ {0} /\ next \in Nat /\ Len(channel) \in Nat /\ Len(batch) \in Nat
      /\ channel \in Seq(Nat) /\ head \in final..head /\ head \in Nat
  BY DEF IInv, Types
<1>3. \A s \in final..head : view[s].provable \in Nat BY DEF IInv, Types, Views
<1>4. Announced /\ Read /\ Window BY <1>1 DEF IInv, Running, Up
<1>5. Len(channel') = Len(channel) + 1 BY <1>1, <1>2
<1>6. Types' BY <1>1, <1>2 DEF IInv, Types
<1>7. Announced'
  <2>1. ASSUME NEW n \in 1..Len(channel')
        PROVE  channel'[n] = sendNext' - Len(channel') + n - 1
    <3>1. CASE n = Len(channel) + 1 BY <3>1, <1>1, <1>2, <1>5
    <3>2. CASE n \in 1..Len(channel)
      <4>1. channel'[n] = channel[n] BY <3>2, <1>1, <1>2
      <4> QED BY <4>1, <3>2, <1>1, <1>2, <1>4, <1>5 DEF Announced
    <3> QED BY <3>1, <3>2, <1>2, <1>5
  <2> QED BY <2>1, <1>1, <1>2, <1>5 DEF Announced
<1>8. Read' BY <1>1, <1>2, <1>4, <1>5 DEF Read
<1>9. Window'
  <2>1. sendNext' <= next + Channel + Jump /\ next <= sendNext'
    BY <1>1, <1>2, <1>4 DEF Window, Read
  <2>2. ASSUME NEW s \in final..head
        PROVE  view[s].provable < sendNext' \/ (s = head /\ pc = "notify")
    <3>1. view[s].provable < sendNext \/ (s = head /\ pc = "notify") BY <1>4 DEF Window
    <3>2. view[s].provable \in Nat BY <1>3
    <3> QED BY <3>1, <3>2, <1>1, <1>2, SMTT(30)
  <2> QED BY <2>1, <2>2, <1>1, <1>4 DEF Window
<1>10. NoReorg' BY <1>1, <1>2, <1>3, <1>4 DEF IInv, NoReorg, Window, Smaller, Up
<1>11. /\ Startable' = Startable /\ NeverBroken' = NeverBroken
       /\ UnprovenIsKept' = UnprovenIsKept /\ BatchContinues' = BatchContinues
       /\ NothingLeftOut' = NothingLeftOut
  BY <1>1 DEF Startable, NeverBroken, UnprovenIsKept, BatchContinues, NothingLeftOut
<1> QED BY <1>6, <1>7, <1>8, <1>9, <1>10, <1>11 DEF IInv, Running

LEMMA EndNotifyIInv == ASSUME IInv, EndNotify PROVE IInv'
<1>1. /\ UNCHANGED <<head, final, view, next, sendNext, target, channel, batch, posted,
                     replaced, manager, mode, reorgs, panicked>>
      /\ pc = "notify" /\ sendNext > target /\ pc' = "idle"
  BY DEF EndNotify, ledger, sender, proving, bounds
<1>2. Announced /\ Read /\ Window BY <1>1 DEF IInv, Running, Up
<1>3. head \in final..head /\ head \in Nat /\ sendNext \in Nat /\ view[head].provable \in Nat
  BY DEF IInv, Types, Views
<1>4. view[head].provable <= head BY <1>3 DEF IInv, Startable
<1>5. view[head].provable < sendNext BY <1>1, <1>2, <1>3, <1>4 DEF Window, Smaller
<1>6. Window' BY <1>1, <1>2, <1>5 DEF Window
<1>7. Announced' = Announced /\ Read' = Read BY <1>1 DEF Announced, Read
<1>8. Types' /\ NeverBroken' /\ NoReorg' BY <1>1 DEF IInv, Types, NeverBroken, NoReorg, Up
<1>9. /\ Startable' = Startable /\ UnprovenIsKept' = UnprovenIsKept
      /\ BatchContinues' = BatchContinues /\ NothingLeftOut' = NothingLeftOut
  BY <1>1 DEF Startable, UnprovenIsKept, BatchContinues, NothingLeftOut
<1> QED BY <1>2, <1>6, <1>7, <1>8, <1>9 DEF IInv, Running

LEMMA ExecuteIInv == ASSUME IInv, NEW k \in final..head, Execute(k) PROVE IInv'
<1>1. /\ UNCHANGED <<final, next, sendNext, target, channel, batch, manager, mode, panicked>>
      /\ pc = "idle" /\ pc' = "execute" /\ head' = k
      /\ view' = [s \in final..k |-> view[s]]
      /\ reorgs' = IF k < head THEN reorgs + 1 ELSE reorgs
      /\ posted' = posted \/ posted' = posted \cap (1..k)
      /\ replaced' = replaced \cup ((k + 1)..(next + Len(batch) - 1))
  BY DEF Execute, Restrict, sender
<1>2. Announced /\ Read /\ Window BY <1>1 DEF IInv, Running, Up
<1>3. /\ final \in Nat /\ head \in Nat /\ k \in Nat /\ reorgs \in Nat
      /\ view \in [final..head -> Views]
  BY DEF IInv, Types
<1>4. \A s \in final..k : s \in final..head /\ view'[s] = view[s] BY <1>1, <1>3
<1>5. /\ next \in Nat \ {0} /\ Len(batch) \in Nat /\ DOMAIN batch = 1..Len(batch)
       /\ \A n \in 1..Len(batch) : batch[n] = next + n - 1
  BY DEF IInv, Types, BatchContinues
<1>6. Types'
  <2>1. view' \in [final..k -> Views] BY <1>1, <1>3, <1>4
  <2>2. head' \in Nat /\ final' \in 0..head' /\ view' \in [final'..head' -> Views]
    BY <2>1, <1>1, <1>3
  <2>3. reorgs' \in Nat BY <1>1, <1>3
  <2>4. posted \in SUBSET Nat /\ replaced \in SUBSET Nat BY DEF IInv, Types
  <2>5. (k + 1)..(next + Len(batch) - 1) \subseteq Nat BY <1>3, <1>5
  <2>6. posted' \in SUBSET Nat /\ replaced' \in SUBSET Nat BY <2>4, <2>5, <1>1, Zenon
  <2> QED BY <2>2, <2>3, <2>6, <1>1, Zenon DEF IInv, Types
<1>7. Announced' BY <1>1, <1>2 DEF Announced
<1>8. \A s \in 1..(next + Len(batch) - 1) :
          s \in posted \cup replaced => s \in posted' \cup replaced'
  BY <1>1, <1>3, <1>5
<1>9. \A n \in 1..Len(batch) :
          /\ batch[n] \in 1..(next + Len(batch) - 1)
          /\ batch[n] <= k \/ batch[n] \in replaced'
  BY <1>1, <1>3, <1>5
<1>10. Read'
  <2>1. manager = "advance" => \A n \in 1..Len(batch) : batch[n] \in posted' \cup replaced'
    BY <1>2, <1>8, <1>9 DEF Read
  <2> QED BY <2>1, <1>1, <1>2 DEF Read
<1>11. Window' BY <1>1, <1>2, <1>4 DEF Window
<1>12. Startable' BY <1>1, <1>4 DEF IInv, Startable
<1>13. NoReorg' BY <1>1, <1>3 DEF IInv, NoReorg, Up
<1>14. UnprovenIsKept' BY <1>1, <1>4 DEF IInv, UnprovenIsKept
<1>15. NothingLeftOut'
  <2>1. 1..(next - 1) \subseteq posted' \cup replaced'
    BY <1>5, <1>8 DEF IInv, NothingLeftOut
  <2>2. ASSUME NEW s \in final..k, NEW i \in 1..(view[s].next - 1)
        PROVE  i \in posted' \cup replaced'
    <3>1. view[s].next \in Nat /\ (s > 0 => view[s].next <= s) /\ (s = 0 => view[s].next = 1)
      BY <1>3, <1>4 DEF IInv, Startable, Views
    <3>2. i \in 1..k BY <3>1, <1>3
    <3>3. i \in posted \cup replaced BY <1>4 DEF IInv, NothingLeftOut
    <3> QED BY <3>2, <3>3, <1>1
  <2> QED BY <2>1, <2>2, <1>1, <1>4 DEF NothingLeftOut
<1>16. BatchContinues' BY <1>1, <1>5, <1>9 DEF BatchContinues
<1>17. NeverBroken' BY <1>1 DEF NeverBroken
<1> QED BY <1>6, <1>7, <1>10, <1>11, <1>12, <1>13, <1>14, <1>15, <1>16, <1>17 DEF IInv, Running

LEMMA ReadNextIInv == ASSUME IInv, ReadNext PROVE IInv'
<1> DEFINE slot == Head(channel)
<1>1. /\ Up /\ manager = "idle" /\ channel # <<>> /\ channel' = Tail(channel)
      /\ UNCHANGED <<pc, head, final, view, next, sendNext, target, posted, replaced, mode,
                     reorgs>>
  BY DEF ReadNext, ledger, bounds
<1>2. /\ channel \in Seq(Nat) /\ batch \in Seq(Nat)
      /\ sendNext \in Nat /\ next \in Nat \ {0} /\ head \in Nat /\ head \in final..head
      /\ view[head].next \in Nat
  BY DEF IInv, Types, Views
<1>3. Announced /\ Read /\ Window BY <1>1 DEF IInv, Running
<1>4. /\ Len(channel) \in Nat \ {0} /\ channel' \in Seq(Nat) /\ Len(channel') = Len(channel) - 1
      /\ \A n \in 1..Len(channel') : channel'[n] = channel[n + 1]
      /\ slot = channel[1]
  <2>1. Len(channel) \in Nat \ {0} BY <1>1, <1>2
  <2>2. Tail(channel) \in Seq(Nat) /\ Len(Tail(channel)) = Len(channel) - 1
    BY <2>1, <1>1, <1>2
  <2>3. \A n \in 1..(Len(channel) - 1) : Tail(channel)[n] = channel[n + 1]
    BY <2>1, <1>1, <1>2
  <2>4. slot = channel[1] BY <1>1, <1>2
  <2> QED BY <2>1, <2>2, <2>3, <2>4, <1>1
<1>5. slot = next + Len(batch)
  <2>1. Len(batch) \in Nat BY <1>2
  <2>2. 1 \in 1..Len(channel) BY <1>4
  <2>3. channel[1] = sendNext - Len(channel) + 1 - 1 BY <2>2, <1>3 DEF Announced
  <2>4. next + Len(batch) = sendNext - Len(channel) BY <1>1, <1>3 DEF Read
  <2>5. slot = channel[1] /\ Len(channel) \in Nat BY <1>4
  <2> HIDE DEF slot
  <2> QED BY <2>1, <2>3, <2>4, <2>5, <1>2
<1>6. reorgs = 0 => slot \in view[head].infos
  <2>1. SUFFICES ASSUME reorgs = 0 PROVE slot \in view[head].infos OBVIOUS
  <2>2. sendNext <= head + 1 BY <2>1, <1>1 DEF IInv, NoReorg
  <2>3. slot <= head BY <2>2, <1>1, <1>2, <1>3, <1>4, <1>5 DEF Read
  <2>4. view[head].next <= next BY <1>2, <1>3 DEF Window
  <2>5. slot \in view[head].next..head BY <2>3, <2>4, <1>2, <1>5
  <2> QED BY <2>5, <1>2 DEF IInv, UnprovenIsKept
<1>7. \/ manager' = "dead" /\ batch' = batch /\ slot \notin view[head].infos
      \/ /\ slot <= head /\ manager' = IF mode = "zk" THEN "submit" ELSE "publish"
         /\ batch' = Append(batch, slot) /\ panicked' = panicked
  <2>1. ~(slot < next) /\ next + Len(batch) <= slot BY <1>2, <1>5
  <2>2. CASE slot \notin view[head].infos BY <2>1, <2>2 DEF ReadNext
  <2>3. CASE slot \in view[head].infos
    <3>1. slot <= head BY <2>3, <1>2 DEF IInv, Startable
    <3> QED BY <3>1, <2>1, <2>3 DEF ReadNext
  <2> QED BY <2>2, <2>3
<1>8. Announced'
  <2>1. ASSUME NEW n \in 1..Len(channel')
        PROVE  channel'[n] = sendNext' - Len(channel') + n - 1
    <3>1. channel'[n] = channel[n + 1] /\ n + 1 \in 1..Len(channel) BY <1>4
    <3>2. channel[n + 1] = sendNext - Len(channel) + (n + 1) - 1 BY <3>1, <1>3 DEF Announced
    <3> QED BY <3>1, <3>2, <1>1, <1>2, <1>4
  <2> QED BY <2>1, <1>3, <1>4 DEF Announced
<1>9. Window' BY <1>1, <1>3 DEF Window
<1>10. /\ Startable' = Startable /\ NeverBroken' = NeverBroken
       /\ UnprovenIsKept' = UnprovenIsKept /\ NothingLeftOut' = NothingLeftOut
  BY <1>1 DEF Startable, NeverBroken, UnprovenIsKept, NothingLeftOut
<1> HIDE DEF slot
<1>11. batch' \in Seq(Nat) /\ manager' \in {"dead", "submit", "publish"}
  <2>1. slot \in Nat BY <1>2, <1>5
  <2>2. Append(batch, slot) \in Seq(Nat) BY <2>1, <1>2
  <2> QED BY <2>2, <1>2, <1>7, Zenon
<1>12. Types' BY <1>1, <1>4, <1>11 DEF IInv, Types
<1>13. NoReorg' BY <1>1, <1>6, <1>7 DEF IInv, NoReorg, Up
<1>14. Read'
  <2>1. CASE manager' = "dead" /\ batch' = batch BY <2>1, <1>1, <1>2, <1>3 DEF Read
  <2>2. CASE manager' # "dead" /\ batch' = Append(batch, slot)
    <3>1. Len(batch') = Len(batch) + 1 BY <2>2, <1>2, <1>5
    <3>2. mode = "optimistic" => Len(batch) = 0 BY <1>1, <1>3 DEF Read
    <3>3. mode = "optimistic" => manager' # "submit" BY <1>7, <2>2
    <3>4. Len(batch) \in Nat /\ Len(channel) \in Nat BY <1>2
    <3>5. next + Len(batch) = sendNext - Len(channel) /\ Len(batch) < Jump
      BY <1>1, <1>3 DEF Read
    <3>6. Len(channel') = Len(channel) - 1 BY <1>4
    <3>7. next' + Len(batch') = sendNext' - Len(channel') /\ Len(batch') <= Jump
      <4>1. next' = next /\ sendNext' = sendNext BY <1>1
      <4>2. next + (Len(batch) + 1) = sendNext - (Len(channel) - 1) /\ Len(batch) + 1 <= Jump
        BY <3>4, <3>5, <1>2
      <4> QED BY <4>1, <4>2, <3>1, <3>6, Zenon
    <3>8. mode = "optimistic" => Len(batch') <= 1 BY <3>1, <3>2, <3>4
    <3> QED BY <3>3, <3>7, <3>8, <1>1, <1>11 DEF Read
  <2> QED BY <2>1, <2>2, <1>7
<1>15. BatchContinues'
  <2>1. CASE batch' = batch BY <2>1, <1>1 DEF IInv, BatchContinues
  <2>2. CASE batch' = Append(batch, slot) /\ slot <= head
    <3>1. ASSUME NEW n \in DOMAIN batch'
          PROVE  batch'[n] = next + n - 1 /\ (batch'[n] <= head \/ batch'[n] \in replaced)
      <4>1. n \in 1..(Len(batch) + 1) BY <2>2, <1>2, <1>5
      <4>2. CASE n = Len(batch) + 1 BY <4>2, <2>2, <1>2, <1>5
      <4>3. CASE n \in 1..Len(batch)
        <5>1. batch'[n] = batch[n] /\ n \in DOMAIN batch BY <4>3, <2>2, <1>2, <1>5
        <5> QED BY <5>1 DEF IInv, BatchContinues
      <4> QED BY <4>1, <4>2, <4>3, <1>2
    <3> QED BY <3>1, <1>1 DEF BatchContinues
  <2> QED BY <2>1, <2>2, <1>7
<1> QED BY <1>8, <1>9, <1>10, <1>12, <1>13, <1>14, <1>15 DEF IInv, Running

LEMMA MaterializeIInv ==
    ASSUME IInv, NEW p \in Provable(head + 1), NEW f \in final..(head + 1), Materialize(p, f)
    PROVE  IInv'
<1> DEFINE slot == head + 1
           old == view[head]
           new == StfInfoBatch(slot, p)
<1>1. /\ pc = "execute" /\ UNCHANGED <<next, sendNext, channel, manager, batch, posted, replaced,
                                          mode, reorgs>>
      /\ IF next <= slot
         THEN /\ head' = slot /\ final' = f /\ pc' = "notify" /\ UNCHANGED panicked
              /\ view' = [s \in f..slot |-> IF s = slot THEN new ELSE view[s]]
              /\ target' = Smaller(p, slot)
         ELSE pc' = "down" /\ UNCHANGED <<head, final, view, target>>
  BY DEF Materialize, HeightToNotify, ledger, proving, bounds
<1>2. /\ head \in Nat /\ head \in final..head /\ final \in Nat /\ old \in Views
      /\ sendNext \in Nat /\ next \in Nat \ {0}
  BY DEF IInv, Types
<1>3. old.next \in Nat /\ old.provable \in Nat /\ old.oldest \in Nat /\ old.infos \subseteq Nat
  BY <1>2 DEF Views
<1>4. Announced /\ Read /\ Window BY <1>1 DEF IInv, Running, Up
<1>5. p \in Nat /\ p < slot /\ slot - Lag <= p BY <1>2, <1>3 DEF Provable
<1>6. CASE next > slot
  <2>1. /\ pc' = "down" /\ UNCHANGED <<head, final, view, target>> BY <1>6, <1>1, <1>2, SMTT(30)
  <2>2. reorgs # 0 BY <1>1, <1>2, <1>4, <1>6, SMTT(30) DEF IInv, NoReorg, Up, Window
  <2>3. /\ Startable' = Startable /\ UnprovenIsKept' = UnprovenIsKept
        /\ BatchContinues' = BatchContinues /\ NothingLeftOut' = NothingLeftOut
    BY <2>1, <1>1 DEF Startable, UnprovenIsKept, BatchContinues, NothingLeftOut
  <2>4. Types' /\ NoReorg' /\ Running' /\ NeverBroken'
    BY <2>1, <2>2, <1>1 DEF IInv, Types, NoReorg, Running, NeverBroken, Up
  <2> QED BY <2>3, <2>4 DEF IInv
<1>7. CASE next <= slot
  <2>1. /\ head' = slot /\ final' = f /\ pc' = "notify" /\ UNCHANGED panicked
        /\ view' = [s \in f..slot |-> IF s = slot THEN new ELSE view[s]]
        /\ target' = Smaller(p, slot)
    BY <1>1, <1>7
  <2>2. new.next = next /\ new.provable = p BY DEF StfInfoBatch
  <2>3. new \in Views
    <3>1. Oldest(slot) \in Nat BY <1>2, <1>3 DEF Oldest, Larger
    <3>2. (old.infos \ Pruned(slot)) \cup {slot} \in SUBSET Nat BY <1>2, <1>3
    <3> QED BY <3>1, <3>2, <1>2, <1>5 DEF StfInfoBatch, Views
  <2>4. next..slot \subseteq new.infos
    <3>1. new.infos = (old.infos \ Pruned(slot)) \cup {slot} BY DEF StfInfoBatch
    <3>2. \A i \in Pruned(slot) : i < next BY DEF Pruned
    <3>3. old.next <= next /\ old.next..head \subseteq old.infos
      BY <1>2, <1>4 DEF Window, IInv, UnprovenIsKept
    <3>4. ASSUME NEW i \in next..slot, i # slot PROVE i \in old.infos /\ i \notin Pruned(slot)
      BY <3>2, <3>3, <3>4, <1>2, <1>3
    <3> QED BY <3>1, <3>4, SMTT(30)
  <2>5. MaxInfos >= Channel + Jump + Lag => slot - next <= MaxInfos
    <3>1. head - Lag <= old.provable BY <1>2 DEF IInv, Startable
    <3>2. old.provable < sendNext BY <1>1, <1>2, <1>4 DEF Window
    <3>3. sendNext <= next + Channel + Jump BY <1>4 DEF Window
    <3> QED BY <3>1, <3>2, <3>3, <1>2, <1>3
  <2>6. new.infos \subseteq 1..slot
    <3>1. old.infos \subseteq 1..head BY <1>2 DEF IInv, Startable
    <3>2. new.infos = (old.infos \ Pruned(slot)) \cup {slot} BY DEF StfInfoBatch
    <3>3. slot \in 1..slot /\ \A i \in 1..head : i \in 1..slot BY <1>2
    <3> HIDE DEF new, old, slot
    <3> QED BY Zenon, <3>1, <3>2, <3>3
  <2>7. f \in Nat /\ f <= slot /\ slot \in Nat \ {0} BY <1>2
  <2> HIDE DEF new
  <2>8. ASSUME NEW s \in final'..head'
        PROVE  \/ s = slot /\ view'[s] = new
               \/ s # slot /\ s \in final..head /\ view'[s] = view[s]
    <3>1. s \in f..slot BY <2>1
    <3>2. view'[s] = IF s = slot THEN new ELSE view[s] BY <3>1, <2>1
    <3>3. s # slot => s \in final..head BY <3>1, <1>2
    <3> HIDE DEF slot
    <3> QED BY <3>2, <3>3
  <2>9. Types'
    <3>1. \A s \in f..slot : view'[s] \in Views BY <2>1, <2>3, <2>8 DEF IInv, Types
    <3>2. view' \in [f..slot -> Views] BY <2>1, <3>1
    <3>3. target' \in Nat BY <2>1, <2>7, <1>5 DEF Smaller
    <3>4. head' \in Nat /\ final' \in 0..head' /\ view' \in [final'..head' -> Views]
      BY <3>2, <2>1, <2>7
    <3> QED BY <3>3, <3>4, <2>1, <1>1 DEF IInv, Types
  <2>10. Announced' /\ Read' BY <1>1, <1>4, SMTT(30) DEF Announced, Read
  <2>11. Window'
    <3>1. \A s \in final'..head' : view'[s].provable < sendNext \/ s = slot
      BY <2>8, <1>1, <1>4, SMTT(30) DEF Window
    <3>2. \A s \in final'..head' : view'[s].next <= next
      BY <2>2, <2>8, <1>2, <1>4 DEF Window
    <3>3. view'[head'] = new BY <2>1, <2>7
    <3> QED BY <3>1, <3>2, <3>3, <2>1, <2>2, <1>1, <1>4 DEF Window
  <2>12. Startable'
    <3>1. ASSUME NEW s \in final'..head'
          PROVE  /\ view'[s].infos \subseteq 1..s
                 /\ s - Lag <= view'[s].provable /\ (s > 0 => view'[s].provable < s)
                 /\ s > 0 => view'[s].next <= s
                 /\ s = 0 => view'[s].next = 1 /\ view'[s].provable = 0
                 /\ MaxInfos >= Channel + Jump + Lag => s - view'[s].next <= MaxInfos
      <4>1. CASE s = slot BY <4>1, <2>2, <2>6, <2>5, <2>8, <2>7, <1>5, <1>7
      <4>2. CASE s # slot BY <4>2, <2>8 DEF IInv, Startable
      <4> QED BY <4>1, <4>2, SMTT(30)
    <3> QED BY <3>1 DEF Startable
  <2>13. NoReorg' BY <2>1, <2>7, <1>1, <1>2 DEF IInv, NoReorg, Up
  <2>14. NeverBroken' BY <2>1 DEF NeverBroken
  <2>15. UnprovenIsKept'
    BY <2>2, <2>4, <2>8 DEF IInv, UnprovenIsKept
  <2>16. NothingLeftOut' BY <2>2, <2>8, <1>1 DEF IInv, NothingLeftOut
  <2>17. BatchContinues'
    <3>1. \A n \in DOMAIN batch : batch[n] \in Nat BY DEF IInv, Types
    <3> QED BY <3>1, <2>1, <1>1, <1>2, SMTT(30) DEF IInv, BatchContinues
  <2> QED BY <2>9, <2>10, <2>11, <2>12, <2>13, <2>14, <2>15, <2>16, <2>17 DEF IInv, Running
<1> QED BY <1>2, <1>6, <1>7

LEMMA StutterIInv == ASSUME IInv, UNCHANGED vars PROVE IInv'
<1>1. UNCHANGED <<pc, head, final, view, next, sendNext, target, channel, batch, posted,
                  replaced, manager, mode, reorgs, panicked>>
  BY DEF vars, ledger, sender, proving, bounds
<1>2. Types' = Types BY <1>1, Zenon DEF Types
<1>3. Running' = Running BY <1>1, Zenon DEF Running, Announced, Read, Window, Up
<1>4. Startable' = Startable /\ NoReorg' = NoReorg BY <1>1, Zenon DEF Startable, NoReorg, Up
<1>5. /\ NeverBroken' = NeverBroken /\ UnprovenIsKept' = UnprovenIsKept
      /\ BatchContinues' = BatchContinues /\ NothingLeftOut' = NothingLeftOut
  BY <1>1, Zenon DEF NeverBroken, UnprovenIsKept, BatchContinues, NothingLeftOut
<1> QED BY <1>2, <1>3, <1>4, <1>5 DEF IInv

LEMMA NextIInv == IInv /\ [Next]_vars => IInv'
  BY RestartIInv, NotifyIInv, EndNotifyIInv, ExecuteIInv, MaterializeIInv, ReadNextIInv,
     ManagerIInv, PublishIInv, AdvanceIInv, DownIInv, StutterIInv, Zenon
     DEF Next, Node, Slot
LEMMA Invariance == Spec => []IInv
  BY InitIInv, NextIInv, PTL DEF Spec

\* The start assertion on the number of stored STF infos never fails when the database has
\* room for the channel, one proof and the slots that are not yet visible.
THEOREM NodeCanStart == Spec => []NeverBroken
  BY Invariance, PTL DEF IInv

\* prune_entries keeps the info of every slot without a proof, in the ledger after any slot
\* the node may go back to.
THEOREM PruningIsSafe == Spec => []UnprovenIsKept
  BY Invariance, PTL DEF IInv

\* The slots handed to create_aggregated_proof continue what was proven before, and are of
\* the node's chain unless a re-organisation replaced a block that was already read.
THEOREM ProofsAreContiguous == Spec => []BatchContinues
  BY Invariance, PTL DEF IInv

\* inc_next_height_to_receive_by never passes a block of the node's chain whose proof was not
\* published, but for blocks that replaced one which the manager had read.
THEOREM NoSlotIsSkipped == Spec => []NothingLeftOut
  BY Invariance, PTL DEF IInv

\* Without re-organisations the assertion of materialize_stf_info and the manager's "missing
\* from ledger" error cannot happen.
THEOREM NoPanicWithoutReorg == Spec => []PanicsOnlyOnReorgs
<1>1. IInv => PanicsOnlyOnReorgs BY DEF IInv, NoReorg, Types, PanicsOnlyOnReorgs
<1> QED BY <1>1, Invariance, PTL
=============================================================================
