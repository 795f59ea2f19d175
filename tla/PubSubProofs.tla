---------------------------- MODULE PubSubProofs ----------------------------
(***************************************************************************)
(* Machine-checked proofs about PubSub, for every set of messages, groups  *)
(* and processes, every retry policy, and every number of faults.          *)
(***************************************************************************)
EXTENDS PubSub, FiniteSetTheorems, SequenceTheorems, WellFoundedInduction, TLAPS

-----------------------------------------------------------------------------
(* Helpers *)

LEMMA MinExists ==
  ASSUME NEW T \in SUBSET Nat, T # {}
  PROVE  \E i \in T : \A j \in T : i <= j
<1>1. PICK x \in T : \A y \in T : <<y, x>> \notin OpToRel(<, Nat)
  BY NatLessThanWellFounded, WFMin, Zenon
<1>2. \A y \in T : ~(y < x)
  BY <1>1 DEF OpToRel
<1> QED BY <1>2

\* The entry a loop is at is one of its batch.
LEMMA CurInBatch ==
  ASSUME StreamType, LoopType, NEW t \in Loops, batch[t] # {}
  PROVE  Cur(t) \in batch[t] /\ Cur(t) \in 1 .. Len(stream)
<1>1. batch[t] \in SUBSET (1 .. Len(stream)) /\ Len(stream) \in Nat
  BY LenProperties DEF LoopType, StreamType
<1>2. batch[t] \in SUBSET Nat
  BY <1>1
<1>3. \E i \in batch[t] : \A j \in batch[t] : i <= j
  BY <1>2, MinExists
<1> QED BY <1>1, <1>3 DEF Cur

LEMMA LoopParts ==
  ASSUME NEW t \in Loops
  PROVE  Proc(t) \in Procs /\ Group(t) \in Groups
BY DEF Loops, Proc, Group

LEMMA MaxDeliverType ==
  ASSUME NEW m \in Msgs
  PROVE  MaxDeliver(m) \in Nat \ {0}
BY DeliverAssumption DEF MaxDeliver

LEMMA CapType ==
  ASSUME NEW n \in Nat, NEW max
  PROVE  Cap(n, max) \in Nat
BY DEF Cap

LEMMA RetryDelayType ==
  ASSUME NEW n \in Nat
  PROVE  retryDelay(n) \in Nat
BY TimeAssumption DEF retryDelay

\* The message and the attempt of the entry a loop is at.
LEMMA CurTypes ==
  ASSUME StreamType, LoopType, NEW t \in Loops, batch[t] # {}
  PROVE  /\ Cur(t) \in Idx /\ CurMsg(t) \in Msgs /\ CurAttempt(t) \in Nat
         /\ stream[Cur(t)].msg = CurMsg(t)
<1>1. Cur(t) \in 1 .. Len(stream) /\ Len(stream) \in Nat
  BY CurInBatch, LenProperties DEF StreamType
<1>2. Cur(t) \in Idx
  BY <1>1, BoundAssumption DEF Idx, StreamType
<1>3. stream[Cur(t)] \in Entry
  BY <1>1, ElementOfSeq DEF StreamType
<1> QED BY <1>2, <1>3 DEF CurMsg, CurAttempt, Entry, LoopType

-----------------------------------------------------------------------------
(* The parts of the actions *)

\* A longer stream keeps positions and pending lists well typed.
LEMMA GrowType ==
  ASSUME TypeOK, stream' \in Seq(Entry), Len(stream') \in Len(stream) .. MaxStream,
         trimmed' \in 0 .. Len(stream'), retryq' \in [Groups -> SUBSET Retry],
         UNCHANGED <<last, pel, count, idle, dlq, procs, loops, faults, history>>
  PROVE  TypeOK'
<1>1. Len(stream) \in Nat /\ Len(stream') \in Nat
  BY LenProperties DEF TypeOK, StreamType
<1>2. 0 .. Len(stream) \subseteq 0 .. Len(stream') /\ 1 .. Len(stream) \subseteq 1 .. Len(stream')
  BY <1>1
<1>3. StreamType'
  BY <1>1, <1>2, BoundAssumption DEF TypeOK, StreamType
<1>4. LoopType'
  BY <1>2 DEF TypeOK, LoopType, loops
<1> QED BY <1>3, <1>4 DEF TypeOK, PendingType, RestType, HistoryType, procs, history

LEMMA XAckType ==
  ASSUME StreamType, PendingType, NEW g \in Groups, NEW i \in Idx, XAck(g, i)
  PROVE  PendingType' /\ pel' \in [Groups -> SUBSET (1 .. Len(stream))]
<1>1. count' \in [Groups -> [Idx -> Nat]]
  BY DEF PendingType, XAck
<1>2. idle' \in [Groups -> [Idx -> 0 .. IdleTimeout]]
  BY TimeAssumption DEF PendingType, XAck
<1>3. pel' \in [Groups -> SUBSET (1 .. Len(stream))]
  BY DEF StreamType, XAck
<1> QED BY <1>1, <1>2, <1>3 DEF PendingType

LEMMA FinishType ==
  ASSUME StreamType, LoopType, NEW t \in Loops, batch[t] # {}, FinishEntry(t), UNCHANGED stream
  PROVE  LoopType'
<1>1. Cur(t) \in Idx
  BY CurTypes
<1>2. batch' \in [Loops -> SUBSET (1 .. Len(stream))]
  BY DEF LoopType, FinishEntry
<1>3. attempt' \in [Loops -> [Idx -> Nat]]
  BY <1>1 DEF LoopType, FinishEntry
<1>4. phase' \in [Loops -> {"off", "idle", "handle", "ok", "err", "done"}]
  BY DEF LoopType, FinishEntry
<1>5. \A u \in Loops : phase'[u] \in {"handle", "ok", "err"} <=> batch'[u] # {}
  BY DEF LoopType, FinishEntry
<1> QED BY <1>2, <1>3, <1>4, <1>5 DEF LoopType

LEMMA DeliverType ==
  ASSUME TypeOK, NEW g \in Groups, NEW S \in SUBSET (1 .. Len(stream)), NEW gone, Deliver(g, S, gone)
  PROVE  /\ PendingType' /\ pel' \in [Groups -> SUBSET (1 .. Len(stream))]
         /\ delivered' \in [Groups -> [Msgs -> Nat]]
<1>1. count' \in [Groups -> [Idx -> Nat]]
  <2>1. [i \in Idx |-> IF i \in S THEN count[g][i] + 1 ELSE count[g][i]] \in [Idx -> Nat]
    BY DEF TypeOK, PendingType
  <2> QED BY <2>1 DEF TypeOK, PendingType, Deliver
<1>2. idle' \in [Groups -> [Idx -> 0 .. IdleTimeout]]
  <2>1. [i \in Idx |-> IF i \in S THEN 0 ELSE idle[g][i]] \in [Idx -> 0 .. IdleTimeout]
    BY TimeAssumption DEF TypeOK, PendingType
  <2> QED BY <2>1 DEF TypeOK, PendingType, Deliver
<1>3. pel' \in [Groups -> SUBSET (1 .. Len(stream))]
  BY DEF TypeOK, StreamType, Deliver
<1>4. delivered' \in [Groups -> [Msgs -> Nat]]
  <2>1. [m \in Msgs |-> IF \E i \in S : stream[i].msg = m
                        THEN Cap(delivered[g][m], MaxDeliver(m)) ELSE delivered[g][m]] \in [Msgs -> Nat]
    BY CapType DEF TypeOK, HistoryType
  <2> QED BY <2>1 DEF TypeOK, HistoryType, Deliver, CountDelivery
<1> QED BY <1>1, <1>2, <1>3, <1>4 DEF PendingType

LEMMA ReceiveType ==
  ASSUME TypeOK, NEW t \in Loops, phase[t] = "idle", NEW S \in SUBSET (1 .. Len(stream)),
         NEW A \in [Idx -> Nat], Receive(t, S, A), UNCHANGED stream
  PROVE  LoopType'
<1>1. batch' \in [Loops -> SUBSET (1 .. Len(stream))]
  BY DEF TypeOK, LoopType, Receive
<1>2. attempt' \in [Loops -> [Idx -> Nat]]
  <2>1. [i \in Idx |-> IF i \in S THEN A[i] ELSE 0] \in [Idx -> Nat]
    OBVIOUS
  <2> QED BY <2>1 DEF TypeOK, LoopType, Receive
<1>3. phase' \in [Loops -> {"off", "idle", "handle", "ok", "err", "done"}]
  BY DEF TypeOK, LoopType, Receive
<1>4. \A u \in Loops : phase'[u] \in {"handle", "ok", "err"} <=> batch'[u] # {}
  BY DEF TypeOK, LoopType, Receive
<1> QED BY <1>1, <1>2, <1>3, <1>4 DEF LoopType

LEMMA StoredType ==
  ASSUME TypeOK
  PROVE  Stored \in [Idx -> Nat]
<1>1. \A i \in 1 .. Len(stream) : stream[i] \in Entry
  BY ElementOfSeq DEF TypeOK, StreamType
<1> QED BY <1>1 DEF Stored, Entry

LEMMA FreshType ==
  ASSUME TypeOK, NEW p \in Procs, Fresh(p), faults' \in 0 .. MaxFaults
  PROVE  TypeOK'
<1>1. LoopType'
  <2>1. NoIdx \in [Idx -> Nat]
    BY DEF NoIdx
  <2> QED BY <2>1 DEF TypeOK, LoopType, Fresh, redis
<1>2. RestType'
  BY DEF TypeOK, RestType, Fresh
<1>3. StreamType' /\ PendingType' /\ HistoryType'
  BY DEF TypeOK, StreamType, PendingType, HistoryType, Fresh, redis, history
<1> QED BY <1>1, <1>2, <1>3 DEF TypeOK

LEMMA FaultType ==
  ASSUME RestType
  PROVE  /\ Fault => faults' \in 0 .. MaxFaults
         /\ \A p \in Procs : CallFails(p) => faults' \in 0 .. MaxFaults
BY BoundAssumption DEF RestType, Fault, CallFails

\* What the promotion script appends is a sequence of entries.
LEMMA PromotedSeq ==
  ASSUME StreamType, NEW g \in Groups, NEW n \in Nat, NEW f \in [1 .. n -> DueRetries(g)]
  PROVE  LET new == [i \in 1 .. n |-> [msg |-> f[i].msg, attempt |-> f[i].attempt]]
         IN  new \in Seq(Entry) /\ Len(new) = n
<1> DEFINE new == [i \in 1 .. n |-> [msg |-> f[i].msg, attempt |-> f[i].attempt]]
<1>1. \A i \in 1 .. n : f[i] \in Retry
  BY DEF DueRetries, StreamType
<1>2. new \in [1 .. n -> Entry]
  BY <1>1 DEF Retry, Entry
<1> QED BY <1>2, IsASeq, LenProperties

-----------------------------------------------------------------------------
(* Type correctness *)

LEMMA InitType == Init => TypeOK
<1> SUFFICES ASSUME Init PROVE TypeOK
  OBVIOUS
<1>1. stream \in Seq(Entry) /\ Len(stream) = 0
  BY EmptySeq DEF Init
<1>2. StreamType
  BY <1>1, BoundAssumption DEF Init, StreamType
<1>3. PendingType
  BY TimeAssumption DEF Init, PendingType, NoIdx
<1>4. LoopType
  BY <1>1 DEF Init, LoopType, NoIdx
<1>5. RestType /\ HistoryType
  BY BoundAssumption DEF Init, RestType, HistoryType
<1> QED BY <1>2, <1>3, <1>4, <1>5 DEF TypeOK

\* Settling one entry of a batch keeps the types, whatever the script did to the
\* retries and the dead letters.
LEMMA SettleType ==
  ASSUME TypeOK, NEW t \in Loops, batch[t] # {}, FinishEntry(t), XAck(Group(t), Cur(t)),
         retryq' \in [Groups -> SUBSET Retry], dlq' \subseteq Msgs \X Groups,
         dropped' \in [Groups -> SUBSET Msgs],
         UNCHANGED <<stream, trimmed, last, procs, faults, succeeded, delivered, invoked>>
  PROVE  TypeOK'
<1>1. Group(t) \in Groups /\ Cur(t) \in Idx
  BY LoopParts, CurTypes DEF TypeOK
<1>2. PendingType' /\ pel' \in [Groups -> SUBSET (1 .. Len(stream))]
  BY <1>1, XAckType DEF TypeOK
<1>3. StreamType'
  BY <1>2 DEF TypeOK, StreamType
<1>4. LoopType'
  BY FinishType DEF TypeOK
<1>5. RestType' /\ HistoryType'
  BY DEF TypeOK, RestType, HistoryType, procs
<1> QED BY <1>2, <1>3, <1>4, <1>5 DEF TypeOK

\* The loops of a group exist once Start has begun them.
LoopsBegun == \A t \in Loops : phase[t] = "off" <=> Group(t) \notin live[Proc(t)]

LEMMA BegunStep == TypeOK /\ LoopsBegun /\ [Next]_vars => LoopsBegun'
<1> SUFFICES ASSUME TypeOK, LoopsBegun, [Next]_vars PROVE LoopsBegun'
  OBVIOUS
<1>p. phase \in [Loops -> {"off", "idle", "handle", "ok", "err", "done"}] /\ live \in [Procs -> SUBSET Groups]
  BY DEF TypeOK, LoopType, RestType
<1>1. ASSUME NEW q \in Procs, NEW g \in Groups, StartGroup(q, g) PROVE LoopsBegun'
  <2>1. \A t \in Loops : t \in LoopsOf(q, g) <=> (Proc(t) = q /\ Group(t) = g)
    BY DEF Loops, LoopsOf, Proc, Group
  <2>2. /\ live' = [live EXCEPT ![q] = @ \cup {g}]
        /\ phase' = [t \in Loops |-> IF t \in LoopsOf(q, g) THEN "idle" ELSE phase[t]]
    BY <1>1 DEF StartGroup
  <2>3. \A t \in Loops : Proc(t) \in Procs /\ Group(t) \in Groups
    BY LoopParts
  <2> HIDE DEF Proc, Group, LoopsOf, Loops
  <2> QED BY <1>p, <2>1, <2>2, <2>3 DEF LoopsBegun
<1>2. ASSUME NEW q \in Procs, Fresh(q) PROVE LoopsBegun'
  <2>1. /\ live' = [live EXCEPT ![q] = {}]
        /\ phase' = [t \in Loops |-> IF Proc(t) = q THEN "off" ELSE phase[t]]
    BY <1>2 DEF Fresh
  <2>2. \A t \in Loops : Proc(t) \in Procs
    BY LoopParts
  <2> QED BY <1>p, <2>1, <2>2 DEF LoopsBegun
<1>3. ASSUME NEW t \in Loops, phase[t] # "off", NEW x \in {"idle", "handle", "ok", "err", "done"},
             phase' = [phase EXCEPT ![t] = x], UNCHANGED live
      PROVE  LoopsBegun'
  BY <1>3, <1>p DEF LoopsBegun
<1>4. ASSUME UNCHANGED <<phase, live>> PROVE LoopsBegun'
  BY <1>4 DEF LoopsBegun
<1>5. ASSUME NEW t \in Loops, LoopStep(t) PROVE LoopsBegun'
  <2>1. CASE Take(t)
    BY <1>3, <1>4, <1>p, <2>1 DEF Take, ReadGroup, AutoClaim, Receive, procs, loops
  <2>2. CASE Settle(t)
    <3>1. phase[t] # "off" /\ FinishEntry(t) /\ UNCHANGED live
      BY <2>2
      DEF Settle, DropMalformed, Ack, MoveToDLQ, DropFailed, ScheduleRetry, SettleFails, procs
    <3> QED BY <1>3, <3>1 DEF FinishEntry
  <2>3. CASE LoopExit(t) \/ \E ok \in BOOLEAN : Handle(t, ok)
    BY <1>3, <2>3 DEF LoopExit, Handle, procs
  <2> QED BY <1>5, <2>1, <2>2, <2>3 DEF LoopStep
<1>6. ASSUME NEW q \in Procs, StartFails(q) \/ Cancel(q) PROVE LoopsBegun'
  BY <1>6, <1>4 DEF StartFails, Cancel, loops
<1>7. ASSUME NEW q \in Procs, NEW g \in Groups, PromoteDueRetries(q, g) PROVE LoopsBegun'
  BY <1>7, <1>4 DEF PromoteDueRetries, loops, procs
<1>8. ASSUME NEW m \in Msgs, Publish(m) PROVE LoopsBegun'
  BY <1>8, <1>4 DEF Publish, loops, procs
<1>9. CASE Tick \/ UNCHANGED vars
  BY <1>9, <1>4 DEF Tick, vars, loops, procs
<1> QED
  BY <1>1, <1>2, <1>5, <1>6, <1>7, <1>8, <1>9 DEF Next, ProcStep, Restart, Crash

LEMMA TypeStep == TypeOK /\ LoopsBegun /\ [Next]_vars => TypeOK'
<1> SUFFICES ASSUME TypeOK, LoopsBegun, [Next]_vars PROVE TypeOK'
  OBVIOUS
<1>p. StreamType /\ PendingType /\ LoopType /\ RestType /\ HistoryType
  BY DEF TypeOK
<1>n. Len(stream) \in Nat /\ 1 .. Len(stream) \subseteq Idx
  BY LenProperties, BoundAssumption DEF TypeOK, StreamType, Idx
<1>1. ASSUME NEW m \in Msgs, Publish(m) PROVE TypeOK'
  <2>1. [msg |-> m, attempt |-> 1] \in Entry
    BY DEF Entry
  <2>2. stream' \in Seq(Entry) /\ Len(stream') = Len(stream) + 1
    BY <1>1, <1>p, <2>1, AppendProperties DEF Publish, StreamType
  <2>3. Len(stream') \in Len(stream) .. MaxStream
    BY <1>1, <1>n, <2>2, BoundAssumption DEF Publish
  <2>4. trimmed' \in 0 .. Len(stream')
    BY <1>1, <1>n, <1>p, <2>2, StreamAssumption DEF Publish, Trim, StreamType
  <2>5. retryq' \in [Groups -> SUBSET Retry]
    BY <1>1, <1>p DEF Publish, StreamType
  <2> QED BY <1>1, <2>2, <2>3, <2>4, <2>5, GrowType DEF Publish
<1>2. ASSUME NEW q \in Procs, NEW g \in Groups, StartGroup(q, g) PROVE TypeOK'
  <2>1. LoopType'
    <3>1. \A u \in Loops : u \in LoopsOf(q, g) => phase[u] = "off"
      BY <1>2 DEF StartGroup, LoopsBegun, LoopsOf, Proc, Group
    <3>2. \A u \in Loops : u \in LoopsOf(q, g) => batch[u] = {}
      BY <1>p, <3>1 DEF LoopType
    <3> QED BY <1>2, <1>p, <3>2 DEF StartGroup, LoopType, redis
  <2>2. RestType'
    BY <1>2, <1>p DEF StartGroup, RestType
  <2>3. StreamType' /\ PendingType' /\ HistoryType'
    BY <1>2, <1>p DEF StartGroup, StreamType, PendingType, HistoryType, redis, history
  <2> QED BY <2>1, <2>2, <2>3 DEF TypeOK
<1>3. ASSUME NEW q \in Procs, StartFails(q) \/ Cancel(q) PROVE TypeOK'
  <2>1. faults' \in 0 .. MaxFaults
    BY <1>3, <1>p, FaultType DEF StartFails, Cancel, RestType
  <2>2. RestType'
    BY <1>3, <1>p, <2>1 DEF StartFails, Cancel, RestType
  <2> QED
    BY <1>3, <1>p, <2>2
    DEF StartFails, Cancel, TypeOK, StreamType, PendingType, LoopType, HistoryType, redis, loops, history
<1>4. ASSUME NEW q \in Procs, Crash(q) \/ Restart(q) PROVE TypeOK'
  <2>1. Fresh(q)
    BY <1>4 DEF Crash, Restart
  <2>2. faults' \in 0 .. MaxFaults
    BY <1>4, <1>p, FaultType DEF Crash, Restart, RestType
  <2> QED BY <2>1, <2>2, FreshType
<1>5. ASSUME NEW t \in Loops, LoopExit(t) PROVE TypeOK'
  <2>1. LoopType'
    BY <1>5, <1>p DEF LoopExit, LoopType, redis
  <2> QED
    BY <1>5, <1>p, <2>1
    DEF LoopExit, TypeOK, StreamType, PendingType, RestType, HistoryType, redis, procs, history
<1>6. ASSUME NEW t \in Loops, ReadGroup(t) PROVE TypeOK'
  <2> DEFINE g == Group(t)
             S == NextUnread(g)
  <2>1. g \in Groups /\ S \in SUBSET (1 .. Len(stream))
    BY LoopParts DEF NextUnread, Unread
  <2>2. /\ PendingType' /\ pel' \in [Groups -> SUBSET (1 .. Len(stream))]
        /\ delivered' \in [Groups -> [Msgs -> Nat]]
    BY <1>6, <2>1, DeliverType DEF ReadGroup
  <2>3. last' \in [Groups -> 0 .. Len(stream)]
    <3>1. PICK i \in S : last' = [last EXCEPT ![g] = i]
      BY <1>6 DEF ReadGroup, MovePast
    <3>2. i \in 0 .. Len(stream)
      BY <1>n, <2>1
    <3> QED BY <1>p, <3>1, <3>2 DEF StreamType
  <2>4. StreamType'
    BY <1>6, <1>p, <2>2, <2>3 DEF ReadGroup, StreamType
  <2>5. LoopType'
    <3>1. CASE Receive(t, S, Stored)
      BY <1>6, <2>1, <3>1, StoredType, ReceiveType DEF ReadGroup
    <3>2. CASE UNCHANGED loops
      BY <1>6, <1>p, <3>2 DEF ReadGroup, LoopType, loops
    <3> QED BY <1>6, <3>1, <3>2 DEF ReadGroup
  <2>6. RestType'
    BY <1>6, <1>p, FaultType DEF ReadGroup, RestType, procs
  <2>7. HistoryType'
    BY <1>6, <1>p, <2>2 DEF ReadGroup, HistoryType
  <2> QED BY <2>2, <2>4, <2>5, <2>6, <2>7 DEF TypeOK
<1>7. ASSUME NEW t \in Loops, AutoClaim(t) PROVE TypeOK'
  <2> DEFINE g == Group(t)
  <2>1. PICK S \in SUBSET Claimable(g) :
          /\ Deliver(g, S, IdleLong(g) \ Claimable(g))
          /\ \/ \E X \in SUBSET S : Receive(t, S, Counted(g, X))
             \/ UNCHANGED loops
          /\ UNCHANGED faults \/ Fault
    BY <1>7 DEF AutoClaim
  <2>2. g \in Groups /\ S \in SUBSET (1 .. Len(stream))
    BY <1>p, LoopParts DEF Claimable, IdleLong, StreamType
  <2>3. /\ PendingType' /\ pel' \in [Groups -> SUBSET (1 .. Len(stream))]
        /\ delivered' \in [Groups -> [Msgs -> Nat]]
    BY <2>1, <2>2, DeliverType
  <2>4. StreamType'
    BY <1>7, <1>p, <2>3 DEF AutoClaim, StreamType
  <2>5. LoopType'
    <3>1. count'[g] \in [Idx -> Nat]
      BY <2>2, <2>3 DEF PendingType
    <3>2. ASSUME NEW X \in SUBSET S, Receive(t, S, Counted(g, X)) PROVE LoopType'
      <4>1. Counted(g, X) \in [Idx -> Nat]
        BY <3>1, StoredType DEF Counted
      <4> QED BY <1>7, <2>2, <3>2, <4>1, ReceiveType DEF AutoClaim
    <3>3. CASE UNCHANGED loops
      BY <1>7, <1>p, <3>3 DEF AutoClaim, LoopType, loops
    <3> QED BY <2>1, <3>2, <3>3
  <2>6. RestType'
    BY <1>7, <1>p, <2>1, FaultType DEF AutoClaim, RestType, procs
  <2>7. HistoryType'
    BY <1>7, <1>p, <2>3 DEF AutoClaim, HistoryType
  <2> QED BY <2>3, <2>4, <2>5, <2>6, <2>7 DEF TypeOK
<1>8. ASSUME NEW t \in Loops, NEW ok \in BOOLEAN, Handle(t, ok) PROVE TypeOK'
  <2>1. batch[t] # {} /\ Group(t) \in Groups
    BY <1>8, <1>p, LoopParts DEF Handle, LoopType
  <2>2. CurMsg(t) \in Msgs
    BY <1>p, <2>1, CurTypes
  <2>3. invoked' \in [Groups -> [Msgs -> Nat]]
    <3>1. invoked[Group(t)] \in [Msgs -> Nat]
      BY <1>p, <2>1 DEF HistoryType
    <3>2. Cap(invoked[Group(t)][CurMsg(t)], MaxDeliver(CurMsg(t)) + 1) \in Nat
      BY <2>2, <3>1, CapType
    <3> QED BY <1>8, <1>p, <2>1, <2>2, <3>1, <3>2 DEF Handle, HistoryType
  <2>4. succeeded' \in [Groups -> SUBSET Msgs]
    BY <1>8, <1>p, <2>1, <2>2 DEF Handle, HistoryType
  <2>5. LoopType'
    BY <1>8, <1>p, <2>1 DEF Handle, LoopType, redis
  <2>6. HistoryType'
    BY <1>8, <1>p, <2>3, <2>4 DEF Handle, HistoryType
  <2> QED
    BY <1>8, <1>p, <2>5, <2>6 DEF Handle, TypeOK, StreamType, PendingType, RestType, redis, procs
<1>9. ASSUME NEW t \in Loops,
             DropMalformed(t) \/ Ack(t) \/ MoveToDLQ(t) \/ DropFailed(t) \/ ScheduleRetry(t)
      PROVE  TypeOK'
  <2>1. batch[t] # {} /\ Group(t) \in Groups
    BY <1>9, <1>p, LoopParts DEF DropMalformed, Ack, MoveToDLQ, DropFailed, ScheduleRetry, LoopType
  <2>2. CurMsg(t) \in Msgs /\ CurAttempt(t) \in Nat
    BY <1>p, <2>1, CurTypes
  <2>3. /\ FinishEntry(t) /\ XAck(Group(t), Cur(t))
        /\ UNCHANGED <<stream, trimmed, last, procs, faults, succeeded, delivered, invoked>>
    BY <1>9 DEF DropMalformed, Ack, MoveToDLQ, DropFailed, ScheduleRetry, history
  <2>4. dlq' \subseteq Msgs \X Groups
    BY <1>9, <1>p, <2>1, <2>2
    DEF DropMalformed, Ack, MoveToDLQ, DropFailed, ScheduleRetry, StreamType
  <2>5. dropped' \in [Groups -> SUBSET Msgs]
    BY <1>9, <1>p, <2>1, <2>2
    DEF DropMalformed, Ack, MoveToDLQ, DropFailed, ScheduleRetry, HistoryType, history
  <2>6. retryq' \in [Groups -> SUBSET Retry]
    <3>1. CASE ScheduleRetry(t)
      <4>1. retryDelay(CurAttempt(t) + 1) \in Nat
        BY <2>2, RetryDelayType
      <4>2. [msg |-> CurMsg(t), attempt |-> CurAttempt(t) + 1,
             wait |-> retryDelay(CurAttempt(t) + 1)] \in Retry
        BY <2>2, <4>1 DEF Retry
      <4> QED BY <1>p, <2>1, <3>1, <4>2 DEF ScheduleRetry, ZAdd, StreamType
    <3>2. CASE ~ScheduleRetry(t)
      BY <1>9, <1>p, <3>2 DEF DropMalformed, Ack, MoveToDLQ, DropFailed, StreamType
    <3> QED BY <3>1, <3>2
  <2> QED BY <2>1, <2>3, <2>4, <2>5, <2>6, SettleType
<1>10. ASSUME NEW t \in Loops, SettleFails(t) PROVE TypeOK'
  <2>1. batch[t] # {} /\ Proc(t) \in Procs /\ UNCHANGED stream
    BY <1>10, <1>p, LoopParts DEF SettleFails, LoopType, redis
  <2>2. LoopType'
    BY <1>10, <1>p, <2>1, FinishType DEF SettleFails
  <2>3. RestType'
    BY <1>10, <1>p, <2>1, FaultType DEF SettleFails, RestType, procs
  <2> QED
    BY <1>10, <1>p, <2>2, <2>3
    DEF SettleFails, TypeOK, StreamType, PendingType, HistoryType, redis, history
<1>11. ASSUME NEW q \in Procs, NEW g \in Groups, PromoteDueRetries(q, g) PROVE TypeOK'
  <2>1. PICK n \in 1 .. ReadCount : \E f \in [1 .. n -> DueRetries(g)] :
          /\ Len(stream) + n <= MaxStream
          /\ stream' = stream \o [i \in 1 .. n |-> [msg |-> f[i].msg, attempt |-> f[i].attempt]]
          /\ retryq' = [retryq EXCEPT ![g] = @ \ {f[i] : i \in 1 .. n}]
    BY <1>11 DEF PromoteDueRetries, Promote
  <2>2. PICK f \in [1 .. n -> DueRetries(g)] :
          /\ Len(stream) + n <= MaxStream
          /\ stream' = stream \o [i \in 1 .. n |-> [msg |-> f[i].msg, attempt |-> f[i].attempt]]
          /\ retryq' = [retryq EXCEPT ![g] = @ \ {f[i] : i \in 1 .. n}]
    BY <2>1
  <2> DEFINE new == [i \in 1 .. n |-> [msg |-> f[i].msg, attempt |-> f[i].attempt]]
  <2>3. n \in Nat
    BY StreamAssumption
  <2>4. new \in Seq(Entry) /\ Len(new) = n
    BY <1>p, <2>3, PromotedSeq
  <2>5. stream' \in Seq(Entry) /\ Len(stream') = Len(stream) + n
    <3> HIDE DEF new
    <3> QED BY <1>p, <2>2, <2>4, ConcatProperties DEF StreamType, new
  <2>6. Len(stream') \in Len(stream) .. MaxStream
    BY <1>n, <2>2, <2>3, <2>5, BoundAssumption
  <2>7. trimmed' \in 0 .. Len(stream')
    BY <1>11, <1>n, <1>p, <2>3, <2>5 DEF PromoteDueRetries, Promote, StreamType
  <2>8. retryq' \in [Groups -> SUBSET Retry]
    BY <1>p, <2>2 DEF StreamType
  <2> QED BY <1>11, <2>5, <2>6, <2>7, <2>8, GrowType DEF PromoteDueRetries
<1>12. CASE Tick
  <2>1. idle' \in [Groups -> [Idx -> 0 .. IdleTimeout]]
    BY <1>12, <1>p, TimeAssumption DEF Tick, PendingType
  <2>2. retryq' \in [Groups -> SUBSET Retry]
    BY <1>12, <1>p DEF Tick, StreamType, Retry
  <2> QED
    BY <1>12, <1>p, <2>1, <2>2
    DEF Tick, TypeOK, StreamType, PendingType, LoopType, RestType, HistoryType, procs, loops, history
<1>13. CASE UNCHANGED vars
  BY <1>13, <1>p
  DEF vars, TypeOK, StreamType, PendingType, LoopType, RestType, HistoryType, redis, procs, loops, history
<1> QED
  BY <1>1, <1>2, <1>3, <1>4, <1>5, <1>6, <1>7, <1>8, <1>9, <1>10, <1>11, <1>12, <1>13
  DEF Next, LoopStep, Take, Settle, ProcStep

\* Every reachable state is well typed.
THEOREM TypeCorrect == Spec => []TypeOK
<1>1. Init => LoopsBegun
  BY LoopParts DEF Init, LoopsBegun
<1> QED BY <1>1, InitType, TypeStep, BegunStep, PTL DEF Spec

-----------------------------------------------------------------------------
(* Only trimming loses a message *)

\* The handler of an entry about to be acknowledged has accepted its message.
OkAccepted == \A t \in Loops : phase[t] = "ok" => CurMsg(t) \in succeeded[Group(t)]

NothingTrimmed == trimmed = 0

\* What a step never undoes: the stream grows at its end, and a group that is
\* done with a message stays done with it.
Grows ==
  /\ \A i \in 1 .. Len(stream) : i \in 1 .. Len(stream') /\ stream'[i] = stream[i]
  /\ dlq \subseteq dlq'
  /\ \A g \in Groups : succeeded[g] \subseteq succeeded'[g] /\ dropped[g] \subseteq dropped'[g]

LEMMA StreamGrows == TypeOK /\ [Next]_vars => Grows
<1> SUFFICES ASSUME TypeOK, [Next]_vars PROVE Grows
  OBVIOUS
<1>p. stream \in Seq(Entry) /\ Len(stream) \in Nat
  BY LenProperties DEF TypeOK, StreamType
<1>h. succeeded \in [Groups -> SUBSET Msgs] /\ dropped \in [Groups -> SUBSET Msgs]
  BY DEF TypeOK, HistoryType
<1>1. ASSUME NEW m \in Msgs, Publish(m) PROVE Grows
  <2>1. [msg |-> m, attempt |-> 1] \in Entry
    BY DEF Entry
  <2>2. \A i \in 1 .. Len(stream) : i \in 1 .. Len(stream') /\ stream'[i] = stream[i]
    BY <1>1, <1>p, <2>1, AppendProperties DEF Publish
  <2> QED BY <1>1, <2>2 DEF Grows, Publish, history
<1>2. ASSUME NEW q \in Procs, NEW g \in Groups, PromoteDueRetries(q, g) PROVE Grows
  <2>1. PICK n \in 1 .. ReadCount : \E f \in [1 .. n -> DueRetries(g)] :
          stream' = stream \o [i \in 1 .. n |-> [msg |-> f[i].msg, attempt |-> f[i].attempt]]
    BY <1>2 DEF PromoteDueRetries, Promote
  <2>2. PICK f \in [1 .. n -> DueRetries(g)] :
          stream' = stream \o [i \in 1 .. n |-> [msg |-> f[i].msg, attempt |-> f[i].attempt]]
    BY <2>1
  <2>3. [i \in 1 .. n |-> [msg |-> f[i].msg, attempt |-> f[i].attempt]] \in Seq(Entry)
    BY PromotedSeq, StreamAssumption DEF TypeOK
  <2>4. \A i \in 1 .. Len(stream) : i \in 1 .. Len(stream') /\ stream'[i] = stream[i]
    BY <1>p, <2>2, <2>3, ConcatProperties, LenProperties
  <2> QED BY <1>2, <2>4 DEF Grows, PromoteDueRetries, history
<1>3. ASSUME UNCHANGED <<stream, dlq, history>> PROVE Grows
  BY <1>3 DEF Grows, history
<1>4. ASSUME NEW t \in Loops, LoopStep(t) PROVE Grows
  <2>1. UNCHANGED stream
    BY <1>4
    DEF LoopStep, Take, Settle, ReadGroup, AutoClaim, DropMalformed, Ack, MoveToDLQ, DropFailed,
        ScheduleRetry, SettleFails, LoopExit, Handle, redis
  <2>2. dlq \subseteq dlq'
    BY <1>4
    DEF LoopStep, Take, Settle, ReadGroup, AutoClaim, DropMalformed, Ack, MoveToDLQ, DropFailed,
        ScheduleRetry, SettleFails, LoopExit, Handle, redis
  <2>3. \A g \in Groups : succeeded[g] \subseteq succeeded'[g]
    BY <1>4, <1>h
    DEF LoopStep, Take, Settle, ReadGroup, AutoClaim, DropMalformed, Ack, MoveToDLQ, DropFailed,
        ScheduleRetry, SettleFails, LoopExit, Handle, history
  <2>4. \A g \in Groups : dropped[g] \subseteq dropped'[g]
    BY <1>4, <1>h
    DEF LoopStep, Take, Settle, ReadGroup, AutoClaim, DropMalformed, Ack, MoveToDLQ, DropFailed,
        ScheduleRetry, SettleFails, LoopExit, Handle, history
  <2> QED BY <2>1, <2>2, <2>3, <2>4 DEF Grows
<1>5. ASSUME NEW q \in Procs, NEW g \in Groups, StartGroup(q, g) PROVE Grows
  BY <1>5, <1>3 DEF StartGroup, redis
<1>6. ASSUME NEW q \in Procs, Restart(q) \/ StartFails(q) \/ Cancel(q) \/ Crash(q) PROVE Grows
  BY <1>6, <1>3 DEF Restart, Crash, Fresh, StartFails, Cancel, redis
<1>7. CASE Tick \/ UNCHANGED vars
  BY <1>7, <1>3 DEF Tick, vars, redis
<1> QED BY <1>1, <1>2, <1>4, <1>5, <1>6, <1>7 DEF Next, ProcStep

\* Only a publication trims, and what is trimmed stays trimmed.
LEMMA TrimGrows ==
  TypeOK /\ [Next]_vars => trimmed' = trimmed \/ \E m \in Msgs : Publish(m) /\ trimmed' >= trimmed
<1> SUFFICES ASSUME TypeOK, [Next]_vars
             PROVE  trimmed' = trimmed \/ \E m \in Msgs : Publish(m) /\ trimmed' >= trimmed
  OBVIOUS
<1>1. ASSUME NEW m \in Msgs, Publish(m) PROVE trimmed' >= trimmed
  <2>1. trimmed \in Nat /\ Len(stream) \in Nat
    BY LenProperties DEF TypeOK, StreamType
  <2>2. \A t \in Trim(Len(stream) + 1) : t >= trimmed
    BY <2>1, StreamAssumption DEF Trim
  <2> QED BY <1>1, <2>2 DEF Publish
<1>2. ASSUME NEW t \in Loops, LoopStep(t) PROVE UNCHANGED trimmed
  BY <1>2
  DEF LoopStep, Take, Settle, ReadGroup, AutoClaim, DropMalformed, Ack, MoveToDLQ, DropFailed,
      ScheduleRetry, SettleFails, LoopExit, Handle, redis
<1>3. ASSUME NEW q \in Procs, ProcStep(q) \/ StartFails(q) \/ Cancel(q) \/ Crash(q)
                                \/ \E g \in Groups : PromoteDueRetries(q, g)
      PROVE UNCHANGED trimmed
  BY <1>3
  DEF ProcStep, Restart, Crash, Fresh, StartGroup, StartFails, Cancel, PromoteDueRetries, redis
<1>4. CASE Tick \/ UNCHANGED vars
  BY <1>4 DEF Tick, vars, redis
<1> QED BY <1>1, <1>2, <1>3, <1>4 DEF Next

LEMMA TrimStep ==
  ASSUME MaxLen = 0 PROVE TypeOK /\ NothingTrimmed /\ [Next]_vars => NothingTrimmed'
<1> SUFFICES ASSUME TypeOK, NothingTrimmed, [Next]_vars PROVE trimmed' = 0
  BY DEF NothingTrimmed
<1>1. ASSUME NEW m \in Msgs, Publish(m) PROVE trimmed' = 0
  BY <1>1 DEF Publish, Trim, NothingTrimmed
<1> QED BY <1>1, TrimGrows DEF NothingTrimmed

LEMMA OkStep == TypeOK /\ OkAccepted /\ [Next]_vars => OkAccepted'
<1> SUFFICES ASSUME TypeOK, OkAccepted, [Next]_vars,
                    NEW u \in Loops, phase'[u] = "ok"
             PROVE  CurMsg(u)' \in succeeded'[Group(u)]
  BY DEF OkAccepted
<1>t. StreamType /\ LoopType
  BY DEF TypeOK
<1>p. phase \in [Loops -> {"off", "idle", "handle", "ok", "err", "done"}] /\ batch \in [Loops -> SUBSET (1 .. Len(stream))]
  BY <1>t DEF LoopType
<1>g. Group(u) \in Groups
  BY LoopParts
<1>1. CASE phase[u] = "ok" /\ batch'[u] = batch[u]
  <2>1. batch[u] # {}
    BY <1>1, <1>t DEF LoopType
  <2>2. Cur(u)' = Cur(u)
    BY <1>1 DEF Cur
  <2>3. Cur(u) \in 1 .. Len(stream)
    BY <1>t, <2>1, CurInBatch
  <2>4. CurMsg(u)' = CurMsg(u)
    BY <2>2, <2>3, StreamGrows DEF CurMsg, Grows
  <2> QED BY <1>1, <1>g, <2>4, StreamGrows DEF OkAccepted, Grows
<1>2. ASSUME NEW t \in Loops, LoopStep(t) PROVE CurMsg(u)' \in succeeded'[Group(u)]
  <2>1. CASE Take(t)
    BY <1>1, <1>p, <2>1 DEF Take, ReadGroup, AutoClaim, Receive, loops
  <2>2. CASE Settle(t)
    <3>1. FinishEntry(t)
      BY <2>2
      DEF Settle, DropMalformed, Ack, MoveToDLQ, DropFailed, ScheduleRetry, SettleFails
    <3> QED BY <1>1, <1>p, <3>1 DEF FinishEntry
  <2>3. CASE LoopExit(t)
    BY <1>1, <1>p, <2>3 DEF LoopExit
  <2>4. ASSUME NEW ok \in BOOLEAN, Handle(t, ok) PROVE CurMsg(u)' \in succeeded'[Group(u)]
    <3>1. CASE u # t
      BY <1>1, <1>p, <2>4, <3>1 DEF Handle
    <3>2. CASE u = t
      <4>1. ok
        BY <1>p, <2>4, <3>2 DEF Handle
      <4>2. CurMsg(u)' = CurMsg(u)
        BY <2>4 DEF Handle, CurMsg, Cur, redis
      <4>3. succeeded \in [Groups -> SUBSET Msgs]
        BY DEF TypeOK, HistoryType
      <4> QED BY <1>g, <2>4, <3>2, <4>1, <4>2, <4>3 DEF Handle
    <3> QED BY <3>1, <3>2
  <2> QED BY <1>2, <2>1, <2>2, <2>3, <2>4 DEF LoopStep
<1>3. ASSUME NEW q \in Procs, NEW g \in Groups, StartGroup(q, g)
      PROVE  CurMsg(u)' \in succeeded'[Group(u)]
  BY <1>1, <1>3, <1>p DEF StartGroup
<1>4. ASSUME NEW q \in Procs, Restart(q) \/ StartFails(q) \/ Cancel(q) \/ Crash(q)
      PROVE  CurMsg(u)' \in succeeded'[Group(u)]
  BY <1>1, <1>4, <1>p DEF Restart, Crash, Fresh, StartFails, Cancel, loops
<1>5. ASSUME NEW q \in Procs, NEW g \in Groups, PromoteDueRetries(q, g)
      PROVE  CurMsg(u)' \in succeeded'[Group(u)]
  BY <1>1, <1>5 DEF PromoteDueRetries, loops
<1>6. ASSUME NEW m \in Msgs, Publish(m) PROVE CurMsg(u)' \in succeeded'[Group(u)]
  BY <1>1, <1>6 DEF Publish, loops
<1>7. CASE Tick \/ UNCHANGED vars
  BY <1>1, <1>7 DEF Tick, vars, loops
<1> QED BY <1>2, <1>3, <1>4, <1>5, <1>6, <1>7 DEF Next, ProcStep

\* XREADGROUP leaves no gap: what it does not return lies past what it returns.
LEMMA ReadLeavesNoGap ==
  ASSUME TypeOK, NEW g \in Groups, NEW k \in NextUnread(g), NEW i \in Unread(g), i <= k
  PROVE  i \in NextUnread(g)
<1>1. Len(stream) \in Nat
  BY LenProperties DEF TypeOK, StreamType
<1>2. Unread(g) \subseteq 1 .. Len(stream)
  BY DEF Unread
<1>3. IsFiniteSet(1 .. Len(stream))
  BY <1>1, FS_Interval
<1> DEFINE B(x) == {j \in Unread(g) : j < x}
<1>4. B(i) \subseteq B(k) /\ IsFiniteSet(B(k))
  <2>1. B(i) \subseteq B(k)
    BY <1>1, <1>2 DEF NextUnread
  <2>2. B(k) \subseteq 1 .. Len(stream)
    BY <1>2
  <2> QED BY <1>3, <2>1, <2>2, FS_Subset
<1>5. /\ Cardinality(B(i)) <= Cardinality(B(k)) /\ Cardinality(B(i)) \in Nat
      /\ Cardinality(B(k)) \in Nat
  <2> HIDE DEF B
  <2> QED BY <1>4, FS_Subset, FS_CardinalityType
<1>6. Cardinality(B(k)) < ReadCount
  BY DEF NextUnread
<1>7. Cardinality(B(i)) < ReadCount
  <2> HIDE DEF B
  <2> QED BY <1>5, <1>6, StreamAssumption
<1> QED BY <1>7 DEF NextUnread

\* A message stays kept in a step that leaves its entries and its retries alone.
LEMMA KeptStays ==
  ASSUME NEW m \in Msgs, NEW g \in Groups, Kept(g, m), Grows, last' = last,
         \A i \in 1 .. Len(stream) : stream[i].msg = m => i > trimmed',
         \A i \in 1 .. Len(stream) : stream[i].msg = m /\ i \in pel[g] => i \in pel'[g],
         \A r \in retryq[g] : \E s \in retryq'[g] : s.msg = r.msg
  PROVE  Kept(g, m)'
<1>1. CASE \E r \in retryq[g] : r.msg = m
  BY <1>1 DEF Kept
<1>2. ASSUME NEW i \in 1 .. Len(stream), stream[i].msg = m, i > trimmed, i > last[g] \/ i \in pel[g]
      PROVE  Kept(g, m)'
  <2>1. i \in 1 .. Len(stream') /\ stream'[i].msg = m
    BY <1>2 DEF Grows
  <2> QED BY <1>2, <2>1 DEF Kept
<1> QED BY <1>1, <1>2 DEF Kept

\* ZADD leaves a retry of every message that had one, and one of the message.
LEMMA ZAddKeeps ==
  ASSUME NEW h \in Groups, NEW x, NEW n, NEW d, ZAdd(h, x, n, d),
         retryq \in [Groups -> SUBSET Retry]
  PROVE  /\ \E s \in retryq'[h] : s.msg = x
         /\ \A g \in Groups : \A r \in retryq[g] : \E s \in retryq'[g] : s.msg = r.msg
<1> DEFINE w == [msg |-> x, attempt |-> n, wait |-> d]
<1>1. w.msg = x
  OBVIOUS
<1>2. retryq' = [retryq EXCEPT ![h] = {r \in retryq[h] : ~(r.msg = x /\ r.attempt = n)} \cup {w}]
  BY DEF ZAdd
<1> HIDE DEF w
<1>3. w \in retryq'[h]
  BY <1>2
<1>4. ASSUME NEW g \in Groups, NEW r \in retryq[g] PROVE \E s \in retryq'[g] : s.msg = r.msg
  <2>1. CASE r \in retryq'[g]
    BY <2>1
  <2>2. CASE r \notin retryq'[g]
    <3>1. g = h /\ r.msg = x
      BY <1>2, <2>2
    <3> QED BY <1>1, <1>3, <3>1
  <2> QED BY <2>1, <2>2
<1> QED BY <1>1, <1>3, <1>4

LEMMA LossStep ==
  TypeOK /\ TypeOK' /\ OkAccepted /\ LossOnlyByTrim /\ [Next]_vars => LossOnlyByTrim'
<1> SUFFICES ASSUME TypeOK, TypeOK', OkAccepted, LossOnlyByTrim, [Next]_vars,
                    NEW m \in Msgs, NEW g \in Groups, Published(m)',
                    \A i \in 1 .. trimmed' : stream'[i].msg # m
             PROVE  Kept(g, m)' \/ Settled(g, m)'
  BY DEF LossOnlyByTrim
<1>g. Grows
  BY StreamGrows
<1>n. /\ stream \in Seq(Entry) /\ Len(stream) \in Nat
      /\ last \in [Groups -> 0 .. Len(stream)]
      /\ pel \in [Groups -> SUBSET (1 .. Len(stream))]
      /\ retryq \in [Groups -> SUBSET Retry]
  BY LenProperties DEF TypeOK, StreamType
<1>s. Settled(g, m) => Settled(g, m)'
  BY <1>g DEF Settled, Grows
\* None of the entries of m is trimmed, before the step or after it.
<1>y. \A i \in 1 .. Len(stream') : stream'[i].msg = m => i > trimmed'
  <2>1. Len(stream') \in Nat /\ trimmed' \in Nat
    BY LenProperties DEF TypeOK, StreamType
  <2> QED BY <2>1
<1>z. \A i \in 1 .. Len(stream) : stream[i].msg = m => i > trimmed' /\ i > trimmed
  <2>1. trimmed \in 0 .. Len(stream) /\ trimmed' \in Nat /\ trimmed' >= trimmed
    BY TrimGrows DEF TypeOK, StreamType
  <2>2. PICK k \in Nat : k = trimmed'
    BY <2>1
  <2> QED BY <1>g, <1>n, <1>y, <2>1, <2>2 DEF Grows
<1>o. Published(m) => Kept(g, m) \/ Settled(g, m)
  <2>1. trimmed \in 0 .. Len(stream)
    BY DEF TypeOK, StreamType
  <2>2. \A i \in 1 .. trimmed : stream[i].msg # m
    BY <1>n, <1>z, <2>1
  <2> QED BY <2>2 DEF LossOnlyByTrim
\* An entry past the old end is unread by every group.
<1>e. ASSUME NEW i \in 1 .. Len(stream'), i > Len(stream), stream'[i].msg = m, last' = last
      PROVE  Kept(g, m)'
  <2>1. last[g] <= Len(stream) /\ last[g] \in Nat /\ i \in Nat /\ i > 0
    BY <1>n
  <2> QED BY <1>e, <1>y, <1>n, <2>1 DEF Kept
<1>1. ASSUME NEW x \in Msgs, Publish(x) PROVE Kept(g, m)' \/ Settled(g, m)'
  <2>1. /\ Len(stream') = Len(stream) + 1 /\ stream'[Len(stream) + 1].msg = x
    <3>1. [msg |-> x, attempt |-> 1] \in Entry
      BY DEF Entry
    <3> QED BY <1>1, <1>n, <3>1, AppendProperties DEF Publish
  <2>2. last' = last /\ pel' = pel /\ retryq' = retryq
    BY <1>1 DEF Publish
  <2>3. CASE m = x
    <3>1. Len(stream) + 1 \in 1 .. Len(stream') /\ Len(stream) + 1 > Len(stream)
      BY <1>n, <2>1
    <3> QED BY <1>e, <2>1, <2>2, <2>3, <3>1
  <2>4. CASE m # x
    <3>1. Published(m)
      BY <1>g, <1>n, <2>1, <2>4 DEF Published, Grows
    <3> QED BY <1>g, <1>n, <1>o, <1>s, <1>z, <2>2, <3>1, KeptStays
  <2> QED BY <2>3, <2>4
<1>2. ASSUME UNCHANGED <<stream, trimmed, last, pel>>,
             \A r \in retryq[g] : \E s \in retryq'[g] : s.msg = r.msg
      PROVE  Kept(g, m)' \/ Settled(g, m)'
  <2>1. Published(m)
    BY <1>2 DEF Published
  <2> QED BY <1>2, <1>g, <1>o, <1>s, <1>z, <2>1, KeptStays
<1>3. ASSUME NEW t \in Loops, ReadGroup(t) PROVE Kept(g, m)' \/ Settled(g, m)'
  <2> DEFINE h == Group(t)
             S == NextUnread(h)
  <2>1. h \in Groups /\ Published(m) /\ retryq' = retryq /\ stream' = stream
    BY <1>3, LoopParts DEF ReadGroup, Published
  <2>2. PICK k \in S : (\A j \in S : j <= k) /\ last' = [last EXCEPT ![h] = k]
    BY <1>3 DEF ReadGroup, MovePast
  <2>3. pel' = [pel EXCEPT ![h] = (@ \ {}) \cup S]
    BY <1>3 DEF ReadGroup, Deliver
  <2>4. ASSUME NEW i \in 1 .. Len(stream), stream[i].msg = m, i > last[g] \/ i \in pel[g]
        PROVE  i > last'[g] \/ i \in pel'[g]
    <3>1. CASE i \in pel[g] \/ g # h
      BY <1>n, <2>1, <2>2, <2>3, <2>4, <3>1
    <3>2. CASE g = h /\ i > last[g]
      <4>1. i \in Unread(h)
        BY <1>n, <1>z, <2>4, <3>2 DEF Unread
      <4>2. k \in Nat /\ i \in Nat
        BY <1>n DEF NextUnread, Unread
      <4>3. CASE i <= k
        <5>1. i \in S
          BY <2>1, <4>1, <4>3, ReadLeavesNoGap
        <5> QED BY <1>n, <2>1, <2>3, <3>2, <5>1
      <4>4. CASE i > k
        BY <1>n, <2>1, <2>2, <3>2, <4>4
      <4> QED BY <4>2, <4>3, <4>4
    <3> QED BY <2>4, <3>1, <3>2
  <2>5. Kept(g, m) => Kept(g, m)'
    BY <1>z, <2>1, <2>4 DEF Kept
  <2> QED BY <1>o, <1>s, <2>1, <2>5
<1>4. ASSUME NEW t \in Loops, AutoClaim(t) PROVE Kept(g, m)' \/ Settled(g, m)'
  <2> DEFINE h == Group(t)
             gone == IdleLong(h) \ Claimable(h)
  <2>1. PICK S \in SUBSET Claimable(h) : pel' = [pel EXCEPT ![h] = (@ \ gone) \cup S]
    BY <1>4 DEF AutoClaim, Deliver
  <2>2. UNCHANGED <<stream, trimmed, last, retryq>> /\ h \in Groups
    BY <1>4, LoopParts DEF AutoClaim
  \* What XAUTOCLAIM forgets is trimmed, and so not of m.
  <2>3. \A i \in 1 .. Len(stream) : stream[i].msg = m => i \notin gone
    BY <1>z DEF Claimable
  <2>4. \A i \in 1 .. Len(stream) : stream[i].msg = m /\ i \in pel[g] => i \in pel'[g]
    <3> HIDE DEF gone, h
    <3> QED BY <1>n, <2>1, <2>2, <2>3
  <2>5. Published(m)
    BY <2>2 DEF Published
  <2> QED BY <1>g, <1>o, <1>s, <1>z, <2>2, <2>4, <2>5, KeptStays
<1>5. ASSUME NEW t \in Loops,
             DropMalformed(t) \/ Ack(t) \/ MoveToDLQ(t) \/ DropFailed(t) \/ ScheduleRetry(t)
      PROVE  Kept(g, m)' \/ Settled(g, m)'
  <2>1. /\ batch[t] # {} /\ Group(t) \in Groups
        /\ XAck(Group(t), Cur(t)) /\ UNCHANGED <<stream, trimmed, last>>
    BY <1>5, LoopParts
    DEF DropMalformed, Ack, MoveToDLQ, DropFailed, ScheduleRetry, TypeOK, LoopType
  <2>2. CurMsg(t) \in Msgs /\ stream[Cur(t)].msg = CurMsg(t) /\ CurAttempt(t) \in Nat
    BY <2>1, CurTypes DEF TypeOK
  <2>3. \A r \in retryq[g] : \E s \in retryq'[g] : s.msg = r.msg
    <3>1. CASE ScheduleRetry(t)
      BY <1>n, <2>1, <3>1, ZAddKeeps DEF ScheduleRetry
    <3>2. CASE ~ScheduleRetry(t)
      BY <1>5, <3>2 DEF DropMalformed, Ack, MoveToDLQ, DropFailed
    <3> QED BY <3>1, <3>2
  <2>4. Published(m)
    BY <2>1 DEF Published
  <2>5. CASE g = Group(t) /\ m = CurMsg(t)
    <3>1. CASE ScheduleRetry(t)
      <4>1. \E s \in retryq'[g] : s.msg = m
        BY <1>n, <2>1, <2>5, <3>1, ZAddKeeps DEF ScheduleRetry
      <4> QED BY <4>1 DEF Kept
    <3>2. CASE Ack(t)
      BY <2>5, <3>2, <1>s DEF Ack, OkAccepted, Settled
    <3>3. CASE MoveToDLQ(t)
      BY <2>5, <3>3 DEF MoveToDLQ, Settled
    <3>4. CASE DropMalformed(t) \/ DropFailed(t)
      <4>1. dropped \in [Groups -> SUBSET Msgs]
        BY DEF TypeOK, HistoryType
      <4> QED BY <2>1, <2>5, <3>4, <4>1 DEF DropMalformed, DropFailed, Settled
    <3> QED BY <1>5, <3>1, <3>2, <3>3, <3>4
  <2>6. CASE ~(g = Group(t) /\ m = CurMsg(t))
    <3>1. pel' = [pel EXCEPT ![Group(t)] = @ \ {Cur(t)}]
      BY <2>1 DEF XAck
    <3>2. \A i \in 1 .. Len(stream) : stream[i].msg = m /\ i \in pel[g] => i \in pel'[g]
      BY <1>n, <2>1, <2>2, <2>6, <3>1
    <3>3. Kept(g, m) => Kept(g, m)'
      BY <2>1, <2>3, <3>2 DEF Kept
    <3> QED BY <1>o, <1>s, <2>4, <3>3
  <2> QED BY <2>5, <2>6
<1>6. ASSUME NEW q \in Procs, NEW h \in Groups, PromoteDueRetries(q, h)
      PROVE  Kept(g, m)' \/ Settled(g, m)'
  <2>1. PICK n \in 1 .. ReadCount : \E f \in [1 .. n -> DueRetries(h)] :
          /\ stream' = stream \o [i \in 1 .. n |-> [msg |-> f[i].msg, attempt |-> f[i].attempt]]
          /\ retryq' = [retryq EXCEPT ![h] = @ \ {f[i] : i \in 1 .. n}]
    BY <1>6 DEF PromoteDueRetries, Promote
  <2>2. PICK f \in [1 .. n -> DueRetries(h)] :
          /\ stream' = stream \o [i \in 1 .. n |-> [msg |-> f[i].msg, attempt |-> f[i].attempt]]
          /\ retryq' = [retryq EXCEPT ![h] = @ \ {f[i] : i \in 1 .. n}]
    BY <2>1
  <2>3. last' = last /\ pel' = pel /\ n \in Nat
    BY <1>6, StreamAssumption DEF PromoteDueRetries, Promote
  <2> DEFINE new == [i \in 1 .. n |-> [msg |-> f[i].msg, attempt |-> f[i].attempt]]
  <2>4. new \in Seq(Entry) /\ Len(new) = n
    BY <2>3, PromotedSeq DEF TypeOK
  <2>5. /\ Len(stream') = Len(stream) + n
        /\ \A i \in 1 .. n : stream'[Len(stream) + i] = new[i]
    <3>1. stream' = stream \o new
      BY <2>2
    <3> HIDE DEF new
    <3>2. /\ Len(stream \o new) = Len(stream) + Len(new)
          /\ \A j \in 1 .. Len(stream) + Len(new) :
               (stream \o new)[j] = IF j <= Len(stream) THEN stream[j] ELSE new[j - Len(stream)]
      BY <1>n, <2>4, ConcatProperties
    <3> QED BY <1>n, <2>3, <2>4, <3>1, <3>2
  <2>6. ASSUME NEW i \in 1 .. n, f[i].msg = m PROVE Kept(g, m)'
    <3>1. stream'[Len(stream) + i].msg = m
      <4>1. stream'[Len(stream) + i] = [msg |-> f[i].msg, attempt |-> f[i].attempt]
        BY <2>5
      <4> QED BY <2>6, <4>1
    <3>2. Len(stream) + i \in 1 .. Len(stream') /\ Len(stream) + i > Len(stream)
      BY <1>n, <2>3, <2>5
    <3> QED BY <1>e, <2>3, <3>1, <3>2
  <2>7. CASE \A i \in 1 .. n : f[i].msg # m
    <3>1. Published(m)
      <4>1. PICK j \in 1 .. Len(stream') : stream'[j].msg = m
        BY DEF Published
      <4>2. CASE j > Len(stream)
        <5>1. j - Len(stream) \in 1 .. n /\ Len(stream) + (j - Len(stream)) = j
          BY <1>n, <2>3, <2>5, <4>2
        <5>2. stream'[j] = new[j - Len(stream)]
          BY <2>5, <5>1
        <5> QED BY <2>7, <4>1, <5>1, <5>2
      <4>3. CASE j <= Len(stream)
        BY <1>g, <1>n, <4>1, <4>3 DEF Published, Grows
      <4> QED BY <1>n, <2>3, <2>5, <4>2, <4>3
    <3>2. (\E r \in retryq[g] : r.msg = m) => (\E r \in retryq'[g] : r.msg = m)
      BY <1>n, <2>2, <2>7
    <3>3. ASSUME NEW i \in 1 .. Len(stream), stream[i].msg = m, i > trimmed, i > last[g] \/ i \in pel[g]
          PROVE  Kept(g, m)'
      <4>1. i \in 1 .. Len(stream') /\ stream'[i].msg = m
        BY <1>g, <3>3 DEF Grows
      <4> QED BY <1>z, <2>3, <3>3, <4>1 DEF Kept
    <3>4. Kept(g, m) => Kept(g, m)'
      BY <3>2, <3>3 DEF Kept
    <3> QED BY <1>o, <1>s, <3>1, <3>4
  <2> QED BY <2>6, <2>7
<1>7. CASE Tick
  <2>1. ASSUME NEW r \in retryq[g] PROVE \E s \in retryq'[g] : s.msg = r.msg
    <3> DEFINE w == [msg |-> r.msg, attempt |-> r.attempt, wait |-> IF r.wait > 0 THEN r.wait - 1 ELSE 0]
    <3>1. w \in retryq'[g]
      BY <1>7 DEF Tick
    <3>2. w.msg = r.msg
      OBVIOUS
    <3> HIDE DEF w
    <3> QED BY <3>1, <3>2
  <2> QED BY <1>2, <1>7, <2>1 DEF Tick
<1>8. CASE UNCHANGED redis
  BY <1>2, <1>8 DEF redis
<1>9. ASSUME NEW t \in Loops, SettleFails(t) \/ LoopExit(t) \/ \E ok \in BOOLEAN : Handle(t, ok)
      PROVE  UNCHANGED redis
  BY <1>9 DEF SettleFails, LoopExit, Handle
<1>10. ASSUME NEW q \in Procs, ProcStep(q) \/ StartFails(q) \/ Cancel(q) \/ Crash(q)
       PROVE  UNCHANGED redis
  BY <1>10 DEF ProcStep, Restart, Crash, Fresh, StartGroup, StartFails, Cancel
<1>11. CASE UNCHANGED vars
  BY <1>8, <1>11 DEF vars
<1> QED
  BY <1>1, <1>3, <1>4, <1>5, <1>6, <1>7, <1>8, <1>9, <1>10, <1>11 DEF Next, LoopStep, Take, Settle

LEMMA LossInit == Init => OkAccepted /\ LossOnlyByTrim
<1>1. Init => OkAccepted
  BY DEF Init, OkAccepted
<1>2. Init => LossOnlyByTrim
  BY EmptySeq DEF Init, LossOnlyByTrim, Published
<1> QED BY <1>1, <1>2

\* Whatever MaxLen is, a published message none of whose entries MAXLEN removed
\* is kept by Redis for every group that is not done with it: a crash, a lost
\* answer, a cancelled context, a claim that races a handler and a failed script
\* never lose one.
THEOREM LossIsOnlyByTrim == Spec => []LossOnlyByTrim
<1>1. Init => LoopsBegun
  BY LoopParts DEF Init, LoopsBegun
<1> QED BY <1>1, InitType, LossInit, TypeStep, BegunStep, OkStep, LossStep, PTL DEF Spec

\* Delivery is at least once for any number of messages, groups, processes and
\* faults, when the stream has no MaxLen.
THEOREM DeliveryIsAtLeastOnce == ASSUME MaxLen = 0 PROVE Spec => []AtLeastOnce
<1>1. Init => LoopsBegun /\ NothingTrimmed
  BY LoopParts DEF Init, LoopsBegun, NothingTrimmed
<1>2. NothingTrimmed /\ LossOnlyByTrim => AtLeastOnce
  BY DEF NothingTrimmed, LossOnlyByTrim, AtLeastOnce
<1> QED
  BY <1>1, <1>2, InitType, TypeStep, BegunStep, TrimStep, LossIsOnlyByTrim, PTL DEF Spec

-----------------------------------------------------------------------------
(* A dead letter has used up its deliveries *)

\* Group g was given m at least n times, or as often as its limit allows.
Reached(g, m, n) == n <= delivered[g][m] \/ delivered[g][m] >= MaxDeliver(m)

\* An entry was stored after the attempts before its own; a pending one was given
\* to the group as often as its attempt and the pending list's counter say.
EntriesReached ==
  \A g \in Groups, i \in 1 .. Len(stream) :
    /\ Reached(g, stream[i].msg, stream[i].attempt - 1)
    /\ i \in pel[g] => Reached(g, stream[i].msg, stream[i].attempt)
    /\ Reached(g, stream[i].msg, count[g][i])

\* The pending list has no counter for an entry the stream does not have yet.
CountsStored == \A g \in Groups, i \in Idx : i > Len(stream) => count[g][i] = 0

\* The attempt a handler is told is one the group has made.
BatchReached ==
  \A t \in Loops : \A i \in batch[t] : Reached(Group(t), stream[i].msg, attempt[t][i])

\* A retry follows the attempts before it.
RetriesReached == \A g \in Groups : \A r \in retryq[g] : Reached(g, r.msg, r.attempt - 1)

AttemptInv ==
  EntriesReached /\ CountsStored /\ BatchReached /\ RetriesReached /\ DeadLetterUsedUp

LEMMA EntryType ==
  ASSUME StreamType, NEW i \in 1 .. Len(stream)
  PROVE  stream[i].msg \in Msgs /\ stream[i].attempt \in Nat
<1>1. stream[i] \in Entry
  BY ElementOfSeq DEF StreamType
<1> QED BY <1>1 DEF Entry

LEMMA CapGrows ==
  ASSUME NEW d \in Nat, NEW max \in Nat
  PROVE  /\ Cap(d, max) \in Nat /\ d <= Cap(d, max)
         /\ \A n \in Int : n - 1 <= d \/ d >= max => n <= Cap(d, max) \/ Cap(d, max) >= max
BY DEF Cap

\* A delivery counts for every entry it hands over, and for no message less.
LEMMA DeliverReaches ==
  ASSUME TypeOK, NEW h \in Groups, NEW S \in SUBSET (1 .. Len(stream)), CountDelivery(h, S)
  PROVE  /\ \A g \in Groups, m \in Msgs, n \in Int : Reached(g, m, n) => Reached(g, m, n)'
         /\ \A i \in S, n \in Int :
              Reached(h, stream[i].msg, n - 1) => n <= delivered'[h][stream[i].msg]
                                                    \/ delivered'[h][stream[i].msg] >= MaxDeliver(stream[i].msg)
<1>1. delivered \in [Groups -> [Msgs -> Nat]]
  BY DEF TypeOK, HistoryType
<1>2. \A g \in Groups, m \in Msgs :
        delivered'[g][m] = IF g = h /\ \E i \in S : stream[i].msg = m
                           THEN Cap(delivered[g][m], MaxDeliver(m)) ELSE delivered[g][m]
  BY <1>1 DEF CountDelivery
<1>3. \A i \in S : stream[i].msg \in Msgs
  BY EntryType DEF TypeOK
<1>4. ASSUME NEW g \in Groups, NEW m \in Msgs, NEW n \in Int, Reached(g, m, n) PROVE Reached(g, m, n)'
  <2>1. delivered[g][m] \in Nat /\ MaxDeliver(m) \in Nat
    BY <1>1, MaxDeliverType
  <2>2. CASE g = h /\ \E i \in S : stream[i].msg = m
    <3>1. delivered'[g][m] = Cap(delivered[g][m], MaxDeliver(m))
      BY <1>2, <2>2
    <3>2. Cap(delivered[g][m], MaxDeliver(m)) \in Nat
          /\ delivered[g][m] <= Cap(delivered[g][m], MaxDeliver(m))
      BY <2>1, CapGrows
    <3> QED BY <1>4, <2>1, <3>1, <3>2 DEF Reached, MaxDeliver
  <2>3. CASE ~(g = h /\ \E i \in S : stream[i].msg = m)
    <3>1. delivered'[g][m] = delivered[g][m]
      BY <1>2, <2>3
    <3> QED BY <1>4, <3>1 DEF Reached, MaxDeliver
  <2> QED BY <2>2, <2>3
<1>5. ASSUME NEW i \in S, NEW n \in Int, Reached(h, stream[i].msg, n - 1)
      PROVE  n <= delivered'[h][stream[i].msg] \/ delivered'[h][stream[i].msg] >= MaxDeliver(stream[i].msg)
  <2> DEFINE m == stream[i].msg
  <2>1. m \in Msgs
    BY <1>3
  <2>2. delivered'[h][m] = Cap(delivered[h][m], MaxDeliver(m))
    BY <1>2, <2>1
  <2>3. delivered[h][m] \in Nat /\ MaxDeliver(m) \in Nat
    BY <1>1, <2>1, MaxDeliverType
  <2>4. n - 1 <= delivered[h][m] \/ delivered[h][m] >= MaxDeliver(m)
    BY <1>5 DEF Reached
  <2> HIDE DEF m
  <2>5. n <= Cap(delivered[h][m], MaxDeliver(m)) \/ Cap(delivered[h][m], MaxDeliver(m)) >= MaxDeliver(m)
    BY <2>3, <2>4, CapGrows
  <2> QED BY <2>2, <2>5 DEF m
<1> QED BY <1>4, <1>5

\* What was reached stays reached.
LEMMA ReachedStays ==
  TypeOK /\ [Next]_vars =>
    \A g \in Groups, m \in Msgs, n \in Int : Reached(g, m, n) => Reached(g, m, n)'
<1> SUFFICES ASSUME TypeOK, [Next]_vars
             PROVE  \A g \in Groups, m \in Msgs, n \in Int : Reached(g, m, n) => Reached(g, m, n)'
  OBVIOUS
<1>1. CASE UNCHANGED delivered
  BY <1>1 DEF Reached, MaxDeliver
<1>2. ASSUME NEW t \in Loops, ReadGroup(t)
      PROVE  \A g \in Groups, m \in Msgs, n \in Int : Reached(g, m, n) => Reached(g, m, n)'
  <2>1. NextUnread(Group(t)) \in SUBSET (1 .. Len(stream)) /\ Group(t) \in Groups
    BY LoopParts DEF NextUnread, Unread
  <2>2. CountDelivery(Group(t), NextUnread(Group(t)))
    BY <1>2 DEF ReadGroup, Deliver
  <2> QED BY <2>1, <2>2, DeliverReaches
<1>3. ASSUME NEW t \in Loops, AutoClaim(t)
      PROVE  \A g \in Groups, m \in Msgs, n \in Int : Reached(g, m, n) => Reached(g, m, n)'
  <2>1. PICK S \in SUBSET Claimable(Group(t)) : CountDelivery(Group(t), S)
    BY <1>3 DEF AutoClaim, Deliver
  <2>2. S \in SUBSET (1 .. Len(stream)) /\ Group(t) \in Groups
    BY LoopParts DEF Claimable, IdleLong, TypeOK, StreamType
  <2> QED BY <2>1, <2>2, DeliverReaches
<1>4. ASSUME NEW t \in Loops, Settle(t) \/ LoopExit(t) \/ \E ok \in BOOLEAN : Handle(t, ok)
      PROVE  UNCHANGED delivered
  BY <1>4
  DEF Settle, DropMalformed, Ack, MoveToDLQ, DropFailed, ScheduleRetry, SettleFails, LoopExit, Handle, history
<1>5. ASSUME NEW q \in Procs, ProcStep(q) \/ StartFails(q) \/ Cancel(q) \/ Crash(q)
                                \/ \E g \in Groups : PromoteDueRetries(q, g)
      PROVE  UNCHANGED delivered
  BY <1>5
  DEF ProcStep, Restart, Crash, Fresh, StartGroup, StartFails, Cancel, PromoteDueRetries, history
<1>6. ASSUME NEW m \in Msgs, Publish(m) PROVE UNCHANGED delivered
  BY <1>6 DEF Publish, history
<1>7. CASE Tick \/ UNCHANGED vars
  BY <1>1, <1>7 DEF Tick, vars, history
<1> QED BY <1>1, <1>2, <1>3, <1>4, <1>5, <1>6, <1>7 DEF Next, LoopStep, Take


\* The bookkeeping survives a delivery of the entries of S, each of which was
\* stored after the attempts before its own.
LEMMA DeliverKeeps ==
  ASSUME TypeOK, TypeOK', AttemptInv, [Next]_vars, NEW h \in Groups, NEW gone,
         NEW S \in SUBSET (1 .. Len(stream)), Deliver(h, S, gone), UNCHANGED stream
  PROVE  EntriesReached' /\ CountsStored'
<1>t. pel \in [Groups -> SUBSET (1 .. Len(stream))] /\ count \in [Groups -> [Idx -> Nat]]
  BY DEF TypeOK, StreamType, PendingType
<1>n. Len(stream) \in Nat /\ Len(stream) <= MaxStream /\ 1 .. Len(stream) \subseteq Idx
  BY LenProperties, BoundAssumption DEF TypeOK, StreamType, Idx
<1>c. \A g \in Groups, i \in Idx :
        count'[g][i] = IF g = h /\ i \in S THEN count[g][i] + 1 ELSE count[g][i]
  BY <1>t DEF Deliver
<1>1. ASSUME NEW g \in Groups, NEW i \in 1 .. Len(stream)
      PROVE  /\ Reached(g, stream[i].msg, stream[i].attempt - 1)'
             /\ i \in pel'[g] => Reached(g, stream[i].msg, stream[i].attempt)'
             /\ Reached(g, stream[i].msg, count[g][i])'
  <2> DEFINE m == stream[i].msg
             a == stream[i].attempt
  <2>1. m \in Msgs /\ a \in Nat /\ count[g][i] \in Nat /\ i \in Idx
    BY <1>t, <1>n, EntryType DEF TypeOK
  <2>2. stream' = stream
    OBVIOUS
  <2>3. /\ Reached(g, m, a - 1)
        /\ i \in pel[g] => Reached(g, m, a)
        /\ Reached(g, m, count[g][i])
    BY DEF AttemptInv, EntriesReached
  <2>4. \A n \in Int : Reached(g, m, n) => n <= delivered'[g][m] \/ delivered'[g][m] >= MaxDeliver(m)
    BY <2>1, ReachedStays DEF Reached, MaxDeliver
  <2>5. g = h /\ i \in S =>
          \A n \in Int : Reached(g, m, n - 1) => n <= delivered'[g][m] \/ delivered'[g][m] >= MaxDeliver(m)
    BY DeliverReaches DEF Deliver
  <2>6. i \in pel'[g] => i \in pel[g] \/ (g = h /\ i \in S)
    BY <1>t DEF Deliver
  <2>7. a - 1 \in Int /\ a \in Int /\ count[g][i] \in Int /\ count[g][i] + 1 \in Int
        /\ (count[g][i] + 1) - 1 = count[g][i]
    BY <2>1
  <2>8. a - 1 <= delivered'[g][m] \/ delivered'[g][m] >= MaxDeliver(m)
    BY <2>3, <2>4, <2>7
  <2>9. i \in pel'[g] => a <= delivered'[g][m] \/ delivered'[g][m] >= MaxDeliver(m)
    BY <2>3, <2>4, <2>5, <2>6, <2>7
  <2>10. count'[g][i] <= delivered'[g][m] \/ delivered'[g][m] >= MaxDeliver(m)
    <3>1. CASE g = h /\ i \in S
      <4>1. count'[g][i] = count[g][i] + 1
        BY <1>c, <2>1, <3>1
      <4>2. count[g][i] + 1 <= delivered'[g][m] \/ delivered'[g][m] >= MaxDeliver(m)
        BY <2>3, <2>5, <2>7, <3>1
      <4> QED BY <4>1, <4>2
    <3>2. CASE ~(g = h /\ i \in S)
      <4>1. count'[g][i] = count[g][i]
        BY <1>c, <2>1, <3>2
      <4> QED BY <2>3, <2>4, <2>7, <4>1
    <3> QED BY <3>1, <3>2
  <2> QED BY <2>2, <2>8, <2>9, <2>10 DEF Reached, MaxDeliver
<1>2. EntriesReached'
  BY <1>1 DEF EntriesReached
<1>3. CountsStored'
  <2>1. ASSUME NEW g \in Groups, NEW i \in Idx, i > Len(stream) PROVE count'[g][i] = 0
    <3>1. i \notin S
      BY <1>n, <2>1, BoundAssumption DEF Idx
    <3> QED BY <1>c, <2>1, <3>1 DEF AttemptInv, CountsStored
  <2> QED BY <2>1 DEF CountsStored
<1> QED BY <1>2, <1>3

\* The stored entries keep their account when the pending lists shrink.
LEMMA EntriesStay ==
  ASSUME TypeOK, AttemptInv, [Next]_vars, UNCHANGED stream,
         \A g \in Groups : pel'[g] \subseteq pel[g],
         \A g \in Groups, i \in Idx : count'[g][i] \in {0, count[g][i]}
  PROVE  EntriesReached' /\ CountsStored'
<1>t. /\ count \in [Groups -> [Idx -> Nat]] /\ Len(stream) \in Nat /\ 1 .. Len(stream) \subseteq Idx
      /\ delivered \in [Groups -> [Msgs -> Nat]]
  BY LenProperties, BoundAssumption DEF TypeOK, StreamType, PendingType, Idx, HistoryType
<1>1. ASSUME NEW g \in Groups, NEW i \in 1 .. Len(stream)
      PROVE  /\ Reached(g, stream[i].msg, stream[i].attempt - 1)'
             /\ i \in pel'[g] => Reached(g, stream[i].msg, stream[i].attempt)'
             /\ Reached(g, stream[i].msg, count[g][i])'
  <2> DEFINE m == stream[i].msg
             a == stream[i].attempt
  <2>1. m \in Msgs /\ a \in Nat /\ count[g][i] \in Nat /\ i \in Idx
    BY <1>t, EntryType DEF TypeOK
  <2>2. /\ Reached(g, m, a - 1)
        /\ i \in pel[g] => Reached(g, m, a)
        /\ Reached(g, m, count[g][i])
    BY DEF AttemptInv, EntriesReached
  <2>3. Reached(g, m, 0)
    BY <1>t, <2>1 DEF Reached
  <2>4. \A n \in Int : Reached(g, m, n) => n <= delivered'[g][m] \/ delivered'[g][m] >= MaxDeliver(m)
    BY <2>1, ReachedStays DEF Reached, MaxDeliver
  <2>5. a - 1 \in Int /\ a \in Int /\ count[g][i] \in Int
    BY <2>1
  <2>6. a - 1 <= delivered'[g][m] \/ delivered'[g][m] >= MaxDeliver(m)
    BY <2>2, <2>4, <2>5
  <2>7. i \in pel'[g] => a <= delivered'[g][m] \/ delivered'[g][m] >= MaxDeliver(m)
    BY <2>2, <2>4, <2>5
  <2>8. count'[g][i] <= delivered'[g][m] \/ delivered'[g][m] >= MaxDeliver(m)
    <3>1. count'[g][i] = 0 \/ count'[g][i] = count[g][i]
      BY <2>1
    <3> QED BY <2>2, <2>3, <2>4, <2>5, <3>1
  <2> QED BY <2>6, <2>7, <2>8 DEF Reached, MaxDeliver
<1>2. EntriesReached'
  BY <1>1 DEF EntriesReached
<1>3. CountsStored'
  BY <1>t DEF AttemptInv, CountsStored
<1> QED BY <1>2, <1>3


\* A longer stream keeps the account, when what was appended follows the attempts
\* before it.
LEMMA EntriesGrow ==
  ASSUME TypeOK, TypeOK', AttemptInv, [Next]_vars, UNCHANGED <<pel, count>>,
         \A g \in Groups, i \in 1 .. Len(stream') :
           i > Len(stream) => Reached(g, stream'[i].msg, stream'[i].attempt - 1)
  PROVE  EntriesReached' /\ CountsStored'
<1>t. /\ pel \in [Groups -> SUBSET (1 .. Len(stream))] /\ count \in [Groups -> [Idx -> Nat]]
      /\ delivered \in [Groups -> [Msgs -> Nat]]
  BY DEF TypeOK, StreamType, PendingType, HistoryType
<1>n. Len(stream) \in Nat /\ Len(stream') \in Nat
  BY LenProperties DEF TypeOK, StreamType
<1>i. 1 .. Len(stream') \subseteq Idx
  BY <1>n, BoundAssumption DEF TypeOK, StreamType, Idx
<1>g. \A i \in 1 .. Len(stream) : i \in 1 .. Len(stream') /\ stream'[i] = stream[i]
  BY StreamGrows DEF Grows
<1>1. ASSUME NEW g \in Groups, NEW i \in 1 .. Len(stream')
      PROVE  /\ Reached(g, stream[i].msg, stream[i].attempt - 1)'
             /\ i \in pel'[g] => Reached(g, stream[i].msg, stream[i].attempt)'
             /\ Reached(g, stream[i].msg, count[g][i])'
  <2> DEFINE m == stream'[i].msg
             a == stream'[i].attempt
  <2>1. m \in Msgs /\ a \in Nat /\ count[g][i] \in Nat
    <3>1. stream'[i] \in Entry
      BY ElementOfSeq DEF TypeOK, StreamType
    <3> QED BY <1>i, <1>t, <3>1 DEF Entry
  <2>2. /\ Reached(g, m, a - 1)
        /\ i \in pel[g] => Reached(g, m, a)
        /\ Reached(g, m, count[g][i])
    <3>1. CASE i \in 1 .. Len(stream)
      BY <1>g, <3>1 DEF AttemptInv, EntriesReached
    <3>2. CASE i \notin 1 .. Len(stream)
      <4>1. i > Len(stream)
        BY <1>n, <3>2
      <4>2. count[g][i] = 0
        BY <1>i, <4>1 DEF AttemptInv, CountsStored
      <4>3. Reached(g, m, 0)
        BY <1>t, <2>1 DEF Reached
      <4>4. i \notin pel[g]
        BY <1>t, <3>2
      <4> QED BY <4>1, <4>2, <4>3, <4>4
    <3> QED BY <3>1, <3>2
  <2>3. \A n \in Int : Reached(g, m, n) => n <= delivered'[g][m] \/ delivered'[g][m] >= MaxDeliver(m)
    BY <2>1, ReachedStays DEF Reached, MaxDeliver
  <2>4. a - 1 \in Int /\ a \in Int /\ count[g][i] \in Int
    BY <2>1
  <2>5. a - 1 <= delivered'[g][m] \/ delivered'[g][m] >= MaxDeliver(m)
    BY <2>2, <2>3, <2>4
  <2>6. i \in pel'[g] => a <= delivered'[g][m] \/ delivered'[g][m] >= MaxDeliver(m)
    BY <2>2, <2>3, <2>4
  <2>7. count'[g][i] <= delivered'[g][m] \/ delivered'[g][m] >= MaxDeliver(m)
    BY <2>2, <2>3, <2>4
  <2> QED BY <2>5, <2>6, <2>7 DEF Reached, MaxDeliver
<1>2. EntriesReached'
  BY <1>1 DEF EntriesReached
<1>3. CountsStored'
  BY <1>g, <1>n, <1>i, BoundAssumption DEF AttemptInv, CountsStored, Idx
<1> QED BY <1>2, <1>3

\* The retries a step leaves or adds follow the attempts before them.
LEMMA RetriesStay ==
  ASSUME TypeOK, AttemptInv, [Next]_vars,
         \A g \in Groups : \A r \in retryq'[g] :
           \E m \in Msgs, n \in Int : r.msg = m /\ r.attempt = n + 1 /\ Reached(g, m, n)
  PROVE  RetriesReached'
<1> SUFFICES ASSUME NEW g \in Groups, NEW r \in retryq'[g]
             PROVE  Reached(g, r.msg, r.attempt - 1)'
  BY DEF RetriesReached
<1>1. PICK m \in Msgs, n \in Int : r.msg = m /\ r.attempt = n + 1 /\ Reached(g, m, n)
  OBVIOUS
<1>2. Reached(g, m, n)'
  BY <1>1, ReachedStays
<1>3. r.attempt - 1 = n
  BY <1>1
<1> QED BY <1>1, <1>2, <1>3 DEF Reached, MaxDeliver

LEMMA RetriesOld ==
  ASSUME TypeOK, AttemptInv, NEW g \in Groups, NEW r \in retryq[g]
  PROVE  \E m \in Msgs, n \in Int : r.msg = m /\ r.attempt = n + 1 /\ Reached(g, m, n)
<1>1. r \in Retry
  BY DEF TypeOK, StreamType
<1>2. r.msg \in Msgs /\ r.attempt - 1 \in Int /\ r.attempt = (r.attempt - 1) + 1
  BY <1>1 DEF Retry
<1>3. Reached(g, r.msg, r.attempt - 1)
  BY DEF AttemptInv, RetriesReached
<1> QED BY <1>2, <1>3

\* A batch keeps its account when it loses entries.
LEMMA BatchStays ==
  ASSUME TypeOK, AttemptInv, [Next]_vars,
         \A t \in Loops : \A i \in batch'[t] : i \in batch[t] /\ attempt'[t][i] = attempt[t][i]
  PROVE  BatchReached'
<1> SUFFICES ASSUME NEW t \in Loops, NEW i \in batch'[t]
             PROVE  Reached(Group(t), stream[i].msg, attempt[t][i])'
  BY DEF BatchReached
<1>1. i \in batch[t] /\ attempt'[t][i] = attempt[t][i]
  OBVIOUS
<1>2. i \in 1 .. Len(stream)
  BY <1>1 DEF TypeOK, LoopType
<1>3. stream'[i] = stream[i] /\ stream[i].msg \in Msgs /\ i \in Idx
  <2>1. Len(stream) \in Nat
    BY LenProperties DEF TypeOK, StreamType
  <2>2. i \in Idx
    BY <1>2, <2>1, BoundAssumption DEF TypeOK, StreamType, Idx
  <2> QED BY <1>2, <2>2, StreamGrows, EntryType DEF TypeOK, Grows
<1>4. attempt[t][i] \in Int /\ Group(t) \in Groups
  BY <1>3, LoopParts DEF TypeOK, LoopType
<1>5. Reached(Group(t), stream[i].msg, attempt[t][i])
  BY <1>1 DEF AttemptInv, BatchReached
<1>6. Reached(Group(t), stream[i].msg, attempt[t][i]) =>
        attempt[t][i] <= delivered'[Group(t)][stream[i].msg]
          \/ delivered'[Group(t)][stream[i].msg] >= MaxDeliver(stream[i].msg)
  BY <1>3, <1>4, ReachedStays DEF Reached, MaxDeliver
<1> QED BY <1>1, <1>3, <1>5, <1>6 DEF Reached, MaxDeliver

\* A loop receives entries of S with attempts its group has made.
LEMMA BatchReceived ==
  ASSUME TypeOK, AttemptInv, [Next]_vars, NEW t \in Loops, NEW S \in SUBSET (1 .. Len(stream)), NEW A,
         Receive(t, S, A), UNCHANGED stream,
         \A i \in S : A[i] <= delivered'[Group(t)][stream[i].msg]
                        \/ delivered'[Group(t)][stream[i].msg] >= MaxDeliver(stream[i].msg)
  PROVE  BatchReached'
<1> SUFFICES ASSUME NEW u \in Loops, NEW i \in batch'[u]
             PROVE  Reached(Group(u), stream[i].msg, attempt[u][i])'
  BY DEF BatchReached
<1>t. batch \in [Loops -> SUBSET (1 .. Len(stream))] /\ attempt \in [Loops -> [Idx -> Nat]]
  BY DEF TypeOK, LoopType
<1>i. 1 .. Len(stream) \subseteq Idx
  <2>1. Len(stream) \in Nat
    BY LenProperties DEF TypeOK, StreamType
  <2> QED BY <2>1, BoundAssumption DEF TypeOK, StreamType, Idx
<1>1. CASE u = t
  <2>1. i \in S /\ i \in Idx
    BY <1>1, <1>t, <1>i DEF Receive
  <2>2. attempt'[u][i] = A[i]
    BY <1>1, <1>t, <2>1 DEF Receive
  <2> QED BY <1>1, <2>1, <2>2 DEF Reached, MaxDeliver
<1>2. CASE u # t
  <2>1. i \in batch[u] /\ attempt'[u] = attempt[u] /\ i \in 1 .. Len(stream)
    BY <1>2, <1>t DEF Receive
  <2>2. stream[i].msg \in Msgs /\ attempt[u][i] \in Int /\ Group(u) \in Groups
    BY <1>i, <1>t, <2>1, EntryType, LoopParts DEF TypeOK
  <2>3. Reached(Group(u), stream[i].msg, attempt[u][i])
    BY <2>1 DEF AttemptInv, BatchReached
  <2>4. Reached(Group(u), stream[i].msg, attempt[u][i]) =>
          attempt[u][i] <= delivered'[Group(u)][stream[i].msg]
            \/ delivered'[Group(u)][stream[i].msg] >= MaxDeliver(stream[i].msg)
    BY <2>2, ReachedStays DEF Reached, MaxDeliver
  <2> QED BY <2>1, <2>3, <2>4 DEF Reached, MaxDeliver
<1> QED BY <1>1, <1>2


\* Dead letters stay used up, and a new one is used up when it arrives.
LEMMA DeadLettersStay ==
  ASSUME TypeOK, TypeOK', AttemptInv, [Next]_vars, NEW D \in SUBSET (Msgs \X Groups), dlq' = dlq \cup D,
         \A m \in Msgs, g \in Groups : <<m, g>> \in D => Reached(g, m, MaxDeliver(m))
  PROVE  DeadLetterUsedUp'
<1> SUFFICES ASSUME NEW m \in Msgs, NEW g \in Groups, <<m, g>> \in dlq'
             PROVE  delivered'[g][m] >= MaxDeliver(m)
  BY DEF DeadLetterUsedUp, MaxDeliver
<1>1. MaxDeliver(m) \in Int /\ delivered[g][m] \in Nat
  BY MaxDeliverType DEF TypeOK, HistoryType
<1>2. Reached(g, m, MaxDeliver(m))
  <2>1. CASE <<m, g>> \in dlq
    BY <2>1 DEF AttemptInv, DeadLetterUsedUp, Reached
  <2>2. CASE <<m, g>> \in D
    BY <2>2
  <2> QED BY <2>1, <2>2
<1>3. delivered'[g][m] \in Nat
  BY DEF TypeOK, HistoryType
<1>4. Reached(g, m, MaxDeliver(m)) =>
        MaxDeliver(m) <= delivered'[g][m] \/ delivered'[g][m] >= MaxDeliver(m)
  BY <1>1, ReachedStays DEF Reached, MaxDeliver
<1> QED BY <1>1, <1>2, <1>3, <1>4

\* With one group, every entry of the stream follows the group's own attempts.
LEMMA AttemptStep ==
  ASSUME \A g, h \in Groups : g = h
  PROVE  TypeOK /\ TypeOK' /\ AttemptInv /\ [Next]_vars => AttemptInv'
<1> SUFFICES ASSUME TypeOK, TypeOK', AttemptInv, [Next]_vars PROVE AttemptInv'
  OBVIOUS
<1>t. /\ pel \in [Groups -> SUBSET (1 .. Len(stream))] /\ count \in [Groups -> [Idx -> Nat]]
      /\ batch \in [Loops -> SUBSET (1 .. Len(stream))] /\ attempt \in [Loops -> [Idx -> Nat]]
      /\ retryq \in [Groups -> SUBSET Retry] /\ delivered \in [Groups -> [Msgs -> Nat]]
  BY DEF TypeOK, StreamType, PendingType, LoopType, HistoryType
<1>n. Len(stream) \in Nat /\ 1 .. Len(stream) \subseteq Idx
  <2>1. Len(stream) \in Nat
    BY LenProperties DEF TypeOK, StreamType
  <2> QED BY <2>1, BoundAssumption DEF TypeOK, StreamType, Idx
\* The parts of the invariant that an unchanged variable leaves alone.
<1>e. ASSUME UNCHANGED <<stream, pel, count>> PROVE EntriesReached' /\ CountsStored'
  BY <1>e, EntriesStay
<1>b. ASSUME UNCHANGED loops PROVE BatchReached'
  BY <1>b, BatchStays DEF loops
<1>r. ASSUME UNCHANGED retryq PROVE RetriesReached'
  BY <1>r, RetriesOld, RetriesStay
<1>d. ASSUME UNCHANGED dlq PROVE DeadLetterUsedUp'
  <2>1. dlq' = dlq \cup {} /\ {} \in SUBSET (Msgs \X Groups)
    BY <1>d
  <2> QED BY <2>1, DeadLettersStay
<1>1. ASSUME NEW x \in Msgs, Publish(x) PROVE AttemptInv'
  <2>1. \A g \in Groups, i \in 1 .. Len(stream') :
          i > Len(stream) => Reached(g, stream'[i].msg, stream'[i].attempt - 1)
    <3> SUFFICES ASSUME NEW g \in Groups, NEW i \in 1 .. Len(stream'), i > Len(stream)
                 PROVE  Reached(g, stream'[i].msg, stream'[i].attempt - 1)
      OBVIOUS
    <3>1. [msg |-> x, attempt |-> 1] \in Entry
      BY DEF Entry
    <3>2. /\ Len(stream') = Len(stream) + 1
          /\ stream'[Len(stream) + 1] = [msg |-> x, attempt |-> 1]
      BY <1>1, <3>1, AppendProperties DEF Publish, TypeOK, StreamType
    <3>3. i = Len(stream) + 1
      BY <1>n, <3>2
    <3>4. stream'[i].msg = x /\ stream'[i].attempt - 1 = 0
      BY <3>2, <3>3
    <3> QED BY <1>t, <3>4 DEF Reached
  <2>2. EntriesReached' /\ CountsStored'
    BY <1>1, <2>1, EntriesGrow DEF Publish
  <2> QED BY <1>1, <1>b, <1>r, <1>d, <2>2 DEF Publish, AttemptInv
<1>2. ASSUME NEW q \in Procs, NEW h \in Groups, PromoteDueRetries(q, h) PROVE AttemptInv'
  <2>1. PICK n \in 1 .. ReadCount : \E f \in [1 .. n -> DueRetries(h)] :
          /\ stream' = stream \o [i \in 1 .. n |-> [msg |-> f[i].msg, attempt |-> f[i].attempt]]
          /\ retryq' = [retryq EXCEPT ![h] = @ \ {f[i] : i \in 1 .. n}]
    BY <1>2 DEF PromoteDueRetries, Promote
  <2>2. PICK f \in [1 .. n -> DueRetries(h)] :
          /\ stream' = stream \o [i \in 1 .. n |-> [msg |-> f[i].msg, attempt |-> f[i].attempt]]
          /\ retryq' = [retryq EXCEPT ![h] = @ \ {f[i] : i \in 1 .. n}]
    BY <2>1
  <2>3. n \in Nat
    BY StreamAssumption
  <2> DEFINE new == [i \in 1 .. n |-> [msg |-> f[i].msg, attempt |-> f[i].attempt]]
  <2>4. new \in Seq(Entry) /\ Len(new) = n
    BY <2>3, PromotedSeq DEF TypeOK
  <2>5. /\ Len(stream') = Len(stream) + n
        /\ \A j \in 1 .. Len(stream') : j > Len(stream) => stream'[j] = new[j - Len(stream)]
    <3>1. stream' = stream \o new
      BY <2>2
    <3> HIDE DEF new
    <3>2. /\ Len(stream \o new) = Len(stream) + Len(new)
          /\ \A j \in 1 .. Len(stream) + Len(new) :
               (stream \o new)[j] = IF j <= Len(stream) THEN stream[j] ELSE new[j - Len(stream)]
      <4>1. stream \in Seq(Entry)
        BY DEF TypeOK, StreamType
      <4> QED BY <2>4, <4>1, ConcatProperties
    <3> QED BY <1>n, <2>3, <2>4, <3>1, <3>2
  <2>6. ASSUME NEW g \in Groups, NEW j \in 1 .. Len(stream'), j > Len(stream)
        PROVE  Reached(g, stream'[j].msg, stream'[j].attempt - 1)
    <3> DEFINE i == j - Len(stream)
    <3>1. i \in 1 .. n
      BY <1>n, <2>3, <2>5, <2>6
    <3>2. stream'[j] = [msg |-> f[i].msg, attempt |-> f[i].attempt]
      BY <2>5, <2>6, <3>1
    <3>3. f[i] \in retryq[g]
      <4>1. g = h
        OBVIOUS
      <4>2. f[i] \in DueRetries(h)
        BY <3>1
      <4> QED BY <4>1, <4>2 DEF DueRetries
    <3>4. Reached(g, f[i].msg, f[i].attempt - 1)
      BY <3>3 DEF AttemptInv, RetriesReached
    <3> HIDE DEF i
    <3>5. stream'[j].msg = f[i].msg /\ stream'[j].attempt = f[i].attempt
      BY <3>2
    <3> QED BY <3>4, <3>5
  <2>7. EntriesReached' /\ CountsStored'
    BY <1>2, <2>6, EntriesGrow DEF PromoteDueRetries
  <2>8. RetriesReached'
    <3>1. \A g \in Groups : retryq'[g] \subseteq retryq[g]
      BY <1>t, <2>2
    <3> QED BY <3>1, RetriesOld, RetriesStay
  <2> QED BY <1>2, <1>b, <1>d, <2>7, <2>8 DEF PromoteDueRetries, AttemptInv
<1>3. ASSUME NEW t \in Loops, ReadGroup(t) PROVE AttemptInv'
  <2> DEFINE h == Group(t)
             S == NextUnread(h)
  <2>1. h \in Groups /\ S \in SUBSET (1 .. Len(stream))
    BY LoopParts DEF NextUnread, Unread
  <2>2. Deliver(h, S, {}) /\ UNCHANGED <<stream, retryq, dlq>>
    BY <1>3 DEF ReadGroup
  <2>3. EntriesReached' /\ CountsStored'
    BY <2>1, <2>2, DeliverKeeps
  <2>4. ASSUME Receive(t, S, Stored) PROVE BatchReached'
    <3>1. ASSUME NEW i \in S
          PROVE  Stored[i] <= delivered'[h][stream[i].msg]
                   \/ delivered'[h][stream[i].msg] >= MaxDeliver(stream[i].msg)
      <4>1. i \in 1 .. Len(stream) /\ i \in Idx
        BY <1>n, <2>1
      <4>2. Stored[i] = stream[i].attempt /\ stream[i].attempt \in Int
        BY <4>1, EntryType DEF Stored, TypeOK
      <4>3. Reached(h, stream[i].msg, stream[i].attempt - 1)
        BY <2>1, <4>1 DEF AttemptInv, EntriesReached
      <4>4. CountDelivery(h, S)
        BY <2>2 DEF Deliver
      <4> HIDE DEF h, S
      <4> QED BY <2>1, <3>1, <4>2, <4>3, <4>4, DeliverReaches
    <3> QED BY <2>1, <2>2, <2>4, <3>1, BatchReceived
  <2>5. BatchReached'
    BY <1>3, <1>b, <2>4 DEF ReadGroup
  <2> QED BY <1>r, <1>d, <2>2, <2>3, <2>5 DEF AttemptInv
<1>4. ASSUME NEW t \in Loops, AutoClaim(t) PROVE AttemptInv'
  <2> DEFINE h == Group(t)
  <2>1. PICK S \in SUBSET Claimable(h) :
          /\ Deliver(h, S, IdleLong(h) \ Claimable(h))
          /\ \/ \E X \in SUBSET S : Receive(t, S, Counted(h, X))
             \/ UNCHANGED loops
    BY <1>4 DEF AutoClaim
  <2>2. h \in Groups /\ S \in SUBSET (1 .. Len(stream)) /\ S \subseteq pel[h]
    BY <1>t, LoopParts DEF Claimable, IdleLong
  <2>3. UNCHANGED <<stream, retryq, dlq>>
    BY <1>4 DEF AutoClaim
  <2>4. EntriesReached' /\ CountsStored'
    BY <2>1, <2>2, <2>3, DeliverKeeps
  <2>5. ASSUME NEW X \in SUBSET S, Receive(t, S, Counted(h, X)) PROVE BatchReached'
    <3>1. ASSUME NEW i \in S
          PROVE  Counted(h, X)[i] <= delivered'[h][stream[i].msg]
                   \/ delivered'[h][stream[i].msg] >= MaxDeliver(stream[i].msg)
      <4>1. i \in 1 .. Len(stream) /\ i \in Idx /\ i \in pel[h]
        BY <1>n, <2>2
      <4>2. Counted(h, X)[i] = stream[i].attempt \/ Counted(h, X)[i] = count'[h][i]
        BY <4>1 DEF Counted, Stored
      <4>3. i \in pel'[h]
        BY <1>t, <2>1, <2>2 DEF Deliver
      <4>4. i \in 1 .. Len(stream') /\ stream'[i] = stream[i]
        BY <2>3, <4>1
      <4>5. /\ Reached(h, stream[i].msg, stream[i].attempt)'
            /\ Reached(h, stream[i].msg, count[h][i])'
        BY <2>2, <2>4, <4>3, <4>4 DEF EntriesReached
      <4> QED BY <4>2, <4>4, <4>5 DEF Reached, MaxDeliver
    <3> QED BY <2>2, <2>3, <2>5, <3>1, BatchReceived
  <2>6. BatchReached'
    BY <1>b, <2>1, <2>5
  <2> QED BY <1>r, <1>d, <2>3, <2>4, <2>6 DEF AttemptInv
<1>5. ASSUME NEW t \in Loops, FinishEntry(t) PROVE BatchReached'
  BY <1>5, <1>t, BatchStays DEF FinishEntry
<1>6. ASSUME NEW t \in Loops, batch[t] # {}, XAck(Group(t), Cur(t)), UNCHANGED stream
      PROVE  EntriesReached' /\ CountsStored'
  <2>1. Group(t) \in Groups /\ Cur(t) \in Idx
    BY <1>6, LoopParts, CurTypes DEF TypeOK
  <2>2. \A g \in Groups : pel'[g] \subseteq pel[g]
    BY <1>6, <1>t, <2>1 DEF XAck
  <2>3. \A g \in Groups, i \in Idx : count'[g][i] \in {0, count[g][i]}
    BY <1>6, <1>t, <2>1 DEF XAck
  <2> QED BY <1>6, <2>2, <2>3, EntriesStay
<1>c. ASSUME NEW t \in Loops, batch[t] # {}
      PROVE  /\ CurMsg(t) \in Msgs /\ Group(t) \in Groups /\ CurAttempt(t) \in Int
             /\ Reached(Group(t), CurMsg(t), CurAttempt(t))
  BY <1>c, CurTypes, CurInBatch, LoopParts DEF TypeOK, AttemptInv, BatchReached, CurMsg, CurAttempt
<1>7. ASSUME NEW t \in Loops, DropMalformed(t) \/ Ack(t) \/ DropFailed(t) PROVE AttemptInv'
  <2>1. batch[t] # {}
    BY <1>7 DEF DropMalformed, Ack, DropFailed, TypeOK, LoopType
  <2>2. FinishEntry(t) /\ XAck(Group(t), Cur(t)) /\ UNCHANGED <<stream, retryq, dlq>>
    BY <1>7 DEF DropMalformed, Ack, DropFailed
  <2> QED BY <1>5, <1>6, <1>r, <1>d, <2>1, <2>2 DEF AttemptInv
<1>8. ASSUME NEW t \in Loops, MoveToDLQ(t) PROVE AttemptInv'
  <2>1. batch[t] # {}
    BY <1>8 DEF MoveToDLQ, TypeOK, LoopType
  <2>2. FinishEntry(t) /\ XAck(Group(t), Cur(t)) /\ UNCHANGED <<stream, retryq>>
    BY <1>8 DEF MoveToDLQ
  <2>3. Reached(Group(t), CurMsg(t), MaxDeliver(CurMsg(t)))
    <3>1. /\ CurMsg(t) \in Msgs /\ CurAttempt(t) \in Int
          /\ Reached(Group(t), CurMsg(t), CurAttempt(t))
      BY <1>c, <2>1
    <3>2. MaxDeliver(CurMsg(t)) \in Nat /\ delivered[Group(t)][CurMsg(t)] \in Nat
      BY <1>t, <3>1, MaxDeliverType, LoopParts
    <3>3. CurAttempt(t) > MaxDeliver(CurMsg(t)) \/ CurAttempt(t) + 1 > MaxDeliver(CurMsg(t))
      BY <1>8 DEF MoveToDLQ, PastLimit, NoAttemptLeft
    <3> QED BY <3>1, <3>2, <3>3 DEF Reached
  <2>4. dlq' = dlq \cup {<<CurMsg(t), Group(t)>>}
    BY <1>8 DEF MoveToDLQ
  <2>5. DeadLetterUsedUp'
    <3>1. {<<CurMsg(t), Group(t)>>} \in SUBSET (Msgs \X Groups)
      BY <1>c, <2>1
    <3> QED BY <2>3, <2>4, <3>1, DeadLettersStay
  <2> QED BY <1>5, <1>6, <1>r, <2>1, <2>2, <2>5 DEF AttemptInv
<1>9. ASSUME NEW t \in Loops, ScheduleRetry(t) PROVE AttemptInv'
  <2>1. batch[t] # {}
    BY <1>9 DEF ScheduleRetry, TypeOK, LoopType
  <2>2. FinishEntry(t) /\ XAck(Group(t), Cur(t)) /\ UNCHANGED <<stream, dlq>>
    BY <1>9 DEF ScheduleRetry
  <2> DEFINE w == [msg |-> CurMsg(t), attempt |-> CurAttempt(t) + 1,
                   wait |-> retryDelay(CurAttempt(t) + 1)]
  <2>3. \A g \in Groups : \A r \in retryq'[g] : r \in retryq[g] \/ (g = Group(t) /\ r = w)
    <3>1. retryq' = [retryq EXCEPT ![Group(t)] =
                       {r \in retryq[Group(t)] : ~(r.msg = CurMsg(t) /\ r.attempt = CurAttempt(t) + 1)}
                         \cup {w}]
      BY <1>9 DEF ScheduleRetry, ZAdd
    <3> HIDE DEF w
    <3> QED BY <1>t, <3>1
  <2>4. w.msg = CurMsg(t) /\ w.attempt = CurAttempt(t) + 1
    OBVIOUS
  <2>5. RetriesReached'
    <3> HIDE DEF w
    <3>1. \A g \in Groups : \A r \in retryq'[g] :
            \E m \in Msgs, n \in Int : r.msg = m /\ r.attempt = n + 1 /\ Reached(g, m, n)
      BY <1>c, <2>1, <2>3, <2>4, RetriesOld
    <3> QED BY <3>1, RetriesStay
  <2> QED BY <1>5, <1>6, <1>d, <2>1, <2>2, <2>5 DEF AttemptInv
<1>10. ASSUME NEW t \in Loops, SettleFails(t) PROVE AttemptInv'
  BY <1>10, <1>5, <1>e, <1>r, <1>d DEF SettleFails, redis, AttemptInv
<1>11. ASSUME NEW t \in Loops, LoopExit(t) \/ \E ok \in BOOLEAN : Handle(t, ok) PROVE AttemptInv'
  <2>1. UNCHANGED <<stream, pel, count, retryq, dlq, batch, attempt>>
    BY <1>11 DEF LoopExit, Handle, redis
  <2>2. BatchReached'
    BY <2>1, BatchStays
  <2> QED BY <1>e, <1>r, <1>d, <2>1, <2>2 DEF AttemptInv
<1>12. ASSUME NEW q \in Procs, ProcStep(q) \/ StartFails(q) \/ Cancel(q) \/ Crash(q) PROVE AttemptInv'
  <2>1. UNCHANGED <<stream, pel, count, retryq, dlq>>
    BY <1>12 DEF ProcStep, Restart, Crash, Fresh, StartGroup, StartFails, Cancel, redis
  <2>2. \A t \in Loops : \A i \in batch'[t] : i \in batch[t] /\ attempt'[t][i] = attempt[t][i]
    BY <1>12, <1>t DEF ProcStep, Restart, Crash, Fresh, StartGroup, StartFails, Cancel, loops
  <2>3. BatchReached'
    BY <2>2, BatchStays
  <2> QED BY <1>e, <1>r, <1>d, <2>1, <2>3 DEF AttemptInv
<1>13. CASE Tick
  <2>1. ASSUME NEW g \in Groups, NEW s \in retryq'[g]
        PROVE  \E m \in Msgs, n \in Int : s.msg = m /\ s.attempt = n + 1 /\ Reached(g, m, n)
    <3>1. PICK r \in retryq[g] : s.msg = r.msg /\ s.attempt = r.attempt
      BY <1>13, <2>1 DEF Tick
    <3> QED BY <3>1, RetriesOld
  <2>2. RetriesReached'
    BY <2>1, RetriesStay
  <2> QED BY <1>13, <1>e, <1>b, <1>d, <2>2 DEF Tick, AttemptInv
<1>14. CASE UNCHANGED vars
  BY <1>14, <1>e, <1>b, <1>r, <1>d DEF vars, redis, AttemptInv
<1> QED
  BY <1>1, <1>2, <1>3, <1>4, <1>7, <1>8, <1>9, <1>10, <1>11, <1>12, <1>13, <1>14
  DEF Next, LoopStep, Take, Settle

\* Where a topic has one consumer group, a message reaches the dead letters only
\* after MaxDeliver deliveries, however its entries were claimed, retried, lost in
\* a crash or trimmed meanwhile.  (With two groups a retry of one is read by the
\* other as an attempt of its own: RetriesIsolated.)
THEOREM DeadLettersAreUsedUp ==
  ASSUME \A g, h \in Groups : g = h PROVE Spec => []DeadLetterUsedUp
<1>1. Init => LoopsBegun
  BY LoopParts DEF Init, LoopsBegun
<1>2. Init => AttemptInv
  BY EmptySeq
  DEF Init, AttemptInv, EntriesReached, CountsStored, BatchReached, RetriesReached, DeadLetterUsedUp, NoIdx
<1>3. AttemptInv => DeadLetterUsedUp
  BY DEF AttemptInv
<1> QED BY <1>1, <1>2, <1>3, InitType, TypeStep, BegunStep, AttemptStep, PTL DEF Spec

=============================================================================
