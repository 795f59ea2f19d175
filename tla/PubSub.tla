------------------------------- MODULE PubSub -------------------------------
(***************************************************************************)
(* Publish/subscribe over one Redis stream (pubsub/service.go,             *)
(* pubsub/store.go).  Every process runs, for each of its consumer groups, *)
(* a consume loop (XREADGROUP), a claim loop (XAUTOCLAIM of entries that   *)
(* have been idle too long) and a retry loop that moves due retries from   *)
(* the group's sorted set back to the stream.                              *)
(*                                                                         *)
(* Redis commands and scripts are atomic; a handler runs between two of    *)
(* them.  The log only grows in the model: `trimmed` counts the oldest     *)
(* entries that MAXLEN has removed.                                        *)
(***************************************************************************)
EXTENDS Integers, Sequences, FiniteSets

CONSTANTS
  Msgs,               \* messages, each published once
  Groups,             \* consumer groups of the topic
  Procs,              \* processes, each with one Service
  DefaultMaxDeliver,  \* RetryPolicy.MaxDeliver of the service
  MsgMaxDeliver,      \* Message.MaxDeliver by message; 0 is "not given"
  Malformed,          \* messages other producers wrote that do not decode
  Backoff,            \* RetryPolicy.Backoff, in ticks
  IdleTimeout,        \* RetryPolicy.IdleTimeout, in ticks
  ReadCount,          \* StreamPolicy.ReadCount
  MaxLen,             \* StreamPolicy.MaxLen, 0 for none
  ApproxMaxLen,       \* StreamPolicy.ApproxMaxLen
  DLQEnabled,         \* DeadLetterPolicy.Enabled
  MaxStream,          \* bound: entries ever added to the stream
  MaxFaults,          \* bound: crashes, cancellations and Redis errors
  Prompt              \* TRUE: no live handler keeps an entry for IdleTimeout

ASSUME SetsAssumption == IsFiniteSet(Msgs) /\ Malformed \subseteq Msgs
ASSUME DeliverAssumption ==
  /\ DefaultMaxDeliver \in Nat \ {0}
  /\ MsgMaxDeliver \in [Msgs -> Nat]
ASSUME TimeAssumption == Backoff \in Seq(Nat) /\ IdleTimeout \in Nat \ {0}
ASSUME StreamAssumption ==
  /\ ReadCount \in Nat \ {0} /\ MaxLen \in Nat
  /\ ApproxMaxLen \in BOOLEAN /\ DLQEnabled \in BOOLEAN
ASSUME BoundAssumption == MaxStream \in Nat /\ MaxFaults \in Nat /\ Prompt \in BOOLEAN

VARIABLES
  stream,      \* entries ever added: message and attempt
  trimmed,     \* how many of the oldest are gone
  last,        \* per group: last delivered entry
  pel,         \* per group: pending entries
  count,       \* per group and entry: the pending list's delivery counter
  idle,        \* per group and entry: time since the last delivery
  retryq,      \* per group: sorted set of retries with the time left
  dlq,         \* dead letters, by message and source group
  svc,         \* per process: progress of Service.Start
  live,        \* per process: groups whose loops run
  ctxDone,     \* per process: its context is cancelled
  phase,       \* per loop: where it is
  batch,       \* per loop: entries read and not yet handled
  attempt,     \* per loop and entry: Delivery.Attempt
  faults,      \* faults so far
  succeeded,   \* history, per group: messages a handler accepted
  dropped,     \* history, per group: messages acknowledged without success
  delivered,   \* history, per group and message: deliveries, up to MaxDeliver
  invoked      \* history, per group and message: handler calls, up to MaxDeliver + 1

redis == <<stream, trimmed, last, pel, count, idle, retryq, dlq>>
loops == <<phase, batch, attempt>>
procs == <<svc, live, ctxDone>>
history == <<succeeded, dropped, delivered, invoked>>
vars == <<redis, procs, loops, faults, history>>

Idx == 1 .. MaxStream
Loops == Procs \X Groups \X {"consume", "claim"}
Proc(t) == t[1]
Group(t) == t[2]
LoopsOf(p, g) == {<<p, g, "consume">>, <<p, g, "claim">>}

\* messageFieldsWithAttempt writes the service's MaxDeliver when a message has none.
MaxDeliver(m) == IF MsgMaxDeliver[m] = 0 THEN DefaultMaxDeliver ELSE MsgMaxDeliver[m]

Entry == [msg : Msgs, attempt : Nat]
Retry == [msg : Msgs, attempt : Nat, wait : Nat]
NoIdx == [i \in Idx |-> 0]

StreamType ==
  /\ stream \in Seq(Entry) /\ Len(stream) <= MaxStream
  /\ trimmed \in 0 .. Len(stream)
  /\ last \in [Groups -> 0 .. Len(stream)]
  /\ pel \in [Groups -> SUBSET (1 .. Len(stream))]
  /\ retryq \in [Groups -> SUBSET Retry]
  /\ dlq \subseteq Msgs \X Groups

PendingType ==
  /\ count \in [Groups -> [Idx -> Nat]]
  /\ idle \in [Groups -> [Idx -> 0 .. IdleTimeout]]

LoopType ==
  /\ phase \in [Loops -> {"off", "idle", "handle", "ok", "err", "done"}]
  /\ batch \in [Loops -> SUBSET (1 .. Len(stream))]
  /\ attempt \in [Loops -> [Idx -> Nat]]
  /\ \A t \in Loops : phase[t] \in {"handle", "ok", "err"} <=> batch[t] # {}

RestType ==
  /\ svc \in [Procs -> {"starting", "started", "failed"}]
  /\ live \in [Procs -> SUBSET Groups]
  /\ ctxDone \in [Procs -> BOOLEAN]
  /\ faults \in 0 .. MaxFaults

HistoryType ==
  /\ succeeded \in [Groups -> SUBSET Msgs]
  /\ dropped \in [Groups -> SUBSET Msgs]
  /\ delivered \in [Groups -> [Msgs -> Nat]]
  /\ invoked \in [Groups -> [Msgs -> Nat]]

TypeOK == StreamType /\ PendingType /\ LoopType /\ RestType /\ HistoryType

Init ==
  /\ stream = <<>> /\ trimmed = 0
  /\ last = [g \in Groups |-> 0]
  /\ pel = [g \in Groups |-> {}]
  /\ count = [g \in Groups |-> NoIdx]
  /\ idle = [g \in Groups |-> NoIdx]
  /\ retryq = [g \in Groups |-> {}]
  /\ dlq = {}
  /\ svc = [p \in Procs |-> "starting"]
  /\ live = [p \in Procs |-> {}]
  /\ ctxDone = [p \in Procs |-> FALSE]
  /\ phase = [t \in Loops |-> "off"]
  /\ batch = [t \in Loops |-> {}]
  /\ attempt = [t \in Loops |-> NoIdx]
  /\ faults = 0
  /\ succeeded = [g \in Groups |-> {}]
  /\ dropped = [g \in Groups |-> {}]
  /\ delivered = [g \in Groups |-> [m \in Msgs |-> 0]]
  /\ invoked = [g \in Groups |-> [m \in Msgs |-> 0]]

Fault == faults < MaxFaults /\ faults' = faults + 1

\* A Redis call of process p fails: its context is cancelled, or Redis errs.
CallFails(p) ==
  \/ ctxDone[p] /\ UNCHANGED faults
  \/ ~ctxDone[p] /\ Fault

Published(m) == \E i \in 1 .. Len(stream) : stream[i].msg = m

-----------------------------------------------------------------------------
(* Service.Publish *)

\* XADD with MAXLEN leaves the newest MaxLen entries; an approximate one may
\* leave more.
Trim(length) ==
  LET excess == IF MaxLen > 0 /\ length > MaxLen THEN length - MaxLen ELSE 0
  IN IF excess <= trimmed THEN {trimmed}
     ELSE IF ApproxMaxLen THEN trimmed .. excess ELSE {excess}

Publish(m) ==
  /\ ~Published(m)
  /\ Len(stream) < MaxStream
  /\ stream' = Append(stream, [msg |-> m, attempt |-> 1])
  /\ trimmed' \in Trim(Len(stream) + 1)
  /\ UNCHANGED <<last, pel, count, idle, retryq, dlq, procs, loops, faults, history>>

-----------------------------------------------------------------------------
(* Service.Start, and the end of a process *)

\* EnsureGroup, then the loops of the group.  A group is created at entry 0, so
\* creating it late hides nothing.
StartGroup(p, g) ==
  /\ svc[p] = "starting"
  /\ ~ctxDone[p]
  /\ g \notin live[p]
  /\ live' = [live EXCEPT ![p] = @ \cup {g}]
  /\ svc' = [svc EXCEPT ![p] = IF live'[p] = Groups THEN "started" ELSE "starting"]
  /\ phase' = [t \in Loops |-> IF t \in LoopsOf(p, g) THEN "idle" ELSE phase[t]]
  /\ UNCHANGED <<redis, ctxDone, batch, attempt, faults, history>>

\* EnsureGroup fails and Start returns; the loops begun so far keep running.
StartFails(p) ==
  /\ svc[p] = "starting"
  /\ CallFails(p)
  /\ svc' = [svc EXCEPT ![p] = "failed"]
  /\ UNCHANGED <<redis, live, ctxDone, loops, history>>

\* The owner of the context cancels it, certainly after a failed Start.
Cancel(p) ==
  /\ ~ctxDone[p]
  /\ \/ svc[p] = "failed" /\ UNCHANGED faults
     \/ svc[p] # "failed" /\ Fault
  /\ ctxDone' = [ctxDone EXCEPT ![p] = TRUE]
  /\ UNCHANGED <<redis, svc, live, loops, history>>

LoopExit(t) ==
  /\ phase[t] = "idle"
  /\ ctxDone[Proc(t)]
  /\ phase' = [phase EXCEPT ![t] = "done"]
  /\ UNCHANGED <<redis, procs, batch, attempt, faults, history>>

\* A new process in place of p.
Fresh(p) ==
  /\ svc' = [svc EXCEPT ![p] = "starting"]
  /\ live' = [live EXCEPT ![p] = {}]
  /\ ctxDone' = [ctxDone EXCEPT ![p] = FALSE]
  /\ phase' = [t \in Loops |-> IF Proc(t) = p THEN "off" ELSE phase[t]]
  /\ batch' = [t \in Loops |-> IF Proc(t) = p THEN {} ELSE batch[t]]
  /\ attempt' = [t \in Loops |-> IF Proc(t) = p THEN NoIdx ELSE attempt[t]]
  /\ UNCHANGED <<redis, history>>

Crash(p) ==
  /\ live[p] # {}
  /\ Fault
  /\ Fresh(p)

Restart(p) ==
  /\ ctxDone[p]
  /\ \A t \in Loops : Proc(t) = p => phase[t] \in {"off", "done"}
  /\ Fresh(p)
  /\ UNCHANGED faults

-----------------------------------------------------------------------------
(* consumeLoop and claimLoop: taking entries *)

Cap(n, max) == IF n < max THEN n + 1 ELSE n

\* History: the entries of S are delivered to group g.
CountDelivery(g, S) ==
  delivered' = [delivered EXCEPT ![g] =
                  [m \in Msgs |-> IF \E i \in S : stream[i].msg = m
                                  THEN Cap(delivered[g][m], MaxDeliver(m)) ELSE delivered[g][m]]]

\* Redis delivers the entries of S to group g, once more, and forgets those of
\* gone.
Deliver(g, S, gone) ==
  /\ pel' = [pel EXCEPT ![g] = (@ \ gone) \cup S]
  /\ count' = [count EXCEPT ![g] = [i \in Idx |-> IF i \in S THEN count[g][i] + 1 ELSE count[g][i]]]
  /\ idle' = [idle EXCEPT ![g] = [i \in Idx |-> IF i \in S THEN 0 ELSE idle[g][i]]]
  /\ CountDelivery(g, S)

\* The loop has received the entries of S, with the attempts A gives.
Receive(t, S, A) ==
  /\ batch' = [batch EXCEPT ![t] = S]
  /\ attempt' = [attempt EXCEPT ![t] = [i \in Idx |-> IF i \in S THEN A[i] ELSE 0]]
  /\ phase' = [phase EXCEPT ![t] = IF S = {} THEN "idle" ELSE "handle"]

\* What XREADGROUP > COUNT ReadCount returns.
Unread(g) == {i \in 1 .. Len(stream) : i > last[g] /\ i > trimmed}
NextUnread(g) == {i \in Unread(g) : Cardinality({j \in Unread(g) : j < i}) < ReadCount}

Stored == [i \in Idx |-> IF i \in 1 .. Len(stream) THEN stream[i].attempt ELSE 0]

\* The group's position moves to the last entry it was given.
MovePast(g, S) ==
  \E i \in S : (\A j \in S : j <= i) /\ last' = [last EXCEPT ![g] = i]

\* ReadGroup.  A lost answer leaves the entries pending with nobody at work.
ReadGroup(t) ==
  /\ phase[t] = "idle"
  /\ ~ctxDone[Proc(t)]
  /\ t[3] = "consume"
  /\ LET g == Group(t)  S == NextUnread(g)
     IN /\ S # {}
        /\ MovePast(g, S)
        /\ Deliver(g, S, {})
        /\ \/ Receive(t, S, Stored) /\ UNCHANGED faults
           \/ Fault /\ UNCHANGED loops
  /\ UNCHANGED <<stream, trimmed, retryq, dlq, procs, succeeded, dropped, invoked>>

\* Mutant: IdleLong_Never claims nothing.
IdleLong_Never(g) == {}
IdleLong(g) == {i \in pel[g] : idle[g][i] >= IdleTimeout}
Claimable(g) == {i \in IdleLong(g) : i > trimmed}

\* pendingRetryCount by entry: the pending list's counter, or nothing for the
\* entries of X, which then keep the attempt they were stored with.
Counted(g, X) == [i \in Idx |-> IF i \in X THEN Stored[i] ELSE count'[g][i]]

\* Entries a loop of the group still works on, and may acknowledge at any moment.
InHand(g) == UNION {batch[t] : t \in {u \in Loops : Group(u) = g}}

\* AutoClaim with its XPENDING calls, which find nothing for an entry that is
\* acknowledged meanwhile, and may fail.  Entries MAXLEN has removed leave the
\* pending list here.  The cursor decides which of the idle entries come first;
\* here any may.
AutoClaim(t) ==
  /\ phase[t] = "idle"
  /\ ~ctxDone[Proc(t)]
  /\ t[3] = "claim"
  /\ LET g == Group(t)  gone == IdleLong(g) \ Claimable(g)
     IN \E S \in SUBSET Claimable(g) :
          /\ S # {} \/ gone # {}
          /\ Cardinality(S) <= ReadCount
          /\ Deliver(g, S, gone)
          /\ \/ \E X \in SUBSET S :
                  /\ Receive(t, S, Counted(g, X))
                  /\ \/ X \subseteq InHand(g) /\ UNCHANGED faults
                     \/ ~(X \subseteq InHand(g)) /\ Fault
             \/ Fault /\ UNCHANGED loops
  /\ UNCHANGED <<stream, trimmed, last, retryq, dlq, procs, succeeded, dropped, invoked>>

-----------------------------------------------------------------------------
(* handleEntry *)

\* The entries of a batch are handled in stream order.
Cur(t) == CHOOSE i \in batch[t] : \A j \in batch[t] : i <= j
CurMsg(t) == stream[Cur(t)].msg
CurAttempt(t) == attempt[t][Cur(t)]

\* On to the next entry of the batch, or back to the loop.
FinishEntry(t) ==
  LET rest == batch[t] \ {Cur(t)}
  IN /\ batch' = [batch EXCEPT ![t] = rest]
     /\ attempt' = [attempt EXCEPT ![t] = [attempt[t] EXCEPT ![Cur(t)] = 0]]
     /\ phase' = [phase EXCEPT ![t] = IF rest = {} THEN "idle" ELSE "handle"]

\* XACK: the entry leaves the pending list, whoever has it now.
XAck(g, i) ==
  /\ pel' = [pel EXCEPT ![g] = @ \ {i}]
  /\ count' = [count EXCEPT ![g] = [count[g] EXCEPT ![i] = 0]]
  /\ idle' = [idle EXCEPT ![g] = [idle[g] EXCEPT ![i] = 0]]

\* A message that does not decode is acknowledged and forgotten.
DropMalformed(t) ==
  /\ phase[t] = "handle"
  /\ CurMsg(t) \in Malformed
  /\ ~ctxDone[Proc(t)]
  /\ XAck(Group(t), Cur(t))
  /\ dropped' = [dropped EXCEPT ![Group(t)] = @ \cup {CurMsg(t)}]
  /\ FinishEntry(t)
  /\ UNCHANGED <<stream, trimmed, last, retryq, dlq, procs, faults, succeeded, delivered, invoked>>

\* An attempt past the limit goes to the dead letters without its handler.
PastLimit(t) == CurAttempt(t) > MaxDeliver(CurMsg(t)) /\ DLQEnabled

\* The handler's answer; it may come after the context is cancelled.
Handle(t, ok) ==
  /\ phase[t] = "handle"
  /\ CurMsg(t) \notin Malformed
  /\ ~PastLimit(t)
  /\ LET g == Group(t)  m == CurMsg(t)
     IN /\ invoked' = [invoked EXCEPT ![g] = [invoked[g] EXCEPT ![m] = Cap(@, MaxDeliver(m) + 1)]]
        /\ succeeded' = IF ok THEN [succeeded EXCEPT ![g] = @ \cup {m}] ELSE succeeded
  /\ phase' = [phase EXCEPT ![t] = IF ok THEN "ok" ELSE "err"]
  /\ UNCHANGED <<redis, procs, batch, attempt, faults, dropped, delivered>>

Ack(t) ==
  /\ phase[t] = "ok"
  /\ ~ctxDone[Proc(t)]
  /\ XAck(Group(t), Cur(t))
  /\ FinishEntry(t)
  /\ UNCHANGED <<stream, trimmed, last, retryq, dlq, procs, faults, history>>

\* Whether a failed handler may run again.
\* Mutant: NoAttemptLeft_Early gives up one attempt early.
NoAttemptLeft_Early(t) == CurAttempt(t) + 1 >= MaxDeliver(CurMsg(t))
NoAttemptLeft(t) == CurAttempt(t) + 1 > MaxDeliver(CurMsg(t))

\* dlqAndAckScript.
MoveToDLQ(t) ==
  /\ \/ phase[t] = "handle" /\ CurMsg(t) \notin Malformed /\ PastLimit(t)
     \/ phase[t] = "err" /\ NoAttemptLeft(t) /\ DLQEnabled
  /\ ~ctxDone[Proc(t)]
  /\ dlq' = dlq \cup {<<CurMsg(t), Group(t)>>}
  /\ XAck(Group(t), Cur(t))
  /\ FinishEntry(t)
  /\ UNCHANGED <<stream, trimmed, last, retryq, procs, faults, history>>

\* Without dead letters the last failure is acknowledged.
DropFailed(t) ==
  /\ phase[t] = "err"
  /\ NoAttemptLeft(t)
  /\ ~DLQEnabled
  /\ ~ctxDone[Proc(t)]
  /\ XAck(Group(t), Cur(t))
  /\ dropped' = [dropped EXCEPT ![Group(t)] = @ \cup {CurMsg(t)}]
  /\ FinishEntry(t)
  /\ UNCHANGED <<stream, trimmed, last, retryq, dlq, procs, faults, succeeded, delivered, invoked>>

retryDelay(n) ==
  IF n <= 1 \/ Len(Backoff) = 0 THEN 0
  ELSE IF n - 2 >= Len(Backoff) THEN Backoff[Len(Backoff)]
  ELSE Backoff[n - 1]

\* ZADD: a member that is already there only gets the new score.
\* Mutant: ZAdd_Lost acknowledges without adding.
ZAdd_Lost(g, m, n, delay) == retryq' = retryq
ZAdd(g, m, n, delay) ==
  retryq' = [retryq EXCEPT ![g] =
               {r \in retryq[g] : ~(r.msg = m /\ r.attempt = n)}
                 \cup {[msg |-> m, attempt |-> n, wait |-> delay]}]

\* retryAndAckScript.
ScheduleRetry(t) ==
  /\ phase[t] = "err"
  /\ ~NoAttemptLeft(t)
  /\ ~ctxDone[Proc(t)]
  /\ ZAdd(Group(t), CurMsg(t), CurAttempt(t) + 1, retryDelay(CurAttempt(t) + 1))
  /\ XAck(Group(t), Cur(t))
  /\ FinishEntry(t)
  /\ UNCHANGED <<stream, trimmed, last, dlq, procs, faults, history>>

\* The call that would settle the entry fails: it stays pending.
SettleFails(t) ==
  /\ \/ phase[t] \in {"ok", "err"}
     \/ phase[t] = "handle" /\ (CurMsg(t) \in Malformed \/ PastLimit(t))
  /\ CallFails(Proc(t))
  /\ FinishEntry(t)
  /\ UNCHANGED <<redis, procs, history>>

-----------------------------------------------------------------------------
(* retryLoop, and time *)

DueRetries(g) == {r \in retryq[g] : r.wait = 0}

\* retryPromoteScript: up to ReadCount due retries move to the end of the
\* topic's stream, which every group reads.
Promote(g) ==
  \E n \in 1 .. ReadCount : \E q \in [1 .. n -> DueRetries(g)] :
    /\ \A i, j \in 1 .. n : i # j => q[i] # q[j]
    /\ n = ReadCount \/ {q[i] : i \in 1 .. n} = DueRetries(g)
    /\ Len(stream) + n <= MaxStream
    /\ stream' = stream \o [i \in 1 .. n |-> [msg |-> q[i].msg, attempt |-> q[i].attempt]]
    /\ retryq' = [retryq EXCEPT ![g] = @ \ {q[i] : i \in 1 .. n}]

\* A tick of the retry loop; a call that fails is made again at the next.
PromoteDueRetries(p, g) ==
  /\ g \in live[p]
  /\ ~ctxDone[p]
  /\ Promote(g)
  /\ UNCHANGED <<trimmed, last, pel, count, idle, dlq, procs, loops, faults, history>>

\* One unit of time.
Tick ==
  /\ Prompt => \A t \in Loops : \A i \in batch[t] :
                 i \in pel[Group(t)] => idle[Group(t)][i] + 1 < IdleTimeout
  /\ idle' = [g \in Groups |-> [i \in Idx |->
                IF i \in pel[g] /\ idle[g][i] < IdleTimeout THEN idle[g][i] + 1 ELSE idle[g][i]]]
  /\ retryq' = [g \in Groups |->
                  {[msg |-> r.msg, attempt |-> r.attempt,
                    wait |-> IF r.wait > 0 THEN r.wait - 1 ELSE 0] : r \in retryq[g]}]
  /\ UNCHANGED <<stream, trimmed, last, pel, count, dlq, procs, loops, faults, history>>

-----------------------------------------------------------------------------

Take(t) == ReadGroup(t) \/ AutoClaim(t)

Settle(t) ==
  \/ DropMalformed(t) \/ Ack(t) \/ MoveToDLQ(t) \/ DropFailed(t) \/ ScheduleRetry(t)
  \/ SettleFails(t)

LoopStep(t) == Take(t) \/ Settle(t) \/ LoopExit(t) \/ \E ok \in BOOLEAN : Handle(t, ok)

ProcStep(p) == Restart(p) \/ \E g \in Groups : StartGroup(p, g)

Next ==
  \/ \E m \in Msgs : Publish(m)
  \/ \E t \in Loops : LoopStep(t)
  \/ \E p \in Procs : \/ ProcStep(p) \/ StartFails(p) \/ Cancel(p) \/ Crash(p)
                       \/ \E g \in Groups : PromoteDueRetries(p, g)
  \/ Tick

Spec == Init /\ [][Next]_vars

\* The loops run, time passes, processes are started, and the owner of a failed
\* Start cancels its context.
Fairness ==
  /\ \A t \in Loops : WF_vars(LoopStep(t))
  /\ \A p \in Procs : /\ WF_vars(ProcStep(p))
                       /\ WF_vars(svc[p] = "failed" /\ Cancel(p))
                       /\ \A g \in Groups : WF_vars(PromoteDueRetries(p, g))
  /\ WF_vars(Tick)

FairSpec == Spec /\ Fairness

-----------------------------------------------------------------------------
(* Properties *)

\* Group g is done with m: a handler accepted it, or it was given up for good.
Settled(g, m) == m \in succeeded[g] \/ m \in dropped[g] \/ <<m, g>> \in dlq

\* Redis still holds m for group g: unread, pending or waiting for a retry.
Kept(g, m) ==
  \/ \E i \in 1 .. Len(stream) : stream[i].msg = m /\ i > trimmed /\ (i > last[g] \/ i \in pel[g])
  \/ \E r \in retryq[g] : r.msg = m

\* Delivery is at least once: a published message is kept for every group that
\* is not done with it, whatever crashes, stalls or fails.
AtLeastOnce == \A m \in Msgs, g \in Groups : Published(m) => Kept(g, m) \/ Settled(g, m)

\* Trimming is the only way to lose a message: one none of whose entries MAXLEN
\* removed is kept for every group that is not done with it.
LossOnlyByTrim ==
  \A m \in Msgs, g \in Groups :
    Published(m) /\ (\A i \in 1 .. trimmed : stream[i].msg # m) => Kept(g, m) \/ Settled(g, m)

\* A dead letter has used up its deliveries: MaxDeliver of them at least.
DeadLetterUsedUp ==
  \A m \in Msgs, g \in Groups : <<m, g>> \in dlq => delivered[g][m] >= MaxDeliver(m)

\* Retries are isolated by group: a group that accepted a message is not given it
\* again because another group retries it.
RetriesIsolated ==
  [][\A m \in Msgs, g \in Groups :
       m \in succeeded[g] => invoked'[g][m] = invoked[g][m]]_vars

\* Every published message is accepted or given up by every group.
EventuallySettled ==
  \A m \in Msgs, g \in Groups : Published(m) ~> Settled(g, m)

=============================================================================
