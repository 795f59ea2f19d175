--------------------------- MODULE ReminderProofs ---------------------------
(***************************************************************************)
(* Machine-checked proofs about Reminder, for every set of reminders,      *)
(* workers and clients, every number of faults and calls, and every TTL,   *)
(* batch size and list of retry delays.                                    *)
(***************************************************************************)
EXTENDS Reminder, TLAPS

\* The delay Service.retryDelay picks is one of the configured ones.
LEMMA RetryDelayType ==
  ASSUME NEW attempt \in Nat
  PROVE  retryDelay(attempt) \in Nat
BY DelayAssumption DEF retryDelay

LEMMA ResetObsType ==
  ASSUME ObsType, NEW S, ResetObs(S)
  PROVE  ObsType'
BY DEF ObsType, ResetObs

LEMMA RequeueType ==
  ASSUME TableType, ObsType, RequeueStaleProcessing
  PROVE  TableType' /\ ObsType'
<1>1. TableType'
  BY TTLAssumption DEF TableType, RequeueStaleProcessing, Statuses
<1>2. ObsType'
  BY ResetObsType DEF RequeueStaleProcessing
<1> QED BY <1>1, <1>2

LEMMA FinishItemType ==
  ASSUME WorkerType, NEW w \in Workers, cur[w] \in batch[w], FinishItem(w)
  PROVE  WorkerType'
<1>1. cur[w] \in Ids
  BY DEF WorkerType
<1>2. batch' \in [Workers -> SUBSET Ids] /\ cur' \in [Workers -> Ids \cup {None}] /\ pc' \in [Workers -> Pcs]
  BY DEF WorkerType, FinishItem, Pcs
<1>3. seen' \in [Workers -> [Ids -> Nat]]
  BY <1>1 DEF WorkerType, FinishItem
<1>4. \A v \in Workers : pc'[v] \in {"markSent", "markError"} => cur'[v] \in batch'[v]
  BY DEF WorkerType, FinishItem
<1> QED BY <1>2, <1>3, <1>4 DEF WorkerType

LEMMA LoseOutcomeType ==
  ASSUME ObsType, WorkerType, NEW w \in Workers, LoseOutcome(w), UNCHANGED <<fails, oks>>
  PROVE  ObsType'
BY DEF ObsType, LoseOutcome, WorkerType

\* Recording an outcome keeps the table well typed.
LEMMA MarkType ==
  ASSUME TypeOK, NEW w \in Workers, cur[w] \in batch[w],
         NEW st \in Statuses, NEW count \in Nat, NEW delay \in Nat,
         Mark(w, st, count, delay)
  PROVE  TypeOK'
<1>1. TableType'
  BY TTLAssumption DEF TypeOK, TableType, Mark
<1>2. WorkerType'
  BY FinishItemType DEF TypeOK, Mark
<1>3. ObsType' /\ RestType'
  BY DEF TypeOK, ObsType, RestType, Mark, obs
<1> QED BY <1>1, <1>2, <1>3 DEF TypeOK

LEMMA InitType == Init => TypeOK
BY TTLAssumption, BoundAssumption, IdsAssumption
DEF Init, Zero, Idle, TypeOK, TableType, WorkerType, RestType, ObsType, Statuses, Pcs

\* Every action keeps the types.
LEMMA TypeStep == TypeOK /\ [Next]_vars => TypeOK'
<1> SUFFICES ASSUME TypeOK, [Next]_vars PROVE TypeOK'
  OBVIOUS
<1> USE DEF TypeOK
<1>1. ASSUME NEW k \in Ids, Create(k) PROVE TypeOK'
  <2>1. PICK p \in MaxRetryParams, d \in 0 .. MaxWait :
           /\ status' = [status EXCEPT ![k] = "pending"]
           /\ wait' = [wait EXCEPT ![k] = d]
           /\ maxRetry' = [maxRetry EXCEPT ![k] = DefaultMaxRetry(p)]
    BY <1>1 DEF Create
  <2>2. DefaultMaxRetry(p) \in Nat /\ d \in Nat
    BY RetryParamAssumption, BoundAssumption DEF DefaultMaxRetry
  <2>3. TableType'
    BY <1>1, <2>1, <2>2 DEF Create, TableType, Statuses
  <2> QED BY <1>1, <2>3 DEF Create, WorkerType, RestType, ObsType, obs
<1>2. ASSUME NEW c \in Clients, NEW k \in Ids, CancelRead(c, k) PROVE TypeOK'
  <2>1. TableType' /\ WorkerType' /\ ObsType'
    BY <1>2 DEF CancelRead, TableType, WorkerType, ObsType, table, obs
  <2>2. calls' \in 0 .. MaxCalls /\ acked' \subseteq Ids
    BY <1>2, BoundAssumption DEF CancelRead, Call, RestType
  <2>3. /\ client' \in [Clients -> [op : {"idle", "cancel", "reschedule"}, id : Ids \cup {None}, wait : Nat]]
        /\ \A d \in Clients : client'[d].op # "idle" => client'[d].id \in Ids
    BY <1>2 DEF CancelRead, RestType
  <2> QED BY <1>2, <2>1, <2>2, <2>3 DEF CancelRead, RestType
<1>3. ASSUME NEW c \in Clients, NEW k \in Ids, RescheduleRead(c, k) PROVE TypeOK'
  BY <1>3, BoundAssumption
  DEF RescheduleRead, Call, TableType, WorkerType, RestType, ObsType, table, obs
<1>4. ASSUME NEW c \in Clients, CancelUpdate(c) PROVE TypeOK'
  <2>1. client[c].id \in Ids
    BY <1>4 DEF CancelUpdate, RestType
  <2>2. TableType'
    BY <1>4, <2>1 DEF CancelUpdate, TableType, Statuses
  <2>3. RestType'
    BY <1>4, <2>1 DEF CancelUpdate, Idle, RestType
  <2> QED BY <1>4, <2>2, <2>3 DEF CancelUpdate, WorkerType, ObsType, obs
<1>5. ASSUME NEW c \in Clients, RescheduleUpdate(c) PROVE TypeOK'
  <2>1. client[c].id \in Ids /\ client[c].wait \in Nat
    BY <1>5 DEF RescheduleUpdate, RestType
  <2>2. ObsType'
    BY <1>5, ResetObsType DEF RescheduleUpdate, ObsType, obs
  <2>3. TableType'
    BY <1>5, <2>1 DEF RescheduleUpdate, TableType, Statuses
  <2>4. WorkerType' /\ RestType'
    BY <1>5 DEF RescheduleUpdate, Idle, WorkerType, RestType
  <2> QED BY <2>2, <2>3, <2>4
<1>6. ASSUME NEW c \in Clients, ClientError(c) PROVE TypeOK'
  BY <1>6, BoundAssumption
  DEF ClientError, Fault, Idle, TableType, WorkerType, RestType, ObsType, table, obs
<1>7. ASSUME NEW w \in Workers, StartCall(w) PROVE TypeOK'
  BY <1>7 DEF StartCall, Pcs, TableType, WorkerType, RestType, ObsType, table, obs
<1>8. ASSUME NEW w \in Workers, StartRecover(w) PROVE TypeOK'
  <2>1. TableType' /\ ObsType'
    BY <1>8, RequeueType DEF StartRecover, TableType, ObsType, table, obs
  <2>2. WorkerType'
    BY <1>8 DEF StartRecover, WorkerType, Pcs
  <2>3. RestType'
    BY <1>8, BoundAssumption DEF StartRecover, RequeueStaleProcessing, Fault, RestType
  <2> QED BY <2>1, <2>2, <2>3
<1>9. ASSUME NEW w \in Workers, StopCall(w) PROVE TypeOK'
  <2>1. TableType' /\ WorkerType' /\ ObsType'
    BY <1>9 DEF StopCall, TableType, WorkerType, ObsType, table, obs
  <2>2. calls' \in 0 .. MaxCalls
    BY <1>9, BoundAssumption DEF StopCall, Call, RestType
  <2>3. stop' \in [Workers -> {"none", "waiting", "returned", "deadline", "missed"}]
    BY <1>9 DEF StopCall, RestType
  <2>4. ctxDone' \in [Workers -> BOOLEAN]
    BY <1>9 DEF StopCall, RestType
  <2> QED BY <1>9, <2>1, <2>2, <2>3, <2>4 DEF StopCall, RestType
<1>10. ASSUME NEW w \in Workers, StopReturn(w) \/ StopDeadline(w) PROVE TypeOK'
  BY <1>10 DEF StopReturn, StopDeadline, TableType, WorkerType, RestType, ObsType, table, obs
<1>11. ASSUME NEW w \in Workers, CancelRun(w) PROVE TypeOK'
  BY <1>11, BoundAssumption
  DEF CancelRun, Call, TableType, WorkerType, RestType, ObsType, table, obs
<1>12. ASSUME NEW w \in Workers, LoopExit(w) PROVE TypeOK'
  BY <1>12 DEF LoopExit, Pcs, TableType, WorkerType, RestType, ObsType, table, obs
<1>13. ASSUME NEW w \in Workers, LoopTick(w) PROVE TypeOK'
  <2>1. TableType' /\ ObsType'
    BY <1>13, RequeueType DEF LoopTick, TableType, ObsType, table, obs
  <2>2. WorkerType'
    BY <1>13 DEF LoopTick, WorkerType, Pcs
  <2>3. RestType'
    BY <1>13, BoundAssumption DEF LoopTick, RequeueStaleProcessing, Fault, RestType
  <2> QED BY <2>1, <2>2, <2>3
<1>14. ASSUME NEW w \in Workers, ClaimDue(w) PROVE TypeOK'
  <2>1. TableType'
    BY <1>14, TTLAssumption DEF ClaimDue, SetProcessing, TableType, Statuses, table
  <2>2. WorkerType'
    <3>1. PICK S \in SUBSET Ids :
             \/ /\ batch' = [batch EXCEPT ![w] = S]
                /\ seen' = [seen EXCEPT ![w] = [k \in Ids |-> IF k \in S THEN retryCount[k] ELSE 0]]
                /\ pc' = [pc EXCEPT ![w] = IF S = {} THEN "loop" ELSE "notify"]
             \/ pc' = [pc EXCEPT ![w] = "loop"] /\ UNCHANGED <<batch, seen>>
      BY <1>14, Zenon DEF ClaimDue
    <3>2. seen' \in [Workers -> [Ids -> Nat]]
      <4>1. [k \in Ids |-> IF k \in S THEN retryCount[k] ELSE 0] \in [Ids -> Nat]
        BY DEF TableType
      <4> QED BY <3>1, <4>1 DEF WorkerType
    <3>3. batch' \in [Workers -> SUBSET Ids] /\ pc' \in [Workers -> Pcs]
      BY <3>1 DEF WorkerType, Pcs
    <3> UNCHANGED cur
      BY <1>14 DEF ClaimDue
    <3>4. \A v \in Workers : pc'[v] \in {"markSent", "markError"} => cur'[v] \in batch'[v]
      BY <3>1, <3>3 DEF WorkerType
    <3> QED BY <3>2, <3>3, <3>4 DEF WorkerType
  <2>3. RestType' /\ ObsType'
    BY <1>14, BoundAssumption DEF ClaimDue, Fault, RestType, ObsType, obs
  <2> QED BY <2>1, <2>2, <2>3
<1>15. ASSUME NEW w \in Workers, NEW k \in Ids, NEW ok \in BOOLEAN, Notify(w, k, ok) PROVE TypeOK'
  <2>1. WorkerType'
    BY <1>15 DEF Notify, Holds, WorkerType, Pcs
  <2>2. ObsType'
    BY <1>15 DEF Notify, ObsType
  <2>3. TableType' /\ RestType'
    BY <1>15 DEF Notify, TableType, RestType, table
  <2> QED BY <2>1, <2>2, <2>3
<1>16. ASSUME NEW w \in Workers, MarkSent(w) \/ MarkFailed(w) \/ MarkRetry(w) PROVE TypeOK'
  <2>1. cur[w] \in batch[w] /\ cur[w] \in Ids
    BY <1>16 DEF MarkSent, MarkFailed, MarkRetry, WorkerType
  <2>2. seen[w][cur[w]] + 1 \in Nat /\ retryCount[cur[w]] \in Nat /\ wait[cur[w]] \in Nat
    BY <2>1 DEF WorkerType, TableType
  <2>3. retryDelay(seen[w][cur[w]] + 1) \in Nat
    BY <2>2, RetryDelayType
  <2>4. {"sent", "failed", "pending"} \subseteq Statuses
    BY DEF Statuses
  <2> QED BY <1>16, <2>1, <2>2, <2>3, <2>4, MarkType DEF MarkSent, MarkFailed, MarkRetry
<1>17. ASSUME NEW w \in Workers, MarkError(w) PROVE TypeOK'
  <2>1. cur[w] \in batch[w]
    BY <1>17 DEF MarkError, WorkerType
  <2>2. WorkerType'
    BY <1>17, <2>1, FinishItemType DEF MarkError
  <2>3. ObsType'
    BY <1>17, LoseOutcomeType DEF MarkError
  <2>4. TableType' /\ RestType'
    BY <1>17, BoundAssumption DEF MarkError, Fault, TableType, RestType, table
  <2> QED BY <2>2, <2>3, <2>4
<1>18. ASSUME NEW w \in Workers, Crash(w) PROVE TypeOK'
  <2>1. ObsType'
    BY <1>18, LoseOutcomeType DEF Crash
  <2>2. WorkerType'
    BY <1>18 DEF Crash, WorkerType, Pcs, Zero
  <2>3. TableType' /\ RestType'
    BY <1>18, BoundAssumption DEF Crash, Fault, TableType, RestType, table
  <2> QED BY <2>1, <2>2, <2>3
<1>19. ASSUME NEW w \in Workers, Restart(w) PROVE TypeOK'
  BY <1>19 DEF Restart, Pcs, TableType, WorkerType, RestType, ObsType, table, obs
<1>20. CASE Tick
  BY <1>20, TTLAssumption DEF Tick, TableType, WorkerType, RestType, ObsType, obs
<1>21. CASE UNCHANGED vars
  BY <1>21 DEF vars, TableType, WorkerType, RestType, ObsType, table, obs
<1> QED
  BY <1>1, <1>2, <1>3, <1>4, <1>5, <1>6, <1>7, <1>8, <1>9, <1>10, <1>11, <1>12, <1>13,
     <1>14, <1>15, <1>16, <1>17, <1>18, <1>19, <1>20, <1>21
  DEF Next, ClientStep, WorkerStep, Dispatch

\* Every reachable state is well typed.
THEOREM TypeCorrect == Spec => []TypeOK
<1>1. QED BY InitType, TypeStep, PTL DEF Spec

-----------------------------------------------------------------------------
(* What the steps do to the table and to the claims *)

claims == <<batch, seen, overrun>>

\* A step that leaves the columns of the life cycle and the claims alone.
Quiet == UNCHANGED <<status, retryCount, maxRetry, claims>>

\* Every step but the ones listed is quiet.
LEMMA StepCases ==
  ASSUME [Next]_vars
  PROVE  \/ Quiet
         \/ \E k \in Ids : Create(k)
         \/ \E c \in Clients : CancelUpdate(c) \/ RescheduleUpdate(c)
         \/ RequeueStaleProcessing /\ UNCHANGED <<batch, seen>>
         \/ \E w \in Workers : ClaimDue(w)
         \/ \E w \in Workers : MarkSent(w) \/ MarkFailed(w) \/ MarkRetry(w)
         \/ \E w \in Workers : MarkError(w)
         \/ \E w \in Workers : Crash(w)
<1> USE DEF Quiet, claims, table
<1>1. ASSUME NEW c \in Clients, NEW k \in Ids, CancelRead(c, k) \/ RescheduleRead(c, k) PROVE Quiet
  BY <1>1 DEF CancelRead, RescheduleRead
<1>2. ASSUME NEW c \in Clients, ClientError(c) PROVE Quiet
  BY <1>2 DEF ClientError
<1>3. ASSUME NEW w \in Workers, StartCall(w) \/ Restart(w) \/ LoopExit(w) PROVE Quiet
  BY <1>3 DEF StartCall, Restart, LoopExit
<1>4. ASSUME NEW w \in Workers, StopCall(w) \/ StopReturn(w) \/ StopDeadline(w) \/ CancelRun(w) PROVE Quiet
  BY <1>4 DEF StopCall, StopReturn, StopDeadline, CancelRun
<1>5. ASSUME NEW w \in Workers, StartRecover(w) \/ LoopTick(w)
      PROVE  Quiet \/ (RequeueStaleProcessing /\ UNCHANGED <<batch, seen>>)
  BY <1>5 DEF StartRecover, LoopTick
<1>6. ASSUME NEW w \in Workers, NEW k \in Ids, NEW ok \in BOOLEAN, Notify(w, k, ok) PROVE Quiet
  BY <1>6 DEF Notify
<1>7. CASE Tick
  BY <1>7 DEF Tick
<1>8. CASE UNCHANGED vars
  BY <1>8 DEF vars
<1> QED
  BY <1>1, <1>2, <1>3, <1>4, <1>5, <1>6, <1>7, <1>8 DEF Next, ClientStep, WorkerStep, Dispatch

\* What a recorded outcome does to the claims and to its row.
LEMMA MarkEffect ==
  ASSUME TypeOK, NEW w \in Workers, MarkSent(w) \/ MarkFailed(w) \/ MarkRetry(w)
  PROVE  /\ cur[w] \in batch[w] /\ cur[w] \in Ids
         /\ batch' = [batch EXCEPT ![w] = batch[w] \ {cur[w]}]
         /\ seen' = [seen EXCEPT ![w] = [seen[w] EXCEPT ![cur[w]] = 0]]
         /\ UNCHANGED <<maxRetry, overrun>>
         /\ \/ /\ UNCHANGED <<status, retryCount>>
               /\ status[cur[w]] # "processing"
            \/ /\ status[cur[w]] = "processing"
               /\ \E st \in Statuses, rc \in Nat :
                    /\ status' = [status EXCEPT ![cur[w]] = st]
                    /\ retryCount' = [retryCount EXCEPT ![cur[w]] = rc]
                    /\ \/ st = "sent" /\ rc = retryCount[cur[w]]
                       \/ /\ st = "failed" /\ rc = seen[w][cur[w]] + 1
                          /\ rc >= maxRetry[cur[w]]
                       \/ /\ st = "pending" /\ rc = seen[w][cur[w]] + 1
                          /\ rc < maxRetry[cur[w]]
<1>1. cur[w] \in batch[w] /\ cur[w] \in Ids
  BY DEF MarkSent, MarkFailed, MarkRetry, TypeOK, WorkerType
<1>2. /\ batch' = [batch EXCEPT ![w] = batch[w] \ {cur[w]}]
      /\ seen' = [seen EXCEPT ![w] = [seen[w] EXCEPT ![cur[w]] = 0]]
      /\ UNCHANGED <<maxRetry, overrun>>
  BY <1>1 DEF MarkSent, MarkFailed, MarkRetry, Mark, FinishItem
<1>3. {"sent", "failed", "pending"} \subseteq Statuses
  BY DEF Statuses
<1>4. /\ retryCount[cur[w]] \in Nat /\ seen[w][cur[w]] + 1 \in Nat
      /\ maxRetry[cur[w]] \in Nat /\ seen[w][cur[w]] \in Nat
  BY <1>1 DEF TypeOK, TableType, WorkerType
<1>5. CASE status[cur[w]] # "processing"
  BY <1>1, <1>2, <1>5 DEF MarkSent, MarkFailed, MarkRetry, Mark, MarkApplies
<1>6. CASE status[cur[w]] = "processing" /\ MarkSent(w)
  BY <1>1, <1>2, <1>3, <1>4, <1>6 DEF MarkSent, Mark, MarkApplies
<1>7. CASE status[cur[w]] = "processing" /\ MarkFailed(w)
  BY <1>1, <1>2, <1>3, <1>4, <1>7 DEF MarkFailed, LastAttempt, Mark, MarkApplies
<1>8. CASE status[cur[w]] = "processing" /\ MarkRetry(w)
  BY <1>1, <1>2, <1>3, <1>4, <1>8 DEF MarkRetry, LastAttempt, Mark, MarkApplies
<1> QED BY <1>5, <1>6, <1>7, <1>8

\* What a crash or a lost mark does: the worker gives up claims, no row changes.
LEMMA DropEffect ==
  ASSUME TypeOK, NEW w \in Workers, MarkError(w) \/ Crash(w)
  PROVE  /\ UNCHANGED <<status, retryCount, maxRetry, overrun>>
         /\ \A v \in Workers : batch'[v] \subseteq batch[v]
         /\ \A v \in Workers : \A k \in batch'[v] : seen'[v][k] = seen[v][k]
<1>1. CASE MarkError(w)
  <2>1. cur[w] \in batch[w]
    BY <1>1 DEF MarkError, TypeOK, WorkerType
  <2> QED BY <1>1, <2>1 DEF MarkError, FinishItem, table, TypeOK, WorkerType
<1>2. CASE Crash(w)
  BY <1>2 DEF Crash, table, TypeOK, WorkerType
<1> QED BY <1>1, <1>2

\* The rows a client's update changes, it changes from pending or failed.
LEMMA ClientEffect ==
  ASSUME TypeOK, NEW c \in Clients, CancelUpdate(c) \/ RescheduleUpdate(c)
  PROVE  /\ UNCHANGED <<maxRetry, claims>>
         /\ \/ UNCHANGED <<status, retryCount>>
            \/ \E k \in Ids :
                 /\ status[k] \in {"pending", "failed"}
                 /\ \/ /\ status' = [status EXCEPT ![k] = "canceled"]
                       /\ UNCHANGED retryCount
                    \/ /\ status' = [status EXCEPT ![k] = "pending"]
                       /\ retryCount' = [retryCount EXCEPT ![k] = 0]
<1>1. client[c].id \in Ids
  BY DEF CancelUpdate, RescheduleUpdate, TypeOK, RestType
<1>2. CASE CancelUpdate(c)
  BY <1>1, <1>2 DEF CancelUpdate, UpdateApplies, Mutable, claims
<1>3. CASE RescheduleUpdate(c)
  BY <1>1, <1>3 DEF RescheduleUpdate, UpdateApplies, Mutable, claims
<1> QED BY <1>2, <1>3

LEMMA CreateEffect ==
  ASSUME TypeOK, NEW k \in Ids, Create(k)
  PROVE  /\ status[k] = "absent"
         /\ status' = [status EXCEPT ![k] = "pending"]
         /\ \E m \in Nat \ {0} : maxRetry' = [maxRetry EXCEPT ![k] = m]
         /\ UNCHANGED <<retryCount, claims>>
<1>1. \A p \in MaxRetryParams : DefaultMaxRetry(p) \in Nat \ {0}
  BY RetryParamAssumption DEF DefaultMaxRetry
<1> QED BY <1>1 DEF Create, claims

\* A claim moves due rows to processing; the worker that learns of it holds
\* them with the retry count just read.
LEMMA ClaimEffect ==
  ASSUME TypeOK, NEW w \in Workers, ClaimDue(w)
  PROVE  /\ UNCHANGED <<retryCount, maxRetry, overrun>>
         /\ \E S \in SUBSET Ids :
              /\ \A k \in S : status[k] = "pending"
              /\ status' = [k \in Ids |-> IF k \in S THEN "processing" ELSE status[k]]
              /\ \/ UNCHANGED <<batch, seen>>
                 \/ /\ batch' = [batch EXCEPT ![w] = S]
                    /\ seen' = [seen EXCEPT ![w] = [k \in Ids |-> IF k \in S THEN retryCount[k] ELSE 0]]
<1>1. UNCHANGED <<retryCount, maxRetry, overrun>>
  BY DEF ClaimDue, SetProcessing, table
<1>2. PICK S \in SUBSET Ids :
        \/ /\ Claimable(S) /\ SetProcessing(S)
           /\ batch' = [batch EXCEPT ![w] = S]
           /\ seen' = [seen EXCEPT ![w] = [k \in Ids |-> IF k \in S THEN retryCount[k] ELSE 0]]
        \/ /\ S = {} \/ Claimable(S)
           /\ SetProcessing(S) /\ UNCHANGED <<batch, seen>>
        \/ S = {} /\ UNCHANGED <<table, batch, seen>>
  BY Zenon DEF ClaimDue
<1>3. \A k \in S : status[k] = "pending"
  BY <1>2 DEF Claimable, Due
<1>4. status' = [k \in Ids |-> IF k \in S THEN "processing" ELSE status[k]]
  BY <1>2 DEF SetProcessing, table, TypeOK, TableType
<1> QED BY <1>1, <1>2, <1>3, <1>4

\* Recovery moves stale rows back and takes note of the ones still held.
LEMMA RequeueEffect ==
  ASSUME RequeueStaleProcessing
  PROVE  /\ UNCHANGED <<wait, retryCount, maxRetry>>
         /\ \E S \in SUBSET Ids :
              /\ \A k \in S : status[k] = "processing" /\ age[k] >= TTL
              /\ status' = [k \in Ids |-> IF k \in S THEN "pending" ELSE status[k]]
              /\ overrun' = overrun \cup {k \in S : \E w \in Workers : k \in batch[w]}
<1> DEFINE S == {k \in Ids : Stale(k)}
<1>1. S \in SUBSET Ids /\ \A k \in S : status[k] = "processing" /\ age[k] >= TTL
  BY DEF Stale
<1>2. /\ status' = [k \in Ids |-> IF k \in S THEN "pending" ELSE status[k]]
      /\ overrun' = overrun \cup {k \in S : \E w \in Workers : k \in batch[w]}
      /\ UNCHANGED <<wait, retryCount, maxRetry>>
  BY DEF RequeueStaleProcessing, Holds
<1> QED BY <1>1, <1>2

-----------------------------------------------------------------------------
(* The retry budget *)

BudgetInv == RetryBudget /\ BudgetLeft

LEMMA BudgetStep == TypeOK /\ BudgetInv /\ [Next]_vars => BudgetInv'
<1> SUFFICES ASSUME TypeOK, BudgetInv, [Next]_vars PROVE BudgetInv'
  OBVIOUS
<1> USE DEF BudgetInv, RetryBudget, BudgetLeft
<1>t. /\ status \in [Ids -> Statuses] /\ retryCount \in [Ids -> Nat] /\ maxRetry \in [Ids -> Nat]
      /\ batch \in [Workers -> SUBSET Ids] /\ seen \in [Workers -> [Ids -> Nat]]
  BY DEF TypeOK, TableType, WorkerType
<1>1. CASE Quiet
  BY <1>1 DEF Quiet, claims
<1>2. ASSUME NEW k \in Ids, Create(k) PROVE BudgetInv'
  <2>1. /\ status[k] = "absent"
        /\ status' = [status EXCEPT ![k] = "pending"]
        /\ UNCHANGED <<retryCount, batch, seen>>
    BY <1>2, CreateEffect DEF claims
  <2>2. PICK m \in Nat \ {0} : maxRetry' = [maxRetry EXCEPT ![k] = m]
    BY <1>2, CreateEffect
  <2>3. RetryBudget' /\ \A j \in Ids : IF status'[j] = "absent" THEN retryCount'[j] = 0 ELSE maxRetry'[j] > 0
    BY <1>t, <2>1, <2>2
  <2>4. ASSUME NEW v \in Workers, NEW j \in batch'[v]
        PROVE  status'[j] # "absent" /\ seen'[v][j] < maxRetry'[j]
    BY <1>t, <2>1, <2>2, <2>4
  <2> QED BY <2>3, <2>4
<1>3. ASSUME NEW c \in Clients, CancelUpdate(c) \/ RescheduleUpdate(c) PROVE BudgetInv'
  BY <1>3, <1>t, ClientEffect DEF claims
<1>4. CASE RequeueStaleProcessing /\ UNCHANGED <<batch, seen>>
  BY <1>4, <1>t, RequeueEffect
<1>5. ASSUME NEW w \in Workers, ClaimDue(w) PROVE BudgetInv'
  <2>1. UNCHANGED <<retryCount, maxRetry>>
    BY <1>5, ClaimEffect
  <2>2. PICK S \in SUBSET Ids :
              /\ \A k \in S : status[k] = "pending"
              /\ status' = [k \in Ids |-> IF k \in S THEN "processing" ELSE status[k]]
              /\ \/ UNCHANGED <<batch, seen>>
                 \/ /\ batch' = [batch EXCEPT ![w] = S]
                    /\ seen' = [seen EXCEPT ![w] = [k \in Ids |-> IF k \in S THEN retryCount[k] ELSE 0]]
    BY <1>5, ClaimEffect
  <2>3. RetryBudget' /\ \A k \in Ids : IF status'[k] = "absent" THEN retryCount'[k] = 0 ELSE maxRetry'[k] > 0
    BY <1>t, <2>1, <2>2
  <2>4. ASSUME NEW v \in Workers, NEW k \in batch'[v]
        PROVE  status'[k] # "absent" /\ seen'[v][k] < maxRetry'[k]
    <3>1. CASE batch' = [batch EXCEPT ![w] = S] /\ v = w
      BY <1>t, <2>1, <2>2, <2>4, <3>1
    <3>2. CASE batch'[v] = batch[v] /\ seen'[v] = seen[v]
      BY <1>t, <2>1, <2>2, <2>4, <3>2
    <3> QED BY <1>t, <2>2, <3>1, <3>2
  <2> QED BY <2>3, <2>4
<1>6. ASSUME NEW w \in Workers, MarkSent(w) \/ MarkFailed(w) \/ MarkRetry(w) PROVE BudgetInv'
  <2>1. seen[w][cur[w]] < maxRetry[cur[w]] /\ cur[w] \in batch[w]
    BY <1>6, MarkEffect
  <2>2. RetryBudget'
    BY <1>6, <1>t, <2>1, MarkEffect
  <2>3. \A k \in Ids : IF status'[k] = "absent" THEN retryCount'[k] = 0 ELSE maxRetry'[k] > 0
    BY <1>6, <1>t, <2>1, MarkEffect
  <2>4. ASSUME NEW v \in Workers, NEW k \in batch'[v]
        PROVE  status'[k] # "absent" /\ seen'[v][k] < maxRetry'[k]
    <3>1. k \in batch[v] /\ seen'[v][k] = seen[v][k] /\ UNCHANGED maxRetry
      BY <1>6, <1>t, <2>4, MarkEffect
    <3>2. status'[k] # "absent"
      BY <1>6, <1>t, <3>1, MarkEffect
    <3> QED BY <3>1, <3>2
  <2> QED BY <2>2, <2>3, <2>4
<1>7. ASSUME NEW w \in Workers, MarkError(w) \/ Crash(w) PROVE BudgetInv'
  BY <1>7, <1>t, DropEffect
<1> QED BY <1>1, <1>2, <1>3, <1>4, <1>5, <1>6, <1>7, StepCases

\* The retry budget of RetryBudget holds in every reachable state, with workers
\* that overrun their claims and rewrite retry_count included.
THEOREM RetryBudgetHolds == Spec => []RetryBudget
<1>1. Init => BudgetInv
  BY DEF Init, Zero, BudgetInv, RetryBudget, BudgetLeft
<1>2. QED BY <1>1, BudgetStep, TypeCorrect, PTL DEF Spec, BudgetInv

-----------------------------------------------------------------------------
(* One holder per claim *)

\* Exclusiveness survives every step: a claim takes pending rows, which nobody
\* holds; a recovery that takes a held row puts it among the overrun ones.
LEMMA ExclusiveStep == TypeOK /\ ClaimExclusive /\ [Next]_vars => ClaimExclusive'
<1> SUFFICES ASSUME TypeOK, ClaimExclusive, [Next]_vars PROVE ClaimExclusive'
  OBVIOUS
<1> USE DEF ClaimExclusive, Holds
<1>t. /\ status \in [Ids -> Statuses] /\ retryCount \in [Ids -> Nat]
      /\ batch \in [Workers -> SUBSET Ids] /\ seen \in [Workers -> [Ids -> Nat]]
  BY DEF TypeOK, TableType, WorkerType
<1>1. CASE Quiet
  BY <1>1 DEF Quiet, claims
<1>2. ASSUME NEW k \in Ids, Create(k) PROVE ClaimExclusive'
  BY <1>2, <1>t, CreateEffect DEF claims
<1>3. ASSUME NEW c \in Clients, CancelUpdate(c) \/ RescheduleUpdate(c) PROVE ClaimExclusive'
  BY <1>3, <1>t, ClientEffect DEF claims
<1>4. CASE RequeueStaleProcessing /\ UNCHANGED <<batch, seen>>
  BY <1>4, <1>t, RequeueEffect
<1>5. ASSUME NEW w \in Workers, ClaimDue(w) PROVE ClaimExclusive'
  <2>1. UNCHANGED <<retryCount, overrun>>
    BY <1>5, ClaimEffect
  <2>2. PICK S \in SUBSET Ids :
              /\ \A k \in S : status[k] = "pending"
              /\ status' = [k \in Ids |-> IF k \in S THEN "processing" ELSE status[k]]
              /\ \/ UNCHANGED <<batch, seen>>
                 \/ /\ batch' = [batch EXCEPT ![w] = S]
                    /\ seen' = [seen EXCEPT ![w] = [k \in Ids |-> IF k \in S THEN retryCount[k] ELSE 0]]
    BY <1>5, ClaimEffect
  <2>3. CASE UNCHANGED <<batch, seen>>
    BY <1>t, <2>1, <2>2, <2>3
  <2>4. CASE /\ batch' = [batch EXCEPT ![w] = S]
             /\ seen' = [seen EXCEPT ![w] = [k \in Ids |-> IF k \in S THEN retryCount[k] ELSE 0]]
    <3>1. ASSUME NEW k \in Ids \ overrun, NEW v \in Workers, k \in batch'[v]
          PROVE  status'[k] = "processing" /\ seen'[v][k] = retryCount'[k]
      BY <1>t, <2>1, <2>2, <2>4, <3>1
    <3>2. ASSUME NEW k \in Ids \ overrun, NEW v \in Workers, k \in batch'[v], NEW u \in Workers \ {v}
          PROVE  k \notin batch'[u]
      BY <1>t, <2>2, <2>4, <3>2
    <3> QED BY <2>1, <3>1, <3>2
  <2> QED BY <2>2, <2>3, <2>4
<1>6. ASSUME NEW w \in Workers, MarkSent(w) \/ MarkFailed(w) \/ MarkRetry(w) PROVE ClaimExclusive'
  <2>1. /\ cur[w] \in batch[w] /\ cur[w] \in Ids
        /\ batch' = [batch EXCEPT ![w] = batch[w] \ {cur[w]}]
        /\ seen' = [seen EXCEPT ![w] = [seen[w] EXCEPT ![cur[w]] = 0]]
        /\ UNCHANGED overrun
        /\ \A k \in Ids \ {cur[w]} : status'[k] = status[k] /\ retryCount'[k] = retryCount[k]
    BY <1>6, <1>t, MarkEffect
  <2>2. ASSUME NEW k \in Ids \ overrun, NEW v \in Workers, k \in batch'[v]
        PROVE  /\ status'[k] = "processing" /\ seen'[v][k] = retryCount'[k]
               /\ \A u \in Workers \ {v} : k \notin batch'[u]
    <3>1. k \in batch[v] /\ \A u \in Workers \ {v} : k \notin batch[u]
      BY <1>t, <2>1, <2>2
    <3>2. k # cur[w]
      BY <1>t, <2>1, <2>2, <3>1
    <3> QED BY <1>t, <2>1, <3>1, <3>2
  <2> QED BY <2>1, <2>2
<1>7. ASSUME NEW w \in Workers, MarkError(w) \/ Crash(w) PROVE ClaimExclusive'
  BY <1>7, <1>t, DropEffect
<1> QED BY <1>1, <1>2, <1>3, <1>4, <1>5, <1>6, <1>7, StepCases

\* A reminder that was never taken from a live worker has one holder at most,
\* and that holder's snapshot is the row.
THEOREM ClaimsAreExclusive == Spec => []ClaimExclusive
<1>1. Init => ClaimExclusive
  BY DEF Init, ClaimExclusive, Holds
<1>2. QED BY <1>1, ExclusiveStep, TypeCorrect, PTL DEF Spec

-----------------------------------------------------------------------------
(* Final statuses *)

\* No step moves a sent or canceled reminder: not a late mark, not a recovery,
\* not a client whose read is out of date.
LEMMA TerminalStep ==
  ASSUME TypeOK, [Next]_vars, NEW k \in Ids, status[k] \in Terminal
  PROVE  status'[k] = status[k] /\ retryCount'[k] = retryCount[k]
<1> USE DEF Terminal
<1>t. status \in [Ids -> Statuses] /\ retryCount \in [Ids -> Nat]
  BY DEF TypeOK, TableType
<1>1. CASE Quiet
  BY <1>1 DEF Quiet
<1>2. ASSUME NEW j \in Ids, Create(j) PROVE UNCHANGED <<status[k], retryCount[k]>>
  BY <1>2, <1>t, CreateEffect
<1>3. ASSUME NEW c \in Clients, CancelUpdate(c) \/ RescheduleUpdate(c)
      PROVE  UNCHANGED <<status[k], retryCount[k]>>
  BY <1>3, <1>t, ClientEffect
<1>4. CASE RequeueStaleProcessing
  BY <1>4, <1>t, RequeueEffect
<1>5. ASSUME NEW w \in Workers, ClaimDue(w) PROVE UNCHANGED <<status[k], retryCount[k]>>
  BY <1>5, <1>t, ClaimEffect
<1>6. ASSUME NEW w \in Workers, MarkSent(w) \/ MarkFailed(w) \/ MarkRetry(w)
      PROVE  UNCHANGED <<status[k], retryCount[k]>>
  BY <1>6, <1>t, MarkEffect
<1>7. ASSUME NEW w \in Workers, MarkError(w) \/ Crash(w) PROVE UNCHANGED <<status[k], retryCount[k]>>
  BY <1>7, DropEffect
<1> QED BY <1>1, <1>2, <1>3, <1>4, <1>5, <1>6, <1>7, StepCases

\* Sent and canceled are final.
THEOREM TerminalIsFinal == Spec => TerminalStays
<1> DEFINE Stays == \A k \in Ids : status[k] \in Terminal =>
                      status'[k] = status[k] /\ retryCount'[k] = retryCount[k]
<1>1. TypeOK /\ [Next]_vars => [Stays]_vars
  BY TerminalStep
<1>2. QED BY <1>1, TypeCorrect, PTL DEF Spec, TerminalStays

\* A confirmed cancellation stays: CancelByKey confirms only a canceled row, and
\* canceled is final.
THEOREM CancellationsHold == Spec => []CancelIsFinal
<1>1. Init => CancelIsFinal
  BY DEF Init, CancelIsFinal
<1>2. TypeOK /\ CancelIsFinal /\ [Next]_vars => CancelIsFinal'
  <2> SUFFICES ASSUME TypeOK, CancelIsFinal, [Next]_vars, NEW k \in acked' PROVE status'[k] = "canceled"
    BY DEF CancelIsFinal
  <2>1. CASE k \in acked
    <3>1. k \in Ids /\ status[k] = "canceled"
      BY <2>1 DEF CancelIsFinal, TypeOK, RestType
    <3> QED BY <3>1, TerminalStep DEF Terminal
  <2>2. CASE k \notin acked
    <3>1. \/ \E c \in Clients, j \in Ids : CancelRead(c, j)
          \/ \E c \in Clients : CancelUpdate(c)
      <4> USE <2>2
      <4>1. ASSUME NEW j \in Ids, Create(j) PROVE UNCHANGED acked
        BY <4>1 DEF Create
      <4>2. ASSUME NEW c \in Clients, RescheduleUpdate(c) \/ ClientError(c) PROVE UNCHANGED acked
        BY <4>2 DEF RescheduleUpdate, ClientError
      <4>3. ASSUME NEW c \in Clients, NEW j \in Ids, RescheduleRead(c, j) PROVE UNCHANGED acked
        BY <4>3 DEF RescheduleRead
      <4>4. ASSUME NEW w \in Workers, \/ StartCall(w) \/ StartRecover(w) \/ LoopTick(w)
                                      \/ LoopExit(w) \/ ClaimDue(w) \/ Restart(w)
            PROVE  UNCHANGED acked
        BY <4>4 DEF StartCall, StartRecover, LoopTick, LoopExit, ClaimDue, Restart
      <4>5. ASSUME NEW w \in Workers, \/ StopCall(w) \/ StopReturn(w) \/ StopDeadline(w)
                                      \/ CancelRun(w) \/ Crash(w)
            PROVE  UNCHANGED acked
        BY <4>5 DEF StopCall, StopReturn, StopDeadline, CancelRun, Crash
      <4>6. ASSUME NEW w \in Workers, MarkSent(w) \/ MarkFailed(w) \/ MarkRetry(w) \/ MarkError(w)
            PROVE  UNCHANGED acked
        BY <4>6 DEF MarkSent, MarkFailed, MarkRetry, MarkError, Mark
      <4>7. ASSUME NEW w \in Workers, NEW j \in Ids, NEW ok \in BOOLEAN, Notify(w, j, ok)
            PROVE  UNCHANGED acked
        BY <4>7 DEF Notify
      <4>8. CASE Tick \/ UNCHANGED vars
        BY <4>8 DEF Tick, vars
      <4> QED
        BY <4>1, <4>2, <4>3, <4>4, <4>5, <4>6, <4>7, <4>8 DEF Next, ClientStep, WorkerStep, Dispatch
    <3>2. ASSUME NEW c \in Clients, NEW j \in Ids, CancelRead(c, j) PROVE status'[k] = "canceled"
      BY <2>2, <3>2 DEF CancelRead, table
    <3>3. ASSUME NEW c \in Clients, CancelUpdate(c) PROVE status'[k] = "canceled"
      BY <2>2, <3>3 DEF CancelUpdate, TypeOK, TableType, RestType
    <3> QED BY <3>1, <3>2, <3>3
  <2> QED BY <2>1, <2>2
<1>3. QED BY <1>1, <1>2, TypeCorrect, PTL DEF Spec

-----------------------------------------------------------------------------
(* Claims that are never overrun *)

FreshInv == HeldIsFresh /\ RecoveryTakesOrphans

\* Claims are dropped, rows do not age, nothing is overrun.
Calm ==
  /\ \A k \in Ids : age'[k] <= age[k]
  /\ \A w \in Workers : batch'[w] \subseteq batch[w]
  /\ UNCHANGED overrun

LEMMA AgeCases ==
  ASSUME TypeOK, [Next]_vars
  PROVE  \/ Tick
         \/ \E w \in Workers : ClaimDue(w)
         \/ RequeueStaleProcessing /\ UNCHANGED batch
         \/ Calm
<1> USE DEF Calm, table
<1>t. /\ age \in [Ids -> 0 .. TTL] /\ \A k \in Ids : age[k] <= age[k] /\ 0 <= age[k]
      /\ batch \in [Workers -> SUBSET Ids]
  BY TTLAssumption DEF TypeOK, TableType, WorkerType
<1>1. ASSUME NEW k \in Ids, Create(k) PROVE Calm
  BY <1>1, <1>t DEF Create
<1>2. ASSUME NEW c \in Clients, CancelUpdate(c) \/ RescheduleUpdate(c) \/ ClientError(c) PROVE Calm
  BY <1>2, <1>t DEF CancelUpdate, RescheduleUpdate, ClientError
<1>3. ASSUME NEW c \in Clients, NEW k \in Ids, CancelRead(c, k) \/ RescheduleRead(c, k) PROVE Calm
  BY <1>3, <1>t DEF CancelRead, RescheduleRead
<1>4. ASSUME NEW w \in Workers, StartCall(w) \/ Restart(w) \/ LoopExit(w) PROVE Calm
  BY <1>4, <1>t DEF StartCall, Restart, LoopExit
<1>5. ASSUME NEW w \in Workers, StopCall(w) \/ StopReturn(w) \/ StopDeadline(w) \/ CancelRun(w) PROVE Calm
  BY <1>5, <1>t DEF StopCall, StopReturn, StopDeadline, CancelRun
<1>6. ASSUME NEW w \in Workers, StartRecover(w) \/ LoopTick(w)
      PROVE  Calm \/ (RequeueStaleProcessing /\ UNCHANGED batch)
  BY <1>6, <1>t DEF StartRecover, LoopTick
<1>7. ASSUME NEW w \in Workers, NEW k \in Ids, NEW ok \in BOOLEAN, Notify(w, k, ok) PROVE Calm
  BY <1>7, <1>t DEF Notify
<1>8. ASSUME NEW w \in Workers, MarkSent(w) \/ MarkFailed(w) \/ MarkRetry(w) PROVE Calm
  <2>1. \A v \in Workers : batch'[v] \subseteq batch[v]
    BY <1>8, <1>t, MarkEffect
  <2>2. UNCHANGED overrun
    BY <1>8, MarkEffect
  <2>3. UNCHANGED age \/ age' = [age EXCEPT ![cur[w]] = 0]
    BY <1>8 DEF MarkSent, MarkFailed, MarkRetry, Mark
  <2> QED BY <1>t, <2>1, <2>2, <2>3
<1>9. ASSUME NEW w \in Workers, MarkError(w) \/ Crash(w) PROVE Calm
  <2>1. UNCHANGED age
    BY <1>9 DEF MarkError, Crash
  <2> QED BY <1>9, <1>t, <2>1, DropEffect
<1>10. CASE UNCHANGED vars
  BY <1>10, <1>t DEF vars
<1> QED
  BY <1>1, <1>2, <1>3, <1>4, <1>5, <1>6, <1>7, <1>8, <1>9, <1>10
  DEF Next, ClientStep, WorkerStep, Dispatch

LEMMA FreshStep == TypeOK /\ FreshInv /\ [Next]_vars => FreshInv'
<1> SUFFICES ASSUME TypeOK, FreshInv, [Next]_vars, Prompt
             PROVE  /\ \A w \in Workers : \A k \in batch'[w] : age'[k] < TTL
                    /\ overrun' = {}
  BY DEF FreshInv, HeldIsFresh, RecoveryTakesOrphans
<1>t. /\ age \in [Ids -> 0 .. TTL] /\ batch \in [Workers -> SUBSET Ids]
      /\ overrun = {} /\ \A w \in Workers : \A k \in batch[w] : age[k] < TTL
  BY DEF TypeOK, TableType, WorkerType, FreshInv, HeldIsFresh, RecoveryTakesOrphans
<1>1. CASE Tick
  <2>1. UNCHANGED <<batch, overrun>> /\ \A w \in Workers : \A k \in batch[w] : age[k] + 1 < TTL
    BY <1>1 DEF Tick
  <2>2. \A k \in Ids : age'[k] <= age[k] + 1
    BY <1>1, <1>t, TTLAssumption DEF Tick
  <2>3. \A k \in Ids : age'[k] \in Int /\ age[k] \in Int
    BY <1>1, <1>t, TTLAssumption DEF Tick
  <2> QED BY <1>t, <2>1, <2>2, <2>3, TTLAssumption
<1>2. ASSUME NEW w \in Workers, ClaimDue(w)
      PROVE  (\A v \in Workers : \A k \in batch'[v] : age'[k] < TTL) /\ overrun' = {}
  <2>1. PICK S \in SUBSET Ids :
          \/ SetProcessing(S) /\ (batch' = [batch EXCEPT ![w] = S] \/ UNCHANGED batch)
          \/ UNCHANGED <<table, batch>>
    BY <1>2, Zenon DEF ClaimDue
  <2>2. \A k \in Ids : age'[k] \in {0, age[k]}
    BY <1>t, <2>1 DEF SetProcessing, table
  <2>3. ASSUME NEW v \in Workers, NEW k \in batch'[v] PROVE age'[k] < TTL
    <3>1. CASE k \in batch[v]
      BY <1>t, <2>2, <3>1, TTLAssumption
    <3>2. CASE k \notin batch[v]
      BY <1>t, <2>1, <2>3, <3>2, TTLAssumption DEF SetProcessing
    <3> QED BY <3>1, <3>2
  <2>4. UNCHANGED overrun
    BY <1>2, ClaimEffect
  <2> QED BY <1>t, <2>3, <2>4
<1>3. CASE RequeueStaleProcessing /\ UNCHANGED batch
  <2>1. overrun' = {}
    BY <1>t, <1>3, RequeueEffect, TTLAssumption
  <2>2. \A k \in Ids : age'[k] \in {0, age[k]}
    BY <1>3, <1>t DEF RequeueStaleProcessing
  <2> QED BY <1>t, <1>3, <2>1, <2>2, TTLAssumption
<1>4. CASE Calm
  <2>1. TypeOK'
    BY TypeStep
  <2>2. age' \in [Ids -> 0 .. TTL]
    BY <2>1 DEF TypeOK, TableType
  <2> QED BY <1>t, <1>4, <2>2, TTLAssumption DEF Calm
<1> QED BY <1>1, <1>2, <1>3, <1>4, AgeCases

\* When every live worker is done with its batch within TTL, the recovery takes
\* claims of dead workers only.
THEOREM RecoveryIsSafe == Spec => []RecoveryTakesOrphans
<1>1. Init => FreshInv
  BY DEF Init, FreshInv, HeldIsFresh, RecoveryTakesOrphans
<1>2. QED BY <1>1, FreshStep, TypeCorrect, PTL DEF Spec, FreshInv

-----------------------------------------------------------------------------
(* The table implements the life cycle of a reminder *)

LEMMA LifecycleStep ==
  ASSUME TypeOK, BudgetInv, ClaimExclusive, FreshInv, [Next]_vars
  PROVE  [Lifecycle!Next]_(Lifecycle!vars)
<1>t. /\ status \in [Ids -> Statuses] /\ retryCount \in [Ids -> Nat] /\ maxRetry \in [Ids -> Nat]
      /\ seen \in [Workers -> [Ids -> Nat]] /\ batch \in [Workers -> SUBSET Ids]
  BY DEF TypeOK, TableType, WorkerType
<1>d. DOMAIN status' = Ids /\ DOMAIN retryCount' = Ids /\ DOMAIN maxRetry' = Ids
  BY TypeStep DEF TypeOK, TableType
<1> SUFFICES ASSUME NEW k \in Ids PROVE Lifecycle!Step(k)
  BY <1>d DEF Lifecycle!Next
<1> USE DEF Lifecycle!Step
<1>1. CASE Quiet
  BY <1>1 DEF Quiet, Lifecycle!Stay
<1>2. ASSUME NEW j \in Ids, Create(j) PROVE Lifecycle!Step(k)
  <2>1. CASE j = k
    <3>1. /\ status[k] = "absent" /\ status'[k] = "pending"
          /\ retryCount'[k] = retryCount[k] /\ maxRetry'[k] \in Nat \ {0}
      BY <1>t, <1>2, <2>1, CreateEffect
    <3>2. retryCount[k] = 0
      BY <3>1 DEF BudgetInv, BudgetLeft
    <3> QED BY <3>1, <3>2 DEF Lifecycle!Create
  <2>2. CASE j # k
    BY <1>t, <1>2, <2>2, CreateEffect DEF Lifecycle!Stay
  <2> QED BY <2>1, <2>2
<1>3. ASSUME NEW c \in Clients, CancelUpdate(c) \/ RescheduleUpdate(c) PROVE Lifecycle!Step(k)
  <2>1. UNCHANGED maxRetry
    BY <1>3, ClientEffect
  <2>2. CASE UNCHANGED <<status, retryCount>>
    BY <2>1, <2>2 DEF Lifecycle!Stay
  <2>3. ASSUME NEW j \in Ids, status[j] \in {"pending", "failed"},
               status' = [status EXCEPT ![j] = "canceled"], UNCHANGED retryCount
        PROVE  Lifecycle!Step(k)
    BY <1>t, <2>1, <2>3 DEF Lifecycle!Stay, Lifecycle!Move, Lifecycle!Moves
  <2>4. ASSUME NEW j \in Ids, status[j] \in {"pending", "failed"},
               status' = [status EXCEPT ![j] = "pending"],
               retryCount' = [retryCount EXCEPT ![j] = 0]
        PROVE  Lifecycle!Step(k)
    BY <1>t, <2>1, <2>4 DEF Lifecycle!Stay, Lifecycle!Reschedule
  <2> QED BY <1>3, <2>2, <2>3, <2>4, ClientEffect
<1>4. CASE RequeueStaleProcessing
  <2>1. UNCHANGED <<retryCount, maxRetry>>
    BY <1>4, RequeueEffect
  <2>2. status'[k] = status[k] \/ (status[k] = "processing" /\ status'[k] = "pending")
    BY <1>t, <1>4, RequeueEffect
  <2> QED BY <2>1, <2>2 DEF Lifecycle!Stay, Lifecycle!Move, Lifecycle!Moves
<1>5. ASSUME NEW w \in Workers, ClaimDue(w) PROVE Lifecycle!Step(k)
  <2>1. UNCHANGED <<retryCount, maxRetry>>
    BY <1>5, ClaimEffect
  <2>2. status'[k] = status[k] \/ (status[k] = "pending" /\ status'[k] = "processing")
    BY <1>t, <1>5, ClaimEffect
  <2> QED BY <2>1, <2>2 DEF Lifecycle!Stay, Lifecycle!Move, Lifecycle!Moves
<1>6. ASSUME NEW w \in Workers, MarkSent(w) \/ MarkFailed(w) \/ MarkRetry(w) PROVE Lifecycle!Step(k)
  <2>1. cur[w] \in batch[w] /\ cur[w] \in Ids /\ UNCHANGED maxRetry
    BY <1>6, MarkEffect
  <2>2. CASE status'[k] = status[k] /\ retryCount'[k] = retryCount[k]
    BY <2>1, <2>2 DEF Lifecycle!Stay
  <2>3. CASE ~(status'[k] = status[k] /\ retryCount'[k] = retryCount[k])
    <3>1. /\ k = cur[w] /\ status[k] = "processing"
          /\ \/ status'[k] = "sent" /\ retryCount'[k] = retryCount[k]
             \/ status'[k] = "failed" /\ retryCount'[k] = seen[w][k] + 1 /\ retryCount'[k] >= maxRetry[k]
             \/ status'[k] = "pending" /\ retryCount'[k] = seen[w][k] + 1 /\ retryCount'[k] < maxRetry[k]
      BY <1>t, <1>6, <2>3, MarkEffect
    <3>2. seen[w][k] \in Nat /\ maxRetry[k] \in Nat /\ seen[w][k] < maxRetry[k]
      BY <1>t, <2>1, <3>1 DEF BudgetInv, BudgetLeft
    <3>3. Prompt => seen[w][k] = retryCount[k]
      BY <2>1, <3>1 DEF ClaimExclusive, Holds, FreshInv, RecoveryTakesOrphans
    <3>4. CASE status'[k] = "sent"
      BY <2>1, <3>1, <3>4 DEF Lifecycle!Move, Lifecycle!Moves
    <3>5. CASE status'[k] = "failed"
      <4>1. retryCount'[k] = seen[w][k] + 1 /\ retryCount'[k] = maxRetry[k]
        BY <3>1, <3>2, <3>5
      <4> QED BY <2>1, <3>1, <3>2, <3>3, <3>5, <4>1 DEF Lifecycle!Attempt
    <3>6. CASE status'[k] = "pending"
      <4>1. retryCount'[k] = seen[w][k] + 1 /\ retryCount'[k] < maxRetry[k]
        BY <3>1, <3>2, <3>6
      <4> QED BY <2>1, <3>1, <3>2, <3>3, <3>6, <4>1 DEF Lifecycle!Attempt
    <3> QED BY <3>1, <3>4, <3>5, <3>6
  <2> QED BY <2>2, <2>3
<1>7. ASSUME NEW w \in Workers, MarkError(w) \/ Crash(w) PROVE Lifecycle!Step(k)
  BY <1>7, DropEffect DEF Lifecycle!Stay
<1> QED BY <1>1, <1>2, <1>3, <1>4, <1>5, <1>6, <1>7, StepCases

\* The reminder service implements ReminderLifecycle: whatever the workers, the
\* clients, the crashes and the database errors do, each row follows the life
\* cycle, and counts its attempts one by one when no claim is overrun.
THEOREM ServiceImplementsLifecycle == Spec => ImplementsLifecycle
<1>1. Init => Lifecycle!Init
  BY DEF Init, Zero, Lifecycle!Init
<1>2. Init => BudgetInv /\ ClaimExclusive /\ FreshInv
  BY DEF Init, Zero, BudgetInv, RetryBudget, BudgetLeft, ClaimExclusive, Holds,
         FreshInv, HeldIsFresh, RecoveryTakesOrphans
<1>3. TypeOK /\ BudgetInv /\ ClaimExclusive /\ FreshInv /\ [Next]_vars => [Lifecycle!Next]_(Lifecycle!vars)
  BY LifecycleStep
<1>4. QED
  BY <1>1, <1>2, <1>3, BudgetStep, ExclusiveStep, FreshStep, TypeCorrect, PTL
  DEF Spec, ImplementsLifecycle, Lifecycle!Spec

-----------------------------------------------------------------------------
(* Notifications are accounted for *)

Stages == {"markSent", "markError"}

\* No worker enters or leaves the recording of an outcome.
StagesStay ==
  \A w \in Workers, s \in Stages : (pc'[w] = s <=> pc[w] = s) /\ (pc[w] = s => cur'[w] = cur[w])

LEMMA MarkingStays ==
  ASSUME StagesStay, NEW k, NEW s \in Stages
  PROVE  Marking(k, s)' <=> Marking(k, s)
BY DEF StagesStay, Marking

\* A reminder nobody holds is not being recorded.
LEMMA MarkingIsHolding ==
  ASSUME TypeOK, NEW k, NEW s \in Stages, Marking(k, s)
  PROVE  \E w \in Workers : pc[w] = s /\ cur[w] = k /\ k \in batch[w]
BY DEF TypeOK, WorkerType, Marking, Stages

\* The steps, by what they do to the counts.
LEMMA CountCases ==
  ASSUME TypeOK, [Next]_vars
  PROVE  \/ StagesStay /\ UNCHANGED <<obs, overrun, retryCount>>
            /\ \A k \in Ids : status'[k] = "sent" <=> status[k] = "sent"
         \/ StagesStay /\ RequeueStaleProcessing
         \/ \E c \in Clients : RescheduleUpdate(c)
         \/ \E w \in Workers, k \in Ids, ok \in BOOLEAN : Notify(w, k, ok)
         \/ \E w \in Workers : MarkSent(w) \/ MarkFailed(w) \/ MarkRetry(w)
         \/ \E w \in Workers : MarkError(w) \/ Crash(w)
<1> DEFINE Still == /\ StagesStay /\ UNCHANGED <<obs, overrun, retryCount>>
                    /\ \A k \in Ids : status'[k] = "sent" <=> status[k] = "sent"
<1> USE DEF table
<1>t. status \in [Ids -> Statuses] /\ pc \in [Workers -> Pcs]
  BY DEF TypeOK, TableType, WorkerType
<1>1. ASSUME NEW k \in Ids, Create(k) PROVE Still
  BY <1>1, <1>t DEF Create, StagesStay
<1>2. ASSUME NEW c \in Clients, NEW k \in Ids, CancelRead(c, k) \/ RescheduleRead(c, k) PROVE Still
  BY <1>2 DEF CancelRead, RescheduleRead, StagesStay
<1>3. ASSUME NEW c \in Clients, CancelUpdate(c) \/ ClientError(c) PROVE Still
  <2>1. StagesStay /\ UNCHANGED <<obs, overrun, retryCount>>
    BY <1>3 DEF CancelUpdate, ClientError, StagesStay
  <2>2. \A k \in Ids : status'[k] = "sent" <=> status[k] = "sent"
    BY <1>3, <1>t DEF CancelUpdate, ClientError, UpdateApplies, Mutable
  <2> QED BY <2>1, <2>2
<1>4. ASSUME NEW w \in Workers, StartCall(w) \/ Restart(w) \/ LoopExit(w) PROVE Still
  BY <1>4, <1>t DEF StartCall, Restart, LoopExit, StagesStay, Stages
<1>5. ASSUME NEW w \in Workers, StopCall(w) \/ StopReturn(w) \/ StopDeadline(w) \/ CancelRun(w) PROVE Still
  BY <1>5 DEF StopCall, StopReturn, StopDeadline, CancelRun, StagesStay
<1>6. ASSUME NEW w \in Workers, StartRecover(w) \/ LoopTick(w)
      PROVE  Still \/ (StagesStay /\ RequeueStaleProcessing)
  <2>1. StagesStay
    BY <1>6, <1>t DEF StartRecover, LoopTick, StagesStay, Stages
  <2> QED BY <1>6, <2>1 DEF StartRecover, LoopTick
<1>7. ASSUME NEW w \in Workers, ClaimDue(w) PROVE Still
  <2>1. StagesStay
    <3>1. pc[w] = "claim" /\ UNCHANGED cur /\ (pc' = [pc EXCEPT ![w] = "loop"] \/ pc' = [pc EXCEPT ![w] = "notify"])
      BY <1>7 DEF ClaimDue
    <3> QED BY <1>t, <3>1 DEF StagesStay, Stages
  <2>2. UNCHANGED <<obs, overrun, retryCount>>
    BY <1>7 DEF ClaimDue, SetProcessing
  <2>3. \A k \in Ids : status'[k] = "sent" <=> status[k] = "sent"
    BY <1>7, <1>t, ClaimEffect
  <2> QED BY <2>1, <2>2, <2>3
<1>8. CASE Tick \/ UNCHANGED vars
  BY <1>8 DEF Tick, vars, StagesStay
<1> QED
  BY <1>1, <1>2, <1>3, <1>4, <1>5, <1>6, <1>7, <1>8 DEF Next, ClientStep, WorkerStep, Dispatch

\* The worker that records the outcome of a reminder is the only one to do so,
\* and nobody does once it is through.
LEMMA LeaveStage ==
  ASSUME TypeOK, ClaimExclusive, NEW w \in Workers, NEW q \in Pcs \ Stages,
         pc' = [pc EXCEPT ![w] = q], cur' = [cur EXCEPT ![w] = None],
         NEW k \in Ids \ overrun, NEW s \in Stages
  PROVE  /\ pc[w] \in Stages /\ cur[w] = k => (Marking(k, s) <=> pc[w] = s) /\ ~Marking(k, s)'
         /\ ~(pc[w] \in Stages /\ cur[w] = k) => (Marking(k, s)' <=> Marking(k, s))
<1>t. pc \in [Workers -> Pcs] /\ cur \in [Workers -> Ids \cup {None}]
  BY DEF TypeOK, WorkerType
<1>1. ASSUME pc[w] \in Stages, cur[w] = k
      PROVE  \A v \in Workers \ {w} : ~(pc[v] \in Stages /\ cur[v] = k)
  BY <1>1 DEF ClaimExclusive, Holds, TypeOK, WorkerType, Stages
<1>2. ASSUME pc[w] \in Stages, cur[w] = k PROVE (Marking(k, s) <=> pc[w] = s) /\ ~Marking(k, s)'
  BY <1>t, <1>1, <1>2 DEF Marking
<1>3. ASSUME ~(pc[w] \in Stages /\ cur[w] = k) PROVE Marking(k, s)' <=> Marking(k, s)
  BY <1>t, <1>3 DEF Marking
<1> QED BY <1>2, <1>3

\* A worker between claim and notification: nobody else is at the reminder.
LEMMA EnterStage ==
  ASSUME TypeOK, ClaimExclusive, NEW w \in Workers, NEW j \in batch[w], pc[w] = "notify",
         NEW q \in Stages, pc' = [pc EXCEPT ![w] = q], cur' = [cur EXCEPT ![w] = j],
         NEW k \in Ids \ overrun, NEW s \in Stages
  PROVE  /\ j = k => ~Marking(k, s) /\ (Marking(k, s)' <=> q = s)
         /\ j # k => (Marking(k, s)' <=> Marking(k, s))
<1>t. pc \in [Workers -> Pcs] /\ cur \in [Workers -> Ids \cup {None}] /\ pc[w] \notin Stages
  BY DEF TypeOK, WorkerType, Stages
<1>1. j = k => \A v \in Workers : ~(pc[v] \in Stages /\ cur[v] = k)
  BY <1>t DEF ClaimExclusive, Holds, TypeOK, WorkerType, Stages
<1>2. j = k => ~Marking(k, s) /\ (Marking(k, s)' <=> q = s)
  BY <1>t, <1>1 DEF Marking
<1>3. j # k => (Marking(k, s)' <=> Marking(k, s))
  BY <1>t DEF Marking
<1> QED BY <1>2, <1>3

LEMMA AccountedStep ==
  TypeOK /\ ClaimExclusive /\ NotificationsAccounted /\ [Next]_vars => NotificationsAccounted'
<1> SUFFICES ASSUME TypeOK, ClaimExclusive, NotificationsAccounted, [Next]_vars,
                    NEW k \in Ids \ overrun'
             PROVE  /\ oks'[k] = lostOks'[k] + Num(status'[k] = "sent") + Num(Marking(k, "markSent")')
                    /\ fails'[k] = lostFails'[k] + retryCount'[k] + Num(Marking(k, "markError")')
  BY DEF NotificationsAccounted, Marking, Num
<1> DEFINE Goal == /\ oks'[k] = lostOks'[k] + Num(status'[k] = "sent") + Num(Marking(k, "markSent")')
                   /\ fails'[k] = lostFails'[k] + retryCount'[k] + Num(Marking(k, "markError")')
<1>s. "markSent" \in Stages /\ "markError" \in Stages
  BY DEF Stages
<1>t. /\ oks \in [Ids -> Nat] /\ fails \in [Ids -> Nat] /\ lostOks \in [Ids -> Nat]
      /\ lostFails \in [Ids -> Nat] /\ retryCount \in [Ids -> Nat] /\ status \in [Ids -> Statuses]
      /\ seen \in [Workers -> [Ids -> Nat]] /\ pc \in [Workers -> Pcs]
  BY DEF TypeOK, ObsType, TableType, WorkerType
<1>old. ASSUME k \notin overrun
        PROVE  /\ oks[k] = lostOks[k] + Num(status[k] = "sent") + Num(Marking(k, "markSent"))
               /\ fails[k] = lostFails[k] + retryCount[k] + Num(Marking(k, "markError"))
  BY <1>old DEF NotificationsAccounted
<1>1. CASE /\ StagesStay /\ UNCHANGED <<obs, overrun, retryCount>>
           /\ \A j \in Ids : status'[j] = "sent" <=> status[j] = "sent"
  <2>1. k \notin overrun
    BY <1>1
  <2>2. (Marking(k, "markSent")' <=> Marking(k, "markSent")) /\ (Marking(k, "markError")' <=> Marking(k, "markError"))
    BY <1>1, <1>s, MarkingStays
  <2> QED BY <1>1, <1>old, <2>1, <2>2 DEF obs, Num
<1>2. CASE StagesStay /\ RequeueStaleProcessing
  <2>1. k \notin overrun
    BY <1>2 DEF RequeueStaleProcessing
  <2>2. (Marking(k, "markSent")' <=> Marking(k, "markSent")) /\ (Marking(k, "markError")' <=> Marking(k, "markError"))
    BY <1>2, <1>s, MarkingStays
  <2>3. /\ oks'[k] = oks[k] /\ fails'[k] = fails[k] /\ lostOks'[k] = lostOks[k] /\ lostFails'[k] = lostFails[k]
        /\ retryCount'[k] = retryCount[k] /\ (status'[k] = "sent" <=> status[k] = "sent")
    BY <1>2, <1>t DEF RequeueStaleProcessing, ResetObs, Stale
  <2> QED BY <1>old, <2>1, <2>2, <2>3 DEF Num
<1>3. ASSUME NEW c \in Clients, RescheduleUpdate(c) PROVE Goal
  <2>1. k \notin overrun /\ UNCHANGED <<pc, cur>>
    BY <1>3 DEF RescheduleUpdate
  <2>2. (Marking(k, "markSent")' <=> Marking(k, "markSent")) /\ (Marking(k, "markError")' <=> Marking(k, "markError"))
    BY <2>1 DEF Marking
  <2>3. CASE UpdateApplies(client[c].id) /\ k = client[c].id
    <3>1. status[k] # "processing"
      BY <2>3 DEF UpdateApplies, Mutable
    <3>2. ~Marking(k, "markSent") /\ ~Marking(k, "markError")
      BY <1>s, <2>1, <3>1, MarkingIsHolding DEF ClaimExclusive, Holds
    <3>3. /\ oks'[k] = 0 /\ fails'[k] = 0 /\ lostOks'[k] = 0 /\ lostFails'[k] = 0
          /\ retryCount'[k] = 0 /\ status'[k] # "sent"
      BY <1>3, <1>t, <2>3 DEF RescheduleUpdate, ResetObs
    <3> QED BY <2>2, <3>2, <3>3 DEF Num
  <2>4. CASE ~(UpdateApplies(client[c].id) /\ k = client[c].id)
    <3>1. /\ oks'[k] = oks[k] /\ fails'[k] = fails[k] /\ lostOks'[k] = lostOks[k] /\ lostFails'[k] = lostFails[k]
          /\ retryCount'[k] = retryCount[k] /\ status'[k] = status[k]
      BY <1>3, <1>t, <2>4 DEF RescheduleUpdate, ResetObs, obs
    <3> QED BY <1>old, <2>1, <2>2, <3>1 DEF Num
  <2> QED BY <2>3, <2>4
<1>4. ASSUME NEW w \in Workers, NEW j \in Ids, NEW ok \in BOOLEAN, Notify(w, j, ok) PROVE Goal
  <2>1. /\ k \notin overrun /\ UNCHANGED <<status, retryCount, lostOks, lostFails>>
        /\ pc[w] = "notify" /\ j \in batch[w] /\ cur' = [cur EXCEPT ![w] = j]
    BY <1>4 DEF Notify, Holds, table
  <2>2. CASE ok
    <3>1. pc' = [pc EXCEPT ![w] = "markSent"] /\ UNCHANGED fails
          /\ oks'[k] = IF j = k THEN oks[k] + 1 ELSE oks[k]
      BY <1>4, <1>t, <2>1, <2>2 DEF Notify
    <3>2. /\ j = k => /\ ~Marking(k, "markSent") /\ Marking(k, "markSent")'
                      /\ ~Marking(k, "markError") /\ ~Marking(k, "markError")'
          /\ j # k => /\ Marking(k, "markSent")' <=> Marking(k, "markSent")
                      /\ Marking(k, "markError")' <=> Marking(k, "markError")
      <4>1. \A s \in Stages : /\ j = k => ~Marking(k, s) /\ (Marking(k, s)' <=> "markSent" = s)
                              /\ j # k => (Marking(k, s)' <=> Marking(k, s))
        BY <1>s, <2>1, <3>1, EnterStage
      <4> QED BY <1>s, <4>1, Zenon
    <3>3. CASE j = k
      BY <1>t, <1>old, <2>1, <3>1, <3>2, <3>3 DEF Num
    <3>4. CASE j # k
      BY <1>t, <1>old, <2>1, <3>1, <3>2, <3>4 DEF Num
    <3> QED BY <3>3, <3>4
  <2>3. CASE ~ok
    <3>1. pc' = [pc EXCEPT ![w] = "markError"] /\ UNCHANGED oks
          /\ fails'[k] = IF j = k THEN fails[k] + 1 ELSE fails[k]
      BY <1>4, <1>t, <2>1, <2>3 DEF Notify
    <3>2. /\ j = k => /\ ~Marking(k, "markSent") /\ ~Marking(k, "markSent")'
                      /\ ~Marking(k, "markError") /\ Marking(k, "markError")'
          /\ j # k => /\ Marking(k, "markSent")' <=> Marking(k, "markSent")
                      /\ Marking(k, "markError")' <=> Marking(k, "markError")
      <4>1. \A s \in Stages : /\ j = k => ~Marking(k, s) /\ (Marking(k, s)' <=> "markError" = s)
                              /\ j # k => (Marking(k, s)' <=> Marking(k, s))
        BY <1>s, <2>1, <3>1, EnterStage
      <4> QED BY <1>s, <4>1, Zenon
    <3>3. CASE j = k
      BY <1>t, <1>old, <2>1, <3>1, <3>2, <3>3 DEF Num
    <3>4. CASE j # k
      BY <1>t, <1>old, <2>1, <3>1, <3>2, <3>4 DEF Num
    <3> QED BY <3>3, <3>4
  <2> QED BY <2>2, <2>3
<1>5. ASSUME NEW w \in Workers, MarkSent(w) \/ MarkFailed(w) \/ MarkRetry(w) PROVE Goal
  <2>1. /\ k \notin overrun /\ UNCHANGED obs /\ cur' = [cur EXCEPT ![w] = None]
        /\ pc[w] \in Stages /\ (MarkSent(w) <=> pc[w] = "markSent")
    BY <1>5 DEF MarkSent, MarkFailed, MarkRetry, Mark, FinishItem, Stages
  <2>2. PICK q \in Pcs \ Stages : pc' = [pc EXCEPT ![w] = q]
    <3>1. "loop" \in Pcs \ Stages /\ "notify" \in Pcs \ Stages
      BY DEF Pcs, Stages
    <3> QED BY <1>5, <3>1 DEF MarkSent, MarkFailed, MarkRetry, Mark, FinishItem
  <2>3. CASE cur[w] = k
    <3>1. status[k] = "processing" /\ seen[w][k] = retryCount[k]
      BY <1>5, <2>1, <2>3, MarkEffect DEF ClaimExclusive, Holds
    <3>2. /\ Marking(k, "markSent") <=> pc[w] = "markSent"
          /\ Marking(k, "markError") <=> pc[w] = "markError"
          /\ ~Marking(k, "markSent")' /\ ~Marking(k, "markError")'
      BY <1>s, <2>1, <2>2, <2>3, LeaveStage
    <3>3. CASE MarkSent(w)
      <4>1. status'[k] = "sent" /\ retryCount'[k] = retryCount[k]
        BY <1>t, <2>3, <3>1, <3>3 DEF MarkSent, Mark, MarkApplies
      <4> QED BY <1>t, <1>old, <2>1, <3>1, <3>2, <3>3, <4>1 DEF Num, obs
    <3>4. CASE MarkFailed(w) \/ MarkRetry(w)
      <4>1. status'[k] # "sent" /\ retryCount'[k] = retryCount[k] + 1 /\ pc[w] = "markError"
        BY <1>t, <2>3, <3>1, <3>4 DEF MarkFailed, MarkRetry, Mark, MarkApplies
      <4> QED BY <1>t, <1>old, <2>1, <3>1, <3>2, <4>1 DEF Num, obs
    <3> QED BY <1>5, <3>3, <3>4
  <2>4. CASE cur[w] # k
    <3>1. (Marking(k, "markSent")' <=> Marking(k, "markSent")) /\ (Marking(k, "markError")' <=> Marking(k, "markError"))
      BY <1>s, <2>1, <2>2, <2>4, LeaveStage
    <3>2. status'[k] = status[k] /\ retryCount'[k] = retryCount[k]
      BY <1>5, <1>t, <2>4, MarkEffect
    <3> QED BY <1>old, <2>1, <3>1, <3>2 DEF Num, obs
  <2> QED BY <2>3, <2>4
<1>6. ASSUME NEW w \in Workers, MarkError(w) \/ Crash(w) PROVE Goal
  <2>1. /\ k \notin overrun /\ UNCHANGED <<status, retryCount, oks, fails>>
        /\ cur' = [cur EXCEPT ![w] = None] /\ LoseOutcome(w)
    BY <1>6 DEF MarkError, Crash, FinishItem, table
  <2>2. PICK q \in Pcs \ Stages : pc' = [pc EXCEPT ![w] = q]
    <3>1. {"off", "loop", "notify"} \subseteq Pcs \ Stages
      BY DEF Pcs, Stages
    <3> QED BY <1>6, <3>1 DEF MarkError, Crash, FinishItem
  <2>3. CASE pc[w] \in Stages /\ cur[w] = k
    <3>1. /\ Marking(k, "markSent") <=> pc[w] = "markSent"
          /\ Marking(k, "markError") <=> pc[w] = "markError"
          /\ ~Marking(k, "markSent")' /\ ~Marking(k, "markError")'
      BY <1>s, <2>1, <2>2, <2>3, LeaveStage
    <3>2. /\ lostOks'[k] = IF pc[w] = "markSent" THEN lostOks[k] + 1 ELSE lostOks[k]
          /\ lostFails'[k] = IF pc[w] = "markError" THEN lostFails[k] + 1 ELSE lostFails[k]
      BY <1>t, <2>1, <2>3 DEF LoseOutcome
    <3>3. CASE pc[w] = "markSent"
      BY <1>t, <1>old, <2>1, <3>1, <3>2, <3>3 DEF Num
    <3>4. CASE pc[w] = "markError"
      BY <1>t, <1>old, <2>1, <3>1, <3>2, <3>4 DEF Num
    <3> QED BY <2>3, <3>3, <3>4 DEF Stages
  <2>4. CASE ~(pc[w] \in Stages /\ cur[w] = k)
    <3>1. (Marking(k, "markSent")' <=> Marking(k, "markSent")) /\ (Marking(k, "markError")' <=> Marking(k, "markError"))
      BY <1>s, <2>1, <2>2, <2>4, LeaveStage
    <3>2. lostOks'[k] = lostOks[k] /\ lostFails'[k] = lostFails[k]
      BY <1>t, <2>1, <2>4 DEF LoseOutcome, Stages
    <3> QED BY <1>old, <2>1, <3>1, <3>2 DEF Num
  <2> QED BY <2>3, <2>4
<1> QED BY <1>1, <1>2, <1>3, <1>4, <1>5, <1>6, CountCases

\* Notifications are accounted for in every reachable state: with no outcome lost
\* and no claim overrun, a reminder is delivered at most once per schedule and
\* notified at most max_retry times.
THEOREM NotificationsAreAccounted == Spec => []NotificationsAccounted
<1>1. Init => ClaimExclusive /\ NotificationsAccounted
  BY DEF Init, Zero, ClaimExclusive, Holds, NotificationsAccounted, Num, Marking
<1>2. QED BY <1>1, AccountedStep, ExclusiveStep, TypeCorrect, PTL DEF Spec

-----------------------------------------------------------------------------
(* Stop *)

QuietInv == HoldersDispatch /\ StopQuiesces

LEMMA QuietStep == TypeOK /\ QuietInv /\ [Next]_vars => QuietInv'
<1> SUFFICES ASSUME TypeOK, QuietInv, [Next]_vars PROVE QuietInv'
  OBVIOUS
<1>t. /\ pc \in [Workers -> Pcs] /\ batch \in [Workers -> SUBSET Ids]
      /\ stop \in [Workers -> {"none", "waiting", "returned", "deadline", "missed"}]
  BY DEF TypeOK, WorkerType, RestType
\* A step of one worker.
<1>1. ASSUME NEW w \in Workers,
             \A v \in Workers : v # w => pc'[v] = pc[v] /\ batch'[v] = batch[v] /\ stop'[v] = stop[v],
             batch'[w] # {} => pc'[w] \in {"notify", "markSent", "markError"},
             stop'[w] = "returned" => pc'[w] = "done"
      PROVE  QuietInv'
  BY <1>1 DEF QuietInv, HoldersDispatch, StopQuiesces
<1>2. ASSUME UNCHANGED <<pc, batch, stop>> PROVE QuietInv'
  BY <1>2 DEF QuietInv, HoldersDispatch, StopQuiesces
<1>q. \A w \in Workers : pc[w] # "done" => stop[w] # "returned"
  BY DEF QuietInv, StopQuiesces
<1>h. \A w \in Workers : batch[w] # {} => pc[w] \in {"notify", "markSent", "markError"}
  BY DEF QuietInv, HoldersDispatch
<1>3. ASSUME NEW w \in Workers,
             StartCall(w) \/ StartRecover(w) \/ LoopTick(w) \/ LoopExit(w)
             \/ StopReturn(w) \/ StopDeadline(w) \/ StopCall(w) \/ CancelRun(w)
      PROVE  QuietInv'
  BY <1>1, <1>3, <1>t, <1>q, <1>h
  DEF StartCall, StartRecover, LoopTick, LoopExit, StopReturn, LoopGone, StopDeadline,
      StopCall, CancelRun
<1>4. ASSUME NEW w \in Workers, ClaimDue(w) PROVE QuietInv'
  BY <1>1, <1>4, <1>t, <1>q, <1>h DEF ClaimDue
<1>5. ASSUME NEW w \in Workers, NEW k \in Ids, NEW ok \in BOOLEAN, Notify(w, k, ok) PROVE QuietInv'
  BY <1>1, <1>5, <1>t, <1>q DEF Notify
<1>6. ASSUME NEW w \in Workers, pc[w] # "done", FinishItem(w), UNCHANGED stop PROVE QuietInv'
  BY <1>1, <1>6, <1>t, <1>q DEF FinishItem
<1>7. ASSUME NEW w \in Workers, MarkSent(w) \/ MarkFailed(w) \/ MarkRetry(w) \/ MarkError(w)
      PROVE  QuietInv'
  BY <1>6, <1>7 DEF MarkSent, MarkFailed, MarkRetry, MarkError, Mark
<1>8. ASSUME NEW w \in Workers, Crash(w) PROVE QuietInv'
  BY <1>1, <1>8, <1>t DEF Crash
<1>9. ASSUME NEW w \in Workers, Restart(w) PROVE QuietInv'
  BY <1>1, <1>9, <1>t, <1>h DEF Restart
<1>10. ASSUME NEW c \in Clients, ClientStep(c) \/ ClientError(c) PROVE QuietInv'
  BY <1>2, <1>10 DEF ClientStep, CancelUpdate, RescheduleUpdate, ClientError
<1>11. ASSUME NEW c \in Clients, NEW k \in Ids, CancelRead(c, k) \/ RescheduleRead(c, k) PROVE QuietInv'
  BY <1>2, <1>11 DEF CancelRead, RescheduleRead
<1>12. ASSUME NEW k \in Ids, Create(k) PROVE QuietInv'
  BY <1>2, <1>12 DEF Create
<1>13. CASE Tick \/ UNCHANGED vars
  BY <1>2, <1>13 DEF Tick, vars
<1> QED
  BY <1>3, <1>4, <1>5, <1>7, <1>8, <1>9, <1>10, <1>11, <1>12, <1>13
  DEF Next, WorkerStep, Dispatch

\* Once Stop has returned nil the process delivers nothing and holds no claim, until
\* it is replaced.
THEOREM StopIsQuiet == Spec => []StopQuiesces
<1>1. Init => QuietInv
  BY DEF Init, QuietInv, HoldersDispatch, StopQuiesces
<1>2. QuietInv => StopQuiesces
  BY DEF QuietInv
<1> QED BY <1>1, <1>2, QuietStep, TypeCorrect, PTL DEF Spec

=============================================================================
