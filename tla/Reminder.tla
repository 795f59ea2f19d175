------------------------------ MODULE Reminder ------------------------------
(***************************************************************************)
(* The reminder service: worker processes that poll one table of reminders *)
(* (reminder/service.go, reminder/store.go) and clients that create,       *)
(* cancel and reschedule reminders.                                        *)
(*                                                                         *)
(* A row is claimed with one transaction, delivered outside of any         *)
(* transaction, and marked with a second statement that is guarded only by *)
(* status = 'processing'.  A claim older than TTL is put back by whichever *)
(* worker polls next.                                                      *)
(*                                                                         *)
(* Time is relative: a row carries the time left until it is due and the   *)
(* age of its claim, and Tick advances both.                               *)
(***************************************************************************)
EXTENDS Integers, Sequences, FiniteSets

CONSTANTS
  Ids,              \* reminders; a row's id stands for its unique key too
  Workers,          \* processes, each with one Service
  Clients,          \* callers of CancelByKey and RescheduleByKey
  TTL,              \* processingTTL, in ticks
  RetryDelays,      \* retryDelays, in ticks
  Minute,           \* the delay used when retryDelays is empty
  BatchSize,        \* batchSize
  MaxRetryParams,   \* CreateParams.MaxRetry values a client passes
  MaxWait,          \* bound: how far ahead a client schedules
  MaxFaults,        \* bound: crashes and database errors
  MaxCalls,         \* bound: cancel, reschedule and stop calls
  Prompt            \* TRUE: no live worker keeps a claim for TTL ticks

ASSUME IdsAssumption == IsFiniteSet(Ids)
ASSUME TTLAssumption == TTL \in Nat \ {0}
ASSUME DelayAssumption ==
  /\ RetryDelays \in Seq(Nat)
  /\ Minute \in Nat
ASSUME BatchAssumption == BatchSize \in Nat \ {0}
ASSUME RetryParamAssumption == MaxRetryParams \subseteq Int
ASSUME BoundAssumption == MaxWait \in Nat /\ MaxFaults \in Nat /\ MaxCalls \in Nat
ASSUME PromptAssumption == Prompt \in BOOLEAN

None == "none"
ASSUME NoneAssumption == None \notin Ids

VARIABLES
  status,      \* the table, by column: status,
  wait,        \*   time left until schedule_at,
  age,         \*   time since updated_at of a processing row (up to TTL),
  retryCount,  \*   retry_count,
  maxRetry,    \*   max_retry
  pc,          \* where the Service of each worker is
  batch,       \* reminders a worker has claimed and not finished with
  seen,        \* the RetryCount each worker read with its claim
  cur,         \* the reminder being dispatched
  ctxDone,     \* the worker's context is cancelled
  stop,        \* the caller of Stop
  client,      \* clients between their read and their update
  faults,      \* faults so far
  calls,       \* client and stop calls so far
  overrun,     \* history: reminders requeued while a live worker held them
  fails, oks,  \* history: answers of the notifier since the last (re)schedule,
  lostFails,   \*   those whose record in the table was lost
  lostOks,
  acked        \* history: reminders whose cancellation was confirmed

table == <<status, wait, age, retryCount, maxRetry>>
obs == <<fails, oks, lostFails, lostOks>>
vars == <<table, pc, batch, seen, cur, ctxDone, stop, client, faults, calls,
          overrun, obs, acked>>

Statuses == {"absent", "pending", "processing", "sent", "failed", "canceled"}
Terminal == {"sent", "canceled"}
Pcs == {"off", "recovering", "loop", "claim", "notify", "markSent", "markError", "done"}
Idle == [op |-> "idle", id |-> None, wait |-> 0]

ObsType ==
  /\ fails \in [Ids -> Nat]
  /\ oks \in [Ids -> Nat]
  /\ lostFails \in [Ids -> Nat]
  /\ lostOks \in [Ids -> Nat]

TableType ==
  /\ status \in [Ids -> Statuses]
  /\ wait \in [Ids -> Nat]
  /\ age \in [Ids -> 0 .. TTL]
  /\ retryCount \in [Ids -> Nat]
  /\ maxRetry \in [Ids -> Nat]

WorkerType ==
  /\ pc \in [Workers -> Pcs]
  /\ batch \in [Workers -> SUBSET Ids]
  /\ seen \in [Workers -> [Ids -> Nat]]
  /\ cur \in [Workers -> Ids \cup {None}]
  /\ \A w \in Workers : pc[w] \in {"markSent", "markError"} => cur[w] \in batch[w]

RestType ==
  /\ ctxDone \in [Workers -> BOOLEAN]
  /\ stop \in [Workers -> {"none", "waiting", "returned", "deadline", "missed"}]
  /\ client \in [Clients -> [op : {"idle", "cancel", "reschedule"}, id : Ids \cup {None}, wait : Nat]]
  /\ \A c \in Clients : client[c].op # "idle" => client[c].id \in Ids
  /\ faults \in 0 .. MaxFaults
  /\ calls \in 0 .. MaxCalls
  /\ overrun \subseteq Ids
  /\ acked \subseteq Ids

TypeOK == TableType /\ WorkerType /\ RestType /\ ObsType

Holds(w, k) == k \in batch[w]
Fault == faults < MaxFaults /\ faults' = faults + 1
Call == calls < MaxCalls /\ calls' = calls + 1

Zero == [k \in Ids |-> 0]

\* History: counting starts anew for the reminders of S.
ResetObs(S) ==
  LET Reset(f) == [k \in Ids |-> IF k \in S THEN 0 ELSE f[k]]
  IN /\ fails' = Reset(fails) /\ oks' = Reset(oks)
     /\ lostFails' = Reset(lostFails) /\ lostOks' = Reset(lostOks)

Init ==
  /\ status = [k \in Ids |-> "absent"]
  /\ wait = Zero
  /\ age = Zero
  /\ retryCount = Zero
  /\ maxRetry = Zero
  /\ pc = [w \in Workers |-> "off"]
  /\ batch = [w \in Workers |-> {}]
  /\ seen = [w \in Workers |-> Zero]
  /\ cur = [w \in Workers |-> None]
  /\ ctxDone = [w \in Workers |-> FALSE]
  /\ stop = [w \in Workers |-> "none"]
  /\ client = [c \in Clients |-> Idle]
  /\ faults = 0
  /\ calls = 0
  /\ overrun = {}
  /\ fails = Zero /\ oks = Zero /\ lostFails = Zero /\ lostOks = Zero
  /\ acked = {}

-----------------------------------------------------------------------------
(* Clients *)

\* Store.Create: maxRetry <= 0 becomes 3.  An existing key is ErrAlreadyExists
\* and changes nothing.
\* Mutant: DefaultMaxRetry_Zero defaults only a zero.
DefaultMaxRetry_Zero(p) == IF p = 0 THEN 3 ELSE p
DefaultMaxRetry(p) == IF p <= 0 THEN 3 ELSE p

Create(k) ==
  /\ status[k] = "absent"
  /\ \E p \in MaxRetryParams, d \in 0 .. MaxWait :
       /\ status' = [status EXCEPT ![k] = "pending"]
       /\ wait' = [wait EXCEPT ![k] = d]
       /\ maxRetry' = [maxRetry EXCEPT ![k] = DefaultMaxRetry(p)]
  /\ UNCHANGED <<age, retryCount, pc, batch, seen, cur, ctxDone, stop, client,
                 faults, calls, overrun, obs, acked>>

\* The statuses CancelByKey and RescheduleByKey accept, in the read and in the
\* WHERE clause of the update.
Mutable(k) == status[k] \in {"pending", "failed"}

\* Mutant: the UPDATE trusts the status that was read.
UpdateApplies_Blind(k) == status[k] # "absent"
UpdateApplies(k) == Mutable(k)

\* CancelByKey up to its update: a canceled reminder is confirmed at once.
CancelRead(c, k) ==
  /\ client[c] = Idle
  /\ Call
  /\ \/ /\ status[k] = "canceled"
        /\ acked' = acked \cup {k}
        /\ UNCHANGED client
     \/ /\ Mutable(k)
        /\ client' = [client EXCEPT ![c] = [op |-> "cancel", id |-> k, wait |-> 0]]
        /\ UNCHANGED acked
  /\ UNCHANGED <<table, pc, batch, seen, cur, ctxDone, stop, faults, overrun, obs>>

RescheduleRead(c, k) ==
  /\ client[c] = Idle
  /\ Call
  /\ Mutable(k)
  /\ \E d \in 0 .. MaxWait :
       client' = [client EXCEPT ![c] = [op |-> "reschedule", id |-> k, wait |-> d]]
  /\ UNCHANGED <<table, pc, batch, seen, cur, ctxDone, stop, faults, overrun, obs, acked>>

\* The guarded UPDATE of CancelByKey; no row matched is ErrStateConflict.
CancelUpdate(c) ==
  /\ client[c].op = "cancel"
  /\ LET k == client[c].id IN
       \/ /\ UpdateApplies(k)
          /\ status' = [status EXCEPT ![k] = "canceled"]
          /\ acked' = acked \cup {k}
       \/ /\ ~UpdateApplies(k)
          /\ UNCHANGED <<status, acked>>
  /\ client' = [client EXCEPT ![c] = Idle]
  /\ UNCHANGED <<wait, age, retryCount, maxRetry, pc, batch, seen, cur, ctxDone, stop,
                 faults, calls, overrun, obs>>

\* The guarded UPDATE of RescheduleByKey: a new schedule with a fresh budget.
RescheduleUpdate(c) ==
  /\ client[c].op = "reschedule"
  /\ LET k == client[c].id IN
       \/ /\ UpdateApplies(k)
          /\ status' = [status EXCEPT ![k] = "pending"]
          /\ wait' = [wait EXCEPT ![k] = client[c].wait]
          /\ retryCount' = [retryCount EXCEPT ![k] = 0]
          /\ ResetObs({k})
       \/ /\ ~UpdateApplies(k)
          /\ UNCHANGED <<status, wait, retryCount, obs>>
  /\ client' = [client EXCEPT ![c] = Idle]
  /\ UNCHANGED <<age, maxRetry, pc, batch, seen, cur, ctxDone, stop, faults, calls,
                 overrun, acked>>

\* The UPDATE fails before it reaches the row.
ClientError(c) ==
  /\ client[c].op # "idle"
  /\ Fault
  /\ client' = [client EXCEPT ![c] = Idle]
  /\ UNCHANGED <<table, pc, batch, seen, cur, ctxDone, stop, calls, overrun, obs, acked>>

-----------------------------------------------------------------------------
(* recoverStaleProcessing *)

\* Mutant: a claim is stale one tick early.
Stale_Early(k) == status[k] = "processing" /\ age[k] + 1 >= TTL
\* Mutant: no claim is ever stale.
Stale_Never(k) == FALSE
Stale(k) == status[k] = "processing" /\ age[k] >= TTL

\* RequeueStaleProcessing: every stale claim back to pending.  retry_count is
\* left alone.
RequeueStaleProcessing ==
  LET stale == {k \in Ids : Stale(k)}
      held  == {k \in stale : \E w \in Workers : Holds(w, k)}
  IN /\ status' = [k \in Ids |-> IF k \in stale THEN "pending" ELSE status[k]]
     /\ age' = [k \in Ids |-> IF k \in stale THEN 0 ELSE age[k]]
     /\ overrun' = overrun \cup held
     /\ ResetObs(held)
     /\ UNCHANGED <<wait, retryCount, maxRetry>>

-----------------------------------------------------------------------------
(* Service.Start and Service.Stop *)

StartCall(w) ==
  /\ pc[w] = "off"
  /\ ~ctxDone[w]
  /\ pc' = [pc EXCEPT ![w] = "recovering"]
  /\ UNCHANGED <<table, batch, seen, cur, ctxDone, stop, client, faults, calls,
                 overrun, obs, acked>>

\* The recovery inside Start; its error clears started again.
StartRecover(w) ==
  /\ pc[w] = "recovering"
  /\ \/ /\ ~ctxDone[w]
        /\ RequeueStaleProcessing
        /\ pc' = [pc EXCEPT ![w] = "loop"]
        /\ UNCHANGED faults
     \/ /\ \/ ctxDone[w] /\ UNCHANGED faults
           \/ ~ctxDone[w] /\ Fault
        /\ pc' = [pc EXCEPT ![w] = "off"]
        /\ UNCHANGED <<table, overrun, obs>>
  /\ UNCHANGED <<batch, seen, cur, ctxDone, stop, client, calls, acked>>

\* Stop before the loop's cancel function is set returns nil and stops nothing.
StopCall(w) ==
  /\ pc[w] # "off"
  /\ stop[w] = "none"
  /\ Call
  /\ \/ /\ pc[w] = "recovering"
        /\ stop' = [stop EXCEPT ![w] = "missed"]
        /\ UNCHANGED ctxDone
     \/ /\ pc[w] # "recovering"
        /\ stop' = [stop EXCEPT ![w] = "waiting"]
        /\ ctxDone' = [ctxDone EXCEPT ![w] = TRUE]
  /\ UNCHANGED <<table, pc, batch, seen, cur, client, faults, overrun, obs, acked>>

\* What Stop waits for: the done channel the loop's goroutine closes.
\* Mutant: Stop waits for the cancellation, not for the goroutine.
LoopGone_Cancelled(w) == ctxDone[w]
LoopGone(w) == pc[w] = "done"

StopReturn(w) ==
  /\ stop[w] = "waiting"
  /\ LoopGone(w)
  /\ stop' = [stop EXCEPT ![w] = "returned"]
  /\ UNCHANGED <<table, pc, batch, seen, cur, ctxDone, client, faults, calls,
                 overrun, obs, acked>>

\* The context given to Stop ends first.
StopDeadline(w) ==
  /\ stop[w] = "waiting"
  /\ stop' = [stop EXCEPT ![w] = "deadline"]
  /\ UNCHANGED <<table, pc, batch, seen, cur, ctxDone, client, faults, calls,
                 overrun, obs, acked>>

\* The context given to Start is cancelled by its owner.
CancelRun(w) ==
  /\ pc[w] # "off"
  /\ ~ctxDone[w]
  /\ Call
  /\ ctxDone' = [ctxDone EXCEPT ![w] = TRUE]
  /\ UNCHANGED <<table, pc, batch, seen, cur, stop, client, faults, overrun, obs, acked>>

-----------------------------------------------------------------------------
(* Service.loop and processBatch *)

\* Mutant: the loop's select has no case for the context.
LoopExit_Never(w) == FALSE
LoopExit(w) ==
  /\ pc[w] = "loop"
  /\ ctxDone[w]
  /\ pc' = [pc EXCEPT ![w] = "done"]
  /\ UNCHANGED <<table, batch, seen, cur, ctxDone, stop, client, faults, calls,
                 overrun, obs, acked>>

\* A tick of the poll timer.  A recovery that fails because the context is
\* cancelled still goes on to processBatch; any other error skips it.
LoopTick(w) ==
  /\ pc[w] = "loop"
  /\ \/ /\ ~ctxDone[w]
        /\ RequeueStaleProcessing
        /\ pc' = [pc EXCEPT ![w] = "claim"]
        /\ UNCHANGED faults
     \/ /\ ctxDone[w]
        /\ pc' = [pc EXCEPT ![w] = "claim"]
        /\ UNCHANGED <<table, overrun, obs, faults>>
     \/ /\ ~ctxDone[w]
        /\ Fault
        /\ UNCHANGED <<table, overrun, obs, pc>>
  /\ UNCHANGED <<batch, seen, cur, ctxDone, stop, client, calls, acked>>

\* Mutant: the SELECT forgets the status.
Due_Claimed(k) == status[k] \in {"pending", "processing"} /\ wait[k] = 0
Due(k) == status[k] = "pending" /\ wait[k] = 0

\* FOR UPDATE SKIP LOCKED passes over rows whose update is under way.
Locked(k) == \E c \in Clients : client[c].id = k

\* What the SELECT of ClaimDue may return.
Claimable(S) ==
  /\ \A k \in S : Due(k)
  /\ Cardinality(S) <= BatchSize
  /\ Cardinality(S) = BatchSize \/ \A k \in Ids \ S : Due(k) => Locked(k)

\* The UPDATE of ClaimDue.
SetProcessing(S) ==
  /\ status' = [k \in Ids |-> IF k \in S THEN "processing" ELSE status[k]]
  /\ age' = [k \in Ids |-> IF k \in S THEN 0 ELSE age[k]]
  /\ UNCHANGED <<wait, retryCount, maxRetry>>

\* ClaimDue inside processBatch.  An error of the transaction claims nothing,
\* unless the commit was applied and only its answer was lost.
ClaimDue(w) ==
  /\ pc[w] = "claim"
  /\ \E S \in SUBSET Ids :
       \/ /\ ~ctxDone[w]
          /\ Claimable(S)
          /\ SetProcessing(S)
          /\ batch' = [batch EXCEPT ![w] = S]
          /\ seen' = [seen EXCEPT ![w] = [k \in Ids |-> IF k \in S THEN retryCount[k] ELSE 0]]
          /\ pc' = [pc EXCEPT ![w] = IF S = {} THEN "loop" ELSE "notify"]
          /\ UNCHANGED faults
       \/ /\ ~ctxDone[w]
          /\ Fault
          /\ S = {} \/ Claimable(S)
          /\ SetProcessing(S)
          /\ pc' = [pc EXCEPT ![w] = "loop"]
          /\ UNCHANGED <<batch, seen>>
       \/ /\ ctxDone[w]
          /\ S = {}
          /\ pc' = [pc EXCEPT ![w] = "loop"]
          /\ UNCHANGED <<table, batch, seen, faults>>
  /\ UNCHANGED <<cur, ctxDone, stop, client, calls, overrun, obs, acked>>

-----------------------------------------------------------------------------
(* Service.dispatch *)

\* The notifier's answer.  It may answer either way after the context is
\* cancelled: the batch is worked through to its end.
Notify(w, k, ok) ==
  /\ pc[w] = "notify"
  /\ Holds(w, k)
  /\ cur' = [cur EXCEPT ![w] = k]
  /\ pc' = [pc EXCEPT ![w] = IF ok THEN "markSent" ELSE "markError"]
  /\ oks' = IF ok /\ k \notin overrun THEN [oks EXCEPT ![k] = @ + 1] ELSE oks
  /\ fails' = IF ~ok /\ k \notin overrun THEN [fails EXCEPT ![k] = @ + 1] ELSE fails
  /\ UNCHANGED <<table, batch, seen, ctxDone, stop, client, faults, calls, overrun,
                 lostFails, lostOks, acked>>

\* On to the next reminder of the batch, or back to the loop.
FinishItem(w) ==
  LET rest == batch[w] \ {cur[w]}
  IN /\ batch' = [batch EXCEPT ![w] = rest]
     /\ seen' = [seen EXCEPT ![w][cur[w]] = 0]
     /\ cur' = [cur EXCEPT ![w] = None]
     /\ pc' = [pc EXCEPT ![w] = IF rest = {} THEN "loop" ELSE "notify"]

\* The WHERE clause of MarkSent, MarkRetry and MarkFailed.  It names the row
\* and not the claim: any claim of the row will do.
\* Mutant: MarkApplies_Always drops the status.
MarkApplies_Always(k) == status[k] # "absent"
MarkApplies(k) == status[k] = "processing"

\* The UPDATE common to MarkSent, MarkRetry and MarkFailed.  A row no longer
\* processing is ErrStateConflict and stays as it is.
Mark(w, st, count, delay) ==
  LET k == cur[w]
  IN /\ ~ctxDone[w]
     /\ \/ /\ MarkApplies(k)
           /\ status' = [status EXCEPT ![k] = st]
           /\ age' = [age EXCEPT ![k] = 0]
           /\ retryCount' = [retryCount EXCEPT ![k] = count]
           /\ wait' = [wait EXCEPT ![k] = delay]
        \/ /\ ~MarkApplies(k)
           /\ UNCHANGED <<status, age, retryCount, wait>>
     /\ FinishItem(w)
     /\ UNCHANGED <<maxRetry, ctxDone, stop, client, faults, calls, overrun, obs, acked>>

\* Mutant: MarkSent leaves the reminder pending.
MarkSent_Pending(w) ==
  /\ pc[w] = "markSent"
  /\ Mark(w, "pending", retryCount[cur[w]], wait[cur[w]])
MarkSent(w) ==
  /\ pc[w] = "markSent"
  /\ Mark(w, "sent", retryCount[cur[w]], wait[cur[w]])

\* Mutant: one attempt too many.
LastAttempt_OffByOne(rc, max) == rc >= max
LastAttempt(rc, max) == rc + 1 >= max

MarkFailed(w) ==
  /\ pc[w] = "markError"
  /\ LastAttempt(seen[w][cur[w]], maxRetry[cur[w]])
  /\ Mark(w, "failed", seen[w][cur[w]] + 1, wait[cur[w]])

retryDelay(attempt) ==
  IF attempt <= 0 \/ Len(RetryDelays) = 0 THEN Minute
  ELSE IF attempt > Len(RetryDelays) THEN RetryDelays[Len(RetryDelays)]
  ELSE RetryDelays[attempt]

MarkRetry(w) ==
  /\ pc[w] = "markError"
  /\ ~LastAttempt(seen[w][cur[w]], maxRetry[cur[w]])
  /\ Mark(w, "pending", seen[w][cur[w]] + 1, retryDelay(seen[w][cur[w]] + 1))

\* History: the outcome of dispatching cur[w] is not recorded.
LoseOutcome(w) ==
  LET k == cur[w]
  IN /\ lostOks' = IF pc[w] = "markSent" /\ k \notin overrun
                   THEN [lostOks EXCEPT ![k] = @ + 1] ELSE lostOks
     /\ lostFails' = IF pc[w] = "markError" /\ k \notin overrun
                     THEN [lostFails EXCEPT ![k] = @ + 1] ELSE lostFails

\* The marking statement fails: the context is cancelled, or the database errs.
MarkError(w) ==
  /\ pc[w] \in {"markSent", "markError"}
  /\ \/ ctxDone[w] /\ UNCHANGED faults
     \/ ~ctxDone[w] /\ Fault
  /\ LoseOutcome(w)
  /\ FinishItem(w)
  /\ UNCHANGED <<table, ctxDone, stop, client, calls, overrun, fails, oks, acked>>

-----------------------------------------------------------------------------
(* The environment *)

\* The process dies; what it claimed stays processing in the table.
Crash(w) ==
  /\ pc[w] \notin {"off", "done"}
  /\ Fault
  /\ LoseOutcome(w)
  /\ pc' = [pc EXCEPT ![w] = "off"]
  /\ batch' = [batch EXCEPT ![w] = {}]
  /\ seen' = [seen EXCEPT ![w] = Zero]
  /\ cur' = [cur EXCEPT ![w] = None]
  /\ ctxDone' = [ctxDone EXCEPT ![w] = FALSE]
  /\ stop' = [stop EXCEPT ![w] = "none"]
  /\ UNCHANGED <<table, client, calls, overrun, fails, oks, acked>>

\* A worker that has stopped is replaced by a new process.
Restart(w) ==
  /\ pc[w] = "done" \/ (pc[w] = "off" /\ ctxDone[w])
  /\ stop[w] # "waiting"
  /\ pc' = [pc EXCEPT ![w] = "off"]
  /\ ctxDone' = [ctxDone EXCEPT ![w] = FALSE]
  /\ stop' = [stop EXCEPT ![w] = "none"]
  /\ UNCHANGED <<table, batch, seen, cur, client, faults, calls, overrun, obs, acked>>

\* One unit of time.
Tick ==
  /\ Prompt => \A w \in Workers : \A k \in batch[w] : age[k] + 1 < TTL
  /\ wait' = [k \in Ids |-> IF wait[k] > 0 THEN wait[k] - 1 ELSE 0]
  /\ age' = [k \in Ids |-> IF status[k] = "processing" /\ age[k] < TTL
                           THEN age[k] + 1 ELSE age[k]]
  /\ UNCHANGED <<status, retryCount, maxRetry, pc, batch, seen, cur, ctxDone, stop, client, faults, calls,
                 overrun, obs, acked>>

-----------------------------------------------------------------------------

ClientStep(c) == CancelUpdate(c) \/ RescheduleUpdate(c)

Dispatch(w) ==
  \/ \E k \in Ids, ok \in BOOLEAN : Notify(w, k, ok)
  \/ MarkSent(w) \/ MarkFailed(w) \/ MarkRetry(w) \/ MarkError(w)

WorkerStep(w) ==
  \/ StartCall(w) \/ StartRecover(w)
  \/ LoopTick(w) \/ ClaimDue(w)
  \/ Dispatch(w)
  \/ Restart(w)

Next ==
  \/ \E k \in Ids : Create(k)
  \/ \E c \in Clients : \/ ClientStep(c) \/ ClientError(c)
                        \/ \E k \in Ids : CancelRead(c, k) \/ RescheduleRead(c, k)
  \/ \E w \in Workers : \/ WorkerStep(w) \/ LoopExit(w) \/ Crash(w)
                        \/ StopCall(w) \/ StopReturn(w) \/ StopDeadline(w) \/ CancelRun(w)
  \/ Tick

Spec == Init /\ [][Next]_vars

\* Workers keep running, time passes, clients finish what they began, and a
\* select with both channels ready picks the cancelled context in the end.
Fairness ==
  /\ \A w \in Workers : WF_vars(WorkerStep(w)) /\ SF_vars(LoopExit(w)) /\ WF_vars(StopReturn(w))
  /\ \A c \in Clients : WF_vars(ClientStep(c))
  /\ WF_vars(Tick)

FairSpec == Spec /\ Fairness

-----------------------------------------------------------------------------
(* Properties *)

\* The statuses and the retry budget agree whatever the workers do: a reminder
\* that may still be delivered has attempts left, a failed one has used them all.
RetryBudget ==
  \A k \in Ids :
    /\ status[k] \in {"pending", "processing"} => retryCount[k] < maxRetry[k]
    /\ status[k] = "failed" => retryCount[k] = maxRetry[k]

\* What makes RetryBudget inductive: a row in the table allows at least one
\* attempt, and so does every snapshot a worker still holds, stale or not.
BudgetLeft ==
  /\ \A k \in Ids : IF status[k] = "absent" THEN retryCount[k] = 0 ELSE maxRetry[k] > 0
  /\ \A w \in Workers : \A k \in batch[w] : status[k] # "absent" /\ seen[w][k] < maxRetry[k]

\* A reminder whose claim never outlived TTL in a live worker has one holder at
\* most, that holder's row is processing, and the RetryCount it will write back
\* from is the one in the table.
ClaimExclusive ==
  \A k \in Ids \ overrun : \A w \in Workers :
    Holds(w, k) =>
      /\ status[k] = "processing"
      /\ seen[w][k] = retryCount[k]
      /\ \A v \in Workers \ {w} : ~Holds(v, k)

Num(b) == IF b THEN 1 ELSE 0
Marking(k, stage) == \E w \in Workers : pc[w] = stage /\ cur[w] = k

\* Every notification since the reminder was last scheduled is accounted for:
\* a success is the sent row, one being recorded, or one whose record was lost;
\* a failure is counted in retry_count, being recorded, or lost.  So a second
\* delivery, or a delivery beyond the budget, needs a lost record or an overrun.
NotificationsAccounted ==
  \A k \in Ids \ overrun :
    /\ oks[k] = lostOks[k] + Num(status[k] = "sent") + Num(Marking(k, "markSent"))
    /\ fails[k] = lostFails[k] + retryCount[k] + Num(Marking(k, "markError"))

\* With a client that was told its reminder is canceled, it stays canceled, even
\* if a worker that overran its claim still records an outcome.
CancelIsFinal == \A k \in acked : status[k] = "canceled"

\* Sent and canceled are final, for Mark*, RescheduleByKey and the recovery alike.
TerminalStays ==
  [][\A k \in Ids : status[k] \in Terminal =>
       status'[k] = status[k] /\ retryCount'[k] = retryCount[k]]_vars

\* When no live worker outlives its claim, recovery only ever takes claims whose
\* worker is gone.
RecoveryTakesOrphans == Prompt => overrun = {}

\* What makes RecoveryTakesOrphans inductive: a claim in a live worker is fresh.
HeldIsFresh == Prompt => \A w \in Workers : \A k \in batch[w] : age[k] < TTL

\* What makes StopQuiesces inductive: only a dispatching worker holds claims.
HoldersDispatch ==
  \A w \in Workers : batch[w] # {} => pc[w] \in {"notify", "markSent", "markError"}

\* Stop that returned nil after the loop was running leaves nothing in flight:
\* the process delivers nothing until it is replaced.
StopQuiesces ==
  \A w \in Workers : stop[w] = "returned" => pc[w] = "done" /\ batch[w] = {}

\* The table, seen without its workers, follows the life cycle of a reminder;
\* attempts are counted one by one when no live worker outlives its claim.
Lifecycle == INSTANCE ReminderLifecycle WITH
  Exclusive <- Prompt

\* Every step of the workers, the clients and the faults maps to a step of the
\* life cycle or to none.
ImplementsLifecycle == Lifecycle!Spec

\* A worker whose context is cancelled works its batch off and ends its loop, so
\* a Stop without a deadline returns.
LoopEnds == \A w \in Workers : (ctxDone[w] /\ pc[w] # "off") ~> pc[w] \in {"off", "done"}

\* Every scheduled reminder is delivered, fails or is canceled in the end.
EventuallySettled ==
  \A k \in Ids : status[k] \in {"pending", "processing"}
                   ~> status[k] \in {"sent", "failed", "canceled"}

=============================================================================
