-------------------------- MODULE ReminderLifecycle --------------------------
(***************************************************************************)
(* What the reminder table promises its clients, with no worker in sight:  *)
(* the status of each reminder and its retry count follow one life cycle.  *)
(*                                                                         *)
(* A claim may take several reminders at once, so a step lets every        *)
(* reminder move or stay.  With Exclusive, an attempt that is recorded as  *)
(* failed counts exactly one; without it a worker that outlived its claim  *)
(* may write the count it read long ago.                                   *)
(***************************************************************************)
EXTENDS Integers

CONSTANTS
  Ids,         \* the reminders
  Exclusive    \* TRUE: a claimed reminder has one worker

VARIABLES
  status,      \* status of each reminder
  retryCount,  \* recorded attempts
  maxRetry     \* attempts allowed

vars == <<status, retryCount, maxRetry>>

Init ==
  /\ status = [k \in Ids |-> "absent"]
  /\ retryCount = [k \in Ids |-> 0]
  /\ maxRetry = [k \in Ids |-> 0]

Stay(k) ==
  /\ status'[k] = status[k]
  /\ retryCount'[k] = retryCount[k]
  /\ maxRetry'[k] = maxRetry[k]

Create(k) ==
  /\ status[k] = "absent" /\ status'[k] = "pending"
  /\ retryCount'[k] = 0
  /\ maxRetry'[k] \in Nat \ {0}

\* Moves that leave the retry count alone: claim, recovery, delivery, cancel.
Moves == {<<"pending", "processing">>, <<"processing", "pending">>,
          <<"processing", "sent">>,
          <<"pending", "canceled">>, <<"failed", "canceled">>}

Move(k) ==
  /\ <<status[k], status'[k]>> \in Moves
  /\ retryCount'[k] = retryCount[k]
  /\ maxRetry'[k] = maxRetry[k]

\* An attempt is recorded as failed: below the limit the reminder is pending
\* again, at the limit it has failed.
Attempt(k) ==
  /\ status[k] = "processing"
  /\ retryCount'[k] \in 1 .. maxRetry[k]
  /\ Exclusive => retryCount'[k] = retryCount[k] + 1
  /\ status'[k] = IF retryCount'[k] = maxRetry[k] THEN "failed" ELSE "pending"
  /\ maxRetry'[k] = maxRetry[k]

Reschedule(k) ==
  /\ status[k] \in {"pending", "failed"}
  /\ status'[k] = "pending"
  /\ retryCount'[k] = 0
  /\ maxRetry'[k] = maxRetry[k]

Step(k) == Stay(k) \/ Create(k) \/ Move(k) \/ Attempt(k) \/ Reschedule(k)

Next ==
  /\ \A k \in Ids : Step(k)
  /\ DOMAIN status' = Ids /\ DOMAIN retryCount' = Ids /\ DOMAIN maxRetry' = Ids

Spec == Init /\ [][Next]_vars

=============================================================================
