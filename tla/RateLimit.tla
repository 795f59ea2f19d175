------------------------------ MODULE RateLimit ------------------------------
(***************************************************************************)
(* The token bucket of middleware.RateLimit (middleware/production.go).    *)
(* Time is counted in ticks of which a second has Second, tokens in parts  *)
(* of which one token has Second, so that a tick refills Rate parts.  The  *)
(* code's float64 arithmetic is exact here.  A request's section under mu  *)
(* is one action, and reads the monotonic clock inside it.                 *)
(***************************************************************************)
EXTENDS Integers, Sequences

CONSTANTS
  Rate, Burst,   \* the parameters of RateLimit; without a rate it lets all pass
  Second,        \* ticks per second
  MaxClock       \* bound: how long the clock runs

ASSUME RateAssumption ==
  /\ Rate \in Nat \ {0} /\ Burst \in Int
  /\ Second \in Nat \ {0} /\ MaxClock \in Nat

VARIABLES
  clock,     \* time.Now()
  tokens,    \* parts in the bucket when it was last used
  last,      \* when that was
  admits,    \* history: when requests were admitted
  refused    \* history: the time of a refusal no admission has followed, or -1

bucket == <<tokens, last, admits, refused>>

\* Burst after it was raised to the rate, in parts.
Capacity == (IF Burst < Rate THEN Rate ELSE Burst) * Second

LimitInit ==
  /\ clock = 0
  /\ tokens = Capacity
  /\ last = 0
  /\ admits = <<>>
  /\ refused = -1

\* What a request would find now.
\* Mutant: Available_Uncapped keeps what an idle time refills beyond the burst.
Available_Uncapped == tokens + (clock - last) * Rate
Available ==
  LET refilled == tokens + (clock - last) * Rate
  IN  IF refilled > Capacity THEN Capacity ELSE refilled

\* What a refused request leaves in the bucket.
\* Mutant: Left_Emptied makes a refusal cost what has been refilled.
Left_Emptied == 0
Left == Available

\* A request is admitted.
Admit ==
  /\ Available >= Second
  /\ tokens' = Available - Second
  /\ last' = clock
  /\ admits' = Append(admits, clock)
  /\ refused' = -1

\* A request is answered 429 with Retry-After: 1.
Refuse ==
  /\ Available < Second
  /\ tokens' = Left
  /\ last' = clock
  /\ refused' = IF refused = -1 THEN clock ELSE refused
  /\ UNCHANGED admits

Tick ==
  /\ clock < MaxClock
  /\ clock' = clock + 1

-----------------------------------------------------------------------------
(* Properties *)

\* Over any period, from one admitted request to another, RateLimit admits no
\* more than the burst and what the period refills.
WindowBound ==
  \A i, j \in DOMAIN admits : i <= j =>
    (j - i + 1) * Second <= Capacity + (admits[j] - admits[i]) * Rate

\* The answer Retry-After: 1 is honest: a second after a refusal, if nobody else
\* was admitted, the bucket has a token, however many requests were refused since.
RetryAfterHonest ==
  refused # -1 /\ clock >= refused + Second => Available >= Second

=============================================================================
