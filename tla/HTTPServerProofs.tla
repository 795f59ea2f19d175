-------------------------- MODULE HTTPServerProofs --------------------------
(***************************************************************************)
(* Machine-checked proofs about HTTPServer and the token bucket it limits  *)
(* requests with, for every rate, burst, resolution of the clock and set   *)
(* of requests.                                                            *)
(***************************************************************************)
EXTENDS HTTPServer, TLAPS

-----------------------------------------------------------------------------
(* Type correctness *)

LimitType ==
  /\ clock \in Nat /\ tokens \in Int /\ last \in Nat
  /\ admits \in Seq(Nat) /\ refused \in Nat \cup {-1}

LEMMA CapacityType == Capacity \in Nat /\ Capacity >= Rate * Second /\ Rate * Second >= Second
<1>1. Rate \in Nat /\ Second \in Nat /\ Burst \in Int /\ Rate >= 1
  BY RateAssumption
<1>2. (IF Burst < Rate THEN Rate ELSE Burst) \in Nat /\ (IF Burst < Rate THEN Rate ELSE Burst) >= Rate
  BY <1>1
<1>3. \A a, b, c \in Nat : a >= b => a * c \in Nat /\ a * c >= b * c
  OBVIOUS
<1> QED BY <1>1, <1>2, <1>3 DEF Capacity

\* A product of a sum, for the steps that follow the clock.
LEMMA Distribute ==
  ASSUME NEW a \in Int, NEW b \in Int, NEW c \in Int
  PROVE  /\ a * c \in Int /\ (a + b) * c = a * c + b * c /\ (a - b) * c = a * c - b * c
         /\ (a + 1) * c = a * c + c
OBVIOUS

LEMMA Monotone ==
  ASSUME NEW a \in Int, NEW b \in Int, NEW c \in Nat, a <= b
  PROVE  a * c <= b * c
OBVIOUS

-----------------------------------------------------------------------------
(* The token bucket *)

\* What was admitted since any admission, and what is left, was in the bucket then or
\* has been refilled since.
Budget ==
  \A i \in 1 .. Len(admits) :
    /\ admits[i] <= last
    /\ (Len(admits) - i + 1) * Second + tokens <= Capacity + (last - admits[i]) * Rate

\* Since a refusal that no admission has followed, the bucket has been filling up.
Filling ==
  refused # -1 => /\ refused <= last
                  /\ tokens >= Capacity \/ tokens >= (last - refused) * Rate

BucketInv ==
  /\ LimitType
  /\ 0 <= tokens /\ tokens <= Capacity /\ last <= clock
  /\ Budget /\ WindowBound /\ Filling

\* What a request finds.
LEMMA AvailableIs ==
  ASSUME BucketInv
  PROVE  /\ Available \in Nat /\ Available <= Capacity
         /\ (clock - last) * Rate \in Nat
         /\ Available <= tokens + (clock - last) * Rate
         /\ Available = Capacity \/ Available = tokens + (clock - last) * Rate
<1>1. clock - last \in Nat /\ Rate \in Nat /\ tokens \in Nat /\ Capacity \in Nat
  BY RateAssumption, CapacityType DEF BucketInv, LimitType
<1>2. (clock - last) * Rate \in Nat
  BY <1>1
<1> QED BY <1>1, <1>2 DEF Available, BucketInv

LEMMA AdmitStep ==
  ASSUME BucketInv, Admit, UNCHANGED clock
  PROVE  BucketInv'
<1>t. /\ clock \in Nat /\ tokens \in Nat /\ last \in Nat /\ last <= clock
      /\ admits \in Seq(Nat) /\ Len(admits) \in Nat
      /\ Second \in Nat /\ Rate \in Nat /\ Capacity \in Nat
  BY RateAssumption, CapacityType DEF BucketInv, LimitType
<1>a. /\ Available \in Nat /\ Available >= Second /\ Available <= Capacity
      /\ (clock - last) * Rate \in Nat
      /\ Available <= tokens + (clock - last) * Rate
  BY AvailableIs DEF Admit
<1>1. /\ tokens' = Available - Second /\ last' = clock /\ admits' = Append(admits, clock)
      /\ refused' = -1 /\ clock' = clock
  BY DEF Admit
<1>2. /\ admits' \in Seq(Nat) /\ Len(admits') = Len(admits) + 1
      /\ \A i \in 1 .. Len(admits) : admits'[i] = admits[i] /\ admits[i] \in Nat
      /\ admits'[Len(admits) + 1] = clock
  BY <1>t, <1>1
<1>3. LimitType' /\ Filling' /\ 0 <= tokens' /\ tokens' <= Capacity /\ last' <= clock'
  BY <1>t, <1>a, <1>1, <1>2 DEF LimitType, Filling
<1>4. Budget'
  <2> SUFFICES ASSUME NEW i \in 1 .. Len(admits) + 1
               PROVE  /\ admits'[i] <= clock
                      /\ (Len(admits) + 1 - i + 1) * Second + (Available - Second)
                           <= Capacity + (clock - admits'[i]) * Rate
    BY <1>1, <1>2 DEF Budget, Capacity
  <2>1. CASE i = Len(admits) + 1
    <3>1. (Len(admits) + 1 - i + 1) * Second = Second /\ (clock - admits'[i]) * Rate = 0
      BY <1>t, <1>2, <2>1
    <3>2. admits'[i] = clock
      BY <1>2, <2>1
    <3> QED BY <1>t, <1>a, <3>1, <3>2
  <2>2. CASE i \in 1 .. Len(admits)
    <3>1. /\ admits'[i] = admits[i] /\ admits[i] \in Nat /\ admits[i] <= last
          /\ (Len(admits) - i + 1) * Second + tokens <= Capacity + (last - admits[i]) * Rate
      BY <1>2, <2>2 DEF BucketInv, Budget
    <3>2. (clock - admits[i]) * Rate = (clock - last) * Rate + (last - admits[i]) * Rate
      <4>1. (clock - admits[i]) = (clock - last) + (last - admits[i])
        BY <1>t, <3>1
      <4> QED BY <1>t, <3>1, <4>1, Distribute
    <3>3. (Len(admits) + 1 - i + 1) * Second = (Len(admits) - i + 1) * Second + Second
      <4>1. (Len(admits) + 1 - i + 1) = (Len(admits) - i + 1) + 1
        BY <1>t
      <4> QED BY <1>t, <4>1, Distribute
    <3>4. (Len(admits) - i + 1) * Second \in Int /\ (last - admits[i]) * Rate \in Int
      BY <1>t, <3>1
    <3> DEFINE spent == (Len(admits) - i + 1) * Second
               old == (last - admits[i]) * Rate
               new == (clock - last) * Rate
    <3>5. /\ spent \in Int /\ old \in Int /\ new \in Int
          /\ spent + tokens <= Capacity + old /\ Available <= tokens + new
      BY <1>a, <3>1, <3>4
    <3>6. /\ (Len(admits) + 1 - i + 1) * Second = spent + Second
          /\ (clock - admits'[i]) * Rate = new + old
      BY <3>1, <3>2, <3>3
    <3>7. admits'[i] <= clock
      BY <1>t, <3>1
    <3> HIDE DEF spent, old, new
    <3>8. (spent + Second) + (Available - Second) <= Capacity + (new + old)
      BY <1>t, <1>a, <3>5
    <3> QED BY <3>6, <3>7, <3>8
  <2> QED BY <1>t, <2>1, <2>2
<1>5. WindowBound'
  <2> SUFFICES ASSUME NEW i \in 1 .. Len(admits) + 1, NEW j \in 1 .. Len(admits) + 1, i <= j
               PROVE  (j - i + 1) * Second <= Capacity + (admits'[j] - admits'[i]) * Rate
    BY <1>2 DEF WindowBound, Capacity
  <2>1. CASE j \in 1 .. Len(admits)
    <3>1. i \in 1 .. Len(admits) /\ DOMAIN admits = 1 .. Len(admits)
      BY <1>t, <2>1
    <3>2. (j - i + 1) * Second <= Capacity + (admits[j] - admits[i]) * Rate
      BY <2>1, <3>1 DEF BucketInv, WindowBound
    <3>3. admits'[i] = admits[i] /\ admits'[j] = admits[j]
      BY <1>2, <2>1, <3>1
    <3> QED BY <3>2, <3>3
  <2>2. CASE j = Len(admits) + 1
    <3>1. /\ (Len(admits) + 1 - i + 1) * Second + tokens' <= Capacity + (clock - admits'[i]) * Rate
          /\ admits'[i] \in Nat /\ tokens' \in Nat
      BY <1>t, <1>1, <1>2, <1>3, <1>4 DEF Budget, LimitType, Capacity
    <3>2. (Len(admits) + 1 - i + 1) * Second \in Int /\ (clock - admits'[i]) * Rate \in Int
      BY <1>t, <3>1
    <3>3. PICK spent \in Int, refill \in Int, left \in Nat :
            /\ spent = (Len(admits) + 1 - i + 1) * Second /\ refill = (clock - admits'[i]) * Rate
            /\ left = tokens'
      BY <3>1, <3>2
    <3>4. spent <= Capacity + refill
      <4>1. spent + left <= Capacity + refill
        BY <3>1, <3>3
      <4> QED BY <1>t, <4>1
    <3>5. j = Len(admits) + 1 /\ admits'[j] = clock
      BY <1>2, <2>2
    <3> QED BY <3>3, <3>4, <3>5
  <2> QED BY <1>t, <2>1, <2>2
<1> QED BY <1>3, <1>4, <1>5 DEF BucketInv, Capacity

LEMMA RefuseStep ==
  ASSUME BucketInv, Refuse, UNCHANGED clock
  PROVE  BucketInv'
<1>t. /\ clock \in Nat /\ tokens \in Nat /\ last \in Nat /\ last <= clock
      /\ admits \in Seq(Nat) /\ Len(admits) \in Nat /\ refused \in Nat \cup {-1}
      /\ Second \in Nat /\ Rate \in Nat /\ Capacity \in Nat
  BY RateAssumption, CapacityType DEF BucketInv, LimitType
<1>a. /\ Available \in Nat /\ Available <= Capacity
      /\ (clock - last) * Rate \in Nat
      /\ Available <= tokens + (clock - last) * Rate
      /\ Available = Capacity \/ Available = tokens + (clock - last) * Rate
  BY AvailableIs
<1>1. /\ tokens' = Available /\ last' = clock /\ admits' = admits /\ clock' = clock
      /\ refused' = IF refused = -1 THEN clock ELSE refused
  BY DEF Refuse, Left
<1>2. LimitType' /\ 0 <= tokens' /\ tokens' <= Capacity /\ last' <= clock' /\ WindowBound'
  BY <1>t, <1>a, <1>1 DEF LimitType, BucketInv, WindowBound, Capacity
<1>3. Budget'
  <2> SUFFICES ASSUME NEW i \in 1 .. Len(admits)
               PROVE  /\ admits[i] <= clock
                      /\ (Len(admits) - i + 1) * Second + Available
                           <= Capacity + (clock - admits[i]) * Rate
    BY <1>1 DEF Budget, Capacity
  <2>1. /\ admits[i] \in Nat /\ admits[i] <= last
        /\ (Len(admits) - i + 1) * Second + tokens <= Capacity + (last - admits[i]) * Rate
    BY <1>t DEF BucketInv, Budget
  <2>2. PICK spent \in Int, old \in Int, new \in Int :
          /\ spent = (Len(admits) - i + 1) * Second
          /\ old = (last - admits[i]) * Rate /\ new = (clock - last) * Rate
    BY <1>t, <2>1
  <2>3. (clock - admits[i]) * Rate = new + old
    <3>1. clock - admits[i] = (clock - last) + (last - admits[i])
      BY <1>t, <2>1
    <3>2. (clock - admits[i]) * Rate = (clock - last) * Rate + (last - admits[i]) * Rate
      BY <1>t, <2>1, <3>1, Distribute
    <3> QED BY <2>2, <3>2
  <2>4. spent + tokens <= Capacity + old /\ Available <= tokens + new
    BY <1>a, <2>1, <2>2
  <2>5. spent + Available <= Capacity + (new + old) /\ admits[i] <= clock
    BY <1>t, <1>a, <2>1, <2>4
  <2> QED BY <2>2, <2>3, <2>5
<1>4. Filling'
  <2>1. CASE refused = -1
    <3>1. (clock - clock) * Rate = 0
      BY <1>t
    <3> QED BY <1>t, <1>a, <1>1, <2>1, <3>1 DEF Filling
  <2>2. CASE refused # -1
    <3>1. /\ refused \in Nat /\ refused <= last
          /\ tokens >= Capacity \/ tokens >= (last - refused) * Rate
      BY <1>t, <2>2 DEF BucketInv, Filling
    <3>2. PICK old \in Int, new \in Nat : old = (last - refused) * Rate /\ new = (clock - last) * Rate
      BY <1>t, <1>a, <3>1
    <3>3. (clock - refused) * Rate = new + old
      <4>1. clock - refused = (clock - last) + (last - refused)
        BY <1>t, <3>1
      <4> QED BY <1>t, <3>1, <3>2, <4>1, Distribute
    <3>4. Available = Capacity \/ Available = tokens + new
      BY <1>a, <3>2
    <3>5. tokens >= Capacity \/ tokens >= old
      BY <3>1, <3>2
    <3>6. Available >= Capacity \/ Available >= new + old
      BY <1>t, <1>a, <3>4, <3>5
    <3>7. tokens' >= Capacity \/ tokens' >= (last' - refused') * Rate
      BY <1>1, <2>2, <3>3, <3>6
    <3>8. refused' <= last'
      BY <1>t, <1>1, <2>2, <3>1
    <3> QED BY <3>7, <3>8 DEF Filling, Capacity
  <2> QED BY <2>1, <2>2
<1> QED BY <1>2, <1>3, <1>4 DEF BucketInv, Capacity

\* Time passes, or nothing happens to the bucket.
LEMMA IdleStep ==
  ASSUME BucketInv, UNCHANGED bucket, clock' \in {clock, clock + 1}
  PROVE  BucketInv'
<1>1. clock' \in Nat /\ last <= clock'
  BY DEF BucketInv, LimitType
<1> QED BY <1>1 DEF BucketInv, LimitType, Budget, Filling, WindowBound, bucket, Capacity

LEMMA BucketStep == BucketInv /\ [Next]_vars => BucketInv'
<1> SUFFICES ASSUME BucketInv, [Next]_vars PROVE BucketInv'
  OBVIOUS
<1>1. CASE UNCHANGED <<clock, bucket>>
  BY <1>1, IdleStep
<1>2. ASSUME NEW r \in Requests, Limits(r) PROVE BucketInv'
  BY <1>1, <1>2, AdmitStep, RefuseStep DEF Limits
<1>3. CASE TimePasses
  BY <1>3, IdleStep DEF TimePasses, Tick
<1>4. CASE Listen \/ Install \/ Serve \/ Cancel \/ Expire \/ CloseResources
  BY <1>1, <1>4 DEF Listen, Install, Serve, Cancel, Expire, CloseResources
<1>5. ASSUME NEW s \in Stoppers, StopStep(s) PROVE BucketInv'
  BY <1>1, <1>5 DEF StopStep, Stop, StopReturns
<1>6. ASSUME NEW r \in Requests, Arrive(r) \/ Authenticate(r) \/ HandlerEnds(r) \/ Scrape(r) \/ Count(r)
      PROVE  BucketInv'
  BY <1>1, <1>6 DEF Arrive, Authenticate, HandlerEnds, Scrape, Count
<1> QED BY <1>1, <1>2, <1>3, <1>4, <1>5, <1>6 DEF Next, RequestStep, vars

LEMMA BucketInvariant == Spec => []BucketInv
<1>1. Init => BucketInv
  BY CapacityType DEF Init, LimitInit, BucketInv, LimitType, Budget, Filling, WindowBound
<1> QED BY <1>1, BucketStep, PTL DEF Spec

\* Over any period, from one admitted request to another, RateLimit admits no more
\* than the burst and what the period refills.
THEOREM AdmissionsAreBounded == Spec => []WindowBound
<1>1. BucketInv => WindowBound
  BY DEF BucketInv
<1> QED BY <1>1, BucketInvariant, PTL

\* A client that waits for a second, as Retry-After: 1 tells it, finds a token, unless
\* another request was admitted meanwhile; other refusals cost it nothing.
THEOREM RetryAfterIsHonest == Spec => []RetryAfterHonest
<1>1. BucketInv => RetryAfterHonest
  <2> SUFFICES ASSUME BucketInv, refused # -1, clock >= refused + Second
               PROVE  Available >= Second
    BY DEF RetryAfterHonest
  <2>1. /\ clock \in Nat /\ tokens \in Nat /\ last \in Nat /\ last <= clock /\ refused \in Nat
        /\ Second \in Nat /\ Rate \in Nat /\ Capacity \in Nat /\ refused <= last
        /\ tokens >= Capacity \/ tokens >= (last - refused) * Rate
    BY RateAssumption, CapacityType DEF BucketInv, LimitType, Filling
  <2>2. PICK old \in Int, new \in Nat : old = (last - refused) * Rate /\ new = (clock - last) * Rate
    BY <2>1, AvailableIs
  <2>3. (clock - refused) * Rate = new + old
    <3>1. clock - refused = (clock - last) + (last - refused)
      BY <2>1
    <3> QED BY <2>1, <2>2, <3>1, Distribute
  <2>4. PICK full \in Int : full = Second * Rate /\ full <= Capacity /\ full >= Second
    BY <2>1, CapacityType
  <2>5. full <= new + old
    <3>1. Second <= clock - refused
      BY <2>1
    <3>2. Second * Rate <= (clock - refused) * Rate
      BY <2>1, <3>1, Monotone
    <3> QED BY <2>3, <2>4, <3>2
  <2>6. Available \in Nat /\ (Available = Capacity \/ Available = tokens + new)
    BY <2>2, AvailableIs
  <2>7. tokens >= Capacity \/ tokens >= old
    BY <2>1, <2>2
  <2> QED BY <2>1, <2>4, <2>5, <2>6, <2>7
<1> QED BY <1>1, BucketInvariant, PTL

-----------------------------------------------------------------------------
(* The server *)

\* Every reachable state of the server is well typed.
THEOREM TypeCorrect == Spec => []TypeOK
<1> USE DEF TypeOK, StopAt, InChain, Answered, Stoppers
<1>1. Init => TypeOK
  BY DEF Init
<1>2. TypeOK /\ [Next]_vars => TypeOK'
  <2> SUFFICES ASSUME TypeOK, [Next]_vars PROVE TypeOK'
    OBVIOUS
  <2>1. CASE Listen \/ Install \/ Serve \/ Cancel \/ Expire \/ CloseResources
    BY <2>1 DEF Listen, Install, Serve, Cancel, Expire, CloseResources
  <2>2. ASSUME NEW s \in Stoppers, StopStep(s) PROVE TypeOK'
    <3>1. stop' \in [Stoppers -> StopAt]
      BY <2>2 DEF StopStep, Stop, StopReturns
    <3>2. CASE Stop(s)
      BY <3>1, <3>2 DEF Stop, CloseListener
    <3>3. CASE StopReturns(s)
      BY <3>1, <3>3 DEF StopReturns
    <3> QED BY <2>2, <3>2, <3>3 DEF StopStep
  <2>3. ASSUME NEW r \in Requests, Arrive(r) \/ RequestStep(r) PROVE TypeOK'
    <3>1. request' \in [Requests -> {"none", "refused"} \cup InChain \cup Answered]
      BY <2>3 DEF Arrive, RequestStep, Limits, Authenticate, HandlerEnds, Scrape, Count, Move
    <3>2. UNCHANGED life
      BY <2>3 DEF Arrive, RequestStep, Limits, Authenticate, HandlerEnds, Scrape, Count
    <3> QED BY <3>1, <3>2 DEF life
  <2>4. CASE TimePasses \/ UNCHANGED vars
    BY <2>4 DEF TimePasses, vars, life
  <2> QED BY <2>1, <2>2, <2>3, <2>4 DEF Next
<1> QED BY <1>1, <1>2, PTL DEF Spec

\* How the goroutines of the server go together.
Goroutines ==
  /\ serve # "off" => start = "serving"
  /\ InFlight # {} => start = "serving"
  /\ inShutdown => serve # "running"

\* What Mesa's Stop has found out when it drains or has returned.
MesaStop ==
  /\ stop["mesa"] # "idle" => start = "serving"
  /\ stop["mesa"] = "draining" => inShutdown
  /\ stop["mesa"] = "nil" => inShutdown /\ InFlight = {}
  /\ stop["mesa"] = "error" => expired

\* Why the resources are closed.
Closed == ~resources => start = "failed" \/ expired \/ stop["mesa"] \in {"nil", "early", "error"}

ServerInv == TypeOK /\ Goroutines /\ MesaStop /\ Closed

LEMMA ServerStep == ServerInv /\ TypeOK' /\ [Next]_vars => ServerInv'
<1> SUFFICES ASSUME ServerInv, TypeOK', [Next]_vars PROVE ServerInv'
  OBVIOUS
<1> USE DEF ServerInv, Goroutines, MesaStop, Closed
<1>i. UNCHANGED request => InFlight' = InFlight
  BY DEF InFlight
<1>m. "mesa" \in Stoppers /\ stop \in [Stoppers -> StopAt]
  BY DEF Stoppers, TypeOK
<1>1. CASE Listen \/ Install \/ Serve \/ Cancel \/ Expire
  BY <1>1, <1>i DEF Listen, Install, Serve, Cancel, Expire
<1>2. CASE CloseResources
  BY <1>2, <1>i DEF CloseResources
<1>3. ASSUME NEW s \in Stoppers, Stop(s) PROVE ServerInv'
  BY <1>3, <1>i, <1>m DEF Stop, Calls, CloseListener
<1>4. ASSUME NEW s \in Stoppers, StopReturns(s) PROVE ServerInv'
  BY <1>4, <1>i, <1>m DEF StopReturns, Drained
<1>5. ASSUME NEW r \in Requests, Arrive(r) PROVE ServerInv'
  <2>1. CASE serve = "running"
    BY <1>5, <2>1 DEF Arrive, life
  <2>2. CASE serve # "running"
    <3>1. InFlight' = InFlight
      BY <1>5, <2>2 DEF Arrive, Move, InFlight, InChain, TypeOK
    <3> QED BY <1>5, <3>1 DEF Arrive, life
  <2> QED BY <2>1, <2>2
\* A request that moves on was in flight before.
<1>6. ASSUME NEW r \in Requests, RequestStep(r) PROVE ServerInv'
  <2>1. UNCHANGED life
    BY <1>6 DEF RequestStep, Limits, Authenticate, HandlerEnds, Scrape, Count
  <2>2. request[r] \in InChain
    BY <1>6 DEF RequestStep, Limits, Authenticate, HandlerEnds, Scrape, Count, InChain
  <2>3. InFlight # {}
    BY <2>2 DEF InFlight
  <2> QED BY <2>1, <2>3 DEF life
<1>7. CASE TimePasses \/ UNCHANGED vars
  BY <1>7, <1>i DEF TimePasses, vars, life
<1> QED BY <1>1, <1>2, <1>3, <1>4, <1>5, <1>6, <1>7 DEF Next, StopStep

\* Mesa closes the connections under a request only if the goroutine of the server
\* took the listener first, so that Stop had nothing to wait for, or at a deadline.
THEOREM RequestsKeepResources == Spec => []ResourcesOutliveRequests
<1>1. Init => Goroutines /\ MesaStop /\ Closed
  BY DEF Init, Goroutines, MesaStop, Closed, InFlight, InChain, Stoppers
<1>2. ServerInv => ResourcesOutliveRequests
  BY DEF ServerInv, Goroutines, MesaStop, Closed, ResourcesOutliveRequests
<1> QED BY <1>1, <1>2, TypeCorrect, ServerStep, PTL DEF Spec, ServerInv

=============================================================================
