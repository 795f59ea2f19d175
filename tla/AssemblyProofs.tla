--------------------------- MODULE AssemblyProofs ---------------------------
(***************************************************************************)
(* Machine-checked proofs about Assembly: what MesaNewProofs shows of New  *)
(* holds with an application on top of it, and no subscription is lost,    *)
(* for every number of goroutines that subscribe and that start.           *)
(***************************************************************************)
EXTENDS Assembly, MesaNewProofs

-----------------------------------------------------------------------------
(* New, under an application *)

LEMMA BuiltInvariant == AssemblySpec => []IndInv
<1>1. IndInv /\ [AssemblyNext]_allVars => IndInv'
  <2> SUFFICES ASSUME IndInv, [AssemblyNext]_allVars PROVE IndInv'
    OBVIOUS
  <2>1. [Next]_vars
    BY DEF AssemblyNext, Build, Use, allVars
  <2> QED BY <2>1, IndStep
<1> QED BY <1>1, IndInit, PTL DEF AssemblySpec, AssemblyInit

\* An application that has a Mesa has one that is ready to run, whatever it then does
\* with it, and a New that failed has left nothing open but, perhaps, the client of a
\* micro server's registry.
THEOREM AssemblyIsBuilt == AssemblySpec => [](OnlyRegistryLeaks /\ ReadyToRun /\ ValidatedConfigBuilds)
BY BuiltInvariant, IndImplies, PTL

-----------------------------------------------------------------------------
(* The router *)

\* The Starts that won the compare-and-swap, and those that have frozen the router.
Winning == {"claimed", "frozen", "serving", "done", "failed"}
Froze == Winning \ {"claimed"}

RouterType ==
  /\ started \in BOOLEAN /\ frozen \in BOOLEAN
  /\ call \in [Subscribers -> {"idle", "checked", "added", "refused"}]
  /\ start \in [Starters -> {"idle", "refused"} \cup Winning]

\* The router holds what was accepted, with one subscription per key.
Accepted ==
  /\ subs = {s \in Subscribers : call[s] = "added"}
  /\ \A s, t \in subs : SameKey(s, t) => s = t

\* One Start wins, and the router is frozen before it is listed.
OneStart ==
  /\ \A p \in Starters : start[p] \in Winning => started
  /\ \A p, q \in Starters : start[p] \in Winning /\ start[q] \in Winning => p = q
  /\ \A p \in Starters : start[p] \in Froze => frozen

\* Nothing is served until the router is listed; from then on what was accepted is
\* listed or served.
Progress ==
  /\ ~started => served = {}
  /\ \A p \in Starters :
       /\ start[p] \in {"claimed", "frozen"} => served = {}
       /\ start[p] = "serving" => listed \cup served = subs
       /\ start[p] = "done" => served = subs

RouterInv == RouterType /\ Accepted /\ OneStart /\ Progress

LEMMA RouterStep == RouterInv /\ (RouterNext \/ UNCHANGED routerVars) => RouterInv'
<1> SUFFICES ASSUME RouterInv, RouterNext \/ UNCHANGED routerVars PROVE RouterInv'
  OBVIOUS
<1> USE DEF RouterInv, RouterType, Winning, Froze
<1>1. ASSUME NEW s \in Subscribers, Subscribe(s) PROVE RouterInv'
  <2>1. Accepted'
    BY <1>1 DEF Subscribe, Accepted
  <2> QED BY <1>1, <2>1 DEF Subscribe, OneStart, Progress
<1>2. ASSUME NEW s \in Subscribers, Add(s) PROVE RouterInv'
  <2>1. CASE Accepts(s)
    <3>1. /\ ~frozen /\ subs' = subs \cup {s} /\ call' = [call EXCEPT ![s] = "added"]
          /\ UNCHANGED <<started, frozen, start, listed, served>>
          /\ \A t \in subs : ~SameKey(s, t)
      BY <1>2, <2>1 DEF Add, Accepts
    <3>2. Accepted'
      BY <3>1 DEF Accepted, SameKey
    <3>3. \A p \in Starters : start[p] \notin Froze
      BY <3>1 DEF OneStart
    <3> QED BY <3>1, <3>2, <3>3 DEF OneStart, Progress
  <2>2. CASE ~Accepts(s)
    <3>1. call' = [call EXCEPT ![s] = "refused"] /\ call[s] # "added"
          /\ UNCHANGED <<started, frozen, subs, start, listed, served>>
      BY <1>2, <2>2 DEF Add
    <3>2. Accepted'
      BY <3>1 DEF Accepted
    <3> QED BY <3>1, <3>2 DEF OneStart, Progress
  <2> QED BY <2>1, <2>2
<1>3. ASSUME NEW p \in Starters,
             StartClaim(p) \/ Freeze(p) \/ List(p) \/ Serve(p) \/ StartReturns(p)
      PROVE  Accepted' /\ UNCHANGED subs
  <2>1. UNCHANGED <<subs, call>>
    BY <1>3 DEF StartClaim, Freeze, List, Serve, StartReturns
  <2> QED BY <2>1 DEF RouterInv, Accepted
<1>4. ASSUME NEW p \in Starters, StartClaim(p) PROVE RouterInv'
  <2>1. OneStart'
    BY <1>4 DEF StartClaim, OneStart
  <2>2. Progress'
    BY <1>4 DEF StartClaim, Progress
  <2> QED BY <1>3, <1>4, <2>1, <2>2 DEF StartClaim
<1>5. ASSUME NEW p \in Starters, Freeze(p) PROVE RouterInv'
  <2>1. OneStart'
    BY <1>5 DEF Freeze, OneStart
  <2>2. Progress'
    BY <1>5 DEF Freeze, Progress
  <2> QED BY <1>3, <1>5, <2>1, <2>2 DEF Freeze
<1>6. ASSUME NEW p \in Starters, List(p) PROVE RouterInv'
  <2>1. OneStart'
    BY <1>6 DEF List, OneStart
  <2>2. Progress'
    BY <1>6 DEF List, Progress
  <2> QED BY <1>3, <1>6, <2>1, <2>2 DEF List
<1>7. ASSUME NEW p \in Starters, Serve(p) PROVE RouterInv'
  <2>1. \A q \in Starters : q # p => start[q] \notin Winning
    BY <1>7 DEF Serve, OneStart
  <2>2. started /\ frozen
    BY <1>7 DEF Serve, OneStart
  <2>3. OneStart'
    BY <1>7 DEF Serve, OneStart
  <2>4. Progress'
    BY <1>7, <2>1, <2>2 DEF Serve, Progress
  <2> QED BY <1>3, <1>7, <2>3, <2>4 DEF Serve
<1>8. ASSUME NEW p \in Starters, StartReturns(p) PROVE RouterInv'
  <2>1. OneStart'
    BY <1>8 DEF StartReturns, OneStart
  <2>2. Progress'
    BY <1>8 DEF StartReturns, Progress
  <2> QED BY <1>3, <1>8, <2>1, <2>2 DEF StartReturns
<1>9. CASE UNCHANGED routerVars
  BY <1>9 DEF routerVars, Accepted, OneStart, Progress
<1> QED BY <1>1, <1>2, <1>4, <1>5, <1>6, <1>7, <1>8, <1>9 DEF RouterNext

\* However Subscribe and Start race, a Start that returns nil serves every
\* subscription that was accepted, once per topic and group.
THEOREM NoSubscriptionIsLost == AssemblySpec => []AcceptedIsServed
<1>1. RouterInit => RouterInv
  BY DEF RouterInit, RouterInv, RouterType, Accepted, OneStart, Progress, Winning, Froze
<1>2. RouterInv /\ [AssemblyNext]_allVars => RouterInv'
  BY RouterStep DEF AssemblyNext, Build, Use, allVars
<1>3. RouterInv => AcceptedIsServed
  BY DEF RouterInv, Accepted, Progress, AcceptedIsServed
<1> QED BY <1>1, <1>2, <1>3, PTL DEF AssemblySpec, AssemblyInit

=============================================================================
