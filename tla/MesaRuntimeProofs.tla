-------------------------- MODULE MesaRuntimeProofs --------------------------
(***************************************************************************)
(* Machine-checked proofs about MesaRuntime, for every list of servers and *)
(* components and every number of Shutdown calls.                          *)
(***************************************************************************)
EXTENDS MesaRuntime, SequenceTheorems, TLAPS

-----------------------------------------------------------------------------
(* Type correctness *)

LEMMA ItemsType ==
  ASSUME components \in Seq(Components)
  PROVE  /\ Items \in Seq(All) /\ Len(Items) \in Nat
         /\ \A i \in 1 .. Len(Items) : Items[i] \in All
<1>1. Servers \in Seq(All) /\ components \in Seq(All)
  BY ItemsAssumption DEF All, Elems
<1>2. Items \in Seq(All)
  BY <1>1, ConcatProperties DEF Items
<1> QED BY <1>2, LenProperties, ElementOfSeq

USE DEF ItemAt, Live

LEMMA StopItemType ==
  ASSUME TypeOK, NEW i \in All, NEW b \in BOOLEAN, StopItem(i, b)
  PROVE  item' \in [All -> ItemAt] /\ stops' \in [All -> Nat]
BY DEF TypeOK, StopItem

\* An item that stops by itself or goes deaf was started, and is alone in its step.
LEMMA ByItself ==
  ASSUME TypeOK, NEW i \in All, SelfStop(i) \/ GoDeaf(i)
  PROVE  /\ UNCHANGED <<state, components, cancelled, runVars, stops, callVars, expired, resVars, endVars>>
         /\ item' \in [All -> ItemAt] /\ item[i] # "new" /\ item'[i] # "new"
         /\ \A j \in All : j # i => item'[j] = item[j]
         /\ \A j \in All : item'[j] \in Live => item[j] \in Live
         /\ ~cancelled => item'[i] \in Live
BY DEF TypeOK, SelfStop, GoDeaf

LEMMA TypeStep == TypeOK /\ [Next]_vars => TypeOK'
<1> SUFFICES ASSUME TypeOK, [Next]_vars PROVE TypeOK'
  OBVIOUS
<1>i. /\ Items \in Seq(All) /\ Len(Items) \in Nat
      /\ \A i \in 1 .. Len(Items) : Items[i] \in All
  BY ItemsType DEF TypeOK
<1>r. Runner \in Everyone /\ \A c \in Callers : c \in Everyone
  BY DEF Everyone
<1>u. UNCHANGED components => Items' = Items
  BY DEF Items
<1> USE DEF RunAt, CallAt, Leading, States, runVars, itemVars, callVars, resVars, endVars
<1>1. ASSUME NEW c \in Components, RegisterComponent(c) PROVE TypeOK'
  <2>1. components' \in Seq(Components)
    BY <1>1, AppendProperties DEF RegisterComponent, TypeOK
  <2>2. Len(Items') \in Nat /\ Len(Items') = Len(Items) + 1
    <3>1. Servers \in Seq(All) /\ components \in Seq(All) /\ components' \in Seq(All)
      BY <2>1, ItemsAssumption DEF All, Elems, TypeOK
    <3>2. Len(components') = Len(components) + 1
      BY <1>1, AppendProperties DEF RegisterComponent, TypeOK
    <3>3. Len(Items) = Len(Servers) + Len(components) /\ Len(Items') = Len(Servers) + Len(components')
      BY <3>1, ConcatProperties DEF Items
    <3>4. Len(Servers) \in Nat /\ Len(components) \in Nat
      BY <3>1, LenProperties
    <3> QED BY <3>2, <3>3, <3>4
  <2> QED BY <1>1, <1>i, <2>1, <2>2 DEF RegisterComponent, TypeOK
<1>2. CASE RunBegin
  BY <1>2, <1>u DEF RunBegin, TypeOK
<1>3. CASE CancelContext
  BY <1>3, <1>u DEF CancelContext, TypeOK
<1>4. CASE StartItem
  BY <1>4, <1>i, <1>u DEF StartItem, TypeOK
<1>5. CASE StartFails
  BY <1>5, <1>i, <1>r, <1>u DEF StartFails, Started, TypeOK
<1>6. CASE RollbackStop
  <2>1. PICK b \in BOOLEAN : StopItem(Items[next - pos[Runner]], b)
    BY <1>6 DEF RollbackStop
  <2>2. pos[Runner] \in 1 .. Len(Items) /\ next - pos[Runner] \in 1 .. Len(Items)
    BY <1>6, <1>i, <1>r DEF RollbackStop, TypeOK
  <2>3. item' \in [All -> ItemAt] /\ stops' \in [All -> Nat]
    BY <1>i, <2>1, <2>2, StopItemType
  <2>4. pos' \in [Everyone -> 0 .. Len(Items)] /\ pos'[Runner] < next
    BY <1>6, <1>i, <1>r, <2>2 DEF RollbackStop, TypeOK
  <2> QED BY <1>6, <1>u, <2>3, <2>4 DEF RollbackStop, TypeOK
<1>7. CASE FinishStopped \/ CloseFailed \/ SetRunning
  BY <1>7, <1>u DEF FinishStopped, CloseFailed, SetRunning, TypeOK
<1>8. ASSUME NEW c \in Everyone, ShutdownBegin(c) PROVE TypeOK'
  <2>0. c = Runner => run # "rollback"
    BY <1>8 DEF ShutdownBegin, MayCall
  <2>1. pos' \in [Everyone -> 0 .. Len(Items)]
    BY <1>8, <1>i DEF ShutdownBegin, TypeOK
  <2>2. run = "rollback" => pos'[Runner] = pos[Runner]
    BY <1>8, <1>r, <2>0 DEF ShutdownBegin, TypeOK
  <2>3. caller' \in [Everyone -> CallAt]
    BY <1>8 DEF ShutdownBegin, TypeOK
  <2>4. state' \in States /\ cancelled' \in BOOLEAN
    BY <1>8 DEF ShutdownBegin, TypeOK
  <2> QED BY <1>8, <1>u, <2>1, <2>2, <2>3, <2>4 DEF ShutdownBegin, TypeOK
<1>9. ASSUME NEW c \in Everyone, StopNext(c) PROVE TypeOK'
  <2>1. PICK b \in BOOLEAN : StopItem(Items[pos[c]], b) /\ erred' = [erred EXCEPT ![c] = @ \/ b]
    BY <1>9 DEF StopNext
  <2>2. pos[c] \in 1 .. Len(Items)
    BY <1>9, <1>i DEF StopNext, TypeOK
  <2>3. Items[pos[c]] \in All
    BY <1>i, <2>2
  <2>4. item' \in [All -> ItemAt] /\ stops' \in [All -> Nat]
    BY <2>1, <2>3, StopItemType
  <2>5. pos' \in [Everyone -> 0 .. Len(Items)]
    BY <1>9, <1>i, <2>2 DEF StopNext, TypeOK
  <2>6. erred' \in [Everyone -> BOOLEAN]
    BY <2>1 DEF TypeOK
  <2> QED BY <1>9, <1>u, <2>4, <2>5, <2>6 DEF StopNext, TypeOK
<1>10. ASSUME NEW c \in Everyone, WaitEnd(c) \/ CloseResources(c) \/ ShutdownTelemetry(c) \/ ShutdownEnd(c)
       PROVE TypeOK'
  <2>1. erred' \in [Everyone -> BOOLEAN]
    BY <1>10 DEF WaitEnd, CloseResources, ShutdownTelemetry, ShutdownEnd, StoreErr, CloseDone, TypeOK
  <2>2. caller' \in [Everyone -> CallAt]
    BY <1>10 DEF WaitEnd, CloseResources, ShutdownTelemetry, ShutdownEnd, StoreErr, CloseDone, TypeOK
  <2>3. CASE WaitEnd(c)
    BY <1>u, <2>1, <2>2, <2>3 DEF WaitEnd, TypeOK
  <2>4. CASE CloseResources(c) \/ ShutdownTelemetry(c)
    <3>1. resources' \in BOOLEAN /\ telemetry' \in BOOLEAN
      BY <2>4 DEF CloseResources, ShutdownTelemetry, TypeOK
    <3>2. UNCHANGED <<state, components, cancelled, runVars, itemVars, pos, expired, endVars>>
      BY <2>4 DEF CloseResources, ShutdownTelemetry
    <3> QED BY <1>u, <2>1, <2>2, <3>1, <3>2 DEF TypeOK
  <2>5. CASE ShutdownEnd(c)
    BY <1>u, <2>1, <2>2, <2>5 DEF ShutdownEnd, StoreErr, CloseDone, TypeOK
  <2> QED BY <1>10, <2>3, <2>4, <2>5
<1>11. ASSUME NEW c \in Callers, Expire(c) PROVE TypeOK'
  <2>1. expired' \in [Everyone -> BOOLEAN]
    BY <1>11 DEF Expire, TypeOK
  <2>2. UNCHANGED <<state, components, cancelled, runVars, itemVars, callVars, resVars, endVars>>
    BY <1>11 DEF Expire
  <2> QED BY <1>u, <2>1, <2>2 DEF TypeOK
<1>12. ASSUME NEW i \in All, SelfStop(i) \/ GoDeaf(i) PROVE TypeOK'
  BY <1>12, <1>u, ByItself DEF TypeOK
<1>13. CASE UNCHANGED vars
  BY <1>13, <1>u DEF vars, TypeOK
<1> QED
  BY <1>1, <1>2, <1>3, <1>4, <1>5, <1>6, <1>7, <1>8, <1>9, <1>10, <1>11, <1>12, <1>13
  DEF Next, RunStep, CallStep, All

\* Every reachable state is well typed.
THEOREM TypeCorrect == Spec => []TypeOK
<1>1. Init => TypeOK
  <2> SUFFICES ASSUME Init PROVE TypeOK
    OBVIOUS
  <2>1. components \in Seq(Components)
    BY EmptySeq DEF Init
  <2>2. Len(Items) \in Nat
    BY <2>1, ItemsType
  <2>3. caller \in [Everyone -> CallAt] /\ pos \in [Everyone -> 0 .. Len(Items)]
    BY <2>2 DEF Init, CallAt
  <2>4. next \in 1 .. Len(Items) + 1
    BY <2>2 DEF Init
  <2> QED BY <2>1, <2>3, <2>4 DEF Init, TypeOK, States, RunAt
<1> QED BY <1>1, TypeStep, PTL DEF Spec

-----------------------------------------------------------------------------
(* One leader, when nobody calls Shutdown while Run starts items *)

\* How Run, the runtime state and the channel go together.
RunState ==
  /\ state = "new" => run = "idle"
  /\ run \in {"starting", "rollback"} <=> state = "starting"
  /\ state = "running" => run = "waiting"
  /\ run \in {"closing", "failed"} => state = "stopped"
  /\ done <=> state = "stopped"
  /\ ~panicked

\* How the Shutdown calls and the runtime state go together: nobody is in a
\* Shutdown before one leads, and at most one leads, while the state is stopping.
OneLeader ==
  /\ \A c \in Everyone : caller[c] # "idle" => state \in {"stopping", "stopped"}
  /\ \A c \in Everyone : caller[c] \in Leading => state = "stopping"
  /\ \A c, d \in Everyone : caller[c] \in Leading /\ caller[d] \in Leading => c = d

\* What the calls return.
Returned ==
  /\ \A c \in Everyone : caller[c] = "ok" => state = "stopped" /\ ~shutdownErr
  /\ \A c \in Everyone : caller[c] = "failed" => (state = "stopped" /\ shutdownErr) \/ expired[c]

Control == RunState /\ OneLeader /\ Returned

LEMMA ControlStep ==
  ASSUME EarlyShutdown = FALSE
  PROVE  TypeOK /\ Control /\ [Next]_vars => Control' /\ Rank(state') >= Rank(state)
<1> SUFFICES ASSUME TypeOK, Control, [Next]_vars PROVE Control' /\ Rank(state') >= Rank(state)
  OBVIOUS
<1>t. /\ state \in States /\ run \in RunAt
      /\ caller \in [Everyone -> CallAt] /\ expired \in [Everyone -> BOOLEAN]
      /\ erred \in [Everyone -> BOOLEAN] /\ shutdownErr \in BOOLEAN /\ done \in BOOLEAN
  BY DEF TypeOK
<1>c. RunState /\ OneLeader /\ Returned
  BY DEF Control
<1>s. UNCHANGED state => Rank(state') >= Rank(state)
  BY <1>t DEF Rank, States
<1> USE DEF RunAt, CallAt, Leading, States, runVars, itemVars, callVars, resVars, endVars
\* A step that leaves the calls, the state, Run and the channel alone.
<1>1. ASSUME UNCHANGED <<state, run, caller, done, shutdownErr, panicked>>,
             expired' \in [Everyone -> BOOLEAN], \A c \in Everyone : expired[c] => expired'[c]
      PROVE  Control'
  BY <1>1, <1>t, <1>c DEF Control, RunState, OneLeader, Returned
<1>2. ASSUME NEW c \in Components, RegisterComponent(c) PROVE Control' /\ UNCHANGED state
  BY <1>1, <1>2, <1>t DEF RegisterComponent
<1>3. CASE CancelContext \/ StartItem \/ RollbackStop
  BY <1>1, <1>3, <1>s, <1>t DEF CancelContext, StartItem, RollbackStop
<1>4. CASE RunBegin
  <2>1. RunState'
    BY <1>4, <1>c, <1>t DEF RunBegin, RunState
  <2>2. OneLeader' /\ Returned'
    BY <1>4, <1>c, <1>t DEF RunBegin, OneLeader, Returned
  <2>3. Rank(state') >= Rank(state)
    <3>1. CASE state = "new" /\ state' = "starting"
      BY <3>1 DEF Rank
    <3>2. CASE UNCHANGED state
      BY <1>s, <3>2
    <3> QED BY <1>4, <3>1, <3>2 DEF RunBegin
  <2> QED BY <2>1, <2>2, <2>3 DEF Control
<1>5. CASE StartFails
  BY <1>5, <1>c, <1>s, <1>t DEF StartFails, Control, RunState, OneLeader, Returned
<1>6. CASE FinishStopped
  <2>1. state = "starting"
    BY <1>6, <1>c DEF FinishStopped, RunState
  <2>2. RunState'
    BY <1>6, <1>c, <1>t DEF FinishStopped, RunState
  <2>3. \A c \in Everyone : caller[c] = "idle"
    BY <1>c, <2>1 DEF OneLeader
  <2>4. OneLeader' /\ Returned'
    BY <1>6, <2>3 DEF FinishStopped, OneLeader, Returned
  <2> QED BY <1>6, <2>1, <2>2, <2>4 DEF FinishStopped, Control, Rank
<1>7. CASE CloseFailed
  BY <1>7, <1>c, <1>s, <1>t DEF CloseFailed, Control, RunState, OneLeader, Returned
<1>8. CASE SetRunning
  <2>1. state = "starting"
    BY <1>8, <1>c DEF SetRunning, RunState
  <2>2. RunState'
    BY <1>8, <1>c, <1>t, <2>1 DEF SetRunning, RunState
  <2>3. \A c \in Everyone : caller[c] = "idle"
    BY <1>c, <2>1 DEF OneLeader
  <2>4. OneLeader' /\ Returned'
    BY <1>8, <2>3 DEF SetRunning, OneLeader, Returned
  <2> QED BY <1>8, <2>1, <2>2, <2>4 DEF SetRunning, Control, Rank
<1>9. ASSUME NEW c \in Everyone, ShutdownBegin(c) PROVE Control' /\ Rank(state') >= Rank(state)
  <2>1. CASE Leads
    <3>1. state # "starting"
      BY <1>9, <1>c, <2>1 DEF ShutdownBegin, MayCall, RunState
    <3>2. state \in {"new", "running"} /\ state' = "stopping" /\ caller' = [caller EXCEPT ![c] = "stop"]
      BY <1>9, <1>t, <2>1, <3>1 DEF ShutdownBegin, Leads
    <3>3. \A d \in Everyone : caller[d] = "idle"
      BY <1>c, <3>2 DEF OneLeader
    <3>4. RunState'
      BY <1>9, <1>c, <1>t, <3>2 DEF ShutdownBegin, RunState
    <3>5. OneLeader' /\ Returned'
      BY <1>t, <3>2, <3>3 DEF OneLeader, Returned
    <3> QED BY <3>2, <3>4, <3>5 DEF Control, Rank
  <2>2. CASE ~Leads
    <3>1. /\ state \in {"stopping", "stopped"} /\ UNCHANGED <<state, run, done, panicked, shutdownErr, expired>>
          /\ caller' = [caller EXCEPT ![c] =
                          IF state = "stopping" THEN "waiting" ELSE IF shutdownErr THEN "failed" ELSE "ok"]
      BY <1>9, <2>2 DEF ShutdownBegin, Leads
    <3>2. RunState'
      BY <1>c, <3>1 DEF RunState
    <3>3. OneLeader'
      BY <1>c, <1>t, <3>1 DEF OneLeader
    <3>4. Returned'
      BY <1>c, <1>t, <3>1 DEF Returned
    <3> QED BY <1>s, <3>1, <3>2, <3>3, <3>4 DEF Control
  <2> QED BY <2>1, <2>2
<1>10. ASSUME NEW c \in Everyone, WaitEnd(c) PROVE Control' /\ UNCHANGED state
  <2>1. RunState' /\ UNCHANGED <<state, shutdownErr, expired>>
    BY <1>10, <1>c DEF WaitEnd, RunState
  <2>2. caller' \in {[caller EXCEPT ![c] = "ok"], [caller EXCEPT ![c] = "failed"]}
    BY <1>10 DEF WaitEnd
  <2>3. OneLeader'
    BY <1>10, <1>c, <1>t, <2>1, <2>2 DEF WaitEnd, OneLeader
  <2>4. Returned'
    BY <1>10, <1>c, <1>t, <2>1 DEF WaitEnd, RunState, Returned
  <2> QED BY <2>1, <2>3, <2>4 DEF Control
<1>11. ASSUME NEW c \in Everyone, StopNext(c) PROVE Control' /\ UNCHANGED state
  BY <1>1, <1>11, <1>t DEF StopNext
<1>12. ASSUME NEW c \in Everyone, CloseResources(c) \/ ShutdownTelemetry(c)
       PROVE  Control' /\ UNCHANGED state
  <2>1. /\ caller[c] \in Leading
        /\ caller' \in {[caller EXCEPT ![c] = "telemetry"], [caller EXCEPT ![c] = "finish"]}
        /\ UNCHANGED <<state, run, done, shutdownErr, panicked, expired>>
    BY <1>12 DEF CloseResources, ShutdownTelemetry
  <2>2. RunState' /\ OneLeader' /\ Returned'
    BY <1>c, <1>t, <2>1 DEF RunState, OneLeader, Returned
  <2> QED BY <2>1, <2>2 DEF Control
<1>13. ASSUME NEW c \in Everyone, ShutdownEnd(c) PROVE Control' /\ Rank(state') >= Rank(state)
  <2>1. state = "stopping" /\ ~done
    BY <1>13, <1>c DEF ShutdownEnd, StoreErr, CloseDone, OneLeader, RunState
  <2>2. RunState'
    BY <1>13, <1>c, <2>1 DEF ShutdownEnd, StoreErr, CloseDone, RunState
  <2>3. \A d \in Everyone : d # c => caller[d] \notin Leading
    BY <1>13, <1>c DEF ShutdownEnd, StoreErr, CloseDone, OneLeader
  <2>4. OneLeader'
    BY <1>13, <1>t, <2>3 DEF ShutdownEnd, StoreErr, CloseDone, OneLeader
  <2>5. \A d \in Everyone : caller[d] # "ok" /\ (caller[d] = "failed" => expired[d])
    BY <1>c, <2>1 DEF Returned
  <2>6. Returned'
    BY <1>13, <1>t, <2>5 DEF ShutdownEnd, StoreErr, CloseDone, Returned
  <2> QED BY <1>13, <2>1, <2>2, <2>4, <2>6 DEF ShutdownEnd, Control, Rank
<1>14. ASSUME NEW c \in Callers, Expire(c) PROVE Control' /\ UNCHANGED state
  BY <1>1, <1>14, <1>t DEF Expire, Everyone
<1>15. ASSUME NEW i \in All, SelfStop(i) \/ GoDeaf(i) PROVE Control' /\ UNCHANGED state
  BY <1>1, <1>15, <1>t, ByItself
<1>16. CASE UNCHANGED vars
  BY <1>1, <1>16, <1>s, <1>t DEF vars
<1> QED
  BY <1>2, <1>3, <1>4, <1>5, <1>6, <1>7, <1>8, <1>9, <1>10, <1>11, <1>12, <1>13, <1>14, <1>15, <1>16, <1>s
  DEF Next, RunStep, CallStep, All

LEMMA ControlInvariant == ASSUME EarlyShutdown = FALSE PROVE Spec => [](TypeOK /\ Control)
<1>1. Init => Control
  BY DEF Init, Control, RunState, OneLeader, Returned, Leading
<1> QED BY <1>1, TypeCorrect, ControlStep, PTL DEF Spec

\* Shutdown is safe to call any number of times, by anybody, once Run has started
\* its items or before Run: no call panics.
THEOREM ShutdownIsSafe == ASSUME EarlyShutdown = FALSE PROVE Spec => []NoPanic
<1>1. Control => NoPanic
  BY DEF Control, RunState, NoPanic
<1> QED BY <1>1, ControlInvariant, PTL

\* The runtime state never goes back.
THEOREM StateIsMonotone == ASSUME EarlyShutdown = FALSE PROVE Spec => StateMovesForward
<1>1. TypeOK /\ Control /\ [Next]_vars => [Rank(state') >= Rank(state)]_vars
  BY ControlStep
<1> QED BY <1>1, ControlInvariant, PTL DEF Spec, StateMovesForward

\* All calls of Shutdown that are not cut short by their own deadline agree on its
\* error.
THEOREM ShutdownsAgree == ASSUME EarlyShutdown = FALSE PROVE Spec => []CallersAgree
<1>1. Control => CallersAgree
  BY DEF Control, Returned, CallersAgree
<1> QED BY <1>1, ControlInvariant, PTL

-----------------------------------------------------------------------------
(* The items, from their start to their stop *)

\* An item is listed once, and nothing touches a component that is not registered.
Listed ==
  /\ \A j, k \in 1 .. Len(Items) : Items[j] = Items[k] => j = k
  /\ \A i \in All : (\A k \in 1 .. Len(Items) : Items[k] # i) => item[i] = "new"

\* What Run has started, and what it has not come to.
Starting ==
  /\ run = "idle" => next = 1
  /\ run \in {"idle", "starting", "rollback"} =>
       \A k \in 1 .. Len(Items) : k >= next => item[Items[k]] = "new"
  /\ run = "starting" /\ ~cancelled =>
       \A k \in 1 .. Len(Items) : k < next => item[Items[k]] \in Live
  /\ state = "running" /\ ~cancelled => \A k \in 1 .. Len(Items) : item[Items[k]] \in Live

\* What Mesa has asked to stop: the rollback of Run goes up the list and the Shutdown
\* that leads goes down, and both have asked exactly what they have passed.
Stopping ==
  /\ StopOnce
  /\ state \in {"new", "running"} \/ run = "starting" => \A i \in All : stops[i] = 0
  /\ run = "rollback" => \A k \in 1 .. Len(Items) :
       IF k < next - pos[Runner] THEN Items[k] \in Stoppable => stops[Items[k]] = 1
                                 ELSE stops[Items[k]] = 0
  /\ \A c \in Everyone : caller[c] = "stop" => \A k \in 1 .. Len(Items) :
       IF k > pos[c] THEN Items[k] \in Stoppable => stops[Items[k]] = 1
                     ELSE stops[Items[k]] = 0

Lifecycle == Listed /\ Starting /\ Stopping

AskedToStop == \A i \in All \cap Stoppable : item[i] \in Live => stops[i] = 1
NoneUp == \A i \in All \cap Stoppable : item[i] \notin Live

\* When the resources close, and what a Shutdown without an error has stopped by then.
Closing ==
  /\ ~expired[Runner]
  /\ state \in {"new", "starting", "running"} => resources
  /\ run = "closing" => AskedToStop
  /\ ResourcesOutliveItems
  /\ \A c \in Everyone : caller[c] = "stop" =>
       /\ resources
       /\ ~erred[c] => \A k \in 1 .. Len(Items) :
            k > pos[c] /\ Items[k] \in Stoppable => item[Items[k]] \notin Live
  /\ \A c \in Everyone : caller[c] \in {"telemetry", "finish"} =>
       ~resources /\ (~erred[c] => NoneUp)
  /\ \A c \in Everyone : caller[c] = "finish" => ~telemetry
  /\ state = "stopped" /\ run \notin {"closing", "failed"} =>
       ~resources /\ ~telemetry /\ (~shutdownErr => NoneUp)

\* RegisterComponent appends to the list an item that is not in it.
LEMMA RegisterItems ==
  ASSUME TypeOK, NEW c \in Components, RegisterComponent(c)
  PROVE  /\ Len(Items') = Len(Items) + 1
         /\ \A k \in 1 .. Len(Items) : Items'[k] = Items[k] /\ Items[k] # c
         /\ Items'[Len(Items) + 1] = c
<1>1. Servers \in Seq(All) /\ components \in Seq(All) /\ c \in All
  BY ItemsAssumption DEF All, Elems, TypeOK
<1>2. /\ components' = Append(components, c) /\ components' \in Seq(All)
      /\ Len(components') = Len(components) + 1
      /\ \A k \in 1 .. Len(components) : components'[k] = components[k]
      /\ components'[Len(components) + 1] = c
  BY <1>1, AppendProperties DEF RegisterComponent
<1>3. Len(Servers) \in Nat /\ Len(components) \in Nat
  BY <1>1, LenProperties
<1>4. /\ Len(Items) = Len(Servers) + Len(components)
      /\ \A k \in 1 .. Len(Servers) + Len(components) :
           Items[k] = IF k <= Len(Servers) THEN Servers[k] ELSE components[k - Len(Servers)]
  BY <1>1, ConcatProperties DEF Items
<1>5. /\ Len(Items') = Len(Servers) + Len(components')
      /\ \A k \in 1 .. Len(Servers) + Len(components') :
           Items'[k] = IF k <= Len(Servers) THEN Servers[k] ELSE components'[k - Len(Servers)]
  BY <1>1, <1>2, ConcatProperties DEF Items
<1>6. /\ \A k \in 1 .. Len(Servers) : Servers[k] # c
      /\ \A k \in 1 .. Len(components) : components[k] # c
  BY ItemsAssumption DEF RegisterComponent, Elems
<1>7. ASSUME NEW k \in 1 .. Len(Items) PROVE Items'[k] = Items[k] /\ Items[k] # c
  <2>1. CASE k <= Len(Servers)
    BY <1>2, <1>3, <1>4, <1>5, <1>6, <2>1
  <2>2. CASE k > Len(Servers)
    <3>1. k - Len(Servers) \in 1 .. Len(components)
      BY <1>3, <1>4, <2>2
    <3>2. Items[k] = components[k - Len(Servers)] /\ Items'[k] = components'[k - Len(Servers)]
      BY <1>2, <1>3, <1>4, <1>5, <2>2
    <3> QED BY <1>2, <1>6, <3>1, <3>2
  <2> QED BY <1>3, <1>4, <2>1, <2>2
<1>8. Items'[Len(Items) + 1] = c
  <2>1. Len(Items) + 1 \in 1 .. Len(Servers) + Len(components') /\ Len(Items) + 1 > Len(Servers)
    BY <1>2, <1>3, <1>4
  <2>2. Items'[Len(Items) + 1] = components'[Len(Items) + 1 - Len(Servers)]
    BY <1>3, <1>4, <1>5, <2>1
  <2>3. Len(Items) + 1 - Len(Servers) = Len(components) + 1
    BY <1>3, <1>4
  <2> QED BY <1>2, <2>2, <2>3
<1> QED BY <1>2, <1>3, <1>4, <1>5, <1>7, <1>8

\* A Stop call counts, touches one item and brings none up.
LEMMA StopEffect ==
  ASSUME TypeOK, NEW i \in All, NEW b \in BOOLEAN, StopItem(i, b)
  PROVE  /\ \A j \in All : j # i => item'[j] = item[j] /\ stops'[j] = stops[j]
         /\ stops'[i] = IF i \in Stoppable THEN stops[i] + 1 ELSE stops[i]
         /\ i \in Stoppable /\ ~b => item'[i] \notin Live
         /\ item'[i] \in Live => item[i] \in Live
         /\ item[i] = "new" => item'[i] = "new"
BY DEF TypeOK, StopItem

\* The item a stop loop is at, and what its Stop call does.
LEMMA LoopStop ==
  ASSUME TypeOK, Listed, NEW k \in 1 .. Len(Items), NEW b \in BOOLEAN,
         StopItem(Items[k], b), UNCHANGED components
  PROVE  /\ Items' = Items /\ Listed' /\ Items[k] \in All
         /\ \A j \in 1 .. Len(Items) : Items[j] \in All /\ (Items[j] = Items[k] => j = k)
<1>1. Items' = Items /\ \A j \in 1 .. Len(Items) : Items[j] \in All
  BY ItemsType DEF Items, TypeOK
<1>2. \A i \in All : i # Items[k] => item'[i] = item[i]
  BY <1>1, StopEffect
<1> QED BY <1>1, <1>2 DEF Listed

LEMMA ListedStep == TypeOK /\ Listed /\ [Next]_vars => Listed'
<1> SUFFICES ASSUME TypeOK, Listed, [Next]_vars PROVE Listed'
  OBVIOUS
<1>i. Len(Items) \in Nat /\ \A k \in 1 .. Len(Items) : Items[k] \in All
  BY ItemsType DEF TypeOK
<1>u. UNCHANGED components => Items' = Items
  BY DEF Items
<1> USE DEF runVars, itemVars, callVars, resVars, endVars
<1>1. ASSUME NEW c \in Components, RegisterComponent(c) PROVE Listed'
  <2>1. /\ Len(Items') = Len(Items) + 1
        /\ \A k \in 1 .. Len(Items) : Items'[k] = Items[k] /\ Items[k] # c
        /\ Items'[Len(Items) + 1] = c
    BY <1>1, RegisterItems
  <2>2. \A k \in 1 .. Len(Items') : k \in 1 .. Len(Items) \/ k = Len(Items) + 1
    BY <1>i, <2>1
  <2>3. ASSUME NEW j \in 1 .. Len(Items'), NEW k \in 1 .. Len(Items'), Items'[j] = Items'[k] PROVE j = k
    BY <2>1, <2>2, <2>3 DEF Listed
  <2>4. UNCHANGED item
    BY <1>1 DEF RegisterComponent
  <2>5. 1 .. Len(Items) \subseteq 1 .. Len(Items')
    BY <1>i, <2>1
  <2> QED BY <2>1, <2>3, <2>4, <2>5 DEF Listed
<1>2. CASE StartItem
  <2>1. next \in 1 .. Len(Items)
    BY <1>2, <1>i DEF StartItem, TypeOK
  <2>2. \A i \in All : i # Items[next] => item'[i] = item[i]
    BY <1>2, <1>i, <2>1 DEF StartItem, TypeOK
  <2> QED BY <1>2, <1>u, <2>1, <2>2 DEF StartItem, Listed
<1>3. CASE RollbackStop
  <2>1. next - pos[Runner] \in 1 .. Len(Items)
    BY <1>3, <1>i DEF RollbackStop, TypeOK, Everyone
  <2> QED BY <1>3, <2>1, LoopStop DEF RollbackStop
<1>4. ASSUME NEW c \in Everyone, StopNext(c) PROVE Listed'
  <2>1. pos[c] \in 1 .. Len(Items)
    BY <1>4, <1>i DEF StopNext, TypeOK
  <2> QED BY <1>4, <2>1, LoopStop DEF StopNext
<1>5. ASSUME NEW i \in All, SelfStop(i) \/ GoDeaf(i) PROVE Listed'
  <2>1. /\ UNCHANGED components /\ item[i] # "new"
        /\ \A j \in All : j # i => item'[j] = item[j]
    BY <1>5, ByItself
  <2> QED BY <1>u, <2>1 DEF Listed
<1>6. ASSUME UNCHANGED <<components, item>> PROVE Listed'
  BY <1>6, <1>u DEF Listed
<1>7. CASE RunBegin \/ StartFails \/ FinishStopped \/ CloseFailed \/ SetRunning \/ CancelContext
  BY <1>6, <1>7 DEF RunBegin, StartFails, FinishStopped, CloseFailed, SetRunning, CancelContext
<1>8. ASSUME NEW c \in Everyone,
             \/ ShutdownBegin(c) \/ WaitEnd(c) \/ CloseResources(c) \/ ShutdownTelemetry(c)
             \/ ShutdownEnd(c) \/ Expire(c)
      PROVE  Listed'
  BY <1>6, <1>8 DEF ShutdownBegin, WaitEnd, CloseResources, ShutdownTelemetry, ShutdownEnd, Expire
<1>9. CASE UNCHANGED vars
  BY <1>6, <1>9 DEF vars
<1> QED
  BY <1>1, <1>2, <1>3, <1>4, <1>5, <1>7, <1>8, <1>9 DEF Next, RunStep, CallStep, Everyone, All

\* The items start in order and stay up until the context is cancelled.
LEMMA StartingStep ==
  ASSUME EarlyShutdown = FALSE
  PROVE  TypeOK /\ Control /\ Listed /\ Starting /\ [Next]_vars => Starting'
<1> SUFFICES ASSUME TypeOK, Control, Listed, Starting, [Next]_vars PROVE Starting'
  OBVIOUS
<1>i. Len(Items) \in Nat /\ \A k \in 1 .. Len(Items) : Items[k] \in All
  BY ItemsType DEF TypeOK
<1>u. UNCHANGED components => Items' = Items
  BY DEF Items
<1>n. next \in Nat
  BY <1>i DEF TypeOK
<1>c. RunState /\ OneLeader
  BY DEF Control
<1> USE DEF runVars, itemVars, callVars, resVars, endVars
<1>1. ASSUME NEW c \in Components, RegisterComponent(c) PROVE Starting'
  <2>1. state = "new" /\ run = "idle" /\ next = 1
    BY <1>1, <1>c DEF RegisterComponent, RunState, Starting
  <2>2. /\ Len(Items') = Len(Items) + 1
        /\ \A k \in 1 .. Len(Items) : Items'[k] = Items[k] /\ Items[k] # c
        /\ Items'[Len(Items) + 1] = c
    BY <1>1, RegisterItems
  <2>3. item[c] = "new"
    BY <2>2 DEF Listed, All
  <2>4. \A k \in 1 .. Len(Items') : k \in 1 .. Len(Items) \/ k = Len(Items) + 1
    BY <1>i, <2>2
  <2>5. UNCHANGED <<state, run, next, item>>
    BY <1>1 DEF RegisterComponent
  <2>6. \A k \in 1 .. Len(Items) : item[Items[k]] = "new"
    BY <1>i, <2>1 DEF Starting
  <2>7. \A k \in 1 .. Len(Items') : item[Items'[k]] = "new"
    BY <2>2, <2>3, <2>4, <2>6
  <2> QED BY <2>1, <2>5, <2>7 DEF Starting
<1>2. CASE RunBegin
  BY <1>2, <1>i, <1>u DEF RunBegin, Starting
<1>3. CASE StartItem
  <2>1. next \in 1 .. Len(Items) /\ run = "starting" /\ state = "starting"
    BY <1>3, <1>i, <1>c DEF StartItem, TypeOK, RunState
  <2>2. item'[Items[next]] \in Live /\ \A i \in All : i # Items[next] => item'[i] = item[i]
    BY <1>3, <1>i, <2>1 DEF StartItem, TypeOK
  <2>3. next' = next + 1 /\ Items' = Items /\ UNCHANGED <<state, run, cancelled>>
    BY <1>3, <1>u DEF StartItem
  <2>4. \A k \in 1 .. Len(Items) : k # next => item'[Items[k]] = item[Items[k]]
    BY <1>i, <2>1, <2>2 DEF Listed
  <2>5. \A k \in 1 .. Len(Items) : k >= next + 1 => item'[Items[k]] = "new"
    BY <1>n, <2>1, <2>4 DEF Starting
  <2>6. ~cancelled => \A k \in 1 .. Len(Items) : k < next + 1 => item'[Items[k]] \in Live
    BY <1>n, <2>1, <2>2, <2>4 DEF Starting
  <2> QED BY <2>1, <2>3, <2>5, <2>6 DEF Starting
<1>4. CASE StartFails \/ FinishStopped \/ CloseFailed
  BY <1>4, <1>u, <1>c DEF StartFails, FinishStopped, CloseFailed, Starting, RunState
<1>5. CASE SetRunning
  <2>1. next = Len(Items) + 1 /\ run = "starting"
    BY <1>5 DEF SetRunning, AllStarted
  <2>2. ~cancelled => \A k \in 1 .. Len(Items) : item[Items[k]] \in Live
    BY <1>i, <2>1 DEF Starting
  <2> QED BY <1>5, <1>u, <2>1, <2>2 DEF SetRunning, Starting
<1>6. ASSUME NEW k \in 1 .. Len(Items), NEW b \in BOOLEAN, StopItem(Items[k], b),
             UNCHANGED <<state, components, cancelled, run, next>>,
             run # "starting", state # "running"
      PROVE  Starting'
  <2>1. \A i \in All : item[i] = "new" => item'[i] = "new"
    BY <1>6, <1>i, StopEffect
  <2> QED BY <1>6, <1>i, <1>u, <2>1 DEF Starting
<1>7. CASE RollbackStop
  <2>1. next - pos[Runner] \in 1 .. Len(Items)
    BY <1>7, <1>i DEF RollbackStop, TypeOK, Everyone
  <2>2. state = "starting"
    BY <1>7, <1>c DEF RollbackStop, RunState
  <2> QED BY <1>6, <1>7, <2>1, <2>2 DEF RollbackStop
<1>8. ASSUME NEW c \in Everyone, StopNext(c) PROVE Starting'
  <2>1. pos[c] \in 1 .. Len(Items)
    BY <1>8, <1>i DEF StopNext, TypeOK
  <2>2. state = "stopping" /\ run # "starting"
    BY <1>8, <1>c DEF StopNext, OneLeader, Leading, RunState
  <2> QED BY <1>6, <1>8, <2>1, <2>2 DEF StopNext
<1>9. ASSUME NEW i \in All, SelfStop(i) \/ GoDeaf(i) PROVE Starting'
  <2>1. /\ UNCHANGED <<state, components, cancelled, run, next>>
        /\ item[i] # "new" /\ \A j \in All : j # i => item'[j] = item[j]
        /\ ~cancelled => item'[i] \in Live
    BY <1>9, ByItself DEF runVars
  <2> QED BY <1>i, <1>u, <2>1 DEF Starting
<1>10. ASSUME NEW c \in Everyone, ShutdownBegin(c) PROVE Starting'
  <2>1. UNCHANGED <<run, next, item>> /\ Items' = Items
    BY <1>10, <1>u DEF ShutdownBegin
  <2>2. state' = "stopping" \/ UNCHANGED <<state, cancelled>>
    BY <1>10 DEF ShutdownBegin
  <2>3. cancelled => cancelled'
    BY <1>10 DEF ShutdownBegin
  <2> QED BY <2>1, <2>2, <2>3 DEF Starting
<1>11. CASE CancelContext
  BY <1>11, <1>u DEF CancelContext, Starting
<1>12. ASSUME UNCHANGED <<components, cancelled, run, next, item>>, state' = state \/ state' = "stopped"
       PROVE  Starting'
  BY <1>12, <1>u DEF Starting
<1>13. ASSUME NEW c \in Everyone,
              WaitEnd(c) \/ CloseResources(c) \/ ShutdownTelemetry(c) \/ ShutdownEnd(c) \/ Expire(c)
       PROVE  Starting'
  BY <1>12, <1>13 DEF WaitEnd, CloseResources, ShutdownTelemetry, ShutdownEnd, Expire
<1>14. CASE UNCHANGED vars
  BY <1>12, <1>14 DEF vars
<1> QED
  BY <1>1, <1>2, <1>3, <1>4, <1>5, <1>7, <1>8, <1>9, <1>10, <1>11, <1>13, <1>14
  DEF Next, RunStep, CallStep, Everyone, All

\* Nobody is asked to stop twice, over the rollback of Run and all Shutdown calls.
LEMMA StoppingStep ==
  ASSUME EarlyShutdown = FALSE
  PROVE  TypeOK /\ Control /\ Listed /\ Stopping /\ [Next]_vars => Stopping'
<1> SUFFICES ASSUME TypeOK, Control, Listed, Stopping, [Next]_vars PROVE Stopping'
  OBVIOUS
<1>i. Len(Items) \in Nat /\ \A k \in 1 .. Len(Items) : Items[k] \in All
  BY ItemsType DEF TypeOK
<1>u. UNCHANGED components => Items' = Items
  BY DEF Items
<1>t. /\ next \in Nat /\ pos \in [Everyone -> 0 .. Len(Items)] /\ Runner \in Everyone
      /\ caller \in [Everyone -> CallAt] /\ stops \in [All -> Nat]
  BY <1>i DEF TypeOK, Everyone
<1>c. RunState /\ OneLeader
  BY DEF Control
<1> USE DEF runVars, itemVars, callVars, resVars, endVars, Leading
\* Nobody has been asked to stop, and nobody begins to.
<1>0. ASSUME \A i \in All : stops[i] = 0, UNCHANGED stops, run' # "rollback",
             \A c \in Everyone : caller'[c] # "stop"
      PROVE  Stopping'
  BY <1>0 DEF Stopping, StopOnce
<1>1. ASSUME NEW c \in Components, RegisterComponent(c) PROVE Stopping'
  BY <1>0, <1>1, <1>c DEF RegisterComponent, RunState, OneLeader, Stopping
<1>2. CASE RunBegin
  <2>1. CASE state = "new"
    BY <1>0, <1>2, <1>c, <2>1 DEF RunBegin, OneLeader, Stopping
  <2>2. CASE state # "new"
    <3>1. run' = "refused" /\ UNCHANGED <<state, stops, pos, next, caller>> /\ Items' = Items
      BY <1>2, <1>u, <2>2 DEF RunBegin
    <3> QED BY <3>1 DEF Stopping, StopOnce
  <2> QED BY <2>1, <2>2
<1>3. CASE StartItem \/ SetRunning
  BY <1>0, <1>3, <1>c DEF StartItem, SetRunning, RunState, OneLeader, Stopping
<1>4. CASE StartFails
  <2>1. \A i \in All : stops[i] = 0
    BY <1>4 DEF StartFails, Stopping
  <2>2. \A c \in Everyone : caller'[c] # "stop"
    BY <1>4, <1>c DEF StartFails, RunState, OneLeader
  <2>3. Items' = Items /\ UNCHANGED <<stops, next>> /\ pos'[Runner] = next - 1
    BY <1>4, <1>t, <1>u DEF StartFails, Started
  <2>4. \A k \in 1 .. Len(Items) : ~(k < next' - pos'[Runner])
    BY <1>i, <1>t, <2>3
  <2> QED BY <1>i, <2>1, <2>2, <2>3, <2>4 DEF Stopping, StopOnce
<1>5. CASE RollbackStop
  <2> DEFINE n == next - pos[Runner]
  <2>1. n \in 1 .. Len(Items) /\ pos[Runner] \in Nat
    BY <1>5, <1>i DEF RollbackStop, TypeOK, Everyone
  <2>2. PICK b \in BOOLEAN : StopItem(Items[n], b)
    BY <1>5 DEF RollbackStop
  <2>3. \A c \in Everyone : caller'[c] # "stop"
    BY <1>5, <1>c DEF RollbackStop, RunState, OneLeader
  <2>4. /\ Items' = Items /\ run = "rollback" /\ UNCHANGED <<next, run, state>>
        /\ next' - pos'[Runner] = n + 1
    BY <1>5, <1>t, <1>u, <2>1 DEF RollbackStop
  <2>5. state' = "starting"
    BY <1>c, <2>4 DEF RunState
  <2>6. /\ \A i \in All : i # Items[n] => stops'[i] = stops[i]
        /\ stops'[Items[n]] = IF Items[n] \in Stoppable THEN stops[Items[n]] + 1 ELSE stops[Items[n]]
    BY <1>i, <2>1, <2>2, StopEffect
  <2> HIDE DEF n
  <2>7. stops[Items[n]] = 0
    BY <2>1, <2>4 DEF Stopping, n
  <2>8. StopOnce'
    BY <1>t, <2>6, <2>7 DEF Stopping, StopOnce
  <2>9. \A k \in 1 .. Len(Items) : k # n => stops'[Items[k]] = stops[Items[k]]
    BY <1>i, <2>1, <2>6 DEF Listed
  <2>10. ASSUME NEW k \in 1 .. Len(Items)
         PROVE  IF k < n + 1 THEN Items[k] \in Stoppable => stops'[Items[k]] = 1
                             ELSE stops'[Items[k]] = 0
    <3>1. CASE k < n
      BY <2>1, <2>4, <2>9, <3>1 DEF Stopping, n
    <3>2. CASE k = n
      BY <2>1, <2>6, <2>7, <3>2
    <3>3. CASE k > n
      <4>1. stops[Items[k]] = 0
        BY <2>1, <2>4, <3>3 DEF Stopping, n
      <4> QED BY <2>1, <2>9, <3>3, <4>1
    <3> QED BY <2>1, <3>1, <3>2, <3>3
  <2> QED BY <2>3, <2>4, <2>5, <2>8, <2>10 DEF Stopping
<1>6. ASSUME NEW c \in Everyone, StopNext(c) PROVE Stopping'
  <2> DEFINE n == pos[c]
  <2>1. n \in 1 .. Len(Items)
    BY <1>6, <1>i DEF StopNext, TypeOK
  <2>2. PICK b \in BOOLEAN : StopItem(Items[n], b)
    BY <1>6 DEF StopNext
  <2>3. state = "stopping" /\ run \notin {"starting", "rollback"}
    BY <1>6, <1>c DEF StopNext, RunState, OneLeader
  <2>4. \A d \in Everyone : caller[d] = "stop" => d = c
    BY <1>6, <1>c DEF StopNext, OneLeader
  <2>5. Items' = Items /\ UNCHANGED <<next, run, state, caller>> /\ pos'[c] = n - 1
    BY <1>6, <1>t, <1>u DEF StopNext
  <2>6. /\ \A i \in All : i # Items[n] => stops'[i] = stops[i]
        /\ stops'[Items[n]] = IF Items[n] \in Stoppable THEN stops[Items[n]] + 1 ELSE stops[Items[n]]
    BY <1>i, <2>1, <2>2, StopEffect
  <2>7. stops[Items[n]] = 0
    BY <1>6, <2>1 DEF Stopping, StopNext
  <2>8. StopOnce'
    BY <1>t, <2>6, <2>7 DEF Stopping, StopOnce
  <2>9. \A k \in 1 .. Len(Items) : k # n => stops'[Items[k]] = stops[Items[k]]
    BY <1>i, <2>1, <2>6 DEF Listed
  <2>10. ASSUME NEW k \in 1 .. Len(Items)
         PROVE  IF k > n - 1 THEN Items[k] \in Stoppable => stops'[Items[k]] = 1
                             ELSE stops'[Items[k]] = 0
    <3>1. CASE k > n
      BY <1>6, <2>1, <2>9, <3>1 DEF Stopping, StopNext
    <3>2. CASE k = n
      BY <2>1, <2>6, <2>7, <3>2
    <3>3. CASE k < n
      <4>1. stops[Items[k]] = 0
        BY <1>6, <2>1, <3>3 DEF Stopping, StopNext
      <4> QED BY <2>1, <2>9, <3>3, <4>1
    <3> QED BY <2>1, <3>1, <3>2, <3>3
  <2> QED BY <2>3, <2>4, <2>5, <2>8, <2>10 DEF Stopping
<1>7. ASSUME NEW c \in Everyone, ShutdownBegin(c) PROVE Stopping'
  <2>1. Items' = Items /\ UNCHANGED <<stops, run, next>>
    BY <1>7, <1>u DEF ShutdownBegin
  <2>2. CASE Leads
    <3>1. state # "starting"
      BY <1>7, <1>c, <2>2 DEF ShutdownBegin, MayCall, RunState
    <3>2. state \in {"new", "running"} /\ run \notin {"starting", "rollback"}
      BY <1>c, <2>2, <3>1 DEF Leads, TypeOK, States, RunState
    <3>3. /\ \A i \in All : stops[i] = 0
          /\ \A d \in Everyone : caller[d] = "idle"
      BY <1>c, <3>2 DEF Stopping, OneLeader
    <3>4. pos'[c] = Len(Items) /\ \A d \in Everyone : caller'[d] = "stop" => d = c
      BY <1>7, <1>t, <2>2, <3>3 DEF ShutdownBegin
    <3>5. \A k \in 1 .. Len(Items) : ~(k > Len(Items))
      BY <1>i
    <3> QED BY <1>i, <2>1, <3>2, <3>3, <3>4, <3>5 DEF Stopping, StopOnce
  <2>3. CASE ~Leads
    <3>1. UNCHANGED <<state, pos>> /\ \A d \in Everyone : caller'[d] = "stop" => caller[d] = "stop"
      BY <1>7, <1>t, <2>3 DEF ShutdownBegin
    <3> QED BY <2>1, <3>1 DEF Stopping, StopOnce
  <2> QED BY <2>2, <2>3
\* A step that leaves both loops where they are, or ends one.
<1>8. ASSUME UNCHANGED <<components, next, stops, pos>>,
             \/ UNCHANGED <<state, run>>
             \/ state' = "stopped" /\ run' \notin {"starting", "rollback"},
             \A d \in Everyone : caller'[d] = "stop" => caller[d] = "stop"
      PROVE  Stopping'
  BY <1>8, <1>u DEF Stopping, StopOnce
<1>9. CASE FinishStopped \/ CancelContext \/ UNCHANGED vars
  BY <1>8, <1>9 DEF FinishStopped, CancelContext, vars
<1>10. CASE CloseFailed
  BY <1>8, <1>10, <1>c DEF CloseFailed, RunState
<1>11. ASSUME NEW c \in Everyone, WaitEnd(c) \/ CloseResources(c) \/ ShutdownTelemetry(c) \/ Expire(c)
       PROVE  Stopping'
  <2>1. \A d \in Everyone : caller'[d] = "stop" => caller[d] = "stop"
    BY <1>11, <1>t DEF WaitEnd, CloseResources, ShutdownTelemetry, Expire
  <2> QED BY <1>8, <1>11, <2>1 DEF WaitEnd, CloseResources, ShutdownTelemetry, Expire
<1>12. ASSUME NEW c \in Everyone, ShutdownEnd(c) PROVE Stopping'
  <2>1. \A d \in Everyone : caller'[d] = "stop" => caller[d] = "stop"
    BY <1>12, <1>t DEF ShutdownEnd
  <2>2. run \notin {"starting", "rollback"}
    BY <1>12, <1>c DEF ShutdownEnd, OneLeader, RunState
  <2> QED BY <1>8, <1>12, <2>1, <2>2 DEF ShutdownEnd
<1>13. ASSUME NEW i \in All, SelfStop(i) \/ GoDeaf(i) PROVE Stopping'
  BY <1>8, <1>13, ByItself
<1> QED
  BY <1>1, <1>2, <1>3, <1>4, <1>5, <1>6, <1>7, <1>9, <1>10, <1>11, <1>12, <1>13
  DEF Next, RunStep, CallStep, Everyone, All

LEMMA LifecycleInvariant ==
  ASSUME EarlyShutdown = FALSE PROVE Spec => [](TypeOK /\ Control /\ Lifecycle)
<1>1. Init => Listed
  <2> SUFFICES ASSUME Init PROVE Listed
    OBVIOUS
  <2>1. Items = Servers /\ Len(Items) = Len(Servers)
    BY ItemsAssumption, ConcatEmptySeq DEF Init, Items
  <2> QED BY <2>1, ItemsAssumption DEF Init, Listed
<1>2. Init => Starting
  <2> SUFFICES ASSUME Init PROVE Starting
    OBVIOUS
  <2>1. \A k \in 1 .. Len(Items) : Items[k] \in All
    BY ItemsType, EmptySeq DEF Init
  <2> QED BY <2>1 DEF Init, Starting
<1>3. Init => Stopping
  BY DEF Init, Stopping, StopOnce
<1> QED
  BY <1>1, <1>2, <1>3, ControlInvariant, ListedStep, StartingStep, StoppingStep, PTL DEF Spec, Lifecycle

\* Mesa calls the Stop of an item at most once.
THEOREM ItemsStopOnce == ASSUME EarlyShutdown = FALSE PROVE Spec => []StopOnce
<1>1. Lifecycle => StopOnce
  BY DEF Lifecycle, Stopping
<1> QED BY <1>1, LifecycleInvariant, PTL

-----------------------------------------------------------------------------
(* Closing the resources *)

LEMMA ClosingStep ==
  ASSUME EarlyShutdown = FALSE
  PROVE  TypeOK /\ Control /\ Lifecycle /\ Closing /\ [Next]_vars => Closing'
<1> SUFFICES ASSUME TypeOK, Control, Lifecycle, Closing, [Next]_vars PROVE Closing'
  OBVIOUS
<1>i. Len(Items) \in Nat /\ \A k \in 1 .. Len(Items) : Items[k] \in All
  BY ItemsType DEF TypeOK
<1>u. UNCHANGED components => Items' = Items
  BY DEF Items
<1>t. /\ next \in Nat /\ pos \in [Everyone -> 0 .. Len(Items)] /\ Runner \in Everyone
      /\ caller \in [Everyone -> CallAt] /\ expired \in [Everyone -> BOOLEAN]
      /\ erred \in [Everyone -> BOOLEAN] /\ stops \in [All -> Nat] /\ Runner \notin Callers
      /\ item \in [All -> ItemAt]
  BY <1>i, CallersAssumption DEF TypeOK, Everyone
<1>c. RunState /\ OneLeader /\ Listed /\ Starting /\ Stopping
  BY DEF Control, Lifecycle
\* A stoppable item that is up is on the list.
<1>l. \A i \in All : item[i] \in Live => \E k \in 1 .. Len(Items) : Items[k] = i
  BY <1>c DEF Listed
<1> USE DEF runVars, itemVars, callVars, resVars, endVars, Leading
\* A step before any Shutdown has led: nothing is closed and nobody closes.
<1>0. ASSUME resources', state' # "stopped", run' # "closing", ~expired'[Runner],
             \A c \in Everyone : caller'[c] = "idle"
      PROVE  Closing'
  BY <1>0 DEF Closing, ResourcesOutliveItems
<1>1. ASSUME NEW c \in Components, RegisterComponent(c) PROVE Closing'
  BY <1>0, <1>1, <1>c DEF RegisterComponent, RunState, OneLeader, Closing
<1>2. CASE StartItem \/ StartFails \/ RollbackStop
  <2>1. state = "starting"
    BY <1>2, <1>c DEF StartItem, StartFails, RollbackStop, RunState
  <2>2. \A c \in Everyone : caller[c] = "idle"
    BY <1>c, <2>1 DEF OneLeader
  <2> QED BY <1>0, <1>2, <2>1, <2>2 DEF StartItem, StartFails, RollbackStop, Closing
<1>3. CASE SetRunning
  <2>1. state = "starting" /\ \A c \in Everyone : caller[c] = "idle"
    BY <1>3, <1>c DEF SetRunning, RunState, OneLeader
  <2> QED BY <1>0, <1>3, <2>1 DEF SetRunning, Closing
\* A step that leaves the calls alone, closes nothing and starts nothing.
<1>4. ASSUME UNCHANGED <<components, state, stops, callVars, resources, telemetry, shutdownErr>>,
             \A i \in All : item'[i] \in Live => item[i] \in Live,
             run' = run \/ (run' # "closing" /\ run \notin {"closing", "failed"}),
             expired' \in [Everyone -> BOOLEAN], ~expired'[Runner],
             \A c \in Everyone : expired[c] => expired'[c]
      PROVE  Closing'
  <2>1. Items' = Items
    BY <1>4, <1>u
  <2>2. AskedToStop => AskedToStop'
    BY <1>4 DEF AskedToStop
  <2>3. NoneUp => NoneUp'
    BY <1>4 DEF NoneUp
  <2>4. ResourcesOutliveItems'
    BY <1>4 DEF Closing, ResourcesOutliveItems, Everyone
  <2>5. \A c \in Everyone : caller'[c] = "stop" =>
          /\ resources'
          /\ ~erred'[c] => \A k \in 1 .. Len(Items') :
               k > pos'[c] /\ Items'[k] \in Stoppable => item'[Items'[k]] \notin Live
    BY <1>4, <1>i, <2>1 DEF Closing
  <2> QED BY <1>4, <2>2, <2>3, <2>4, <2>5 DEF Closing
<1>5. CASE RunBegin
  <2>1. CASE state = "new"
    BY <1>0, <1>5, <1>c, <2>1 DEF RunBegin, OneLeader, Closing
  <2>2. CASE state # "new"
    BY <1>4, <1>5, <1>t, <2>2 DEF RunBegin, Closing
  <2> QED BY <2>1, <2>2
<1>6. CASE CancelContext \/ UNCHANGED vars
  BY <1>4, <1>6, <1>t DEF CancelContext, vars, Closing
<1>7. ASSUME NEW i \in All, SelfStop(i) \/ GoDeaf(i) PROVE Closing'
  BY <1>4, <1>7, <1>t, ByItself DEF Closing
<1>8. ASSUME NEW c \in Callers, Expire(c) PROVE Closing'
  BY <1>4, <1>8, <1>t DEF Expire, Closing
\* The rollback has asked every item that started.
<1>9. CASE FinishStopped
  <2>1. state = "starting" /\ resources /\ \A c \in Everyone : caller[c] = "idle"
    BY <1>9, <1>c DEF FinishStopped, RunState, OneLeader, Closing
  <2>2. AskedToStop
    <3> SUFFICES ASSUME NEW i \in All \cap Stoppable, item[i] \in Live PROVE stops[i] = 1
      BY DEF AskedToStop
    <3>1. PICK k \in 1 .. Len(Items) : Items[k] = i
      BY <1>l
    <3>2. k < next
      BY <1>9, <1>c, <1>i, <1>t, <3>1 DEF FinishStopped, Starting
    <3> QED BY <1>9, <1>c, <1>t, <3>1, <3>2 DEF FinishStopped, Stopping
  <2> QED
    BY <1>9, <2>1, <2>2 DEF FinishStopped, Closing, AskedToStop, ResourcesOutliveItems
<1>10. CASE CloseFailed
  <2>1. state = "stopped" /\ AskedToStop
    BY <1>10, <1>c DEF CloseFailed, RunState, Closing
  <2>2. \A c \in Everyone : caller[c] \notin Leading
    BY <1>c, <2>1 DEF OneLeader
  <2> QED
    BY <1>10, <2>1, <2>2 DEF CloseFailed, Closing, AskedToStop, ResourcesOutliveItems
<1>11. ASSUME NEW c \in Everyone, ShutdownBegin(c) PROVE Closing'
  <2>1. CASE Leads
    <3>1. state # "starting"
      BY <1>11, <1>c, <2>1 DEF ShutdownBegin, MayCall, RunState
    <3>2. /\ state \in {"new", "running"} /\ state' = "stopping" /\ resources /\ run # "closing"
          /\ \A d \in Everyone : caller[d] = "idle"
      BY <1>11, <1>c, <2>1, <3>1 DEF ShutdownBegin, Leads, TypeOK, States, OneLeader, Closing, RunState
    <3>3. /\ UNCHANGED <<item, stops, run, erred, expired, resources>> /\ Items' = Items
          /\ caller' = [caller EXCEPT ![c] = "stop"] /\ pos'[c] = Len(Items)
      BY <1>11, <1>t, <1>u, <2>1 DEF ShutdownBegin
    <3>4. \A d \in Everyone : caller'[d] \in Leading => d = c /\ caller'[d] = "stop"
      BY <1>t, <3>2, <3>3
    <3>5. \A k \in 1 .. Len(Items) : ~(k > pos'[c])
      BY <1>i, <3>3
    <3> QED BY <3>2, <3>3, <3>4, <3>5 DEF Closing, ResourcesOutliveItems
  <2>2. CASE ~Leads
    <3>1. /\ UNCHANGED <<item, stops, run, state, pos, erred, expired, resources, telemetry, shutdownErr>>
          /\ Items' = Items
          /\ \A d \in Everyone : caller'[d] \in Leading => caller'[d] = caller[d]
      BY <1>11, <1>t, <1>u, <2>2 DEF ShutdownBegin
    <3> QED BY <3>1 DEF Closing, ResourcesOutliveItems, AskedToStop, NoneUp
  <2> QED BY <2>1, <2>2
<1>12. ASSUME NEW c \in Everyone, WaitEnd(c) PROVE Closing'
  <2>1. /\ UNCHANGED <<item, stops, run, state, pos, erred, expired, resources, telemetry, shutdownErr>>
        /\ Items' = Items
        /\ \A d \in Everyone : caller'[d] \in Leading => caller'[d] = caller[d]
    BY <1>12, <1>t, <1>u DEF WaitEnd
  <2> QED BY <2>1 DEF Closing, ResourcesOutliveItems, AskedToStop, NoneUp
<1>13. ASSUME NEW c \in Everyone, StopNext(c) PROVE Closing'
  <2>1. pos[c] \in 1 .. Len(Items) /\ caller[c] = "stop"
    BY <1>13, <1>i, <1>t DEF StopNext
  <2>2. PICK b \in BOOLEAN : StopItem(Items[pos[c]], b) /\ erred' = [erred EXCEPT ![c] = @ \/ b]
    BY <1>13 DEF StopNext
  <2>3. state = "stopping" /\ run # "closing" /\ \A d \in Everyone : caller[d] \in Leading => d = c
    BY <1>c, <2>1 DEF OneLeader, RunState
  <2>4. Items' = Items /\ UNCHANGED <<run, state, caller, expired, resources>> /\ pos'[c] = pos[c] - 1
    BY <1>13, <1>t, <1>u DEF StopNext
  <2>5. /\ \A i \in All : i # Items[pos[c]] => item'[i] = item[i]
        /\ Items[pos[c]] \in Stoppable /\ ~b => item'[Items[pos[c]]] \notin Live
    BY <1>i, <2>1, <2>2, StopEffect
  <2>6. ~erred'[c] => ~erred[c] /\ ~b
    BY <1>t, <2>2
  <2>7. ASSUME ~erred'[c], NEW k \in 1 .. Len(Items), k > pos[c] - 1, Items[k] \in Stoppable
        PROVE  item'[Items[k]] \notin Live
    <3>1. CASE k = pos[c]
      BY <2>5, <2>6, <2>7, <3>1
    <3>2. CASE k # pos[c]
      <4>1. Items[k] # Items[pos[c]] /\ k > pos[c]
        BY <1>c, <2>1, <2>7, <3>2 DEF Listed
      <4> QED BY <1>i, <2>1, <2>5, <2>6, <2>7, <4>1 DEF Closing
    <3> QED BY <3>1, <3>2
  <2> QED BY <2>1, <2>3, <2>4, <2>7 DEF Closing, ResourcesOutliveItems
<1>14. ASSUME NEW c \in Everyone, CloseResources(c) PROVE Closing'
  <2>1. /\ caller[c] = "stop" /\ caller' = [caller EXCEPT ![c] = "telemetry"]
        /\ pos[c] = 0 \/ expired[c]
        /\ UNCHANGED <<item, stops, run, state, expired>> /\ ~resources'
    BY <1>14 DEF CloseResources, MayClose
  <2>2. state = "stopping" /\ run # "closing" /\ \A d \in Everyone : caller[d] \in Leading => d = c
    BY <1>c, <2>1 DEF OneLeader, RunState
  <2>3. \A d \in Everyone : caller'[d] \in Leading => d = c /\ caller'[d] = "telemetry"
    BY <1>t, <2>1, <2>2
  <2>4. ~erred'[c] => ~erred[c] /\ pos[c] = 0
    <3>1. PICK b \in BOOLEAN : erred' = [erred EXCEPT ![c] = @ \/ pos[c] > 0 \/ b]
      BY <1>14 DEF CloseResources
    <3>2. ~erred'[c] => ~erred[c] /\ ~(pos[c] > 0)
      BY <1>t, <3>1
    <3> QED BY <1>t, <3>2
  \* With nothing left, each item on the list has been asked, and one that is up has erred.
  <2>5. ASSUME pos[c] = 0, NEW i \in All \cap Stoppable, item[i] \in Live
        PROVE  stops[i] = 1 /\ erred[c]
    <3>1. PICK k \in 1 .. Len(Items) : Items[k] = i
      BY <1>l, <2>5
    <3>2. k > pos[c]
      BY <2>5, <3>1
    <3>3. stops[i] = 1
      BY <1>c, <2>1, <3>1, <3>2 DEF Stopping
    <3>4. erred[c]
      BY <1>t, <2>1, <2>5, <3>1, <3>2 DEF Closing
    <3> QED BY <3>3, <3>4
  <2>6. ResourcesOutliveItems'
    <3>1. CASE pos[c] = 0
      BY <2>1, <2>5, <3>1 DEF ResourcesOutliveItems
    <3>2. CASE expired[c]
      <4>1. c \in Callers
        BY <3>2 DEF Closing, Everyone
      <4> QED BY <2>1, <3>2, <4>1 DEF ResourcesOutliveItems
    <3> QED BY <2>1, <3>1, <3>2
  <2>7. ~erred'[c] => NoneUp'
    BY <2>1, <2>4, <2>5 DEF NoneUp
  <2> QED BY <2>1, <2>2, <2>3, <2>6, <2>7 DEF Closing
<1>15. ASSUME NEW c \in Everyone, ShutdownTelemetry(c) PROVE Closing'
  <2>1. /\ caller[c] = "telemetry" /\ caller' = [caller EXCEPT ![c] = "finish"]
        /\ UNCHANGED <<item, stops, run, state, expired, resources>> /\ ~telemetry'
    BY <1>15 DEF ShutdownTelemetry
  <2>2. state = "stopping" /\ run # "closing" /\ \A d \in Everyone : caller[d] \in Leading => d = c
    BY <1>c, <2>1 DEF OneLeader, RunState
  <2>3. \A d \in Everyone : caller'[d] \in Leading => d = c /\ caller'[d] = "finish"
    BY <1>t, <2>1, <2>2
  <2>4. ~erred'[c] => ~erred[c]
    BY <1>15, <1>t DEF ShutdownTelemetry
  <2> QED BY <2>1, <2>2, <2>3, <2>4 DEF Closing, ResourcesOutliveItems, NoneUp
<1>16. ASSUME NEW c \in Everyone, ShutdownEnd(c) PROVE Closing'
  <2>1. /\ caller[c] = "finish" /\ state' = "stopped" /\ shutdownErr' = erred[c]
        /\ caller' = [caller EXCEPT ![c] = IF erred[c] THEN "failed" ELSE "ok"]
        /\ UNCHANGED <<item, stops, run, expired, resources, telemetry>>
    BY <1>16 DEF ShutdownEnd, StoreErr
  <2>2. run # "closing" /\ \A d \in Everyone : caller[d] \in Leading => d = c
    BY <1>c, <2>1 DEF OneLeader, RunState
  <2>3. \A d \in Everyone : caller'[d] \notin Leading
    BY <1>t, <2>1, <2>2
  <2>4. ~resources /\ ~telemetry /\ (~erred[c] => NoneUp)
    BY <2>1 DEF Closing
  <2> QED BY <2>1, <2>2, <2>3, <2>4 DEF Closing, ResourcesOutliveItems, NoneUp
<1> QED
  BY <1>1, <1>2, <1>3, <1>5, <1>6, <1>7, <1>8, <1>9, <1>10, <1>11, <1>12, <1>13, <1>14, <1>15, <1>16
  DEF Next, RunStep, CallStep, All

LEMMA ClosingInvariant ==
  ASSUME EarlyShutdown = FALSE PROVE Spec => [](TypeOK /\ Control /\ Lifecycle /\ Closing)
<1>1. Init => Closing
  BY DEF Init, Closing, ResourcesOutliveItems, Everyone
<1> QED BY <1>1, LifecycleInvariant, ClosingStep, PTL DEF Spec

\* When the database, Redis and etcd are closed, every stoppable item that is still up
\* has been asked to stop, unless a deadline cut the loop short.
THEOREM ResourcesOutlive == ASSUME EarlyShutdown = FALSE PROVE Spec => []ResourcesOutliveItems
<1>1. Closing => ResourcesOutliveItems
  BY DEF Closing
<1> QED BY <1>1, ClosingInvariant, PTL

\* A Shutdown that returns nil has stopped everything, closed the resources and shut
\* the telemetry down, unless Run failed to start and cleans up by itself.
THEOREM NilIsClean == ASSUME EarlyShutdown = FALSE PROVE Spec => []NilMeansStopped
<1>1. Control /\ Closing => NilMeansStopped
  BY DEF Control, Returned, Closing, NoneUp, NilMeansStopped
<1> QED BY <1>1, ClosingInvariant, PTL

\* A runtime that says it is ready, and whose context is not cancelled, has its
\* resources open and all its items started and not asked to stop, even where a server
\* accepts nothing any more.
THEOREM ReadyIsStarted == ASSUME EarlyShutdown = FALSE PROVE Spec => []ReadyMeansStarted
<1>1. TypeOK /\ Lifecycle /\ Closing => ReadyMeansStarted
  <2> SUFFICES ASSUME TypeOK, Lifecycle, Closing, Readiness, ~cancelled
              PROVE  resources /\ \A i \in Elems(Items) : item[i] \in Live /\ stops[i] = 0
    BY DEF ReadyMeansStarted
  <2>1. \A k \in 1 .. Len(Items) : Items[k] \in All
    BY ItemsType DEF TypeOK
  <2>2. \A i \in Elems(Items) : i \in All /\ item[i] \in Live
    BY <2>1 DEF Lifecycle, Starting, Readiness, Elems
  <2> QED BY <2>2 DEF Lifecycle, Stopping, Closing, Readiness
<1> QED BY <1>1, ClosingInvariant, PTL

=============================================================================
