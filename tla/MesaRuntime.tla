---------------------------- MODULE MesaRuntime ----------------------------
(***************************************************************************)
(* The life of a Mesa after New (mesa.go): RegisterComponent, one Run and   *)
(* any number of Shutdown calls, Run's own among them.  Sections under     *)
(* runtimeMu are atomic; between them Run starts items one by one, and the *)
(* Shutdown that leads stops them one by one, while every item may stop by *)
(* itself once the runtime context is cancelled, and a server may cease to *)
(* accept at any time.                                                     *)
(***************************************************************************)
EXTENDS Integers, Sequences

CONSTANTS
  Servers,        \* sequence of the servers New was given
  Components,     \* components that may be registered, by name
  Stoppable,      \* items with a Stop method (pubsub.Service has none)
  Draining,       \* items like the HTTP server: once their own stop has begun,
                  \* a second Stop returns at once
  Callers,        \* callers of Shutdown other than Run
  EarlyShutdown   \* TRUE: Shutdown may be called while Run starts items

Elems(s) == {s[i] : i \in 1 .. Len(s)}
All == Elems(Servers) \cup Components
Runner == "run"
Everyone == Callers \cup {Runner}

ASSUME ItemsAssumption ==
  /\ Servers \in Seq(Elems(Servers))
  /\ Elems(Servers) \cap Components = {}
  /\ \A i, j \in 1 .. Len(Servers) : i # j => Servers[i] # Servers[j]
  /\ Draining \subseteq Stoppable
ASSUME CallersAssumption == Runner \notin Callers
ASSUME EarlyAssumption == EarlyShutdown \in BOOLEAN

VARIABLES
  state,        \* Mesa.state
  components,   \* Mesa.components, in order of registration
  cancelled,    \* runtimeCtx is done
  run,          \* where Run is
  next,         \* Run: the item it starts, or stops while it rolls back
  item,         \* per item: not started, up, deaf, draining or down
  stops,        \* per item: Stop calls made by Mesa
  caller,       \* per caller of Shutdown: where it is, or what it returned
  pos,          \* per caller: items its stopItems has left
  erred,        \* per caller: its errors.Join so far is not nil
  expired,      \* per caller: its ctx is past its deadline
  resources,    \* etcd, Redis and the database are open
  telemetry,    \* telemetry is not shut down
  done,         \* shutdownDone is closed
  shutdownErr,  \* Mesa.shutdownErr is not nil
  panicked      \* a closed channel was closed again, which ends the process

runVars == <<run, next>>
itemVars == <<item, stops>>
callVars == <<caller, pos, erred>>
resVars == <<resources, telemetry>>
endVars == <<done, shutdownErr, panicked>>
vars == <<state, components, cancelled, runVars, itemVars, callVars, expired, resVars, endVars>>

\* Run starts the servers and then the components; Shutdown stops the components
\* from the last to the first and then the servers, so the same list backwards.
Items == Servers \o components

States == {"new", "starting", "running", "stopping", "stopped"}
RunAt == {"idle", "starting", "rollback", "closing", "waiting", "failed", "refused"}
Leading == {"stop", "telemetry", "finish"}
CallAt == {"idle", "waiting", "ok", "failed"} \cup Leading

\* A deaf server accepts nothing any more; its handlers run and it is still to be stopped.
ItemAt == {"new", "up", "deaf", "draining", "down"}
Live == {"up", "deaf"}

TypeOK ==
  /\ state \in States
  /\ components \in Seq(Components)
  /\ cancelled \in BOOLEAN
  /\ run \in RunAt /\ next \in 1 .. Len(Items) + 1
  /\ item \in [All -> ItemAt]
  /\ stops \in [All -> Nat]
  /\ caller \in [Everyone -> CallAt]
  /\ pos \in [Everyone -> 0 .. Len(Items)]
  /\ run = "rollback" => pos[Runner] < next
  /\ erred \in [Everyone -> BOOLEAN]
  /\ expired \in [Everyone -> BOOLEAN]
  /\ resources \in BOOLEAN /\ telemetry \in BOOLEAN
  /\ done \in BOOLEAN /\ shutdownErr \in BOOLEAN /\ panicked \in BOOLEAN

Init ==
  /\ state = "new" /\ components = <<>> /\ cancelled = FALSE
  /\ run = "idle" /\ next = 1
  /\ item = [i \in All |-> "new"] /\ stops = [i \in All |-> 0]
  /\ caller = [c \in Everyone |-> "idle"]
  /\ pos = [c \in Everyone |-> 0]
  /\ erred = [c \in Everyone |-> FALSE]
  /\ expired = [c \in Everyone |-> FALSE]
  /\ resources = TRUE /\ telemetry = TRUE
  /\ done = FALSE /\ shutdownErr = FALSE /\ panicked = FALSE

\* RegisterComponent; a name is registered once.
RegisterComponent(c) ==
  /\ ~panicked /\ state = "new"
  /\ c \notin Elems(components)
  /\ components' = Append(components, c)
  /\ UNCHANGED <<state, cancelled, runVars, itemVars, callVars, expired, resVars, endVars>>

-----------------------------------------------------------------------------
(* Run *)

RunBegin ==
  /\ ~panicked /\ run = "idle"
  /\ \/ /\ state = "new"
        /\ state' = "starting" /\ run' = "starting"
     \/ /\ state # "new"
        /\ run' = "refused" /\ UNCHANGED state
  /\ UNCHANGED <<components, cancelled, next, itemVars, callVars, expired, resVars, endVars>>

\* A signal arrives, or the parent context ends.
CancelContext ==
  /\ ~panicked /\ run \notin {"idle", "refused"}
  /\ ~cancelled
  /\ cancelled' = TRUE
  /\ UNCHANGED <<state, components, runVars, itemVars, callVars, expired, resVars, endVars>>

StartItem ==
  /\ ~panicked /\ run = "starting"
  /\ next <= Len(Items)
  /\ item' = [item EXCEPT ![Items[next]] = "up"]
  /\ next' = next + 1
  /\ UNCHANGED <<state, components, cancelled, run, stops, callVars, expired, resVars, endVars>>

\* How many items Run has started.
Started == next - 1

\* The item does not start: Run cancels, and rolls back those before it.
StartFails ==
  /\ ~panicked /\ run = "starting"
  /\ next <= Len(Items)
  /\ cancelled' = TRUE
  /\ run' = "rollback"
  /\ pos' = [pos EXCEPT ![Runner] = Started]
  /\ UNCHANGED <<state, components, next, itemVars, caller, erred, expired, resVars, endVars>>

\* A Stop call on item i; b tells that it returns an error.  An item that is not
\* started, or whose own stop is under way or over, has nothing to do.
\* Mutant: StopItem_Skipped takes no item for a stopper.
StopItem_Skipped(i, b) == ~b /\ UNCHANGED <<item, stops>>
StopItem(i, b) ==
  /\ b => i \in Stoppable /\ item[i] \in Live
  /\ item' = [item EXCEPT ![i] = IF i \in Stoppable /\ @ \in Live /\ ~b THEN "down" ELSE @]
  /\ stops' = [stops EXCEPT ![i] = IF i \in Stoppable THEN @ + 1 ELSE @]

\* stopItems(started), in the order of starting; its errors are dropped.
RollbackStop ==
  /\ ~panicked /\ run = "rollback"
  /\ pos[Runner] > 0
  /\ \E b \in BOOLEAN : StopItem(Items[next - pos[Runner]], b)
  /\ pos' = [pos EXCEPT ![Runner] = @ - 1]
  /\ UNCHANGED <<state, components, cancelled, runVars, caller, erred, expired, resVars, endVars>>

\* finishStopped, up to its unlock.
FinishStopped ==
  /\ ~panicked /\ run = "rollback"
  /\ pos[Runner] = 0
  /\ state' = "stopped"
  /\ done' = TRUE
  /\ run' = "closing"
  /\ UNCHANGED <<components, cancelled, next, itemVars, callVars, expired, resVars, shutdownErr, panicked>>

\* finishStopped's closeResources; Run returns the error of the start.
CloseFailed ==
  /\ ~panicked /\ run = "closing"
  /\ resources' = FALSE
  /\ run' = "failed"
  /\ UNCHANGED <<state, components, cancelled, next, itemVars, callVars, expired, telemetry, endVars>>

\* Mutant: AllStarted_Early is one item early.
AllStarted_Early == next >= Len(Items)
AllStarted == next = Len(Items) + 1

SetRunning ==
  /\ ~panicked /\ run = "starting"
  /\ AllStarted
  /\ state' = "running"
  /\ run' = "waiting"
  /\ UNCHANGED <<components, cancelled, next, itemVars, callVars, expired, resVars, endVars>>

-----------------------------------------------------------------------------
(* Shutdown *)

\* Run shuts down when its context is done; others call when they like.
MayCall(c) ==
  IF c = Runner THEN run = "waiting" /\ cancelled
  ELSE EarlyShutdown \/ state # "starting"

\* The first critical section of Shutdown.
\* Mutant: Leads_Again lets a call lead beside another.
Leads_Again == state # "stopped"
\* Mutant: Leads_Stopped lets a call lead when all is over.
Leads_Stopped == state # "stopping"
Leads == state \notin {"stopped", "stopping"}

ShutdownBegin(c) ==
  /\ ~panicked /\ caller[c] = "idle"
  /\ MayCall(c)
  /\ \/ /\ Leads
        /\ state' = "stopping"
        /\ cancelled' = (cancelled \/ run \notin {"idle", "refused"})
        /\ caller' = [caller EXCEPT ![c] = "stop"]
        /\ pos' = [pos EXCEPT ![c] = Len(Items)]
     \/ /\ ~Leads
        /\ caller' = [caller EXCEPT ![c] =
                        IF state = "stopping" THEN "waiting"
                        ELSE IF shutdownErr THEN "failed" ELSE "ok"]
        /\ UNCHANGED <<state, cancelled, pos>>
  /\ UNCHANGED <<components, runVars, itemVars, erred, expired, resVars, endVars>>

\* A caller waits for the leader, or for its own deadline.
WaitEnd(c) ==
  /\ ~panicked /\ caller[c] = "waiting"
  /\ \/ done /\ caller' = [caller EXCEPT ![c] = IF shutdownErr THEN "failed" ELSE "ok"]
     \/ expired[c] /\ caller' = [caller EXCEPT ![c] = "failed"]
  /\ UNCHANGED <<state, components, cancelled, runVars, itemVars, pos, erred, expired, resVars, endVars>>

\* One item of stopItems, unless the deadline has passed.
StopNext(c) ==
  /\ ~panicked /\ caller[c] = "stop"
  /\ pos[c] > 0
  /\ ~expired[c]
  /\ \E b \in BOOLEAN :
       /\ StopItem(Items[pos[c]], b)
       /\ erred' = [erred EXCEPT ![c] = @ \/ b]
  /\ pos' = [pos EXCEPT ![c] = @ - 1]
  /\ UNCHANGED <<state, components, cancelled, runVars, caller, expired, resVars, endVars>>

\* stopItems returns, at its end or early, and closeResources runs.
\* Mutant: MayClose_Now does not wait for stopItems.
MayClose_Now(c) == TRUE
MayClose(c) == pos[c] = 0 \/ expired[c]

CloseResources(c) ==
  /\ ~panicked /\ caller[c] = "stop"
  /\ MayClose(c)
  /\ resources' = FALSE
  /\ \E b \in BOOLEAN : erred' = [erred EXCEPT ![c] = @ \/ pos[c] > 0 \/ b]
  /\ caller' = [caller EXCEPT ![c] = "telemetry"]
  /\ UNCHANGED <<state, components, cancelled, runVars, itemVars, pos, expired, telemetry, endVars>>

ShutdownTelemetry(c) ==
  /\ ~panicked /\ caller[c] = "telemetry"
  /\ telemetry' = FALSE
  /\ \E b \in BOOLEAN : erred' = [erred EXCEPT ![c] = @ \/ b]
  /\ caller' = [caller EXCEPT ![c] = "finish"]
  /\ UNCHANGED <<state, components, cancelled, runVars, itemVars, pos, expired, resources, endVars>>

\* close(shutdownDone); of a closed channel it panics.
\* Mutant: CloseDone_Never forgets it.
CloseDone_Never == UNCHANGED <<panicked, done>>
CloseDone == panicked' = done /\ done' = TRUE

\* m.shutdownErr = err.
\* Mutant: StoreErr_Lost forgets it.
StoreErr_Lost(c) == UNCHANGED shutdownErr
StoreErr(c) == shutdownErr' = erred[c]

\* The last critical section.
ShutdownEnd(c) ==
  /\ ~panicked /\ caller[c] = "finish"
  /\ StoreErr(c)
  /\ state' = "stopped"
  /\ CloseDone
  /\ caller' = [caller EXCEPT ![c] = IF erred[c] THEN "failed" ELSE "ok"]
  /\ UNCHANGED <<components, cancelled, runVars, itemVars, pos, erred, expired, resVars>>

Expire(c) ==
  /\ ~panicked /\ ~expired[c]
  /\ expired' = [expired EXCEPT ![c] = TRUE]
  /\ UNCHANGED <<state, components, cancelled, runVars, itemVars, callVars, resVars, endVars>>

\* The status Readiness answers with at best: the pings of the connections may
\* still fail, but connections that are closed are no longer asked.
Readiness == state = "running"

-----------------------------------------------------------------------------
(* What items do by themselves *)

\* An item that watches the runtime context stops when it is cancelled.
SelfStop(i) ==
  /\ ~panicked /\ cancelled
  /\ \/ item[i] \in Live /\ item' = [item EXCEPT ![i] = IF i \in Draining THEN "draining" ELSE "down"]
     \/ item[i] = "draining" /\ item' = [item EXCEPT ![i] = "down"]
  /\ UNCHANGED <<state, components, cancelled, runVars, stops, callVars, expired, resVars, endVars>>

\* An accept error that is not temporary ends the accept loop of a server; it is
\* logged or dropped, and Mesa does not learn of it.
GoDeaf(i) ==
  /\ ~panicked /\ item[i] = "up"
  /\ item' = [item EXCEPT ![i] = "deaf"]
  /\ UNCHANGED <<state, components, cancelled, runVars, stops, callVars, expired, resVars, endVars>>

-----------------------------------------------------------------------------

RunStep ==
  RunBegin \/ StartItem \/ StartFails \/ RollbackStop \/ FinishStopped \/ CloseFailed \/ SetRunning

CallStep(c) ==
  WaitEnd(c) \/ StopNext(c) \/ CloseResources(c) \/ ShutdownTelemetry(c) \/ ShutdownEnd(c)

Next ==
  \/ RunStep \/ CancelContext
  \/ \E c \in Components : RegisterComponent(c)
  \/ \E c \in Everyone : ShutdownBegin(c) \/ CallStep(c)
  \/ \E c \in Callers : Expire(c)
  \/ \E i \in All : SelfStop(i)
  \/ \E i \in Elems(Servers) : GoDeaf(i)

Spec == Init /\ [][Next]_vars

\* Goroutines are scheduled, and a Start or a Stop returns.  Nobody has to call
\* Run or Shutdown, and no item has to stop by itself or to go deaf.
Fairness ==
  /\ WF_vars(run # "idle" /\ RunStep)
  /\ WF_vars(ShutdownBegin(Runner))
  /\ \A c \in Everyone : WF_vars(CallStep(c))

FairSpec == Spec /\ Fairness

-----------------------------------------------------------------------------
(* Properties *)

\* "Shutdown is safe to call more than once": no call closes shutdownDone after
\* another has, whoever else calls Shutdown and however Run ends.
NoPanic == ~panicked

\* Rank of the runtime states in the order they are declared.
Rank(s) == CASE s = "new" -> 0 [] s = "starting" -> 1 [] s = "running" -> 2
             [] s = "stopping" -> 3 [] s = "stopped" -> 4

\* State() never goes back: no writer of Mesa.state undoes what another wrote.
StateMovesForward == [][Rank(state') >= Rank(state)]_vars

\* Mesa calls Stop at most once per item, over all Shutdown calls and the
\* rollback of Run.
StopOnce == \A i \in All : stops[i] <= 1

\* The database, Redis and etcd outlive the items: when they are closed, each item
\* still up, deaf or not, has no Stop, or was asked to stop, or the deadline of a
\* caller has passed.
ResourcesOutliveItems ==
  ~resources => \A i \in All \cap Stoppable :
                  item[i] \in Live => stops[i] = 1 \/ \E c \in Callers : expired[c]

\* A Shutdown that returns nil has left nothing up that has a Stop, and nothing
\* open, unless Run failed to start and cleans up by itself.
NilMeansStopped ==
  \A c \in Everyone : caller[c] = "ok" /\ run \notin {"closing", "failed"} =>
    /\ \A i \in All \cap Stoppable : item[i] \notin Live
    /\ ~resources /\ ~telemetry

\* All Shutdown calls that end before their own deadline return the same error.
CallersAgree ==
  \A c \in Everyone :
    /\ caller[c] = "ok" => ~shutdownErr
    /\ caller[c] = "failed" => shutdownErr \/ expired[c]

\* A readiness probe answers OK only when everything was started and nothing has been
\* stopped: until the context is cancelled the resources are open and every item was
\* started and neither stops nor was asked to.  That a server still accepts is more than
\* it says: one that went deaf is ready, too.
ReadyMeansStarted ==
  Readiness /\ ~cancelled =>
    resources /\ \A i \in Elems(Items) : item[i] \in Live /\ stops[i] = 0

\* Every Shutdown call returns.
ShutdownReturns ==
  \A c \in Callers : (caller[c] # "idle") ~> (caller[c] \in {"ok", "failed"})

\* Run returns once its context is cancelled, and so after any Shutdown or failed
\* start, and the connections are closed: finishStopped, which says "stopped" first,
\* does not leave them open.
RunReturns ==
  (run \notin {"idle", "refused"} /\ cancelled)
    ~> ((run = "failed" \/ caller[Runner] \in {"ok", "failed"}) /\ ~resources)

=============================================================================
