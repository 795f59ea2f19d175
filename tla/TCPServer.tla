------------------------------ MODULE TCPServer ------------------------------
(***************************************************************************)
(* The TCP server (transport/tcp/server.go): Start opens a socket, installs *)
(* it as the listener and begins an accept loop and a goroutine that waits  *)
(* for the context.  Stop and that goroutine both call shutdown, which runs *)
(* once: it takes the listener and the connections tracked so far under mu, *)
(* and closes them outside of it, while the accept loop goes on.            *)
(***************************************************************************)
EXTENDS Integers, FiniteSets

CONSTANTS
  Starts,      \* calls of Start
  Stops,       \* calls of Stop
  Conns,       \* connections clients open
  MaxFaults    \* bound: accept errors that end an accept loop

None == "none"

ASSUME DisjointAssumption == Starts \cap Stops = {} /\ None \notin Starts \cup Conns
ASSUME FaultsAssumption == MaxFaults \in Nat

\* Whoever calls shutdown: Stop, and the waitForShutdown of each Start.
Actors == Starts \cup Stops

VARIABLES
  start,       \* per Start: where it is
  sock,        \* per Start: the socket it opened
  listener,    \* Server.listener: the Start that installed it
  accept,      \* per Start: its accept loop, with the connection it has in hand
  ctxDone,     \* the context is cancelled
  once,        \* Server.once
  actor,       \* per actor: where its call of shutdown is
  taken,       \* shutdown: the listener it took
  snap,        \* shutdown: connections it took and has not closed
  conns,       \* Server.conns
  phase,       \* per connection: where it is
  open,        \* per connection: not closed by the server
  faults,      \* faults so far
  lateStarts,  \* history: Starts that installed a listener after shutdown took its own
  lateConns    \* history: connections tracked after shutdown took its snapshot

startVars == <<start, sock, listener>>
shutVars == <<once, actor, taken, snap>>
connVars == <<conns, phase, open>>
vars == <<startVars, accept, ctxDone, shutVars, connVars, faults, lateStarts, lateConns>>

TypeOK ==
  /\ start \in [Starts -> {"idle", "listening", "ok", "failed"}]
  /\ sock \in [Starts -> {"none", "open", "closed"}]
  /\ listener \in Starts \cup {None}
  /\ accept \in [Starts -> [at : {"off", "accepting", "tracking", "ended"}, conn : Conns \cup {None}]]
  /\ ctxDone \in BOOLEAN
  /\ once \in {"free", "entered", "running", "done"}
  /\ actor \in [Actors -> {"idle", "leading", "waiting", "returned"}]
  /\ taken \in Starts \cup {None}
  /\ snap \subseteq Conns
  /\ conns \subseteq Conns
  /\ phase \in [Conns -> {"dialing", "accepted", "serving", "closing", "gone"}]
  /\ open \in [Conns -> BOOLEAN]
  /\ faults \in 0 .. MaxFaults
  /\ lateStarts \subseteq Starts
  /\ lateConns \subseteq Conns
  /\ \A s \in Starts : accept[s].at = "tracking" <=> accept[s].conn \in Conns

Loop(at) == [at |-> at, conn |-> None]

Init ==
  /\ start = [s \in Starts |-> "idle"]
  /\ sock = [s \in Starts |-> "none"]
  /\ listener = None
  /\ accept = [s \in Starts |-> Loop("off")]
  /\ ctxDone = FALSE
  /\ once = "free"
  /\ actor = [a \in Actors |-> "idle"]
  /\ taken = None
  /\ snap = {}
  /\ conns = {}
  /\ phase = [c \in Conns |-> "dialing"]
  /\ open = [c \in Conns |-> FALSE]
  /\ faults = 0
  /\ lateStarts = {}
  /\ lateConns = {}

-----------------------------------------------------------------------------
(* Start *)

\* Start up to mu: without a handler, or when net.Listen fails, it returns.
Listen(s) ==
  /\ start[s] = "idle"
  /\ \/ start' = [start EXCEPT ![s] = "listening"] /\ sock' = [sock EXCEPT ![s] = "open"]
     \/ start' = [start EXCEPT ![s] = "failed"] /\ UNCHANGED sock
  /\ UNCHANGED <<listener, accept, ctxDone, shutVars, connVars, faults, lateStarts, lateConns>>

\* Mutant: Discard_Open leaves the socket of a second Start open.
Discard_Open(s) == UNCHANGED sock
Discard(s) == sock' = [sock EXCEPT ![s] = "closed"]

\* The section under mu and what follows: a second Start gives its socket up.
Install(s) ==
  /\ start[s] = "listening"
  /\ \/ /\ listener # None
        /\ Discard(s)
        /\ start' = [start EXCEPT ![s] = "failed"]
        /\ UNCHANGED <<listener, accept, lateStarts>>
     \/ /\ listener = None
        /\ listener' = s
        /\ start' = [start EXCEPT ![s] = "ok"]
        /\ accept' = [accept EXCEPT ![s] = Loop("accepting")]
        /\ lateStarts' = IF once \in {"running", "done"} THEN lateStarts \cup {s} ELSE lateStarts
        /\ UNCHANGED sock
  /\ UNCHANGED <<ctxDone, shutVars, connVars, faults, lateConns>>

CancelContext ==
  /\ ~ctxDone
  /\ ctxDone' = TRUE
  /\ UNCHANGED <<startVars, accept, shutVars, connVars, faults, lateStarts, lateConns>>

-----------------------------------------------------------------------------
(* shutdown *)

\* Stop is called at any time, waitForShutdown of a Start goes on when the
\* context is done.
MayShutDown(a) == a \in Starts => start[a] = "ok" /\ ctxDone

\* Mutant: Enter_NoWait, where a flag takes the place of sync.Once.
Enter_NoWait(a) ==
  IF once = "free" THEN once' = "entered" /\ actor' = [actor EXCEPT ![a] = "leading"]
  ELSE actor' = [actor EXCEPT ![a] = "returned"] /\ UNCHANGED once
\* once.Do: the first call runs the function, which begins with close(closeCh);
\* the others wait until it has ended.
Enter(a) ==
  IF once = "free" THEN once' = "entered" /\ actor' = [actor EXCEPT ![a] = "leading"]
  ELSE actor' = [actor EXCEPT ![a] = "waiting"] /\ UNCHANGED once

ShutdownCall(a) ==
  /\ actor[a] = "idle"
  /\ MayShutDown(a)
  /\ Enter(a)
  /\ UNCHANGED <<startVars, accept, ctxDone, taken, snap, connVars, faults, lateStarts, lateConns>>

\* Mutant: Tracked_None takes no connection.
Tracked_None == {}
Tracked == conns

\* The section under mu.
Snapshot ==
  /\ once = "entered"
  /\ once' = "running"
  /\ taken' = listener
  /\ listener' = None
  /\ snap' = Tracked
  /\ UNCHANGED <<start, sock, accept, ctxDone, actor, connVars, faults, lateStarts, lateConns>>

\* listener.Close().
CloseListener ==
  /\ once = "running"
  /\ taken # None
  /\ sock' = [sock EXCEPT ![taken] = "closed"]
  /\ taken' = None
  /\ UNCHANGED <<start, listener, accept, ctxDone, once, actor, snap, connVars, faults,
                 lateStarts, lateConns>>

\* conn.Close() for one of the connections taken, in the map's order.
CloseConn(c) ==
  /\ once = "running"
  /\ taken = None
  /\ c \in snap
  /\ open' = [open EXCEPT ![c] = FALSE]
  /\ snap' = snap \ {c}
  /\ UNCHANGED <<startVars, accept, ctxDone, once, actor, taken, conns, phase, faults,
                 lateStarts, lateConns>>

\* The function given to once.Do returns, and with it the call that ran it.
ShutdownEnd(a) ==
  /\ once = "running"
  /\ actor[a] = "leading"
  /\ taken = None /\ snap = {}
  /\ once' = "done"
  /\ actor' = [actor EXCEPT ![a] = "returned"]
  /\ UNCHANGED <<startVars, accept, ctxDone, taken, snap, connVars, faults, lateStarts, lateConns>>

\* The other calls find once done.
ShutdownReturn(a) ==
  /\ actor[a] = "waiting"
  /\ once = "done"
  /\ actor' = [actor EXCEPT ![a] = "returned"]
  /\ UNCHANGED <<startVars, accept, ctxDone, once, taken, snap, connVars, faults, lateStarts, lateConns>>

-----------------------------------------------------------------------------
(* acceptLoop and handleConn *)

\* Accept returns a connection; the loop has it, and nobody else knows of it.
Accept(s, c) ==
  /\ accept[s].at = "accepting"
  /\ sock[s] = "open"
  /\ phase[c] = "dialing"
  /\ accept' = [accept EXCEPT ![s] = [at |-> "tracking", conn |-> c]]
  /\ phase' = [phase EXCEPT ![c] = "accepted"]
  /\ open' = [open EXCEPT ![c] = TRUE]
  /\ UNCHANGED <<startVars, ctxDone, shutVars, conns, faults, lateStarts, lateConns>>

AfterError(s) == accept' = [accept EXCEPT ![s] = Loop("ended")]

\* Mutant: EndsOnClose_Retry takes every error for a temporary one.
EndsOnClose_Retry(s) == FALSE
EndsOnClose(s) == sock[s] = "closed"

\* Accept fails: the listener is closed, or an error that is not temporary ends
\* the loop while the server keeps its listener.  A temporary error changes nothing.
AcceptError(s) ==
  /\ accept[s].at = "accepting"
  /\ \/ EndsOnClose(s) /\ UNCHANGED faults
     \/ sock[s] = "open" /\ faults < MaxFaults /\ faults' = faults + 1
  /\ AfterError(s)
  /\ UNCHANGED <<startVars, ctxDone, shutVars, connVars, lateStarts, lateConns>>

\* trackConn, and the goroutine of the connection.  Nothing looks at closeCh here.
Track(s) ==
  LET c == accept[s].conn
  IN /\ accept[s].at = "tracking"
     /\ conns' = conns \cup {c}
     /\ phase' = [phase EXCEPT ![c] = "serving"]
     /\ accept' = [accept EXCEPT ![s] = Loop("accepting")]
     /\ lateConns' = IF once \in {"running", "done"} THEN lateConns \cup {c} ELSE lateConns
     /\ UNCHANGED <<startVars, ctxDone, shutVars, open, faults, lateStarts>>

\* The handler returns, for a reason of its own or because its connection is
\* closed, and handleConn closes the connection.
HandlerEnd(c) ==
  /\ phase[c] = "serving"
  /\ phase' = [phase EXCEPT ![c] = "closing"]
  /\ open' = [open EXCEPT ![c] = FALSE]
  /\ UNCHANGED <<startVars, accept, ctxDone, shutVars, conns, faults, lateStarts, lateConns>>

\* Mutant: Forget_Never leaves the connection in the map.
Forget_Never(c) == UNCHANGED conns
Forget(c) == conns' = conns \ {c}

\* untrackConn.
Untrack(c) ==
  /\ phase[c] = "closing"
  /\ Forget(c)
  /\ phase' = [phase EXCEPT ![c] = "gone"]
  /\ UNCHANGED <<startVars, accept, ctxDone, shutVars, open, faults, lateStarts, lateConns>>

-----------------------------------------------------------------------------

StartStep(s) == Install(s) \/ AcceptError(s) \/ Track(s)

ShutdownStep ==
  \/ Snapshot \/ CloseListener \/ \E c \in Conns : CloseConn(c)
  \/ \E a \in Actors : ShutdownEnd(a) \/ ShutdownReturn(a)

Next ==
  \/ \E s \in Starts : Listen(s) \/ StartStep(s) \/ \E c \in Conns : Accept(s, c)
  \/ CancelContext
  \/ \E a \in Actors : ShutdownCall(a)
  \/ ShutdownStep
  \/ \E c \in Conns : HandlerEnd(c) \/ Untrack(c)

Spec == Init /\ [][Next]_vars

\* Goroutines are scheduled, and a handler returns when its connection is closed
\* under it.  Nobody has to connect, to stop the server or to cancel its context.
Fairness ==
  /\ \A s \in Starts : WF_vars(StartStep(s)) /\ WF_vars(ShutdownCall(s))
  /\ WF_vars(ShutdownStep)
  /\ \A a \in Actors : WF_vars(ShutdownReturn(a))
  /\ \A c \in Conns : WF_vars(~open[c] /\ HandlerEnd(c)) /\ WF_vars(Untrack(c))

FairSpec == Spec /\ Fairness

-----------------------------------------------------------------------------
(* Properties *)

Returned == \E a \in Actors : actor[a] = "returned"

\* No socket is left open: a Start that failed has closed its own, and when any
\* Stop has returned, the first or another, so has the one that was served.  A
\* listener installed after shutdown took its own is the exception: once.Do has run.
NoSocketLeaks ==
  \A s \in Starts :
    /\ start[s] = "failed" => sock[s] # "open"
    /\ start[s] = "ok" /\ Returned /\ s \notin lateStarts => sock[s] = "closed"

\* When any Stop has returned, every connection tracked by then is closed.  Those
\* accepted but tracked after the snapshot are not, and nothing will close them.
StopClosesConns ==
  Returned => \A c \in Conns : open[c] => c \in lateConns \/ phase[c] = "accepted"

\* The map holds the connections being served and no other, whatever shutdown does:
\* no connection that is over is left in it.
TrackedServed == conns = {c \in Conns : phase[c] \in {"serving", "closing"}}

\* Once shutdown is called the server ends: the call returns, the accept loop ends
\* and so does the handler of every connection shutdown knew of.
ServerEnds ==
  (once # "free") ~>
    /\ once = "done"
    /\ \A s \in Starts \ lateStarts : accept[s].at \in {"off", "ended"}
    /\ \A c \in Conns : phase[c] \in {"serving", "closing"} => c \in lateConns

=============================================================================
