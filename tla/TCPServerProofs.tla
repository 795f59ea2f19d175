--------------------------- MODULE TCPServerProofs ---------------------------
(***************************************************************************)
(* Machine-checked proofs about TCPServer, for every number of Start and   *)
(* Stop calls and of connections.                                          *)
(***************************************************************************)
EXTENDS TCPServer, TLAPS

-----------------------------------------------------------------------------
(* Type correctness *)

LEMMA TypeStep == TypeOK /\ [Next]_vars => TypeOK'
<1> SUFFICES ASSUME TypeOK, [Next]_vars PROVE TypeOK'
  OBVIOUS
<1> USE DEF TypeOK, startVars, shutVars, connVars
\* An accept loop is a record, and one without a connection has None.
<1>l. /\ \A at \in {"off", "accepting", "tracking", "ended"} :
           Loop(at) \in [at : {"off", "accepting", "tracking", "ended"}, conn : Conns \cup {None}]
      /\ \A at : Loop(at).at = at /\ Loop(at).conn = None /\ None \notin Conns
  BY DisjointAssumption DEF Loop
<1>1. ASSUME NEW s \in Starts, Listen(s) PROVE TypeOK'
  BY <1>1 DEF Listen
<1>2. ASSUME NEW s \in Starts, Install(s) PROVE TypeOK'
  <2>1. start' \in [Starts -> {"idle", "listening", "ok", "failed"}]
    BY <1>2 DEF Install
  <2>2. sock' \in [Starts -> {"none", "open", "closed"}]
    BY <1>2 DEF Install, Discard
  <2>3. listener' \in Starts \cup {None} /\ lateStarts' \subseteq Starts
    BY <1>2 DEF Install
  <2>4. /\ accept' \in [Starts -> [at : {"off", "accepting", "tracking", "ended"}, conn : Conns \cup {None}]]
        /\ \A t \in Starts : accept'[t].at = "tracking" <=> accept'[t].conn \in Conns
    BY <1>2, <1>l DEF Install
  <2>5. UNCHANGED <<ctxDone, shutVars, connVars, faults, lateConns>>
    BY <1>2 DEF Install
  <2> QED BY <2>1, <2>2, <2>3, <2>4, <2>5
<1>3. CASE CancelContext
  BY <1>3 DEF CancelContext
<1>4. ASSUME NEW a \in Actors, ShutdownCall(a) PROVE TypeOK'
  BY <1>4 DEF ShutdownCall, Enter
<1>5. CASE Snapshot
  BY <1>5 DEF Snapshot, Tracked
<1>6. CASE CloseListener
  BY <1>6 DEF CloseListener
<1>7. ASSUME NEW c \in Conns, CloseConn(c) PROVE TypeOK'
  BY <1>7 DEF CloseConn
<1>8. ASSUME NEW a \in Actors, ShutdownEnd(a) \/ ShutdownReturn(a) PROVE TypeOK'
  BY <1>8 DEF ShutdownEnd, ShutdownReturn
<1>9. ASSUME NEW s \in Starts, NEW c \in Conns, Accept(s, c) PROVE TypeOK'
  BY <1>9 DEF Accept
<1>10. ASSUME NEW s \in Starts, AcceptError(s) PROVE TypeOK'
  <2>1. faults' \in 0 .. MaxFaults
    BY <1>10, FaultsAssumption DEF AcceptError
  <2> QED BY <1>10, <1>l, <2>1 DEF AcceptError, AfterError
<1>11. ASSUME NEW s \in Starts, Track(s) PROVE TypeOK'
  <2>1. accept[s].conn \in Conns
    BY <1>11 DEF Track
  <2> QED BY <1>11, <1>l, <2>1 DEF Track
<1>12. ASSUME NEW c \in Conns, HandlerEnd(c) \/ Untrack(c) PROVE TypeOK'
  BY <1>12 DEF HandlerEnd, Untrack, Forget
<1>13. CASE UNCHANGED vars
  BY <1>13 DEF vars
<1> QED
  BY <1>1, <1>2, <1>3, <1>4, <1>5, <1>6, <1>7, <1>8, <1>9, <1>10, <1>11, <1>12, <1>13
  DEF Next, StartStep, ShutdownStep

\* Every reachable state is well typed.
THEOREM TypeCorrect == Spec => []TypeOK
<1>1. Init => TypeOK
  <2> SUFFICES ASSUME Init PROVE TypeOK
    OBVIOUS
  <2>1. accept \in [Starts -> [at : {"off", "accepting", "tracking", "ended"}, conn : Conns \cup {None}]]
    BY DEF Init, Loop
  <2>2. \A s \in Starts : accept[s].at = "off" /\ accept[s].conn \notin Conns
    BY DisjointAssumption DEF Init, Loop
  <2>3. faults \in 0 .. MaxFaults
    BY FaultsAssumption DEF Init
  <2> QED BY <2>1, <2>2, <2>3 DEF Init, TypeOK
<1> QED BY <1>1, TypeStep, PTL DEF Spec

-----------------------------------------------------------------------------
(* Sockets *)

\* A socket is open from net.Listen on, until its Start gives up or it is closed,
\* and the listener, until it is closed, is that of a Start that succeeded.
Sockets ==
  /\ \A s \in Starts : start[s] = "idle" => sock[s] = "none"
  /\ \A s \in Starts : listener = s \/ taken = s => start[s] = "ok"
  /\ \A s \in Starts : start[s] = "failed" => sock[s] # "open"

\* Where the listener of a Start is that was not late: installed until shutdown takes
\* it, then in the hands of shutdown, and closed in the end.
Served ==
  \A s \in Starts : start[s] = "ok" /\ s \notin lateStarts =>
    /\ once \in {"free", "entered"} => listener = s
    /\ once = "running" => taken = s \/ sock[s] = "closed"
    /\ once = "done" => sock[s] = "closed"

\* Nobody returns from shutdown before it has ended.
ReturnsLast == Returned => once = "done"

SocketInv == Sockets /\ Served /\ ReturnsLast

LEMMA SocketStep == TypeOK /\ SocketInv /\ [Next]_vars => SocketInv'
<1> SUFFICES ASSUME TypeOK, SocketInv, [Next]_vars PROVE SocketInv'
  OBVIOUS
<1> USE DEF TypeOK, startVars, shutVars, connVars
<1> USE DEF SocketInv, Sockets, Served, ReturnsLast, Returned
<1>1. ASSUME NEW s \in Starts, Listen(s) PROVE SocketInv'
  <2>1. \A t \in Starts : t # s => start'[t] = start[t] /\ sock'[t] = sock[t]
    BY <1>1 DEF Listen
  <2>2. \/ start'[s] = "listening" /\ sock'[s] = "open"
        \/ start'[s] = "failed" /\ sock'[s] = "none"
    BY <1>1 DEF Listen
  <2>3. UNCHANGED <<listener, once, taken, actor, lateStarts>>
    BY <1>1 DEF Listen
  <2>4. Sockets'
    <3>1. start[s] = "idle"
      BY <1>1 DEF Listen
    <3>2. \A t \in Starts : start'[t] = "idle" => sock'[t] = "none"
      BY <2>1, <2>2
    <3>3. \A t \in Starts : start'[t] = "failed" => sock'[t] # "open"
      BY <2>1, <2>2
    <3>4. \A t \in Starts : listener' = t \/ taken' = t => start'[t] = "ok"
      BY <2>1, <2>3, <3>1
    <3> QED BY <3>2, <3>3, <3>4
  <2>5. Served'
    BY <2>1, <2>2, <2>3
  <2> QED BY <2>3, <2>4, <2>5
<1>2. ASSUME NEW s \in Starts, Install(s) PROVE SocketInv'
  <2>1. Sockets'
    <3>1. \A t \in Starts : t # s => start'[t] = start[t] /\ sock'[t] = sock[t]
      BY <1>2 DEF Install, Discard
    <3>2. (start'[s] = "failed" /\ sock'[s] = "closed") \/ start'[s] = "ok"
      BY <1>2 DEF Install, Discard
    <3>3. \A t \in Starts : listener' = t \/ taken' = t => start'[t] = "ok"
      BY <1>2 DEF Install
    <3> QED BY <3>1, <3>2, <3>3
  <2>2. ReturnsLast'
    BY <1>2 DEF Install
  <2>3. CASE listener # None
    <3>1. /\ start' = [start EXCEPT ![s] = "failed"] /\ sock' = [sock EXCEPT ![s] = "closed"]
          /\ UNCHANGED <<listener, lateStarts, once, taken>>
      BY <1>2, <2>3 DEF Install, Discard
    <3>2. Served'
      BY <3>1
    <3> QED BY <2>1, <2>2, <3>2
  \* Nobody has the listener: every Start that was not late has lost its own to shutdown.
  <2>4. CASE listener = None
    <3>1. /\ start' = [start EXCEPT ![s] = "ok"] /\ listener' = s
          /\ lateStarts' = IF once \in {"running", "done"} THEN lateStarts \cup {s} ELSE lateStarts
          /\ UNCHANGED <<sock, once, taken>>
      BY <1>2, <2>4 DEF Install
    <3>2. listener \notin Starts
      BY <2>4, DisjointAssumption
    <3>3. Served'
      BY <3>1, <3>2
    <3> QED BY <2>1, <2>2, <3>3
  <2> QED BY <2>3, <2>4
<1>4. ASSUME NEW a \in Actors, ShutdownCall(a) PROVE SocketInv'
  BY <1>4 DEF ShutdownCall, Enter
<1>5. CASE Snapshot
  BY <1>5, DisjointAssumption DEF Snapshot
<1>6. CASE CloseListener
  <2>1. taken \in Starts /\ taken' = None /\ once = "running"
        /\ UNCHANGED <<start, listener, once, actor, lateStarts>>
    BY <1>6 DEF CloseListener
  <2>2. \A t \in Starts : sock'[t] = IF t = taken THEN "closed" ELSE sock[t]
    BY <1>6, <2>1 DEF CloseListener
  <2>3. \A t \in Starts : start[t] # "idle" \/ t # taken
    OBVIOUS
  <2>4. Sockets'
    BY <2>1, <2>2, <2>3, DisjointAssumption
  <2>5. Served'
    BY <2>1, <2>2
  <2> QED BY <2>1, <2>4, <2>5
<1>8. ASSUME NEW a \in Actors, ShutdownEnd(a) \/ ShutdownReturn(a) PROVE SocketInv'
  BY <1>8, DisjointAssumption DEF ShutdownEnd, ShutdownReturn
<1>9. ASSUME NEW c \in Conns, CloseConn(c) \/ HandlerEnd(c) \/ Untrack(c) PROVE SocketInv'
  BY <1>9 DEF CloseConn, HandlerEnd, Untrack
<1>10. ASSUME NEW s \in Starts,
              AcceptError(s) \/ Track(s) \/ \E c \in Conns : Accept(s, c)
       PROVE  SocketInv'
  BY <1>10 DEF AcceptError, Track, Accept
<1>11. CASE CancelContext \/ UNCHANGED vars
  BY <1>11 DEF CancelContext, vars
<1> QED
  BY <1>1, <1>2, <1>4, <1>5, <1>6, <1>8, <1>9, <1>10, <1>11 DEF Next, StartStep, ShutdownStep

LEMMA SocketInvariant == Spec => [](TypeOK /\ SocketInv)
<1>1. Init => SocketInv
  BY DisjointAssumption DEF Init, SocketInv, Sockets, Served, ReturnsLast, Returned
<1> QED BY <1>1, TypeCorrect, SocketStep, PTL DEF Spec

\* A Start that failed has closed its socket, and when any Stop has returned the
\* socket that was served is closed, but for a Start that came after shutdown.
THEOREM NoSocketIsLeaked == Spec => []NoSocketLeaks
<1>1. TypeOK /\ SocketInv => NoSocketLeaks
  BY DEF SocketInv, Sockets, Served, ReturnsLast, NoSocketLeaks
<1> QED BY <1>1, SocketInvariant, PTL

-----------------------------------------------------------------------------
(* Connections *)

\* An open connection is one that was accepted and whose handler has not returned.
OpenInUse == \A c \in Conns : open[c] => phase[c] \in {"accepted", "serving"}

\* Shutdown has taken the connections it has to close, and closed those it has let go.
Taken ==
  once \in {"running", "done"} =>
    \A c \in Conns : open[c] /\ phase[c] = "serving" =>
      c \in lateConns \/ (once = "running" /\ c \in snap)

ConnInv == OpenInUse /\ TrackedServed /\ Taken

LEMMA ConnStep == TypeOK /\ ConnInv /\ [Next]_vars => ConnInv'
<1> SUFFICES ASSUME TypeOK, ConnInv, [Next]_vars PROVE ConnInv'
  OBVIOUS
<1> USE DEF TypeOK, startVars, shutVars, connVars
<1> USE DEF ConnInv, OpenInUse, TrackedServed, Taken
<1>1. ASSUME NEW s \in Starts, Listen(s) \/ Install(s) \/ AcceptError(s) PROVE ConnInv'
  BY <1>1 DEF Listen, Install, AcceptError
<1>2. ASSUME NEW s \in Starts, NEW c \in Conns, Accept(s, c) PROVE ConnInv'
  BY <1>2 DEF Accept
<1>3. ASSUME NEW s \in Starts, Track(s) PROVE ConnInv'
  <2>1. accept[s].conn \in Conns
    BY <1>3 DEF Track
  <2> QED BY <1>3, <2>1 DEF Track
<1>4. ASSUME NEW a \in Actors, ShutdownCall(a) PROVE ConnInv'
  BY <1>4 DEF ShutdownCall, Enter
<1>5. CASE Snapshot
  BY <1>5 DEF Snapshot, Tracked
<1>6. CASE CloseListener
  BY <1>6 DEF CloseListener
<1>7. ASSUME NEW c \in Conns, CloseConn(c) PROVE ConnInv'
  BY <1>7 DEF CloseConn
<1>8. ASSUME NEW a \in Actors, ShutdownEnd(a) \/ ShutdownReturn(a) PROVE ConnInv'
  BY <1>8 DEF ShutdownEnd, ShutdownReturn
<1>9. ASSUME NEW c \in Conns, HandlerEnd(c) \/ Untrack(c) PROVE ConnInv'
  BY <1>9 DEF HandlerEnd, Untrack, Forget
<1>10. CASE CancelContext \/ UNCHANGED vars
  BY <1>10 DEF CancelContext, vars
<1> QED
  BY <1>1, <1>2, <1>3, <1>4, <1>5, <1>6, <1>7, <1>8, <1>9, <1>10 DEF Next, StartStep, ShutdownStep

LEMMA ConnInvariant == Spec => [](TypeOK /\ SocketInv /\ ConnInv)
<1>1. Init => ConnInv
  BY DEF Init, ConnInv, OpenInUse, TrackedServed, Taken
<1> QED BY <1>1, SocketInvariant, ConnStep, PTL DEF Spec

\* The map of connections holds those being served and no other.
THEOREM MapIsExact == Spec => []TrackedServed
<1>1. ConnInv => TrackedServed
  BY DEF ConnInv
<1> QED BY <1>1, ConnInvariant, PTL

\* When any Stop has returned, every connection that was tracked when shutdown took
\* its snapshot is closed.
THEOREM StopClosesConnections == Spec => []StopClosesConns
<1>1. SocketInv /\ ConnInv => StopClosesConns
  BY DEF SocketInv, ReturnsLast, ConnInv, OpenInUse, Taken, StopClosesConns
<1> QED BY <1>1, ConnInvariant, PTL

=============================================================================
