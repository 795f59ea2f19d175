----------------------------- MODULE HTTPServer -----------------------------
(***************************************************************************)
(* The HTTP server (transport/http/http.go) from Start to the end of its   *)
(* last request, with the way Mesa uses it (mesa.go Shutdown): cancel the  *)
(* runtime context, call Stop, close the connections the handlers use.     *)
(* Requests pass the handler chain, with RateLimit, and Authenticate on    *)
(* the routes that have it, and are counted in the metrics registry, whose *)
(* mutex a scrape of /metrics holds while it writes its answer.  net/http  *)
(* and gin are external: Shutdown lets no new request in and returns when  *)
(* none is left, or at its deadline.                                       *)
(***************************************************************************)
EXTENDS RateLimit

CONSTANTS
  Requests,    \* requests that may arrive
  Limited,     \* those for a route behind a RateLimit that has a rate
  Guarded,     \* those for a route behind s.auth
  Scrapes      \* those for /metrics

ASSUME RequestsAssumption == Guarded \cup Limited \cup Scrapes \subseteq Requests

VARIABLES
  start,       \* where Start is: idle, listening, serving, failed
  socket,      \* the TCP listener: none, open, closed
  listener,    \* s.listener is set
  serve,       \* the goroutine in Serve: off, ready, running, ended
  inShutdown,  \* Server.Shutdown has begun
  cancelled,   \* the runtime context is cancelled
  stop,        \* the two callers of Stop
  expired,     \* the deadline of Mesa's Shutdown has passed
  resources,   \* Mesa's database, Redis and etcd clients are open
  request      \* where each request is

life == <<start, socket, listener, serve, inShutdown, cancelled, stop, expired, resources>>
vars == <<life, request, clock, bucket>>

\* Stop is called by the goroutine Start leaves behind and by Mesa.
Stoppers == {"self", "mesa"}
StopAt == {"idle", "draining", "nil", "early", "error"}
InChain == {"limits", "auth", "handler", "writing", "counting"}
Answered == {"answered", "panicked"}

TypeOK ==
  /\ start \in {"idle", "listening", "serving", "failed"}
  /\ socket \in {"none", "open", "closed"} /\ serve \in {"off", "ready", "running", "ended"}
  /\ {listener, inShutdown, cancelled, expired, resources} \subseteq BOOLEAN
  /\ stop \in [Stoppers -> StopAt]
  /\ request \in [Requests -> {"none", "refused"} \cup InChain \cup Answered]

Init ==
  /\ start = "idle" /\ socket = "none" /\ serve = "off"
  /\ listener = FALSE /\ inShutdown = FALSE
  /\ cancelled = FALSE /\ expired = FALSE /\ resources = TRUE
  /\ stop = [s \in Stoppers |-> "idle"]
  /\ request = [r \in Requests |-> "none"]
  /\ LimitInit

InFlight == {r \in Requests : request[r] \in InChain}

-----------------------------------------------------------------------------
(* Start, Stop and the goroutines *)

\* net.Listen, which may fail.
Listen ==
  /\ start = "idle"
  /\ \/ start' = "listening" /\ socket' = "open"
     \/ start' = "failed" /\ UNCHANGED socket
  /\ UNCHANGED <<listener, serve, inShutdown, cancelled, stop, expired, resources,
                 request, clock, bucket>>

\* Start sets the listener and leaves two goroutines behind.
Install ==
  /\ start = "listening"
  /\ start' = "serving" /\ listener' = TRUE /\ serve' = "ready"
  /\ UNCHANGED <<socket, inShutdown, cancelled, stop, expired, resources,
                 request, clock, bucket>>

\* Serve begins; after a Shutdown it returns at once, and closes the listener.
Serve ==
  /\ serve = "ready"
  /\ IF inShutdown
     THEN serve' = "ended" /\ socket' = "closed"
     ELSE serve' = "running" /\ UNCHANGED socket
  /\ UNCHANGED <<start, listener, inShutdown, cancelled, stop, expired, resources,
                 request, clock, bucket>>

\* Who may call Stop once Start has returned and the context is cancelled: its
\* goroutine, and stopItems until the deadline.
Calls(s) == cancelled /\ start = "serving" /\ (s = "mesa" => ~expired)

\* What Stop does once it has taken the listener: Shutdown closes it and the
\* accept loop ends.
\* Mutant: CloseListener_Open leaves the listener to the accept loop.
CloseListener_Open ==
  /\ inShutdown' = TRUE
  /\ UNCHANGED <<socket, serve>>
CloseListener ==
  /\ inShutdown' = TRUE
  /\ socket' = IF serve = "running" THEN "closed" ELSE socket
  /\ serve' = IF serve = "running" THEN "ended" ELSE serve

\* Stop takes the listener under mu; the second call finds none and returns nil.
Stop(s) ==
  /\ stop[s] = "idle" /\ Calls(s)
  /\ IF listener
     THEN /\ listener' = FALSE
          /\ stop' = [stop EXCEPT ![s] = "draining"]
          /\ CloseListener
     ELSE /\ stop' = [stop EXCEPT ![s] = "early"]
          /\ UNCHANGED <<listener, inShutdown, socket, serve>>
  /\ UNCHANGED <<start, cancelled, expired, resources, request, clock, bucket>>

\* Shutdown may return nil: no connection is active.
\* Mutant: Drained_Listener waits for the accept loop and not for the requests.
Drained_Listener == serve # "running"
Drained == InFlight = {}

StopReturns(s) ==
  /\ stop[s] = "draining"
  /\ \/ Drained /\ stop' = [stop EXCEPT ![s] = "nil"]
     \/ s = "mesa" /\ expired /\ stop' = [stop EXCEPT ![s] = "error"]
  /\ UNCHANGED <<start, socket, listener, serve, inShutdown, cancelled, expired, resources,
                 request, clock, bucket>>

\* Mesa's side: the context is cancelled by a signal, by Run's caller, or by
\* Shutdown, whose own deadline may pass.
Cancel ==
  /\ ~cancelled
  /\ cancelled' = TRUE
  /\ UNCHANGED <<start, socket, listener, serve, inShutdown, stop, expired, resources,
                 request, clock, bucket>>

Expire ==
  /\ cancelled /\ ~expired
  /\ expired' = TRUE
  /\ UNCHANGED <<start, socket, listener, serve, inShutdown, cancelled, stop, resources,
                 request, clock, bucket>>

\* closeResources, after stopItems has called Stop or met the deadline, or after a
\* failed Start, which is not followed by Stop.
CloseResources ==
  /\ resources
  /\ \/ stop["mesa"] \in {"nil", "early", "error"}
     \/ start = "serving" /\ stop["mesa"] = "idle" /\ expired
     \/ start = "failed"
  /\ resources' = FALSE
  /\ UNCHANGED <<start, socket, listener, serve, inShutdown, cancelled, stop, expired,
                 request, clock, bucket>>

-----------------------------------------------------------------------------
(* Requests *)

Move(r, to) == request' = [request EXCEPT ![r] = to]

\* A request arrives, over a connection the accept loop takes.
Arrive(r) ==
  /\ request[r] = "none"
  /\ \/ serve = "running" /\ Move(r, "limits")
     \/ socket = "closed" /\ Move(r, "refused")
  /\ UNCHANGED <<life, clock, bucket>>

\* RateLimit.
Limits(r) ==
  /\ request[r] = "limits"
  /\ LET next == IF r \in Guarded THEN "auth" ELSE "handler"
     IN  \/ r \notin Limited /\ Move(r, next) /\ UNCHANGED bucket
         \/ r \in Limited /\ Admit /\ Move(r, next)
         \/ r \in Limited /\ Refuse /\ Move(r, "counting")
  /\ UNCHANGED <<life, clock>>

\* Authenticate and AuthMiddleware: an excluded path passes, a credential that is
\* missing, unknown or without a subject is answered 401.
Authenticate(r) ==
  /\ request[r] = "auth"
  /\ Move(r, "handler") \/ Move(r, "counting")
  /\ UNCHANGED <<life, clock, bucket>>

\* The application's handler returns, or panics: then recovery answers 500 and the
\* request is not counted.
HandlerEnds(r) ==
  /\ request[r] = "handler" /\ r \notin Scrapes
  /\ Move(r, "counting") \/ Move(r, "panicked")
  /\ UNCHANGED <<life, clock, bucket>>

\* Nobody holds the mutex of the metrics registry for longer than an addition.
RegistryFree == ~\E r \in Requests : request[r] = "writing"

\* The handler of /metrics takes the mutex, writes to its client and lets it go.
Scrape(r) ==
  /\ r \in Scrapes
  /\ \/ request[r] = "handler" /\ RegistryFree /\ Move(r, "writing")
     \/ request[r] = "writing" /\ Move(r, "counting")
  /\ UNCHANGED <<life, clock, bucket>>

\* telemetryMiddleware adds to the counters when the rest of the chain is done.
Count(r) ==
  /\ request[r] = "counting" /\ RegistryFree
  /\ Move(r, "answered")
  /\ UNCHANGED <<life, clock, bucket>>

TimePasses == Tick /\ UNCHANGED <<life, request, bucket>>

RequestStep(r) == Limits(r) \/ Authenticate(r) \/ HandlerEnds(r) \/ Scrape(r) \/ Count(r)
StopStep(s) == Stop(s) \/ StopReturns(s)

Next ==
  \/ Listen \/ Install \/ Serve
  \/ \E s \in Stoppers : StopStep(s)
  \/ Cancel \/ Expire \/ CloseResources
  \/ \E r \in Requests : Arrive(r) \/ RequestStep(r)
  \/ TimePasses

Spec == Init /\ [][Next]_vars

\* Goroutines are scheduled, handlers return and WriteTimeout ends a write; nobody
\* has to cancel, and no request has to arrive.
Fairness ==
  /\ WF_vars(Install) /\ WF_vars(Serve)
  /\ \A s \in Stoppers : WF_vars(StopStep(s))
  /\ WF_vars(CloseResources)
  /\ \A r \in Requests : WF_vars(RequestStep(r))

FairSpec == Spec /\ Fairness

-----------------------------------------------------------------------------
(* Properties *)

\* Mesa closes what handlers work with under a request only if the server's own
\* goroutine took the listener first, so that Mesa's Stop returned at once, or if
\* the deadline of Shutdown had passed.
ResourcesOutliveRequests ==
  ~resources /\ InFlight # {} => stop["mesa"] = "early" \/ expired

\* After a cancelled context the server ends by itself: the socket is closed, also
\* when Stop overtook Serve, and every request that was let in is answered, also
\* those that wait for a scrape.
ServerDrains ==
  (cancelled /\ start = "serving") ~> (socket = "closed" /\ InFlight = {} /\ ~resources)

=============================================================================
