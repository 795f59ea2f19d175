---------------------------- MODULE PubSubRouter ----------------------------
(***************************************************************************)
(* Subscribing to pub/sub (pubsub/router.go, pubsub/service.go) while the  *)
(* service is being started.  Subscribe reads started without a lock and   *)
(* then adds to the router under its mutex; Start sets started, freezes    *)
(* the router and lists it, in three separate steps.                       *)
(***************************************************************************)
CONSTANTS
  Subscribers,   \* goroutines, each with a subscription of its own to add
  Invalid,       \* those whose subscription lacks a topic, a group or a handler
  Clashing,      \* those whose topic and group are the same once normalised
  Starters       \* goroutines that call Start

ASSUME SubscribersAssumption == Invalid \cup Clashing \subseteq Subscribers

VARIABLES
  started,   \* Service.started
  frozen,    \* Router.started
  subs,      \* Router.subs, by who added them
  call,      \* where each Subscribe is
  start,     \* where each Start is
  listed,    \* what Start listed and has not begun to serve
  served     \* subscriptions whose loops were started

routerVars == <<started, frozen, subs, call, start, listed, served>>

RouterInit ==
  /\ started = FALSE /\ frozen = FALSE
  /\ subs = {} /\ listed = {} /\ served = {}
  /\ call = [s \in Subscribers |-> "idle"]
  /\ start = [p \in Starters |-> "idle"]

\* subscriptionKey of two subscriptions is the same.
SameKey(s, t) == s = t \/ {s, t} \subseteq Clashing

\* Subscribe looks whether the service is started.
Subscribe(s) ==
  /\ call[s] = "idle"
  /\ call' = [call EXCEPT ![s] = IF started THEN "refused" ELSE "checked"]
  /\ UNCHANGED <<started, frozen, subs, start, listed, served>>

\* What Router.Add accepts.
\* Mutant: Accepts_Frozen leaves the check to Subscribe alone.
Accepts_Frozen(s) == s \notin Invalid /\ ~\E t \in subs : SameKey(s, t)
Accepts(s) == s \notin Invalid /\ ~frozen /\ ~\E t \in subs : SameKey(s, t)

Add(s) ==
  /\ call[s] = "checked"
  /\ IF Accepts(s)
     THEN /\ subs' = subs \cup {s}
          /\ call' = [call EXCEPT ![s] = "added"]
     ELSE /\ call' = [call EXCEPT ![s] = "refused"]
          /\ UNCHANGED subs
  /\ UNCHANGED <<started, frozen, start, listed, served>>

\* The compare-and-swap: one Start wins, for good, even if it fails later.
StartClaim(p) ==
  /\ start[p] = "idle"
  /\ start' = [start EXCEPT ![p] = IF started THEN "refused" ELSE "claimed"]
  /\ started' = TRUE
  /\ UNCHANGED <<frozen, subs, call, listed, served>>

Freeze(p) ==
  /\ start[p] = "claimed"
  /\ frozen' = TRUE
  /\ start' = [start EXCEPT ![p] = "frozen"]
  /\ UNCHANGED <<started, subs, call, listed, served>>

List(p) ==
  /\ start[p] = "frozen"
  /\ listed' = subs
  /\ start' = [start EXCEPT ![p] = "serving"]
  /\ UNCHANGED <<started, frozen, subs, call, served>>

\* One listed subscription, in map order: its group is ensured and its loops are
\* started, or Start fails, and leaves the loops it has started to its context.
Serve(p) ==
  /\ start[p] = "serving"
  /\ \E s \in listed :
       \/ /\ served' = served \cup {s}
          /\ listed' = listed \ {s}
          /\ UNCHANGED start
       \/ /\ start' = [start EXCEPT ![p] = "failed"]
          /\ UNCHANGED <<served, listed>>
  /\ UNCHANGED <<started, frozen, subs, call>>

StartReturns(p) ==
  /\ start[p] = "serving" /\ listed = {}
  /\ start' = [start EXCEPT ![p] = "done"]
  /\ UNCHANGED <<started, frozen, subs, call, listed, served>>

RouterNext ==
  \/ \E s \in Subscribers : Subscribe(s) \/ Add(s)
  \/ \E p \in Starters : StartClaim(p) \/ Freeze(p) \/ List(p) \/ Serve(p) \/ StartReturns(p)

-----------------------------------------------------------------------------
(* Properties *)

\* No Subscribe that returned nil is forgotten by the Start it raced with: once
\* Start has returned nil the loops of just the accepted subscriptions run, and no
\* topic and group has two of them.
AcceptedIsServed ==
  (\E p \in Starters : start[p] = "done") =>
    /\ served = {s \in Subscribers : call[s] = "added"}
    /\ \A s, t \in served : SameKey(s, t) => s = t

=============================================================================
