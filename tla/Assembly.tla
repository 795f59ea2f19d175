------------------------------ MODULE Assembly ------------------------------
(***************************************************************************)
(* From options to subscriptions: New builds the Mesa (MesaNew), and an    *)
(* application that GetPubSub gives the service subscribes with it while   *)
(* the runtime starts it (PubSubRouter).                                   *)
(***************************************************************************)
EXTENDS MesaNew, PubSubRouter

allVars == <<vars, routerVars>>

AssemblyInit == Init /\ RouterInit

Build == Next /\ UNCHANGED routerVars

\* GetPubSub: GetComponent of the default name, if what is found there is the pub/sub
\* service.
GetPubSub == "pubsub" \in GetComponent("pubsub")

Use ==
  /\ stage = "ok" /\ GetPubSub
  /\ RouterNext
  /\ UNCHANGED vars

AssemblyNext == Build \/ Use

AssemblySpec == AssemblyInit /\ [][AssemblyNext]_allVars

=============================================================================
