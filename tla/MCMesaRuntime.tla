--------------------------- MODULE MCMesaRuntime ---------------------------
(* Instances of MesaRuntime for TLC. *)
EXTENDS MesaRuntime, TLC

CONSTANTS http, tcp, pubsub, reminder, c1, c2

MCServers == <<http, tcp>>
MCComponents == {pubsub, reminder}
MCStoppable == {http, tcp, reminder}
MCDraining == {http}

=============================================================================
