------------------------------ MODULE MCPubSub ------------------------------
(***************************************************************************)
(* Small instances of PubSub.                                              *)
(***************************************************************************)
EXTENDS PubSub, TLC

CONSTANTS m1, m2, p1, p2

MCBackoff == <<1>>

\* m1 takes the service's MaxDeliver, m2 brings its own.
MCMsgMax == [m \in Msgs |-> IF m = m1 THEN 0 ELSE 1]

MCSymmetry == Permutations(Procs)

=============================================================================
