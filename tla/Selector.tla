------------------------------ MODULE Selector ------------------------------
(***************************************************************************)
(* The node selector of the micro client (transport/micro/selector.go):    *)
(* calls with a user id in their metadata go to the node with the highest  *)
(* score for that id, others to one the strategy picks.  The registry and  *)
(* its cache are external: nodes come and go, the cache lags behind, and   *)
(* each answer lists the nodes in any order.                               *)
(***************************************************************************)
EXTENDS Integers, Sequences, FiniteSets, SequencesExt

CONSTANTS
  Nodes, Keys,   \* nodes that may register; user ids
  Score,         \* FNV-64a of key and node id
  Selectors,     \* clients, each with a selector and a cache of its own
  MaxPicks       \* bound: picks remembered

\* Nodes are finitely many, and no two have the same 64-bit score for a key.
ASSUME ScoreAssumption ==
  /\ IsFiniteSet(Nodes)
  /\ Score \in [Keys -> [Nodes -> Nat]]
  /\ \A k \in Keys : \A n, m \in Nodes : Score[k][n] = Score[k][m] => n = m

VARIABLES
  registered,   \* nodes in the registry
  cache,        \* what each selector's cache answers
  picks         \* history: the picks made for a key, and from which nodes

selectorVars == <<registered, cache, picks>>

\* The names the key is looked for under, in this order.
KeyNames == <<"uid", "Uid", "user-id", "x-uid">>

\* The metadata of a call: "" is a name that is not there.
Metadata == [ToSet(KeyNames) -> Keys \cup {""}]

firstNonEmpty(md) ==
  LET given == {i \in DOMAIN KeyNames : md[KeyNames[i]] # ""}
  IN  IF given = {} THEN "" ELSE md[KeyNames[Min(given)]]

\* The best node so far, after each of the nodes.
bestSoFar(key, nodes) ==
  LET best[i \in DOMAIN nodes] ==
        IF i = 1 THEN nodes[1]
        ELSE IF Score[key][nodes[i]] > Score[key][best[i - 1]] THEN nodes[i] ELSE best[i - 1]
  IN  best

\* The node with the highest score.
\* Mutant: hrwPick_Stale forgets to remember the best score so far.
hrwPick_Stale(key, nodes) ==
  LET better == {i \in DOMAIN nodes : Score[key][nodes[i]] > Score[key][nodes[1]]}
  IN  IF better = {} THEN nodes[1] ELSE nodes[Max(better)]
hrwPick(key, nodes) == bestSoFar(key, nodes)[Len(nodes)]

SelectorInit ==
  /\ registered \in SUBSET Nodes
  /\ cache = [s \in Selectors |-> registered]
  /\ picks = {}

\* A node registers or goes.
RegistryChange ==
  /\ \E n \in Nodes : registered' \in {registered \cup {n}, registered \ {n}}
  /\ UNCHANGED <<cache, picks>>

\* The watcher or the TTL of a cache brings it up to date, and so does Init, which
\* replaces the cache.
Refresh(s) ==
  /\ cache' = [cache EXCEPT ![s] = registered]
  /\ UNCHANGED <<registered, picks>>

\* Select: filters keep some of the services.  Without a node it fails (ErrNotFound,
\* ErrNoneAvailable); without a key the strategy may pick any.
Select(s) ==
  /\ Cardinality(picks) < MaxPicks
  /\ \E kept \in (SUBSET cache[s]) \ {{}} :
     \E nodes \in SetToSeqs(kept), md \in Metadata :
       LET key == firstNonEmpty(md)
       IN  /\ key # ""
           /\ picks' = picks \cup {[key |-> key, from |-> kept, node |-> hrwPick(key, nodes)]}
  /\ UNCHANGED <<registered, cache>>

SelectorNext ==
  \/ RegistryChange
  \/ \E s \in Selectors : Refresh(s) \/ Select(s)

SelectorSpec == SelectorInit /\ [][SelectorNext]_selectorVars

-----------------------------------------------------------------------------
(* Properties *)

\* A user stays with a node, over all clients and in whatever order their registries
\* list the nodes: two picks for a key differ only if one of the two nodes was not
\* there for the other pick.  So a node that joins or leaves moves no other user.
StickyPick ==
  \A p, q \in picks :
    p.key = q.key /\ {p.node, q.node} \subseteq p.from \cap q.from => p.node = q.node

=============================================================================
