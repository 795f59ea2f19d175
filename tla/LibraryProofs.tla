---------------------------- MODULE LibraryProofs ----------------------------
(***************************************************************************)
(* Machine-checked proofs about the parts that share no state with others: *)
(* the dispatcher, for every set of channels, types and Notify calls; the  *)
(* selector, for every set of nodes and every score that tells them apart; *)
(* List, for every table, page size and change between two pages; and the  *)
(* settings, for every number of merged configs.                           *)
(***************************************************************************)
EXTENDS Dispatcher, Selector, ReminderList, Settings, FiniteSetTheorems, SequenceTheorems,
        WellFoundedInduction, TLAPS

-----------------------------------------------------------------------------
(* The dispatcher *)

Kinds == {"none", "fallback", "channel", "type", "route"}
Errors == {"ErrNoNotifierHandler", "decode error"}

\* No handler has a blank key.
NoBlankKey ==
  /\ "" \notin types /\ "" \notin channels /\ fallback \in BOOLEAN
  /\ \A c, t : <<c, t>> \in routes => c # "" /\ t # ""

\* A call that has read its reminder, or has looked its handler up.
ReadNote == [at : {"read"}, channel : Channels \cup {""}, payload : Payloads,
             had : SUBSET Kinds, outcome : {"none"}]
LookedNote == [at : {"looked"}, channel : Channels \cup {""}, payload : Payloads,
               had : SUBSET Kinds, outcome : Kinds \cup Errors]
IdleNote == [at : {"idle"}, outcome : {"none"}]

\* Handlers are only added: those there were when Notify read are there still.
HandlersStay ==
  \A n \in Notifies : note[n].at = "read" =>
    /\ "none" \in note[n].had
    /\ note[n].had \subseteq Handlers(note[n].channel, note[n].payload.type)

DispatcherInv ==
  /\ NoBlankKey
  /\ note \in [Notifies -> IdleNote \cup ReadNote \cup LookedNote]
  /\ HandlersStay
  /\ DispatchFollowsPriority

\* lookup returns the most specific of the handlers there are.
LEMMA LookupIsBest ==
  ASSUME NoBlankKey, NEW c, NEW t
  PROVE  /\ lookup(c, t) \in Kinds
         /\ lookup(c, t) = "none" => Handlers(c, t) = {"none"}
         /\ \A h \in Handlers(c, t) : h \in Kinds /\ Rank[lookup(c, t)] >= Rank[h]
<1>1. /\ Rank["none"] = 0 /\ Rank["fallback"] = 1 /\ Rank["channel"] = 2
      /\ Rank["type"] = 3 /\ Rank["route"] = 4
  BY DEF Rank
<1>2. /\ Handlers(c, t) \subseteq Kinds
      /\ "fallback" \in Handlers(c, t) <=> fallback
      /\ "channel" \in Handlers(c, t) <=> c \in channels
      /\ "type" \in Handlers(c, t) <=> t \in types
      /\ "route" \in Handlers(c, t) <=> <<c, t>> \in routes
      /\ "none" \in Handlers(c, t)
  BY DEF Handlers, Kinds
<1>3. /\ c \in channels => c # ""
      /\ t \in types => t # ""
      /\ <<c, t>> \in routes => c # "" /\ t # ""
  BY DEF NoBlankKey
<1>4. CASE <<c, t>> \in routes
  <2>1. lookup(c, t) = "route"
    BY <1>3, <1>4 DEF lookup
  <2> QED BY <1>1, <1>2, <2>1 DEF Kinds
<1>5. CASE <<c, t>> \notin routes /\ t \in types
  <2>1. lookup(c, t) = "type"
    BY <1>3, <1>5 DEF lookup
  <2> QED BY <1>1, <1>2, <1>5, <2>1 DEF Kinds
<1>6. CASE <<c, t>> \notin routes /\ t \notin types /\ c \in channels
  <2>1. lookup(c, t) = "channel"
    BY <1>3, <1>6 DEF lookup
  <2> QED BY <1>1, <1>2, <1>6, <2>1 DEF Kinds
<1>7. CASE <<c, t>> \notin routes /\ t \notin types /\ c \notin channels
  <2>1. lookup(c, t) = IF fallback THEN "fallback" ELSE "none"
    BY <1>7 DEF lookup
  <2> QED BY <1>1, <1>2, <1>7, <2>1 DEF Kinds
<1> QED BY <1>4, <1>5, <1>6, <1>7

\* The update of a note, field by field.
LEMMA LookedIs ==
  ASSUME NEW r \in ReadNote, NEW o
  PROVE  [[r EXCEPT !.at = "looked"] EXCEPT !.outcome = o]
           = [at |-> "looked", channel |-> r.channel, payload |-> r.payload,
              had |-> r.had, outcome |-> o]
<1>1. DOMAIN r = {"at", "channel", "payload", "had", "outcome"}
  BY DEF ReadNote
<1> DEFINE upd == [[r EXCEPT !.at = "looked"] EXCEPT !.outcome = o]
           new == [at |-> "looked", channel |-> r.channel, payload |-> r.payload,
                   had |-> r.had, outcome |-> o]
<1>2. /\ DOMAIN upd = {"at", "channel", "payload", "had", "outcome"}
      /\ upd = [x \in DOMAIN upd |-> upd[x]]
  BY <1>1
<1>3. /\ upd["at"] = "looked" /\ upd["channel"] = r.channel /\ upd["payload"] = r.payload
      /\ upd["had"] = r.had /\ upd["outcome"] = o
  BY <1>1
<1>4. /\ DOMAIN new = {"at", "channel", "payload", "had", "outcome"}
      /\ new = [x \in DOMAIN new |-> new[x]]
      /\ new["at"] = "looked" /\ new["channel"] = r.channel /\ new["payload"] = r.payload
      /\ new["had"] = r.had /\ new["outcome"] = o
  OBVIOUS
<1> HIDE DEF upd, new
<1>5. \A x \in DOMAIN new : upd[x] = new[x]
  BY <1>3, <1>4
<1>6. upd = new
  BY <1>2, <1>4, <1>5
<1> QED BY <1>6 DEF upd, new

\* Registering adds handlers, and a look-up takes the best there is.
LEMMA DispatcherStep == DispatcherInv /\ [DispatcherNext]_dispatcherVars => DispatcherInv'
<1> SUFFICES ASSUME DispatcherInv, [DispatcherNext]_dispatcherVars PROVE DispatcherInv'
  OBVIOUS
<1> USE DEF DispatcherInv
\* A registration: there are more handlers than before.
<1>1. ASSUME UNCHANGED note, NoBlankKey',
             routes \subseteq routes', types \subseteq types', channels \subseteq channels',
             fallback => fallback'
      PROVE  DispatcherInv'
  <2>1. \A c, t : Handlers(c, t) \subseteq Handlers(c, t)'
    BY <1>1 DEF Handlers
  <2>2. HandlersStay'
    BY <1>1, <2>1 DEF HandlersStay
  <2>3. DispatchFollowsPriority'
    BY <1>1 DEF DispatchFollowsPriority
  <2> QED BY <1>1, <2>2, <2>3
<1>2. ASSUME NEW c \in Channels \cup {""}, NEW t \in Types \cup {""},
             Register(c, t) \/ RegisterType(t) \/ RegisterChannel(c) \/ SetFallback
      PROVE  DispatcherInv'
  <2>1. NoBlankKey'
    BY <1>2 DEF Register, RegisterType, RegisterChannel, SetFallback, NoBlankKey
  <2> QED BY <1>1, <1>2, <2>1 DEF Register, RegisterType, RegisterChannel, SetFallback
\* A step of one Notify.
<1>3. ASSUME NEW n \in Notifies, NEW new, note' = [note EXCEPT ![n] = new],
             new \in ReadNote \cup LookedNote,
             UNCHANGED <<routes, types, channels, fallback>>,
             new.at = "read" => /\ "none" \in new.had
                                /\ new.had \subseteq Handlers(new.channel, new.payload.type),
             new.at = "looked" =>
               IF new.outcome \in Errors
               THEN new.had = {"none"} /\ ((new.outcome = "decode error") <=> ~new.payload.json)
               ELSE \A h \in new.had : Rank[new.outcome] >= Rank[h]
      PROVE  DispatcherInv'
  <2>1. NoBlankKey' /\ note' \in [Notifies -> IdleNote \cup ReadNote \cup LookedNote]
    BY <1>3 DEF NoBlankKey
  <2>2. note'[n] = new /\ \A m \in Notifies : m # n => note'[m] = note[m]
    BY <1>3
  <2>3. \A c, t : Handlers(c, t)' = Handlers(c, t)
    BY <1>3 DEF Handlers
  <2>4. HandlersStay'
    BY <1>3, <2>2, <2>3 DEF HandlersStay
  <2>5. DispatchFollowsPriority'
    BY <1>3, <2>2 DEF DispatchFollowsPriority, Errors
  <2> QED BY <2>1, <2>4, <2>5
<1>4. ASSUME NEW n \in Notifies, NEW c \in Channels \cup {""}, NEW p \in Payloads, Notify(n, c, p)
      PROVE  DispatcherInv'
  <2> DEFINE new == [at |-> "read", channel |-> c, payload |-> p,
                     had |-> Handlers(c, p.type), outcome |-> "none"]
  <2>1. new \in ReadNote
    BY LookupIsBest DEF ReadNote
  <2>2. "none" \in Handlers(c, p.type)
    BY DEF Handlers
  <2> QED BY <1>3, <1>4, <2>1, <2>2 DEF Notify
<1>5. ASSUME NEW n \in Notifies, Lookup(n) PROVE DispatcherInv'
  <2> DEFINE old == note[n]
             found == lookup(old.channel, old.payload.type)
             outcome == IF found # "none" THEN found
                        ELSE IF old.payload.json THEN "ErrNoNotifierHandler" ELSE "decode error"
             new == [at |-> "looked", channel |-> old.channel, payload |-> old.payload,
                     had |-> old.had, outcome |-> outcome]
  <2>1. old \in ReadNote
    BY <1>5 DEF Lookup, IdleNote, ReadNote, LookedNote
  <2>2. /\ found \in Kinds
        /\ found = "none" => Handlers(old.channel, old.payload.type) = {"none"}
        /\ \A h \in Handlers(old.channel, old.payload.type) : Rank[found] >= Rank[h]
    BY LookupIsBest
  <2>3. "none" \in old.had /\ old.had \subseteq Handlers(old.channel, old.payload.type)
    BY <1>5 DEF Lookup, HandlersStay
  <2>4. note' = [note EXCEPT ![n] = new]
    <3>1. note' = [note EXCEPT ![n] = [[old EXCEPT !.at = "looked"] EXCEPT !.outcome = outcome]]
      BY <1>5 DEF Lookup
    <3>2. [[old EXCEPT !.at = "looked"] EXCEPT !.outcome = outcome] = new
      BY <2>1, LookedIs
    <3> QED BY <3>1, <3>2
  <2>5. new \in LookedNote
    BY <2>1, <2>2 DEF ReadNote, LookedNote, Errors
  <2>6. old.payload.json \in BOOLEAN
    <3>1. ASSUME NEW p \in Payloads PROVE p.json \in BOOLEAN
      <4>1. CASE p = [json |-> TRUE, type |-> ""]
        BY <4>1
      <4>2. CASE p = [json |-> FALSE, type |-> ""]
        BY <4>2
      <4>3. CASE \E t \in Types : p = [json |-> TRUE, type |-> t]
        BY <4>3
      <4> QED BY <4>1, <4>2, <4>3 DEF Payloads
    <3> QED BY <2>1, <3>1 DEF ReadNote
  <2>7. new.at = "looked" /\ new.outcome = outcome /\ new.had = old.had /\ new.payload = old.payload
    OBVIOUS
  <2>8. CASE found # "none"
    <3>1. outcome \notin Errors
      BY <2>2, <2>8 DEF Kinds, Errors
    <3>2. \A h \in old.had : Rank[outcome] >= Rank[h]
      BY <2>2, <2>3, <2>8
    <3> HIDE DEF new, outcome, DispatcherInv
    <3> QED BY <1>3, <1>5, <2>4, <2>5, <2>7, <3>1, <3>2 DEF Lookup
  <2>9. CASE found = "none"
    <3>1. outcome \in Errors /\ ((outcome = "decode error") <=> ~old.payload.json)
      BY <2>6, <2>9 DEF Errors
    <3>2. old.had = {"none"}
      BY <2>2, <2>3, <2>9
    <3> HIDE DEF new, outcome, DispatcherInv
    <3> QED BY <1>3, <1>5, <2>4, <2>5, <2>7, <3>1, <3>2 DEF Lookup
  <2> QED BY <2>8, <2>9
<1>6. CASE UNCHANGED dispatcherVars
  BY <1>1, <1>6 DEF dispatcherVars, NoBlankKey
<1>7. \A c \in Channels \cup {""}, t \in Types \cup {""} :
        Register(c, t) \/ RegisterType(t) \/ RegisterChannel(c) \/ SetFallback => DispatcherInv'
  BY <1>2
<1>8. "" \in Channels \cup {""} /\ "" \in Types \cup {""}
  OBVIOUS
<1> HIDE DEF DispatcherInv
<1> QED BY <1>4, <1>5, <1>6, <1>7, <1>8 DEF DispatcherNext

\* Whatever is registered while Notify runs, the reminder goes to a handler at least
\* as specific as any there was, and to an error only if there was none.
THEOREM DispatchIsByPriority == DispatcherSpec => []DispatchFollowsPriority
<1>1. DispatcherInit => DispatcherInv
  <2> SUFFICES ASSUME DispatcherInit PROVE DispatcherInv
    OBVIOUS
  <2>1. note \in [Notifies -> IdleNote] /\ \A n \in Notifies : note[n].at = "idle"
    BY DEF DispatcherInit, IdleNote
  <2>2. NoBlankKey
    BY DEF DispatcherInit, NoBlankKey
  <2> QED BY <2>1, <2>2 DEF DispatcherInv, HandlersStay, DispatchFollowsPriority
<1>2. DispatcherInv => DispatchFollowsPriority
  BY DEF DispatcherInv
<1> QED BY <1>1, <1>2, DispatcherStep, PTL DEF DispatcherSpec

-----------------------------------------------------------------------------
(* The selector *)

\* A set of numbers that is not empty has a least member.
LEMMA LeastExists ==
  ASSUME NEW T \in SUBSET Nat, T # {}
  PROVE  \E i \in T : \A j \in T : i <= j
<1>1. PICK x \in T : \A y \in T : <<y, x>> \notin OpToRel(<, Nat)
  BY NatLessThanWellFounded, WFMin, Zenon
<1>2. \A y \in T : ~(y < x)
  BY <1>1 DEF OpToRel
<1> QED BY <1>2

\* The node after nodes[i] when best is the best one before it.
Better(key, nodes, i, best) == IF Score[key][nodes[i]] > Score[key][best] THEN nodes[i] ELSE best

\* What the loop remembers after each of the first k nodes.
Remembers(key, nodes, k, f) ==
  /\ f \in [1 .. k -> Nodes]
  /\ \A i \in 1 .. k : f[i] = IF i = 1 THEN nodes[1] ELSE Better(key, nodes, i, f[i - 1])

\* The loop of hrwPick has a run, however many nodes there are.
LEMMA LoopRuns ==
  ASSUME NEW key, NEW N \in Nat, NEW nodes \in [1 .. N -> Nodes], NEW k \in 0 .. N
  PROVE  \E f : Remembers(key, nodes, k, f)
<1> DEFINE T == {j \in 0 .. N : ~\E f : Remembers(key, nodes, j, f)}
<1> SUFFICES ASSUME T # {} PROVE FALSE
  OBVIOUS
<1>1. T \in SUBSET Nat
  OBVIOUS
<1>2. PICK j \in T : \A i \in T : j <= i
  <2> HIDE DEF T
  <2> QED BY <1>1, LeastExists
<1>3. j # 0
  <2>1. Remembers(key, nodes, 0, [i \in 1 .. 0 |-> nodes[1]])
    BY DEF Remembers
  <2> QED BY <2>1
<1>4. j - 1 \in 0 .. N /\ j - 1 \notin T /\ j \in 1 .. N
  BY <1>2, <1>3
<1>5. PICK f : Remembers(key, nodes, j - 1, f)
  BY <1>4
<1> DEFINE x == IF j = 1 THEN nodes[1] ELSE Better(key, nodes, j, f[j - 1])
           h == [i \in 1 .. j |-> IF i = j THEN x ELSE f[i]]
<1>6. x \in Nodes
  BY <1>4, <1>5 DEF Remembers, Better
<1>7. h \in [1 .. j -> Nodes]
  BY <1>4, <1>5, <1>6 DEF Remembers
<1>8. ASSUME NEW i \in 1 .. j
      PROVE  h[i] = IF i = 1 THEN nodes[1] ELSE Better(key, nodes, i, h[i - 1])
  <2>1. CASE i = j
    BY <1>4, <2>1 DEF Better
  <2>2. CASE i # j
    <3>1. i \in 1 .. (j - 1) /\ h[i] = f[i] /\ (i # 1 => h[i - 1] = f[i - 1])
      BY <1>4, <2>2
    <3> QED BY <1>5, <3>1 DEF Remembers
  <2> QED BY <2>1, <2>2
<1>9. Remembers(key, nodes, j, h)
  <2> HIDE DEF h
  <2> QED BY <1>7, <1>8 DEF Remembers
<1> QED BY <1>9

\* bestSoFar is what the loop remembers.
LEMMA BestIsRemembered ==
  ASSUME NEW key, NEW N \in Nat, NEW nodes \in [1 .. N -> Nodes]
  PROVE  Remembers(key, nodes, N, bestSoFar(key, nodes))
<1> DEFINE Eq(b) == b = [i \in DOMAIN nodes |->
                          IF i = 1 THEN nodes[1]
                          ELSE IF Score[key][nodes[i]] > Score[key][b[i - 1]] THEN nodes[i] ELSE b[i - 1]]
<1>1. PICK f : Remembers(key, nodes, N, f)
  BY LoopRuns
<1>2. Eq(f)
  BY <1>1 DEF Remembers, Better
<1>3. bestSoFar(key, nodes) = CHOOSE b : Eq(b)
  BY DEF bestSoFar
<1> DEFINE g == bestSoFar(key, nodes)
           T == {i \in 1 .. N : g[i] # f[i]}
<1>4. Eq(g)
  BY <1>2, <1>3
<1>5. g = [i \in 1 .. N |-> IF i = 1 THEN nodes[1] ELSE Better(key, nodes, i, g[i - 1])]
  BY <1>4 DEF Better
<1>6. DOMAIN g = 1 .. N /\ \A i \in 1 .. N : g[i] = IF i = 1 THEN nodes[1] ELSE Better(key, nodes, i, g[i - 1])
  <2> HIDE DEF g
  <2> QED BY <1>5
<1>7. T = {}
  <2> SUFFICES ASSUME T # {} PROVE FALSE
    OBVIOUS
  <2>1. T \in SUBSET Nat
    OBVIOUS
  <2>2. PICK j \in T : \A i \in T : j <= i
    <3> HIDE DEF T
    <3> QED BY <2>1, LeastExists
  <2> HIDE DEF g
  <2>3. j # 1 => j - 1 \in 1 .. N /\ j - 1 \notin T
    BY <2>2
  <2>4. g[j] = f[j]
    <3>1. CASE j = 1
      BY <1>1, <1>6, <3>1 DEF Remembers
    <3>2. CASE j # 1
      <4>1. g[j - 1] = f[j - 1]
        BY <2>3, <3>2
      <4> QED BY <1>1, <1>6, <3>2, <4>1 DEF Remembers
    <3> QED BY <3>1, <3>2
  <2> QED BY <2>4
<1>8. g = f
  <2> HIDE DEF g
  <2>1. \A i \in 1 .. N : g[i] = f[i]
    BY <1>7
  <2> QED BY <1>1, <1>5, <2>1 DEF Remembers
<1> QED BY <1>1, <1>8

\* The pick is one of the nodes, and none of them has a higher score.
LEMMA PickIsBest ==
  ASSUME NEW key \in Keys, NEW N \in Nat \ {0}, NEW nodes \in [1 .. N -> Nodes]
  PROVE  \E k \in 1 .. N : /\ hrwPick(key, nodes) = nodes[k]
                           /\ \A i \in 1 .. N : Score[key][nodes[i]] <= Score[key][nodes[k]]
<1> DEFINE f == bestSoFar(key, nodes)
           IsBest(j) == \E k \in 1 .. j : /\ f[j] = nodes[k]
                                          /\ \A i \in 1 .. j : Score[key][nodes[i]] <= Score[key][nodes[k]]
           T == {j \in 1 .. N : ~IsBest(j)}
<1>f. Remembers(key, nodes, N, f)
  BY BestIsRemembered
<1>s. \A i \in 1 .. N : Score[key][nodes[i]] \in Nat
  BY ScoreAssumption
<1> HIDE DEF f
<1>1. T = {}
  <2> SUFFICES ASSUME T # {} PROVE FALSE
    OBVIOUS
  <2>1. T \in SUBSET Nat
    OBVIOUS
  <2>2. PICK j \in T : \A i \in T : j <= i
    <3> HIDE DEF T
    <3> QED BY <2>1, LeastExists
  <2>3. CASE j = 1
    <3>1. f[1] = nodes[1]
      BY <1>f DEF Remembers
    <3> QED BY <1>s, <2>3, <3>1
  <2>4. CASE j # 1
    <3>1. j - 1 \in 1 .. N /\ j \in 1 .. N
      BY <2>4
    <3>2. IsBest(j - 1)
      <4>1. j - 1 \notin T
        BY <2>2, <3>1
      <4> QED BY <3>1, <4>1
    <3>3. PICK k \in 1 .. (j - 1) :
            /\ f[j - 1] = nodes[k]
            /\ \A i \in 1 .. (j - 1) : Score[key][nodes[i]] <= Score[key][nodes[k]]
      BY <3>2
    <3>4. f[j] = IF Score[key][nodes[j]] > Score[key][nodes[k]] THEN nodes[j] ELSE nodes[k]
      BY <1>f, <2>4, <3>1, <3>3 DEF Remembers, Better
    <3>5. CASE Score[key][nodes[j]] > Score[key][nodes[k]]
      <4>1. \A i \in 1 .. j : Score[key][nodes[i]] <= Score[key][nodes[j]]
        <5> SUFFICES ASSUME NEW i \in 1 .. j PROVE Score[key][nodes[i]] <= Score[key][nodes[j]]
          OBVIOUS
        <5>1. CASE i = j
          BY <1>s, <5>1
        <5>2. CASE i # j
          <6>1. i \in 1 .. (j - 1) /\ i \in 1 .. N /\ k \in 1 .. N
            BY <3>1, <5>2
          <6>2. Score[key][nodes[i]] <= Score[key][nodes[k]]
            BY <3>3, <6>1
          <6> QED BY <1>s, <3>1, <3>5, <6>1, <6>2
        <5> QED BY <5>1, <5>2
      <4> QED BY <3>1, <3>4, <3>5, <4>1
    <3>6. CASE ~(Score[key][nodes[j]] > Score[key][nodes[k]])
      <4>1. k \in 1 .. N /\ k \in 1 .. j
        BY <3>1
      <4>2. \A i \in 1 .. j : Score[key][nodes[i]] <= Score[key][nodes[k]]
        <5> SUFFICES ASSUME NEW i \in 1 .. j PROVE Score[key][nodes[i]] <= Score[key][nodes[k]]
          OBVIOUS
        <5>1. CASE i = j
          BY <1>s, <3>1, <3>6, <4>1, <5>1
        <5>2. CASE i # j
          <6>1. i \in 1 .. (j - 1)
            BY <3>1, <5>2
          <6> QED BY <3>3, <6>1
        <5> QED BY <5>1, <5>2
      <4> QED BY <3>4, <3>6, <4>1, <4>2
    <3> QED BY <3>5, <3>6
  <2> QED BY <2>3, <2>4
<1>2. IsBest(N)
  BY <1>1
<1>3. Len(nodes) = N
  BY IsASeq, LenProperties
<1> QED BY <1>2, <1>3 DEF hrwPick, f

\* A list of a finite set holds every member of it.
LEMMA ListHoldsAll ==
  ASSUME NEW S, IsFiniteSet(S), NEW nodes \in SetToSeqs(S)
  PROVE  nodes \in [1 .. Cardinality(S) -> S] /\ \A x \in S : \E i \in 1 .. Cardinality(S) : nodes[i] = x
<1> DEFINE D == 1 .. Cardinality(S)
<1>1. Cardinality(S) \in Nat
  BY FS_CardinalityType
<1>2. nodes \in [D -> S] /\ \A i, j \in D : i # j => nodes[i] # nodes[j]
  BY DEF SetToSeqs
<1>3. nodes \in Injection(D, S)
  <2> HIDE DEF D
  <2> QED BY <1>2 DEF Injection, IsInjective
<1>4. IsFiniteSet(D) /\ Cardinality(D) = Cardinality(S)
  BY <1>1, FS_Interval
<1>5. nodes \in Surjection(D, S)
  <2> HIDE DEF D
  <2> QED BY <1>3, <1>4, FS_Injection
<1> QED BY <1>2, <1>5 DEF Surjection

\* The names a key is looked for under are counted by numbers.
LEMMA KeyNamesDomain == DOMAIN KeyNames \subseteq Nat
BY DEF KeyNames

\* The key of a call is one somebody gave.
LEMMA KeyIsGiven ==
  ASSUME NEW md \in Metadata, firstNonEmpty(md) # ""
  PROVE  firstNonEmpty(md) \in Keys
<1> DEFINE given == {i \in DOMAIN KeyNames : md[KeyNames[i]] # ""}
<1>1. given # {} /\ firstNonEmpty(md) = md[KeyNames[Min(given)]]
  BY DEF firstNonEmpty
<1>2. given \subseteq DOMAIN KeyNames
  OBVIOUS
<1> HIDE DEF given
<1>3. given \in SUBSET Nat
  BY <1>2, KeyNamesDomain
<1>4. \E i \in given : \A j \in given : i <= j
  BY <1>1, <1>3, LeastExists
<1>5. Min(given) \in given
  BY <1>4 DEF Min
<1>6. KeyNames[Min(given)] \in ToSet(KeyNames)
  BY <1>2, <1>5 DEF ToSet
<1> QED BY <1>1, <1>6 DEF Metadata

\* Every pick is the best of the nodes it was made from.
PicksAreBest ==
  \A p \in picks :
    /\ p.key \in Keys /\ p.node \in p.from /\ p.from \subseteq Nodes
    /\ \A n \in p.from : Score[p.key][n] <= Score[p.key][p.node]

SelectorInv ==
  /\ registered \subseteq Nodes
  /\ cache \in [Selectors -> SUBSET Nodes]
  /\ PicksAreBest

\* A pick is the best of the nodes it was made from.
LEMMA SelectorStep == SelectorInv /\ [SelectorNext]_selectorVars => SelectorInv'
<1> SUFFICES ASSUME SelectorInv, [SelectorNext]_selectorVars PROVE SelectorInv'
  OBVIOUS
<1>1. CASE RegistryChange
  BY <1>1 DEF RegistryChange, SelectorInv, PicksAreBest
<1>2. ASSUME NEW s \in Selectors, Refresh(s) PROVE SelectorInv'
  BY <1>2 DEF Refresh, SelectorInv, PicksAreBest
<1>3. ASSUME NEW s \in Selectors, Select(s) PROVE SelectorInv'
  <2>1. PICK kept \in (SUBSET cache[s]) \ {{}} :
          \E nodes \in SetToSeqs(kept), md \in Metadata :
            /\ firstNonEmpty(md) # ""
            /\ picks' = picks \cup {[key |-> firstNonEmpty(md), from |-> kept,
                                     node |-> hrwPick(firstNonEmpty(md), nodes)]}
    BY <1>3 DEF Select
  <2>p. PICK nodes \in SetToSeqs(kept), md \in Metadata :
          /\ firstNonEmpty(md) # ""
          /\ picks' = picks \cup {[key |-> firstNonEmpty(md), from |-> kept,
                                   node |-> hrwPick(firstNonEmpty(md), nodes)]}
    BY <2>1
  <2> DEFINE key == firstNonEmpty(md)
             p == [key |-> key, from |-> kept, node |-> hrwPick(key, nodes)]
             N == Cardinality(kept)
  <2>2. kept # {} /\ kept \subseteq Nodes /\ IsFiniteSet(kept)
    BY <2>1, ScoreAssumption, FS_Subset DEF SelectorInv
  <2>3. N \in Nat \ {0}
    BY <2>2, FS_CardinalityType, FS_EmptySet
  <2>4. nodes \in [1 .. N -> kept] /\ \A x \in kept : \E i \in 1 .. N : nodes[i] = x
    BY <2>2, ListHoldsAll
  <2>5. key \in Keys
    BY <2>p, KeyIsGiven
  <2>6. nodes \in [1 .. N -> Nodes]
    BY <2>2, <2>4
  <2>7. PICK k \in 1 .. N : /\ hrwPick(key, nodes) = nodes[k]
                            /\ \A i \in 1 .. N : Score[key][nodes[i]] <= Score[key][nodes[k]]
    <3> HIDE DEF N, key
    <3> QED BY <2>3, <2>5, <2>6, PickIsBest
  <2>8. hrwPick(key, nodes) \in kept /\ \A n \in kept : Score[key][n] <= Score[key][hrwPick(key, nodes)]
    <3> HIDE DEF N, key
    <3> QED BY <2>4, <2>7
  <2>9. p.key = key /\ p.from = kept /\ p.node = hrwPick(key, nodes)
    OBVIOUS
  <2>10. picks' = picks \cup {p}
    BY <2>p
  <2>11. PicksAreBest'
    <3> HIDE DEF p, key
    <3> QED BY <2>2, <2>5, <2>8, <2>9, <2>10 DEF SelectorInv, PicksAreBest
  <2> QED BY <1>3, <2>11 DEF Select, SelectorInv
<1>4. CASE UNCHANGED selectorVars
  BY <1>4 DEF selectorVars, SelectorInv, PicksAreBest
<1> QED BY <1>1, <1>2, <1>3, <1>4 DEF SelectorNext

\* Whatever the nodes, the user ids, the number of clients and picks, and in
\* whatever order the registries list the nodes, two picks for a user differ only
\* if one of the two nodes was not there for the other.
THEOREM PicksAreSticky == SelectorSpec => []StickyPick
<1>1. SelectorInit => SelectorInv
  BY DEF SelectorInit, SelectorInv, PicksAreBest
<1>2. SelectorInv => StickyPick
  <2> SUFFICES ASSUME SelectorInv, NEW p \in picks, NEW q \in picks, p.key = q.key,
                      {p.node, q.node} \subseteq p.from \cap q.from
               PROVE  p.node = q.node
    BY DEF StickyPick
  <2>1. p.key \in Keys /\ p.node \in Nodes /\ q.node \in Nodes
    BY DEF SelectorInv, PicksAreBest
  <2>2. Score[p.key][p.node] <= Score[p.key][q.node] /\ Score[p.key][q.node] <= Score[p.key][p.node]
    BY DEF SelectorInv, PicksAreBest
  <2>n. Score[p.key][p.node] \in Nat /\ Score[p.key][q.node] \in Nat
    BY <2>1, ScoreAssumption
  <2>3. Score[p.key][p.node] = Score[p.key][q.node]
    BY <2>2, <2>n
  <2> QED BY <2>1, <2>3, ScoreAssumption
<1> QED BY <1>1, <1>2, SelectorStep, PTL DEF SelectorSpec

-----------------------------------------------------------------------------
(* Paging through reminders *)

\* Any rows of the table are finitely many, with numbers and times.
LEMMA RowTypes ==
  ASSUME rows \in Seq(Rows), NEW S \in SUBSET DOMAIN rows
  PROVE  IsFiniteSet(S) /\ \A k \in S : k \in Nat /\ rows[k].at \in Nat \ {0}
<1>1. DOMAIN rows = 1 .. Len(rows) /\ Len(rows) \in Nat
  BY LenProperties
<1>2. IsFiniteSet(1 .. Len(rows)) /\ S \in SUBSET (1 .. Len(rows))
  BY <1>1, FS_Interval
<1>3. IsFiniteSet(S)
  BY <1>2, FS_Subset
<1>4. ASSUME NEW k \in S PROVE k \in Nat /\ rows[k].at \in Nat \ {0}
  <2>1. rows[k] \in Rows
    BY <1>2, ElementOfSeq
  <2> QED BY <1>1, <1>2, <2>1, LimitAssumption DEF Rows
<1> QED BY <1>3, <1>4

\* A page is a down-closed part of what was found.
LEMMA FirstIsDownClosed ==
  ASSUME rows \in Seq(Rows), NEW S \in SUBSET DOMAIN rows, NEW n \in Nat,
         NEW i \in FirstRows(S, n), NEW j \in S, Before(j, i)
  PROVE  j \in FirstRows(S, n)
<1> DEFINE B(x) == {k \in S : Before(k, x)}
<1>2. IsFiniteSet(S) /\ \A k \in S : k \in Nat /\ rows[k].at \in Nat
  BY RowTypes
<1>3. i \in S
  BY DEF FirstRows
<1>5. B(j) \subseteq B(i)
  BY <1>2, <1>3 DEF Before
<1>6. IsFiniteSet(B(i)) /\ IsFiniteSet(B(j))
  BY <1>2, FS_Subset
<1>7. Cardinality(B(i)) < n
  BY DEF FirstRows
<1>8. Cardinality(B(j)) <= Cardinality(B(i)) /\ Cardinality(B(j)) \in Nat /\ Cardinality(B(i)) \in Nat
  <2> HIDE DEF B
  <2> QED BY <1>5, <1>6, FS_Subset, FS_CardinalityType
<1>9. Cardinality(B(j)) < n
  <2> HIDE DEF B
  <2> QED BY <1>7, <1>8
<1> QED BY <1>9 DEF FirstRows

\* A row that is cut off leaves n rows in front of it.
LEMMA CutOffLeaves ==
  ASSUME rows \in Seq(Rows), NEW S \in SUBSET DOMAIN rows, NEW n \in Nat,
         NEW x \in S, x \notin FirstRows(S, n)
  PROVE  Cardinality(FirstRows(S, n)) >= n
<1> DEFINE B(y) == {k \in S : Before(k, y)}
           R(y) == Cardinality(B(y))
           T == {R(y) : y \in S \ FirstRows(S, n)}
<1>2. IsFiniteSet(S) /\ \A k \in S : k \in Nat /\ rows[k].at \in Nat
  BY RowTypes
<1>5. \A y : IsFiniteSet(B(y)) /\ R(y) \in Nat
  <2> SUFFICES ASSUME NEW y PROVE IsFiniteSet(B(y)) /\ R(y) \in Nat
    OBVIOUS
  <2>1. B(y) \subseteq S
    OBVIOUS
  <2> HIDE DEF B
  <2> QED BY <1>2, <2>1, FS_Subset, FS_CardinalityType
<1>6. T \in SUBSET Nat /\ T # {}
  BY <1>5
<1>7. PICK t \in T : \A u \in T : t <= u
  <2> HIDE DEF T
  <2> QED BY <1>6, LeastExists
<1>8. PICK y \in S \ FirstRows(S, n) : t = R(y)
  OBVIOUS
\* What is in front of the first row cut off is not cut off.
<1>9. B(y) \subseteq FirstRows(S, n)
  <2> SUFFICES ASSUME NEW j \in S, Before(j, y), j \notin FirstRows(S, n) PROVE FALSE
    OBVIOUS
  <2>1. B(j) \subseteq B(y) /\ j \in B(y) /\ j \notin B(j)
    BY <1>2 DEF Before
  <2>2. IsFiniteSet(B(j)) /\ IsFiniteSet(B(y)) /\ R(j) \in Nat /\ R(y) \in Nat
    BY <1>5
  <2>3. R(j) <= R(y) /\ R(j) # R(y)
    <3> HIDE DEF B
    <3>1. B(j) # B(y)
      BY <2>1
    <3> QED BY <2>1, <2>2, <3>1, FS_Subset
  <2>4. R(y) <= R(j)
    BY <1>7, <1>8
  <2> HIDE DEF R
  <2> QED BY <2>2, <2>3, <2>4
<1>10. ~(R(y) < n)
  BY <1>8 DEF FirstRows
<1>11. IsFiniteSet(FirstRows(S, n))
  <2>1. FirstRows(S, n) \subseteq S
    BY DEF FirstRows
  <2> QED BY <1>2, <2>1, FS_Subset
<1>12. Cardinality(B(y)) <= Cardinality(FirstRows(S, n)) /\ Cardinality(FirstRows(S, n)) \in Nat
  <2> HIDE DEF B
  <2> QED BY <1>9, <1>11, FS_Subset, FS_CardinalityType
<1>13. R(y) \in Nat
  BY <1>5
<1> HIDE DEF B
<1> QED BY <1>10, <1>12, <1>13

\* Row i is on a page the client was given.
Listed(i) == \E n \in DOMAIN pages : i \in pages[n]

ListType ==
  /\ rows \in Seq(Rows) /\ pages \in Seq(SUBSET Nat)
  /\ cursor \in Nat \X Nat /\ scan \in {"more", "done"}
  /\ settled \subseteq DOMAIN rows
  /\ \A i \in settled : rows[i].match

\* The cursor divides the stable rows into those listed and those to come.
CursorDivides == \A i \in settled : Listed(i) <=> scan = "done" \/ ~After(Place(i), cursor)

\* A stable row is on one page at most.
OnOnePage ==
  \A i \in settled : \A m, n \in DOMAIN pages : i \in pages[m] /\ i \in pages[n] => m = n

ListInv == ListType /\ CursorDivides /\ OnOnePage

\* What List leaves out although the scan ends with it: nothing.
LEMMA LastPageIsAll ==
  ASSUME rows \in Seq(Rows), NEW found \in SUBSET DOMAIN rows, NEW n \in Nat,
         Cardinality(FirstRows(found, n + 1)) <= n
  PROVE  FirstRows(FirstRows(found, n + 1), n) = found
<1> DEFINE items == FirstRows(found, n + 1)
<1>1. items \subseteq found
  BY DEF FirstRows
<1>2. IsFiniteSet(items) /\ Cardinality(items) \in Nat
  BY <1>1, RowTypes, FS_Subset, FS_CardinalityType
<1>3. items = found
  <2> SUFFICES ASSUME NEW x \in found, x \notin items PROVE FALSE
    BY <1>1
  <2>1. Cardinality(items) >= n + 1
    BY CutOffLeaves
  <2> HIDE DEF items
  <2> QED BY <1>2, <2>1 DEF items
<1>4. ASSUME NEW x \in items PROVE x \in FirstRows(items, n)
  <2> DEFINE B == {k \in items : Before(k, x)}
  <2>1. B \in SUBSET items /\ x \notin B
    <3>1. x \in Nat /\ rows[x].at \in Nat
      BY <1>1, RowTypes
    <3> QED BY <3>1 DEF Before
  <2>2. Cardinality(B) <= Cardinality(items) /\ Cardinality(B) # Cardinality(items)
        /\ Cardinality(B) \in Nat
    <3>1. B # items
      BY <1>4, <2>1
    <3> HIDE DEF B, items
    <3> QED BY <1>2, <2>1, <3>1, FS_Subset, FS_CardinalityType
  <2>3. Cardinality(B) < n
    <3>1. Cardinality(items) <= n
      OBVIOUS
    <3> HIDE DEF B, items
    <3> QED BY <1>2, <2>2, <3>1
  <2> QED BY <1>4, <2>3 DEF FirstRows
<1>5. FirstRows(items, n) \subseteq items
  BY DEF FirstRows
<1> QED BY <1>3, <1>4, <1>5

\* A page holds at least one row.
LEMMA LimitType ==
  ASSUME NEW l \in Limits
  PROVE  limit(l) \in Nat \ {0}
BY LimitAssumption DEF limit

\* One page continues where the page before it ended.
LEMMA ListPageStep ==
  ASSUME ListInv, NEW l \in Limits, ListPage(l)
  PROVE  ListInv'
<1> DEFINE found == {i \in DOMAIN rows : rows[i].match /\ After(Place(i), cursor)}
           items == FirstRows(found, limit(l) + 1)
           page == FirstRows(items, limit(l))
<1>t. /\ rows \in Seq(Rows) /\ pages \in Seq(SUBSET Nat) /\ scan = "more"
      /\ settled \subseteq DOMAIN rows /\ \A i \in settled : rows[i].match
      /\ rows' = rows /\ settled' = settled
  BY DEF ListInv, ListType, ListPage
<1>c. cursor[1] \in Nat /\ cursor[2] \in Nat
  BY DEF ListInv, ListType
<1>l. limit(l) \in Nat /\ limit(l) + 1 \in Nat
  BY LimitType
<1>f. found \in SUBSET DOMAIN rows /\ items \in SUBSET found /\ page \in SUBSET items
  BY DEF FirstRows
<1>n. \A i \in DOMAIN rows : i \in Nat /\ rows[i].at \in Nat
  BY <1>t, RowTypes
<1>p. pages' = Append(pages, page)
  BY DEF ListPage
<1>g. \A i \in settled : i \in found <=> After(Place(i), cursor)
  BY <1>t
<1>a. /\ pages' \in Seq(SUBSET Nat)
      /\ DOMAIN pages' = DOMAIN pages \cup {Len(pages) + 1} /\ Len(pages) + 1 \notin DOMAIN pages
      /\ pages'[Len(pages) + 1] = page
      /\ \A n \in DOMAIN pages : pages'[n] = pages[n]
  <2>1. page \in SUBSET Nat
    BY <1>f, <1>n
  <2> HIDE DEF page
  <2>2. /\ Append(pages, page) \in Seq(SUBSET Nat) /\ Len(Append(pages, page)) = Len(pages) + 1
        /\ \A n \in 1 .. Len(pages) : Append(pages, page)[n] = pages[n]
        /\ Append(pages, page)[Len(pages) + 1] = page
    BY <1>t, <2>1, AppendProperties
  <2>3. DOMAIN pages = 1 .. Len(pages) /\ Len(pages) \in Nat
    BY <1>t, LenProperties
  <2>4. DOMAIN pages' = 1 .. Len(pages) + 1
    BY <1>p, <2>2, LenProperties
  <2> QED BY <1>p, <2>2, <2>3, <2>4
<1> HIDE DEF found, items, page
<1>1. \A i \in settled : Listed(i)' <=> Listed(i) \/ i \in page
  BY <1>a DEF Listed
<1>2. \A i \in settled : i \in page => ~Listed(i)
  BY <1>f, <1>g, <1>t DEF ListInv, CursorDivides
<1>3. OnOnePage'
  BY <1>a, <1>t, <1>2 DEF ListInv, OnOnePage, Listed
<1>4. CASE Cardinality(items) > limit(l)
  <2>1. PICK x \in page : (\A j \in page : ~Before(x, j)) /\ cursor' = Place(x) /\ scan' = "more"
    <3>1. \E x \in page : (\A j \in page : ~Before(x, j)) /\ cursor' = Place(x) /\ scan' = "more"
      <4>1. ~(Cardinality(items) <= limit(l))
        <5>1. Cardinality(items) \in Nat
          BY <1>f, <1>t, RowTypes, FS_CardinalityType
        <5> QED BY <1>4, <1>l, <5>1
      <4> QED BY <1>4, <1>t, <4>1 DEF ListPage, found, items, page
    <3> QED BY <3>1
  <2>2. x \in DOMAIN rows /\ x \in found /\ After(Place(x), cursor)
    BY <1>f DEF found
  <2>3. cursor'[1] = rows[x].at /\ cursor'[2] = x
    BY <2>1 DEF Place
  \* What was found and is not on the page comes after its last row.
  <2>4. ASSUME NEW i \in found, i \notin page PROVE Before(x, i)
    <3>1. i # x /\ i \in Nat /\ x \in Nat /\ rows[i].at \in Nat /\ rows[x].at \in Nat
      BY <1>f, <1>n, <2>2, <2>4
    <3>2. Before(i, x) => i \in items
      BY <1>f, <1>l, <1>t, FirstIsDownClosed DEF items
    <3>3. Before(i, x) => i \in page
      BY <1>f, <1>l, <1>t, <3>2, FirstIsDownClosed DEF page
    <3> QED BY <2>4, <3>1, <3>3 DEF Before
  <2>5. ASSUME NEW i \in settled PROVE Listed(i)' <=> ~After(Place(i)', cursor')
    <3>1. /\ i \in Nat /\ x \in Nat /\ rows[i].at \in Nat /\ rows[x].at \in Nat
          /\ Place(i)' = Place(i) /\ Place(i)[1] = rows[i].at /\ Place(i)[2] = i
          /\ Place(x)[1] = rows[x].at /\ Place(x)[2] = x
      BY <1>n, <1>t, <2>2 DEF Place
    <3>2. CASE i \in page
      <4>1. ~Before(x, i)
        BY <2>1, <3>2
      <4> QED BY <1>1, <2>3, <3>1, <3>2, <4>1 DEF After, Before
    <3>3. CASE i \in found /\ i \notin page
      <4>1. Before(x, i)
        BY <2>4, <3>3
      <4>2. ~Listed(i)
        BY <1>g, <1>t, <3>3 DEF ListInv, CursorDivides
      <4> QED BY <1>1, <2>3, <3>1, <3>3, <4>1, <4>2 DEF After, Before
    <3>4. CASE i \notin found
      <4>1. ~After(Place(i), cursor)
        BY <1>g, <3>4
      <4>2. Listed(i)
        BY <4>1 DEF ListInv, CursorDivides
      <4> QED BY <1>1, <1>c, <2>2, <2>3, <3>1, <4>1, <4>2 DEF After
    <3> QED BY <3>2, <3>3, <3>4
  <2>6. CursorDivides'
    BY <1>t, <2>1, <2>5 DEF CursorDivides
  <2>7. ListType'
    <3>1. cursor' \in Nat \X Nat
      BY <1>n, <2>1, <2>2 DEF Place
    <3> QED BY <1>a, <1>t, <2>1, <3>1 DEF ListType
  <2> QED BY <1>3, <2>6, <2>7 DEF ListInv
<1>5. CASE ~(Cardinality(items) > limit(l))
  <2>1. Cardinality(items) <= limit(l)
    <3>1. Cardinality(items) \in Nat
      BY <1>f, <1>t, RowTypes, FS_CardinalityType
    <3> QED BY <1>5, <1>l, <3>1
  <2>2. scan' = "done" /\ cursor' = cursor
    BY <1>5 DEF ListPage, found, items, page
  <2>3. page = found
    BY <1>f, <1>l, <1>t, <2>1, LastPageIsAll DEF items, page
  <2>4. \A i \in settled : Listed(i)'
    BY <1>1, <1>g, <1>t, <2>3 DEF ListInv, CursorDivides
  <2>5. CursorDivides'
    BY <1>t, <2>2, <2>4 DEF CursorDivides
  <2>6. ListType'
    BY <1>a, <1>t, <2>2 DEF ListInv, ListType
  <2> QED BY <1>3, <2>5, <2>6 DEF ListInv
<1> QED BY <1>4, <1>5

\* A page, an insertion and a change keep the scan in order.
LEMMA ListStep == ListInv /\ [ListNext]_listVars => ListInv'
<1> SUFFICES ASSUME ListInv, [ListNext]_listVars PROVE ListInv'
  OBVIOUS
<1>t. /\ rows \in Seq(Rows) /\ settled \subseteq DOMAIN rows
      /\ DOMAIN rows = 1 .. Len(rows) /\ Len(rows) \in Nat
  BY LenProperties DEF ListInv, ListType
\* A step that leaves the scan alone, and the stable rows where they are.
<1>s. ASSUME UNCHANGED <<scan, cursor, pages>>, rows' \in Seq(Rows), settled' \subseteq settled,
             \A i \in settled' : i \in DOMAIN rows' /\ rows'[i] = rows[i]
      PROVE  ListInv'
  <2>1. \A i \in settled' : (Listed(i)' <=> Listed(i)) /\ Place(i)' = Place(i)
    BY <1>s DEF Listed, Place
  <2>2. CursorDivides'
    BY <1>s, <2>1 DEF ListInv, CursorDivides
  <2>3. ListType' /\ OnOnePage'
    BY <1>s DEF ListInv, ListType, OnOnePage
  <2> QED BY <2>2, <2>3 DEF ListInv
<1>1. ASSUME NEW l \in Limits, ListPage(l) PROVE ListInv'
  BY <1>1, ListPageStep
<1>2. CASE Insert
  <2>1. PICK r \in Rows : rows' = Append(rows, r)
    BY <1>2 DEF Insert
  <2>2. /\ rows' \in Seq(Rows) /\ Len(rows') = Len(rows) + 1
        /\ \A i \in 1 .. Len(rows) : rows'[i] = rows[i]
    BY <1>t, <2>1, AppendProperties
  <2>3. DOMAIN rows' = 1 .. Len(rows) + 1
    BY <2>2, LenProperties
  <2> QED BY <1>2, <1>s, <1>t, <2>2, <2>3 DEF Insert
<1>3. CASE Change
  <2>1. PICK i \in DOMAIN rows, r \in Rows :
          /\ rows' = [rows EXCEPT ![i] = r]
          /\ settled' = IF r = rows[i] THEN settled ELSE settled \ {i}
    BY <1>3 DEF Change
  <2>2. rows' \in Seq(Rows) /\ DOMAIN rows' = DOMAIN rows
    BY <1>t, <2>1, ExceptSeq
  <2>3. \A j \in settled' : j \in settled /\ rows'[j] = rows[j]
    BY <1>t, <2>1
  <2> QED BY <1>3, <1>s, <1>t, <2>2, <2>3 DEF Change
<1>4. CASE UNCHANGED listVars
  BY <1>4, <1>s, <1>t DEF listVars
<1> QED BY <1>1, <1>2, <1>3, <1>4 DEF ListNext

\* Whatever the table holds, however many rows are inserted, moved and settled
\* between the pages, and whatever limits are asked for: a row that matched all the
\* time and stayed at its place is on one page at most, and on one at the end.
THEOREM ScansAreStable == ListSpec => []StableListedOnce
<1>1. ListInit => ListInv
  <2> SUFFICES ASSUME ListInit PROVE ListInv
    OBVIOUS
  <2>1. rows \in Seq(Rows)
    BY LimitAssumption, IsASeq DEF ListInit
  <2>2. pages \in Seq(SUBSET Nat) /\ DOMAIN pages = {}
    BY EmptySeq DEF ListInit
  <2>3. ListType
    BY <2>1, <2>2 DEF ListInit, ListType, NoCursor
  <2>4. \A i \in settled : i \in Nat /\ rows[i].at \in Nat \ {0}
    BY <2>1, RowTypes DEF ListInit
  <2>5. CursorDivides /\ OnOnePage
    BY <2>2, <2>4 DEF ListInit, CursorDivides, OnOnePage, Listed, After, Place, NoCursor
  <2> QED BY <2>3, <2>5 DEF ListInv
<1>2. ListInv => StableListedOnce
  BY DEF ListInv, CursorDivides, OnOnePage, StableListedOnce, Listed
<1> QED BY <1>1, <1>2, ListStep, PTL DEF ListSpec

-----------------------------------------------------------------------------
(* The settings *)

\* What the first k options make of the defaults, after each of them.
Applies(options, k, o) ==
  /\ o = [n \in 0 .. k |-> o[n]]
  /\ \A n \in 0 .. k : o[n] = IF n = 0 THEN defaultOptions ELSE Apply(o[n - 1], options[n])

\* Options can be applied one by one, however many there are.
LEMMA OptionsRun ==
  ASSUME NEW options, NEW k \in Nat
  PROVE  \E o : Applies(options, k, o)
<1> DEFINE T == {j \in Nat : ~\E o : Applies(options, j, o)}
<1> SUFFICES ASSUME T # {} PROVE FALSE
  OBVIOUS
<1>1. T \in SUBSET Nat
  OBVIOUS
<1>2. PICK j \in T : \A i \in T : j <= i
  <2> HIDE DEF T
  <2> QED BY <1>1, LeastExists
<1>3. j # 0
  <2> DEFINE z == [n \in 0 .. 0 |-> defaultOptions]
  <2>1. DOMAIN z = 0 .. 0 /\ z[0] = defaultOptions /\ z = [n \in 0 .. 0 |-> z[n]]
    OBVIOUS
  <2>2. Applies(options, 0, z)
    <3> HIDE DEF z
    <3> QED BY <2>1 DEF Applies
  <2> QED BY <2>2
<1>4. j - 1 \in Nat /\ j - 1 \notin T /\ j \in Nat
  BY <1>2, <1>3
<1>5. PICK o : Applies(options, j - 1, o)
  BY <1>4
<1> HIDE DEF T
<1> DEFINE x == Apply(o[j - 1], options[j])
           h == [n \in 0 .. j |-> IF n = j THEN x ELSE o[n]]
<1> HIDE DEF x
<1>6. /\ h = [n \in 0 .. j |-> h[n]]
      /\ h[j] = x /\ \A n \in 0 .. (j - 1) : h[n] = o[n]
  BY <1>4
<1> HIDE DEF h
<1>7. ASSUME NEW n \in 0 .. j
      PROVE  h[n] = IF n = 0 THEN defaultOptions ELSE Apply(h[n - 1], options[n])
  <2>1. CASE n = j
    <3>1. j - 1 \in 0 .. (j - 1)
      BY <1>3, <1>4
    <3>2. h[j - 1] = o[j - 1]
      BY <1>6, <3>1
    <3> QED BY <1>3, <1>6, <2>1, <3>2 DEF x
  <2>2. CASE n # j
    <3>1. n \in 0 .. (j - 1) /\ (n # 0 => n - 1 \in 0 .. (j - 1))
      BY <1>4, <2>2
    <3>2. h[n] = o[n] /\ (n # 0 => h[n - 1] = o[n - 1])
      BY <1>6, <3>1
    <3> QED BY <1>5, <3>1, <3>2 DEF Applies
  <2> QED BY <2>1, <2>2
<1>8. Applies(options, j, h)
  BY <1>6, <1>7 DEF Applies
<1> QED BY <1>2, <1>8 DEF T

\* There is only one way to apply them.
LEMMA RunIsUnique ==
  ASSUME NEW k \in Nat, NEW j \in Nat, j <= k, NEW s, NEW t, NEW o, NEW p,
         Applies(s, k, o), Applies(t, j, p), \A n \in 1 .. j : s[n] = t[n]
  PROVE  \A n \in 0 .. j : o[n] = p[n]
<1> DEFINE T == {n \in 0 .. j : o[n] # p[n]}
<1> SUFFICES ASSUME T # {} PROVE FALSE
  OBVIOUS
<1>1. T \in SUBSET Nat
  OBVIOUS
<1>2. PICK m \in T : \A i \in T : m <= i
  <2> HIDE DEF T
  <2> QED BY <1>1, LeastExists
<1>3. m # 0
  BY <1>2 DEF Applies
<1>4. m \in 1 .. j /\ m \in 0 .. j /\ m \in 0 .. k /\ m - 1 \in 0 .. j /\ m - 1 \notin T
  BY <1>2, <1>3
<1>5. o[m - 1] = p[m - 1]
  BY <1>4
<1>6. o[m] = Apply(o[m - 1], s[m]) /\ p[m] = Apply(p[m - 1], t[m]) /\ s[m] = t[m]
  BY <1>3, <1>4 DEF Applies
<1> QED BY <1>2, <1>5, <1>6

\* Applied is that way.
LEMMA AppliedRuns ==
  ASSUME NEW options, Len(options) \in Nat
  PROVE  Applies(options, Len(options), Applied(options))
<1> DEFINE N == Len(options)
           Eq(o) == o = [n \in 0 .. N |-> IF n = 0 THEN defaultOptions ELSE Apply(o[n - 1], options[n])]
<1>1. PICK o : Applies(options, N, o)
  BY OptionsRun
<1>2. Eq(o)
  BY <1>1 DEF Applies
<1>3. Applied(options) = CHOOSE p : Eq(p)
  BY DEF Applied
<1>4. Eq(Applied(options))
  BY <1>2, <1>3
<1> DEFINE g == Applied(options)
<1>5. g = [n \in 0 .. N |-> IF n = 0 THEN defaultOptions ELSE Apply(g[n - 1], options[n])]
  BY <1>4
<1> HIDE DEF g
<1>6. Applies(options, N, g)
  BY <1>5 DEF Applies
<1> QED BY <1>6 DEF g

\* What NewService makes of a list of options.
Result(options) == Applied(options)[Len(options)]

\* Without options the defaults stay.
LEMMA NoOptions == Result(<<>>) = defaultOptions
<1>1. Applies(<<>>, 0, Applied(<<>>))
  BY AppliedRuns
<1> QED BY <1>1 DEF Applies, Result

\* One more option is applied to what the others made.
LEMMA OneMore ==
  ASSUME NEW S, NEW s \in Seq(S), NEW x \in S
  PROVE  Result(s \o <<x>>) = Apply(Result(s), x)
<1> DEFINE t == s \o <<x>>  N == Len(s)
<1>1. /\ N \in Nat /\ Len(t) = N + 1 /\ t[N + 1] = x
      /\ \A n \in 1 .. N : t[n] = s[n]
  OBVIOUS
<1> HIDE DEF t, N
<1>2. Applies(t, N + 1, Applied(t))
  BY <1>1, AppliedRuns
<1>3. Applies(s, N, Applied(s))
  BY <1>1, AppliedRuns DEF N
<1>4. Applied(t)[N] = Applied(s)[N]
  <2>1. N + 1 \in Nat /\ N <= N + 1 /\ N \in 0 .. N
    BY <1>1
  <2>2. \A n \in 0 .. N : Applied(t)[n] = Applied(s)[n]
    BY <1>1, <1>2, <1>3, <2>1, RunIsUnique
  <2> QED BY <2>1, <2>2
<1>5. Applied(t)[N + 1] = Apply(Applied(t)[N], x)
  <2>1. N + 1 \in 0 .. (N + 1) /\ N + 1 # 0 /\ (N + 1) - 1 = N
    BY <1>1
  <2>2. Applied(t)[N + 1] = Apply(Applied(t)[(N + 1) - 1], t[N + 1])
    BY <1>2, <2>1, Zenon DEF Applies
  <2> QED BY <1>1, <2>1, <2>2
<1>6. Result(t) = Applied(t)[N + 1] /\ Result(s) = Applied(s)[N]
  BY <1>1 DEF Result, N
<1> QED BY <1>4, <1>5, <1>6 DEF t

\* An option that may be there or not.
LEMMA MaybeMore ==
  ASSUME NEW S, NEW s \in Seq(S), NEW x \in S, NEW m, m = <<x>> \/ m = <<>>
  PROVE  /\ m \in Seq(S) /\ s \o m \in Seq(S)
         /\ m = <<x>> => Result(s \o m) = Apply(Result(s), x)
         /\ m = <<>> => Result(s \o m) = Result(s)
<1>1. m \in Seq(S) /\ s \o m \in Seq(S)
  <2>1. <<x>> \in Seq(S) /\ <<>> \in Seq(S)
    OBVIOUS
  <2>2. m \in Seq(S)
    BY <2>1
  <2> QED BY <2>2
<1>2. m = <<x>> => Result(s \o m) = Apply(Result(s), x)
  BY OneMore
<1>3. m = <<>> => s \o m = s
  OBVIOUS
<1> QED BY <1>1, <1>2, <1>3

\* The first option is applied to the defaults.
LEMMA FirstOption ==
  ASSUME NEW x
  PROVE  Result(<<x>>) = Apply(defaultOptions, x)
<1>1. PICK e : e = <<>>
  OBVIOUS
<1>2. e \in Seq({x}) /\ x \in {x} /\ e \o <<x>> = <<x>>
  BY <1>1
<1>3. Result(e \o <<x>>) = Apply(Result(e), x)
  BY <1>2, OneMore
<1>4. Result(e) = defaultOptions
  BY <1>1, NoOptions
<1> QED BY <1>2, <1>3, <1>4

\* Concatenation, regrouped to the left.
LEMMA ConcatLeft ==
  ASSUME NEW S, NEW s \in Seq(S), NEW t \in Seq(S), NEW u \in Seq(S)
  PROVE  t \o u \in Seq(S) /\ s \o (t \o u) = (s \o t) \o u
BY ConcatAssociative

\* The fields of a service's options, and of a config.
Fields == {"prefix", "approx", "suffix", "dlq", "maxDeliver", "backoff", "delays"}
ConfigFields == {"retry", "prefix", "approx", "dlq", "suffix", "delays", "options"}

IsOptions(o) == o = [f \in Fields |-> o[f]]

StreamOption(x) ==
  x.with = "stream" /\ DOMAIN x = {"with", "prefix", "approx"} /\ x.approx # <<>>
DeadLetterOption(x) ==
  x.with = "deadLetter" /\ DOMAIN x = {"with", "suffix", "dlq"} /\ x.dlq # <<>>
DelaysOption(x) == x.with = "delays" /\ DOMAIN x = {"with", "delays"}

IsConfig(c) ==
  /\ c = [f \in ConfigFields |-> c[f]]
  /\ \/ c.retry = <<>>
     \/ c.retry = <<c.retry[1]>> /\ c.retry[1].with = "retry"
  /\ \/ c.options = <<>>
     \/ /\ c.options = <<c.options[1]>>
        /\ \/ StreamOption(c.options[1])
           \/ DeadLetterOption(c.options[1])
           \/ DelaysOption(c.options[1])

\* The defaults have every field.
LEMMA DefaultsAreOptions == IsOptions(defaultOptions)
BY DEF IsOptions, defaultOptions, Fields

\* What each option does to each field.
LEMMA StreamSets ==
  ASSUME NEW o, IsOptions(o), NEW x, x.with = "stream"
  PROVE  LET p == Apply(o, x)
         IN  /\ IsOptions(p) /\ p.prefix = Pick(x.prefix, o.prefix) /\ p.approx = x.approx
             /\ \A f \in Fields \ {"prefix", "approx"} : p[f] = o[f]
<1>1. Apply(o, x) = [o EXCEPT !.prefix = Pick(x.prefix, @), !.approx = x.approx]
  BY DEF Apply, WithStreamPolicy
<1> QED BY <1>1 DEF IsOptions, Fields

\* A dead-letter policy sets the suffix it gives, and Enabled always.
LEMMA DeadLetterSets ==
  ASSUME NEW o, IsOptions(o), NEW x, x.with = "deadLetter"
  PROVE  LET p == Apply(o, x)
         IN  /\ IsOptions(p) /\ p.suffix = Pick(x.suffix, o.suffix) /\ p.dlq = x.dlq
             /\ \A f \in Fields \ {"suffix", "dlq"} : p[f] = o[f]
<1>1. Apply(o, x) = [o EXCEPT !.suffix = Pick(x.suffix, @), !.dlq = x.dlq]
  BY DEF Apply, WithDeadLetterPolicy
<1> QED BY <1>1 DEF IsOptions, Fields

\* A retry policy sets what it gives.
LEMMA RetrySets ==
  ASSUME NEW o, IsOptions(o), NEW x, x.with = "retry"
  PROVE  LET p == Apply(o, x)
         IN  /\ IsOptions(p) /\ p.maxDeliver = Pick(x.maxDeliver, o.maxDeliver)
             /\ p.backoff = Pick(x.backoff, o.backoff)
             /\ \A f \in Fields \ {"maxDeliver", "backoff"} : p[f] = o[f]
<1>1. Apply(o, x) = [o EXCEPT !.maxDeliver = Pick(x.maxDeliver, @), !.backoff = Pick(x.backoff, @)]
  BY DEF Apply, WithRetryPolicy
<1> QED BY <1>1 DEF IsOptions, Fields

\* Retry delays replace the others if one of them is positive.
LEMMA DelaysSet ==
  ASSUME NEW o, IsOptions(o), NEW x, x.with = "delays"
  PROVE  LET p == Apply(o, x)
         IN  /\ IsOptions(p) /\ p.delays = Pick(Positive(x.delays), o.delays)
             /\ \A f \in Fields \ {"delays"} : p[f] = o[f]
<1>1. Apply(o, x) = [o EXCEPT !.delays = Pick(Positive(x.delays), @)]
  BY DEF Apply, WithRetryDelays
<1> QED BY <1>1 DEF IsOptions, Fields

\* An empty list of delays stays empty.
LEMMA NoDelaysArePositive == Positive(<<>>) = <<>>
BY DEF Positive

\* What the with functions were given is a config.
LEMMA GivenIsConfig ==
  ASSUME NEW n \in Nat, NEW c \in PubSubConfigs(n) \cup ReminderConfigs(n)
  PROVE  IsConfig(c)
<1>m. ASSUME NEW S, NEW m \in Maybe(S)
      PROVE  m = <<>> \/ (m = <<m[1]>> /\ m[1] \in S)
  BY <1>m DEF Maybe, None
<1>1. CASE c \in PubSubConfigs(n)
  <2>1. /\ c = [f \in ConfigFields |-> c[f]]
        /\ c.retry \in Maybe(RetryPolicies(n)) /\ c.options \in Maybe(PubSubOptions(n))
    BY <1>1 DEF PubSubConfigs, ConfigFields
  <2>2. \A y \in RetryPolicies(n) : y.with = "retry"
    BY DEF RetryPolicies
  <2>3. ASSUME NEW y \in PubSubOptions(n)
        PROVE  StreamOption(y) \/ DeadLetterOption(y)
    <3> DEFINE v == <<-n>>
    <3>1. y = [with |-> "stream", prefix |-> v, approx |-> <<TRUE>>]
          \/ y = [with |-> "deadLetter", suffix |-> v, dlq |-> <<FALSE>>]
      BY DEF PubSubOptions
    <3> HIDE DEF v
    <3>2. CASE y = [with |-> "stream", prefix |-> v, approx |-> <<TRUE>>]
      BY <3>2 DEF StreamOption
    <3>3. CASE y = [with |-> "deadLetter", suffix |-> v, dlq |-> <<FALSE>>]
      BY <3>3 DEF DeadLetterOption
    <3> QED BY <3>1, <3>2, <3>3
  <2>4. c.retry = <<>> \/ (c.retry = <<c.retry[1]>> /\ c.retry[1] \in RetryPolicies(n))
    BY <1>m, <2>1
  <2>5. c.options = <<>> \/ (c.options = <<c.options[1]>> /\ c.options[1] \in PubSubOptions(n))
    BY <1>m, <2>1
  <2> QED BY <2>1, <2>2, <2>3, <2>4, <2>5 DEF IsConfig
<1>2. CASE c \in ReminderConfigs(n)
  <2>1. /\ c = [f \in ConfigFields |-> c[f]]
        /\ c.retry = <<>> /\ c.options \in Maybe(ReminderOptions(n))
    BY <1>2 DEF ReminderConfigs, ConfigFields, None
  <2>2. \A y \in ReminderOptions(n) : DelaysOption(y)
    BY DEF ReminderOptions, DelaysOption
  <2>3. c.options = <<>> \/ (c.options = <<c.options[1]>> /\ c.options[1] \in ReminderOptions(n))
    BY <1>m, <2>1
  <2> QED BY <2>1, <2>2, <2>3 DEF IsConfig
<1> QED BY <1>1, <1>2

\* What NewService makes of a config: the config's Options, its retry policy, its
\* stream policy, its dead-letter policy and its delays are applied in this order.
StreamOf(c) == [with |-> "stream", prefix |-> c.prefix, approx |-> Flag(c.approx)]
DeadLetterOf(c) == [with |-> "deadLetter", suffix |-> c.suffix, dlq |-> Flag(c.dlq)]
DelaysOf(c) == [with |-> "delays", delays |-> c.delays]

AfterOptions(c) ==
  IF c.options # <<>> THEN Apply(defaultOptions, c.options[1]) ELSE defaultOptions
AfterRetry(c) ==
  IF c.retry # <<>> THEN Apply(AfterOptions(c), c.retry[1]) ELSE AfterOptions(c)
AfterStream(c) ==
  IF c.prefix # <<>> \/ c.approx # <<>> THEN Apply(AfterRetry(c), StreamOf(c)) ELSE AfterRetry(c)
AfterDeadLetter(c) ==
  IF c.dlq # <<>> \/ c.suffix # <<>> THEN Apply(AfterStream(c), DeadLetterOf(c)) ELSE AfterStream(c)
AfterDelays(c) ==
  IF c.delays # <<>> THEN Apply(AfterDeadLetter(c), DelaysOf(c)) ELSE AfterDeadLetter(c)

\* NewService with what buildOptions returns does this.
LEMMA BuildsInOrder ==
  ASSUME NEW c, IsConfig(c)
  PROVE  Result(buildOptions(c)) = AfterDelays(c)
<1> DEFINE S == {c.options[1], c.retry[1], StreamOf(c), DeadLetterOf(c), DelaysOf(c)}
           w1 == IF c.options # <<>> THEN <<c.options[1]>> ELSE <<>>
           w2 == IF c.retry # <<>> THEN <<c.retry[1]>> ELSE <<>>
           w3 == IF c.prefix # <<>> \/ c.approx # <<>> THEN <<StreamOf(c)>> ELSE <<>>
           w4 == IF c.dlq # <<>> \/ c.suffix # <<>> THEN <<DeadLetterOf(c)>> ELSE <<>>
           w5 == IF c.delays # <<>> THEN <<DelaysOf(c)>> ELSE <<>>
           v2 == w1 \o w2  v3 == v2 \o w3  v4 == v3 \o w4  v5 == v4 \o w5
<1>1. buildOptions(c) = w1 \o (((w2 \o w3) \o w4) \o w5)
  <2>1. c.options = w1
    BY DEF IsConfig
  <2>2. (IF c.retry = <<>> THEN <<>> ELSE <<c.retry[1]>>) = w2
    OBVIOUS
  <2>3. /\ When(c.prefix # <<>> \/ c.approx # <<>>, StreamOf(c)) = w3
        /\ When(c.dlq # <<>> \/ c.suffix # <<>>, DeadLetterOf(c)) = w4
        /\ When(c.delays # <<>>, DelaysOf(c)) = w5
    BY DEF When
  <2> HIDE DEF w1, w2, w3, w4, w5
  <2> QED BY <2>1, <2>2, <2>3 DEF buildOptions, Derived, StreamOf, DeadLetterOf, DelaysOf
<1>2. /\ c.options[1] \in S /\ c.retry[1] \in S /\ StreamOf(c) \in S
      /\ DeadLetterOf(c) \in S /\ DelaysOf(c) \in S
  OBVIOUS
<1> HIDE DEF S
<1>4. w1 \in Seq(S) /\ Result(w1) = AfterOptions(c)
  <2>1. CASE c.options # <<>>
    <3>1. w1 = <<c.options[1]>> /\ <<c.options[1]>> \in Seq(S)
      BY <1>2, <2>1
    <3> QED BY <2>1, <3>1, FirstOption DEF AfterOptions
  <2>2. CASE c.options = <<>>
    <3>1. w1 = <<>> /\ <<>> \in Seq(S)
      BY <2>2
    <3> QED BY <2>2, <3>1, NoOptions DEF AfterOptions
  <2> QED BY <2>1, <2>2
<1>5. w2 \in Seq(S) /\ v2 \in Seq(S) /\ Result(v2) = AfterRetry(c)
  <2>1. w2 = <<c.retry[1]>> \/ w2 = <<>>
    OBVIOUS
  <2>2. /\ w2 \in Seq(S) /\ v2 \in Seq(S)
        /\ w2 = <<c.retry[1]>> => Result(v2) = Apply(Result(w1), c.retry[1])
        /\ w2 = <<>> => Result(v2) = Result(w1)
    <3> HIDE DEF w1, w2
    <3> QED BY <1>2, <1>4, <2>1, MaybeMore
  <2> HIDE DEF v2, w1
  <2> QED BY <1>4, <2>1, <2>2 DEF AfterRetry
<1>6. w3 \in Seq(S) /\ v3 \in Seq(S) /\ Result(v3) = AfterStream(c)
  <2>1. w3 = <<StreamOf(c)>> \/ w3 = <<>>
    OBVIOUS
  <2>2. /\ w3 \in Seq(S) /\ v3 \in Seq(S)
        /\ w3 = <<StreamOf(c)>> => Result(v3) = Apply(Result(v2), StreamOf(c))
        /\ w3 = <<>> => Result(v3) = Result(v2)
    <3> HIDE DEF v2, w3
    <3> QED BY <1>2, <1>5, <2>1, MaybeMore
  <2> HIDE DEF v2, v3
  <2> QED BY <1>5, <2>1, <2>2 DEF AfterStream
<1>7. w4 \in Seq(S) /\ v4 \in Seq(S) /\ Result(v4) = AfterDeadLetter(c)
  <2>1. w4 = <<DeadLetterOf(c)>> \/ w4 = <<>>
    OBVIOUS
  <2>2. /\ w4 \in Seq(S) /\ v4 \in Seq(S)
        /\ w4 = <<DeadLetterOf(c)>> => Result(v4) = Apply(Result(v3), DeadLetterOf(c))
        /\ w4 = <<>> => Result(v4) = Result(v3)
    <3> HIDE DEF v3, w4
    <3> QED BY <1>2, <1>6, <2>1, MaybeMore
  <2> HIDE DEF v3, v4
  <2> QED BY <1>6, <2>1, <2>2 DEF AfterDeadLetter
<1>8. w5 \in Seq(S) /\ v5 \in Seq(S) /\ Result(v5) = AfterDelays(c)
  <2>1. w5 = <<DelaysOf(c)>> \/ w5 = <<>>
    OBVIOUS
  <2>2. /\ w5 \in Seq(S) /\ v5 \in Seq(S)
        /\ w5 = <<DelaysOf(c)>> => Result(v5) = Apply(Result(v4), DelaysOf(c))
        /\ w5 = <<>> => Result(v5) = Result(v4)
    <3> HIDE DEF v4, w5
    <3> QED BY <1>2, <1>7, <2>1, MaybeMore
  <2> HIDE DEF v4, v5
  <2> QED BY <1>7, <2>1, <2>2 DEF AfterDelays
<1>9. buildOptions(c) = v5
  <2> HIDE DEF w1, w2, w3, w4, w5
  <2>1. w1 \in Seq(S) /\ w2 \in Seq(S) /\ w3 \in Seq(S) /\ w4 \in Seq(S) /\ w5 \in Seq(S)
    BY <1>4, <1>5, <1>6, <1>7, <1>8
  <2> DEFINE p == w2 \o w3  q == p \o w4
  <2>2. p \in Seq(S)
    BY <2>1, ConcatProperties
  <2>3. w1 \o p = v3
    BY <2>1, ConcatLeft
  <2> HIDE DEF p, v3
  <2>4. q \in Seq(S)
    BY <2>1, <2>2, ConcatProperties
  <2>5. w1 \o q = (w1 \o p) \o w4
    BY <2>1, <2>2, ConcatLeft
  <2> HIDE DEF q
  <2>6. w1 \o (q \o w5) = (w1 \o q) \o w5
    <3>1. w1 \in Seq(S) /\ w5 \in Seq(S)
      BY <2>1
    <3> QED BY <2>4, <3>1, ConcatLeft
  <2> QED BY <1>1, <2>3, <2>5, <2>6 DEF p, q
<1> QED BY <1>8, <1>9

\* The last value given to a field is the one that is kept.
Keeps(f) ==
  \/ config[f] = <<>> /\ \A i \in DOMAIN asked : asked[i][f] = <<>>
  \/ \E i \in DOMAIN asked :
       /\ asked[i][f] = config[f] /\ config[f] # <<>>
       /\ \A j \in DOMAIN asked : j > i => asked[j][f] = <<>>

AnyConfig == UNION {PubSubConfigs(n) \cup ReminderConfigs(n) : n \in Nat}

SettingsInv ==
  /\ asked \in Seq(AnyConfig)
  /\ IsConfig(config)
  /\ \A f \in ConfigFields : Keeps(f)
  /\ effective = <<>> \/ effective = <<Result(buildOptions(config))>>

\* What is kept is the last value given.
LEMMA KeptIsLastGiven ==
  ASSUME asked \in Seq(AnyConfig), NEW f \in ConfigFields, Keeps(f)
  PROVE  config[f] = LastGiven(f)
<1> DEFINE given == {i \in DOMAIN asked : asked[i][f] # <<>>}
<1>0. DOMAIN asked \subseteq Nat
  OBVIOUS
<1>1. CASE config[f] = <<>> /\ \A i \in DOMAIN asked : asked[i][f] = <<>>
  <2>1. given = {}
    BY <1>1
  <2> QED BY <1>1, <2>1 DEF LastGiven
<1>2. ASSUME NEW i \in DOMAIN asked, asked[i][f] = config[f], config[f] # <<>>,
             \A j \in DOMAIN asked : j > i => asked[j][f] = <<>>
      PROVE  config[f] = LastGiven(f)
  <2>1. i \in given /\ \A j \in given : j <= i
    BY <1>0, <1>2
  <2>2. \A k \in given : (\A j \in given : j <= k) => k = i
    BY <1>0, <2>1
  <2>3. (CHOOSE k \in given : \A j \in given : j <= k) = i
    <3> HIDE DEF given
    <3> QED BY <2>1, <2>2
  <2> QED BY <1>2, <2>1, <2>3 DEF LastGiven
<1> QED BY <1>1, <1>2 DEF Keeps

\* A merge keeps what is new, and what is old where nothing is.
LEMMA MergeKeeps ==
  ASSUME IsConfig(config), asked \in Seq(AnyConfig), \A f \in ConfigFields : Keeps(f),
         NEW n \in Nat, NEW c \in PubSubConfigs(n) \cup ReminderConfigs(n),
         asked' = Append(asked, c), config' = Merge(config, c)
  PROVE  IsConfig(config)' /\ \A f \in ConfigFields : Keeps(f)'
<1>1. IsConfig(c)
  BY GivenIsConfig
<1>2. /\ config' = [f \in ConfigFields |-> Pick(c[f], config[f])]
      /\ \A f \in ConfigFields : config'[f] = Pick(c[f], config[f])
  BY DEF Merge, IsConfig
<1>3. IsConfig(config)'
  <2>1. /\ config'.retry = c.retry \/ config'.retry = config.retry
        /\ config'.options = c.options \/ config'.options = config.options
        /\ config' = [f \in ConfigFields |-> config'[f]]
    BY <1>2 DEF Pick, ConfigFields
  <2> QED BY <1>1, <2>1 DEF IsConfig
<1>4. c \in AnyConfig
  BY DEF AnyConfig
<1>5. /\ DOMAIN asked \subseteq Nat /\ Len(asked) \in Nat
      /\ DOMAIN asked = 1 .. Len(asked) /\ DOMAIN asked' = 1 .. Len(asked) + 1
      /\ asked'[Len(asked) + 1] = c /\ \A i \in DOMAIN asked : asked'[i] = asked[i]
  BY <1>4
<1>6. ASSUME NEW f \in ConfigFields
      PROVE  Keeps(f)'
  <2>1. CASE c[f] # <<>>
    <3>1. config'[f] = c[f]
      BY <1>2, <2>1 DEF Pick
    <3>2. \A j \in DOMAIN asked' : ~(j > Len(asked) + 1)
      BY <1>5
    <3>3. Len(asked) + 1 \in DOMAIN asked'
      BY <1>5
    <3> QED BY <1>5, <2>1, <3>1, <3>2, <3>3 DEF Keeps
  <2>2. CASE c[f] = <<>>
    <3>1. config'[f] = config[f]
      BY <1>2, <2>2 DEF Pick
    <3>2. \A j \in DOMAIN asked' : j \in DOMAIN asked \/ asked'[j][f] = <<>>
      BY <1>5, <2>2
    <3>3. Keeps(f)
      OBVIOUS
    <3>4. CASE config[f] = <<>> /\ \A i \in DOMAIN asked : asked[i][f] = <<>>
      BY <1>5, <3>1, <3>2, <3>4 DEF Keeps
    <3>5. ASSUME NEW i \in DOMAIN asked, asked[i][f] = config[f], config[f] # <<>>,
                 \A j \in DOMAIN asked : j > i => asked[j][f] = <<>>
          PROVE  Keeps(f)'
      <4>1. i \in DOMAIN asked' /\ asked'[i][f] = config'[f] /\ config'[f] # <<>>
        BY <1>5, <3>1, <3>5
      <4>2. \A j \in DOMAIN asked' : j > i => asked'[j][f] = <<>>
        BY <1>5, <3>2, <3>5
      <4> QED BY <4>1, <4>2 DEF Keeps
    <3> QED BY <3>3, <3>4, <3>5 DEF Keeps
  <2> QED BY <2>1, <2>2
<1> QED BY <1>3, <1>6

\* The invariant of the settings.
LEMMA SettingsInvInvariant == SettingsSpec => []SettingsInv
<1>1. SettingsInit => SettingsInv
  <2> SUFFICES ASSUME SettingsInit PROVE SettingsInv
    OBVIOUS
  <2>1. asked = <<>> /\ config = Zero /\ effective = <<>>
    BY DEF SettingsInit
  <2>2. IsConfig(config)
    BY <2>1 DEF Zero, IsConfig, ConfigFields
  <2>3. \A f \in ConfigFields : Keeps(f)
    <3>1. \A f \in ConfigFields : config[f] = <<>>
      BY <2>1 DEF Zero, ConfigFields
    <3>2. DOMAIN asked = {}
      BY <2>1
    <3> QED BY <3>1, <3>2 DEF Keeps
  <2>4. asked \in Seq(AnyConfig)
    BY <2>1
  <2> QED BY <2>1, <2>2, <2>3, <2>4 DEF SettingsInv
<1>2. SettingsInv /\ [SettingsNext]_settingsVars => SettingsInv'
  <2> SUFFICES ASSUME SettingsInv, [SettingsNext]_settingsVars PROVE SettingsInv'
    OBVIOUS
  <2>1. CASE WithComponents
    <3>1. PICK c \in Configs(Len(asked) + 1) : asked' = Append(asked, c) /\ config' = Merge(config, c)
      BY <2>1 DEF WithComponents
    <3>2. Len(asked) + 1 \in Nat
      BY DEF SettingsInv
    <3>3. c \in PubSubConfigs(Len(asked) + 1) \cup ReminderConfigs(Len(asked) + 1)
      BY <3>1 DEF Configs
    <3>4. c \in AnyConfig
      BY <3>2, <3>3 DEF AnyConfig
    <3>5. asked' \in Seq(AnyConfig)
      BY <3>1, <3>4 DEF SettingsInv
    <3>6. IsConfig(config)' /\ \A f \in ConfigFields : Keeps(f)'
      BY <3>1, <3>2, <3>3, MergeKeeps DEF SettingsInv
    <3>7. effective' = <<>>
      BY <2>1 DEF WithComponents
    <3> QED BY <3>5, <3>6, <3>7 DEF SettingsInv
  <2>2. CASE NewService
    BY <2>2 DEF NewService, SettingsInv, Result, Keeps
  <2>3. CASE UNCHANGED settingsVars
    BY <2>3 DEF settingsVars, SettingsInv, Keeps
  <2> QED BY <2>1, <2>2, <2>3 DEF SettingsNext
<1> QED BY <1>1, <1>2, PTL DEF SettingsSpec

\* What reaches the service, in terms of the config that was kept.
LEMMA FieldsArrive ==
  ASSUME NEW c, IsConfig(c)
  PROVE  LET o == AfterDelays(c)
             Opt(f) == IF c.options # <<>> /\ f \in DOMAIN c.options[1] THEN c.options[1][f] ELSE <<>>
         IN  /\ \A f \in {"prefix", "suffix"} : o[f] = Pick(c[f], Pick(Opt(f), defaultOptions[f]))
             /\ o.approx = IF c.approx = <<>> /\ c.prefix # <<>> THEN <<FALSE>>
                           ELSE Pick(c.approx, Pick(Opt("approx"), defaultOptions.approx))
             /\ o.dlq = IF c.dlq = <<>> /\ c.suffix # <<>> THEN <<FALSE>>
                        ELSE Pick(c.dlq, Pick(Opt("dlq"), defaultOptions.dlq))
             /\ \A f \in {"maxDeliver", "backoff"} :
                  o[f] = Pick(IF c.retry = <<>> THEN <<>> ELSE c.retry[1][f], defaultOptions[f])
             /\ o.delays = Pick(Positive(c.delays),
                                Pick(Positive(Opt("delays")), defaultOptions.delays))
<1> DEFINE d == defaultOptions
           o1 == AfterOptions(c)  o2 == AfterRetry(c)  o3 == AfterStream(c)
           o4 == AfterDeadLetter(c)  o5 == AfterDelays(c)
           Opt(f) == IF c.options # <<>> /\ f \in DOMAIN c.options[1] THEN c.options[1][f] ELSE <<>>
<1>p. \A v : Pick(<<>>, v) = v
  BY DEF Pick
<1>1. /\ IsOptions(o1)
      /\ o1.prefix = Pick(Opt("prefix"), d.prefix) /\ o1.suffix = Pick(Opt("suffix"), d.suffix)
      /\ o1.approx = Pick(Opt("approx"), d.approx) /\ o1.dlq = Pick(Opt("dlq"), d.dlq)
      /\ o1.maxDeliver = d.maxDeliver /\ o1.backoff = d.backoff
      /\ o1.delays = Pick(Positive(Opt("delays")), d.delays)
  <2> USE DefaultsAreOptions
  <2> HIDE DEF d
  <2>1. CASE c.options = <<>>
    BY <1>p, <2>1, NoDelaysArePositive DEF AfterOptions, d
  <2>2. CASE c.options # <<>> /\ StreamOption(c.options[1])
    <3>1. /\ o1 = Apply(d, c.options[1]) /\ c.options[1].with = "stream"
          /\ Opt("prefix") = c.options[1].prefix /\ Opt("approx") = c.options[1].approx
          /\ Opt("suffix") = <<>> /\ Opt("dlq") = <<>> /\ Opt("delays") = <<>>
          /\ Pick(Opt("approx"), d.approx) = c.options[1].approx
      BY <2>2 DEF AfterOptions, StreamOption, d, Pick
    <3>2. /\ IsOptions(o1) /\ o1.prefix = Pick(c.options[1].prefix, d.prefix)
          /\ o1.approx = c.options[1].approx
          /\ \A f \in Fields \ {"prefix", "approx"} : o1[f] = d[f]
      BY <3>1, StreamSets DEF d
    <3> QED BY <1>p, <3>1, <3>2, NoDelaysArePositive DEF Fields
  <2>3. CASE c.options # <<>> /\ DeadLetterOption(c.options[1])
    <3>1. /\ o1 = Apply(d, c.options[1]) /\ c.options[1].with = "deadLetter"
          /\ Opt("suffix") = c.options[1].suffix /\ Opt("dlq") = c.options[1].dlq
          /\ Opt("prefix") = <<>> /\ Opt("approx") = <<>> /\ Opt("delays") = <<>>
          /\ Pick(Opt("dlq"), d.dlq) = c.options[1].dlq
      BY <2>3 DEF AfterOptions, DeadLetterOption, d, Pick
    <3>2. /\ IsOptions(o1) /\ o1.suffix = Pick(c.options[1].suffix, d.suffix)
          /\ o1.dlq = c.options[1].dlq
          /\ \A f \in Fields \ {"suffix", "dlq"} : o1[f] = d[f]
      BY <3>1, DeadLetterSets DEF d
    <3> QED BY <1>p, <3>1, <3>2, NoDelaysArePositive DEF Fields
  <2>4. CASE c.options # <<>> /\ DelaysOption(c.options[1])
    <3>1. /\ o1 = Apply(d, c.options[1]) /\ c.options[1].with = "delays"
          /\ Opt("delays") = c.options[1].delays
          /\ Opt("prefix") = <<>> /\ Opt("suffix") = <<>>
          /\ Opt("approx") = <<>> /\ Opt("dlq") = <<>>
      BY <2>4 DEF AfterOptions, DelaysOption, d
    <3>2. /\ IsOptions(o1) /\ o1.delays = Pick(Positive(c.options[1].delays), d.delays)
          /\ \A f \in Fields \ {"delays"} : o1[f] = d[f]
      BY <3>1, DelaysSet DEF d
    <3> QED BY <1>p, <3>1, <3>2 DEF Fields
  <2> QED BY <2>1, <2>2, <2>3, <2>4 DEF IsConfig
<1> HIDE DEF o1, d, Opt
<1>2. /\ IsOptions(o2)
      /\ \A f \in {"maxDeliver", "backoff"} :
           o2[f] = Pick(IF c.retry = <<>> THEN <<>> ELSE c.retry[1][f], o1[f])
      /\ \A f \in Fields \ {"maxDeliver", "backoff"} : o2[f] = o1[f]
  <2>1. CASE c.retry = <<>>
    BY <1>p, <1>1, <2>1 DEF AfterRetry, o1
  <2>2. CASE c.retry # <<>>
    <3>1. o2 = Apply(o1, c.retry[1]) /\ c.retry[1].with = "retry"
      BY <2>2 DEF AfterRetry, o1, IsConfig
    <3> HIDE DEF o2
    <3> QED BY <1>1, <2>2, <3>1, RetrySets
  <2> QED BY <2>1, <2>2
<1> HIDE DEF o2
<1>3. /\ IsOptions(o3) /\ o3.prefix = Pick(c.prefix, o2.prefix)
      /\ o3.approx = IF c.approx = <<>> /\ c.prefix # <<>> THEN <<FALSE>> ELSE Pick(c.approx, o2.approx)
      /\ \A f \in Fields \ {"prefix", "approx"} : o3[f] = o2[f]
  <2>1. CASE c.prefix = <<>> /\ c.approx = <<>>
    BY <1>p, <1>2, <2>1 DEF AfterStream, o2
  <2>2. CASE c.prefix # <<>> \/ c.approx # <<>>
    <3>1. /\ o3 = Apply(o2, StreamOf(c)) /\ StreamOf(c).with = "stream"
          /\ StreamOf(c).prefix = c.prefix
          /\ StreamOf(c).approx = IF c.approx = <<>> /\ c.prefix # <<>> THEN <<FALSE>>
                                  ELSE Pick(c.approx, o2.approx)
      BY <2>2 DEF AfterStream, o2, StreamOf, Flag, Pick
    <3> HIDE DEF o3
    <3> QED BY <1>2, <3>1, StreamSets
  <2> QED BY <2>1, <2>2
<1> HIDE DEF o3
<1>4. /\ IsOptions(o4) /\ o4.suffix = Pick(c.suffix, o3.suffix)
      /\ o4.dlq = IF c.dlq = <<>> /\ c.suffix # <<>> THEN <<FALSE>> ELSE Pick(c.dlq, o3.dlq)
      /\ \A f \in Fields \ {"suffix", "dlq"} : o4[f] = o3[f]
  <2>1. CASE c.dlq = <<>> /\ c.suffix = <<>>
    BY <1>p, <1>3, <2>1 DEF AfterDeadLetter, o3
  <2>2. CASE c.dlq # <<>> \/ c.suffix # <<>>
    <3>1. /\ o4 = Apply(o3, DeadLetterOf(c)) /\ DeadLetterOf(c).with = "deadLetter"
          /\ DeadLetterOf(c).suffix = c.suffix
          /\ DeadLetterOf(c).dlq = IF c.dlq = <<>> /\ c.suffix # <<>> THEN <<FALSE>>
                                   ELSE Pick(c.dlq, o3.dlq)
      BY <2>2 DEF AfterDeadLetter, o3, DeadLetterOf, Flag, Pick
    <3> HIDE DEF o4
    <3> QED BY <1>3, <3>1, DeadLetterSets
  <2> QED BY <2>1, <2>2
<1> HIDE DEF o4
<1>5. /\ o5.delays = Pick(Positive(c.delays), o4.delays)
      /\ \A f \in Fields \ {"delays"} : o5[f] = o4[f]
  <2>1. CASE c.delays = <<>>
    BY <1>p, <2>1, NoDelaysArePositive DEF AfterDelays, o4
  <2>2. CASE c.delays # <<>>
    <3>1. o5 = Apply(o4, DelaysOf(c)) /\ DelaysOf(c).with = "delays" /\ DelaysOf(c).delays = c.delays
      BY <2>2 DEF AfterDelays, o4, DelaysOf
    <3> HIDE DEF o5
    <3> QED BY <1>4, <3>1, DelaysSet
  <2> QED BY <2>1, <2>2
<1> HIDE DEF o5
<1>6. \A f \in {"prefix", "suffix"} : o5[f] = Pick(c[f], Pick(Opt(f), d[f]))
  BY <1>1, <1>2, <1>3, <1>4, <1>5 DEF Fields
<1>7. /\ o5.approx = IF c.approx = <<>> /\ c.prefix # <<>> THEN <<FALSE>>
                     ELSE Pick(c.approx, Pick(Opt("approx"), d.approx))
      /\ o5.dlq = IF c.dlq = <<>> /\ c.suffix # <<>> THEN <<FALSE>>
                  ELSE Pick(c.dlq, Pick(Opt("dlq"), d.dlq))
  BY <1>1, <1>2, <1>3, <1>4, <1>5 DEF Fields
<1>8. \A f \in {"maxDeliver", "backoff"} :
        o5[f] = Pick(IF c.retry = <<>> THEN <<>> ELSE c.retry[1][f], d[f])
  BY <1>1, <1>2, <1>3, <1>4, <1>5 DEF Fields
<1>9. o5.delays = Pick(Positive(c.delays), Pick(Positive(Opt("delays")), d.delays))
  BY <1>1, <1>2, <1>3, <1>4, <1>5 DEF Fields
<1> QED BY <1>6, <1>7, <1>8, <1>9 DEF o5, d, Opt

\* What the service is built with is what SettingsArrive says, the two switches a policy
\* turns off included, however many configs were merged and in whatever order their
\* fields were given (mergePubSubComponentConfig, mergeReminderComponentConfig,
\* buildOptions and the With functions of the services).
THEOREM SettingsReachTheService == SettingsSpec => []SettingsArrive
<1>1. SettingsInv => SettingsArrive
  <2> SUFFICES ASSUME SettingsInv, effective # <<>> PROVE SettingsArrive
    BY DEF SettingsArrive
  <2>1. effective[1] = AfterDelays(config)
    BY BuildsInOrder DEF SettingsInv
  <2>2. \A f \in ConfigFields : config[f] = LastGiven(f)
    BY KeptIsLastGiven DEF SettingsInv
  <2>3. /\ config.prefix = LastGiven("prefix") /\ config.suffix = LastGiven("suffix")
        /\ config.approx = LastGiven("approx") /\ config.dlq = LastGiven("dlq")
        /\ config.retry = LastGiven("retry") /\ config.delays = LastGiven("delays")
        /\ config.options = LastGiven("options")
    BY <2>2 DEF ConfigFields
  <2>4. \A f : FromOptions(f) = IF config.options # <<>> /\ f \in DOMAIN config.options[1]
                                THEN config.options[1][f] ELSE <<>>
    BY <2>3 DEF FromOptions
  <2>5. IsConfig(config)
    BY DEF SettingsInv
  <2> DEFINE o == AfterDelays(config)
  <2>6. /\ \A f \in {"prefix", "suffix"} : o[f] = Pick(config[f], Pick(FromOptions(f), defaultOptions[f]))
        /\ o.approx = IF config.approx = <<>> /\ config.prefix # <<>> THEN <<FALSE>>
                      ELSE Pick(config.approx, Pick(FromOptions("approx"), defaultOptions.approx))
        /\ o.dlq = IF config.dlq = <<>> /\ config.suffix # <<>> THEN <<FALSE>>
                   ELSE Pick(config.dlq, Pick(FromOptions("dlq"), defaultOptions.dlq))
        /\ \A f \in {"maxDeliver", "backoff"} :
             o[f] = Pick(IF config.retry = <<>> THEN <<>> ELSE config.retry[1][f], defaultOptions[f])
        /\ o.delays = Pick(Positive(config.delays),
                           Pick(Positive(FromOptions("delays")), defaultOptions.delays))
    BY <2>4, <2>5, FieldsArrive
  <2> HIDE DEF o
  <2>7. effective[1] = o
    BY <2>1 DEF o
  <2> QED BY <2>3, <2>6, <2>7 DEF SettingsArrive
<1> QED BY <1>1, SettingsInvInvariant, PTL

==============================================================================
