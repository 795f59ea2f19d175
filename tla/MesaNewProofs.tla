---------------------------- MODULE MesaNewProofs ----------------------------
(* Machine-checked proofs about MesaNew. *)
EXTENDS MesaNew, TLAPS

\* What is open at each stage: the connections asked for and already reached.
Held ==
  /\ stage = "telemetry" => open = {}
  /\ stage = "failed" => OnlyRegistryLeaks
  /\ stage = "postgres" => open = {"telemetry"}
  /\ stage = "redis" => open = {"telemetry"} \cup (opts \cap {"postgres"})
  /\ stage = "etcd" => open = {"telemetry"} \cup (opts \cap {"postgres", "redis"})
  /\ stage = "service" => open = {"telemetry"} \cup (opts \cap Connections)
  /\ stage \in {"pubsub", "reminder", "ok"} =>
       open = {"telemetry"} \cup (opts \cap Connections)
              \cup (IF "service" \in opts THEN {"registry"} ELSE {})

\* What is registered at each stage.
Served ==
  /\ stage \in {"pubsub", "reminder", "ok"} => ("service" \in opts => "etcd" \in opts)
  /\ stage \in Connections \cup {"telemetry", "service", "pubsub"} => components = {}
  /\ stage = "reminder" => /\ components = opts \cap {"pubsub"}
                           /\ "pubsub" \in opts => "redis" \in opts
  /\ stage = "ok" => /\ components = opts \cap Defaults
                     /\ "pubsub" \in opts => "redis" \in opts
                     /\ "reminder" \in opts => "postgres" \in opts

\* No two registered components share a name.
Distinct == \A c, d \in components :
  normalizeComponentName(NameOf(c)) = normalizeComponentName(NameOf(d)) => c = d

\* What New has found missing.
Reasons == ValidatedConfigBuilds /\ (stage # "failed" => why = "none")

IndInv == TypeOK /\ Held /\ Served /\ Distinct /\ Reasons

LEMMA RegisterStep ==
  ASSUME IndInv, NEW c \in Defaults, NEW next \in {"reminder", "ok"},
         c = "pubsub" => next = "reminder", c = "reminder" => next = "ok",
         RegisterDefault(c, next)
  PROVE  IndInv'
<1> USE DEF IndInv, TypeOK, Held, OnlyRegistryLeaks, Served, Asked, Connections, Defaults, given
<1> USE DEF RegisterDefault, Missing, Abandon, Fail
<1>1. (TypeOK /\ Held /\ Served)'
  <2>1. CASE c = "pubsub"
    <3>1. next = "reminder" /\ stage = "pubsub"
      BY <2>1
    <3>2. TypeOK'
      BY <2>1, <3>1
    <3>3. Held'
      BY <2>1, <3>1
    <3>4. Served'
      <4>1. components = {} /\ opts' = opts /\ ("service" \in opts => "etcd" \in opts)
        BY <3>1
      <4>2. CASE stage' = "failed"
        BY <4>2, <4>1
      <4>3. CASE stage' # "failed"
        <5>1. stage' = "reminder" /\ ("pubsub" \in opts => "redis" \in opts)
          BY <2>1, <3>1, <4>3
        <5>2. components' = opts \cap {"pubsub"}
          BY <2>1, <3>1, <4>1, <4>3
        <5> HIDE DEF RegisterDefault
        <5> QED BY <4>1, <5>1, <5>2
      <4> QED BY <4>2, <4>3
    <3> QED BY <3>2, <3>3, <3>4
  <2>2. CASE c = "reminder"
    <3>1. next = "ok" /\ stage = "reminder"
      BY <2>2
    <3>2. TypeOK'
      BY <2>2, <3>1
    <3>3. Held'
      BY <2>2, <3>1
    <3>4. Served'
      BY <2>2, <3>1
    <3> QED BY <3>2, <3>3, <3>4
  <2> QED BY <2>1, <2>2
<1>2. \A d \in Defaults : NameOf(d)' = NameOf(d)
  BY DEF RegisterDefault, NameOf
<1>3. Distinct'
  BY <1>2 DEF Distinct, RegisterDefault, NameRefused, GetComponent
<1>4. Reasons'
  BY DEF Reasons, ValidatedConfigBuilds, Validate, RegisterDefault, Missing, Abandon, Fail
<1> QED BY <1>1, <1>3, <1>4

LEMMA IndStep == IndInv /\ [Next]_vars => IndInv'
<1> SUFFICES ASSUME IndInv, [Next]_vars PROVE IndInv'
  OBVIOUS
<1>1. CASE RegisterPubSub
  BY <1>1, RegisterStep DEF RegisterPubSub, Defaults
<1>2. CASE RegisterReminder
  BY <1>2, RegisterStep DEF RegisterReminder, Defaults
<1>3. ASSUME UNCHANGED <<given, components>>,
             (TypeOK /\ Held /\ Served /\ Reasons)'
      PROVE  IndInv'
  <2>1. components \subseteq Defaults /\ \A d \in Defaults : NameOf(d)' = NameOf(d)
    BY <1>3 DEF IndInv, TypeOK, Defaults, NameOf, given
  <2>2. Distinct'
    BY <1>3, <2>1 DEF IndInv, Distinct
  <2> QED BY <1>3, <2>2 DEF IndInv
<1>4. ASSUME NewTelemetry \/ ConnectPostgres \/ PostgresFails \/ MalformedDSN
             \/ ConnectRedis \/ RedisFails \/ ConnectEtcd \/ EtcdFails \/ NewServers
      PROVE  UNCHANGED <<given, components>>
  BY <1>4 DEF NewTelemetry, ConnectPostgres, PostgresFails, MalformedDSN, ConnectRedis,
     RedisFails, ConnectEtcd, EtcdFails, NewServers, Connect, ConnectFails
<1> USE DEF IndInv, TypeOK, Held, OnlyRegistryLeaks, Served, Reasons, ValidatedConfigBuilds, Validate,
            Asked, Connections, Defaults, given, Fail
<1>5. CASE NewTelemetry
  BY <1>3, <1>4, <1>5 DEF NewTelemetry
<1>6. CASE ConnectPostgres
  BY <1>3, <1>4, <1>6 DEF ConnectPostgres, Connect
<1>7. CASE PostgresFails
  BY <1>3, <1>4, <1>7 DEF PostgresFails, ConnectFails
<1>8. CASE ConnectRedis
  BY <1>3, <1>4, <1>8 DEF ConnectRedis, Connect
<1>9. CASE RedisFails
  BY <1>3, <1>4, <1>9 DEF RedisFails, ConnectFails
<1>10. CASE ConnectEtcd
  BY <1>3, <1>4, <1>10 DEF ConnectEtcd, Connect
<1>11. CASE EtcdFails
  BY <1>3, <1>4, <1>11 DEF EtcdFails, ConnectFails
<1>12. CASE NewServers
  BY <1>3, <1>4, <1>12 DEF NewServers, Abandon
<1>13. CASE MalformedDSN
  BY <1>3, <1>4, <1>13 DEF MalformedDSN
<1>14. CASE UNCHANGED vars
  BY <1>3, <1>14 DEF vars
<1> QED
  BY <1>1, <1>2, <1>5, <1>6, <1>7, <1>8, <1>9, <1>10, <1>11, <1>12, <1>13, <1>14 DEF Next

LEMMA IndInit == Init => IndInv
BY DEF Init, IndInv, TypeOK, Held, Served, Distinct, Reasons, ValidatedConfigBuilds,
       Connections, Defaults

LEMMA IndImplies == IndInv => OnlyRegistryLeaks /\ ReadyToRun /\ ValidatedConfigBuilds
BY DEF IndInv, TypeOK, Held, Served, Distinct, Reasons, OnlyRegistryLeaks, ReadyToRun,
       GetComponent, Connections, Defaults

LEMMA IndInvariant == Spec => []IndInv
BY IndInit, IndStep, PTL DEF Spec

\* Every reachable state is well typed.
THEOREM TypeCorrect == Spec => []TypeOK
<1>1. IndInv => TypeOK
  BY DEF IndInv
<1> QED BY <1>1, IndInvariant, PTL

\* A New that returns an error, wherever it failed, has closed all it had opened but
\* the client of a micro server's registry, which it made just before.
THEOREM FailureIsClean == Spec => []OnlyRegistryLeaks
BY IndInvariant, IndImplies, PTL

\* A New that succeeds has opened and registered what it was asked for, with each
\* component's connection and under a name of its own.
THEOREM SuccessIsComplete == Spec => []ReadyToRun
BY IndInvariant, IndImplies, PTL

\* New does not find missing what Validate has let pass.
THEOREM ValidateSuffices == Spec => []ValidatedConfigBuilds
BY IndInvariant, IndImplies, PTL

=============================================================================
