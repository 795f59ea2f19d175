------------------------------- MODULE MesaNew -------------------------------
(***************************************************************************)
(* New (mesa.go): the connections a Mesa needs are opened one after the    *)
(* other, each may fail, and a failure undoes by hand what was opened      *)
(* before it.  Then come the micro server and the default components       *)
(* (default_components.go), which need connections of their own and are    *)
(* registered under a name.  Config (config.go) is checked before New, by  *)
(* rules of its own.  The micro server's registry has an etcd client of    *)
(* its own, which Mesa keeps no reference to.                              *)
(***************************************************************************)

\* What New is asked for, and the connections among it.
Asked == {"postgres", "redis", "etcd", "service", "pubsub", "reminder", "notifier"}
Connections == {"postgres", "redis", "etcd"}
Defaults == {"pubsub", "reminder"}

\* Telemetry is off, has its name and endpoint, or is enabled without one of them.
TelemetryConfigs == {"off", "complete", "incomplete"}

\* Names given to the default components: none, a blank, one that has to be trimmed.
RawNames == {"", " ", "pubsub", " other"}
normalizeComponentName(n) == IF n = " " THEN "" ELSE IF n = " other" THEN "other" ELSE n

\* What Validate finds wrong with a value: nothing, the trace sample ratio, or one of
\* the others (port, timeouts, sizes, addresses, credentials), which New does not check.
Flaws == {"none", "ratio", "other"}

VARIABLES
  opts,        \* what the options ask for
  telemetry,   \* the telemetry configuration
  flaw,        \* the value that is out of its range
  named,       \* the names given to the default components
  stage,       \* how far New is
  open,        \* telemetry, connections and the registry's client that are open
  components,  \* default components registered
  why          \* why New failed: no connection, a requirement, a name; or none

given == <<opts, telemetry, flaw, named>>
vars == <<given, stage, open, components, why>>

TypeOK ==
  /\ opts \in SUBSET Asked
  /\ telemetry \in TelemetryConfigs /\ flaw \in Flaws
  /\ named \in [Defaults -> RawNames]
  /\ stage \in Connections \cup {"telemetry", "service", "pubsub", "reminder", "ok", "failed", "panicked"}
  /\ open \subseteq Connections \cup {"telemetry", "registry"}
  /\ components \subseteq Defaults
  /\ why \in {"none", "connection", "requirement", "name"}

Init ==
  /\ opts \in SUBSET Asked
  /\ telemetry \in TelemetryConfigs /\ flaw \in Flaws
  /\ named \in [Defaults -> RawNames]
  /\ stage = "telemetry"
  /\ open = {} /\ components = {} /\ why = "none"

\* Config.Validate.  A Config has no service scheme, and a value out of its range is
\* refused even where New would not look at it.
\* Mutant: Validate_NoNotifier forgets the notifier.
Validate_NoNotifier ==
  /\ flaw = "none" /\ telemetry # "incomplete"
  /\ "pubsub" \in opts => "redis" \in opts
  /\ "reminder" \in opts => "postgres" \in opts
Validate ==
  /\ flaw = "none" /\ telemetry # "incomplete"
  /\ "pubsub" \in opts => "redis" \in opts
  /\ "reminder" \in opts => {"postgres", "notifier"} \subseteq opts

\* The Name of a service, from the name given: pubsub ignores a blank one and trims
\* the others, reminder takes all but the empty one.
NameOf(c) ==
  CASE c = "pubsub"   -> IF normalizeComponentName(named[c]) = "" THEN c
                         ELSE normalizeComponentName(named[c])
    [] c = "reminder" -> IF named[c] = "" THEN c ELSE named[c]

\* GetComponent.
GetComponent(n) == {c \in components : normalizeComponentName(NameOf(c)) = normalizeComponentName(n)}

Fail(reason) == stage' = "failed" /\ why' = reason

\* telemetry.New looks at the sample ratio, when telemetry is enabled.  Past its exporter only resource.New may fail, which it does not
\* for the one attribute it is given.
NewTelemetry ==
  /\ stage = "telemetry"
  /\ IF telemetry = "incomplete" \/ (telemetry = "complete" /\ flaw = "ratio")
     THEN UNCHANGED open /\ Fail("requirement")
     ELSE \/ open' = {"telemetry"} /\ stage' = "postgres" /\ UNCHANGED why
          \/ telemetry = "complete" /\ UNCHANGED open /\ Fail("connection")
  /\ UNCHANGED <<given, components>>

\* One connection: opened if asked for.
Connect(r, nextStage) ==
  /\ stage = r
  /\ open' = IF r \in opts THEN open \cup {r} ELSE open
  /\ stage' = nextStage
  /\ UNCHANGED <<given, components, why>>

\* The connection fails its first ping and is closed by newDB, newRedis or NewCtl;
\* New closes those in undo.
ConnectFails(r, undo) ==
  /\ stage = r
  /\ r \in opts
  /\ open' = open \ undo
  /\ Fail("connection")
  /\ UNCHANGED <<given, components>>

\* pgdriver.WithDSN panics on a DSN it cannot parse, and nothing recovers from it.
MalformedDSN ==
  /\ stage = "postgres"
  /\ "postgres" \in opts
  /\ stage' = "panicked"
  /\ UNCHANGED <<given, open, components, why>>

ConnectPostgres == Connect("postgres", "redis")
ConnectRedis == Connect("redis", "etcd")
ConnectEtcd == Connect("etcd", "service")

PostgresFails == ConnectFails("postgres", {"telemetry"})
\* Mutant: RedisFails_Leak forgets the database.
RedisFails_Leak == ConnectFails("redis", {"telemetry"})
RedisFails == ConnectFails("redis", {"postgres", "telemetry"})
EtcdFails == ConnectFails("etcd", {"redis", "postgres", "telemetry"})

\* closeResources and the shutdown of telemetry; the registry's client is not theirs.
Abandon(reason) ==
  /\ open' = open \ {"etcd", "redis", "postgres", "telemetry"}
  /\ Fail(reason)

\* The micro server registers itself with etcd: NewEtcdRegistry connects a client of
\* its own to the endpoints.
NewServers ==
  /\ stage = "service"
  /\ IF "service" \in opts /\ "etcd" \notin opts
     THEN Abandon("requirement")
     ELSE /\ open' = IF "service" \in opts THEN open \cup {"registry"} ELSE open
          /\ stage' = "pubsub" /\ UNCHANGED why
  /\ UNCHANGED <<given, components>>

\* What a default component must find.
\* Mutant: Missing_PubSub lets pubsub do without Redis.
Missing_PubSub(c) == c = "reminder" /\ ("postgres" \notin open \/ "notifier" \notin opts)
Missing(c) ==
  \/ c = "pubsub" /\ "redis" \notin open
  \/ c = "reminder" /\ ("postgres" \notin open \/ "notifier" \notin opts)

\* RegisterComponent refuses a blank name, and one that is taken.
NameRefused(c) ==
  \/ normalizeComponentName(NameOf(c)) = ""
  \/ GetComponent(NameOf(c)) # {}

\* One entry of defaultComponentRegistrars.
RegisterDefault(c, nextStage) ==
  /\ stage = c
  /\ \/ /\ c \notin opts
        /\ stage' = nextStage
        /\ UNCHANGED <<open, components, why>>
     \/ /\ c \in opts /\ Missing(c)
        /\ Abandon("requirement")
        /\ UNCHANGED components
     \/ /\ c \in opts /\ ~Missing(c) /\ NameRefused(c)
        /\ Abandon("name")
        /\ UNCHANGED components
     \/ /\ c \in opts /\ ~Missing(c) /\ ~NameRefused(c)
        /\ components' = components \cup {c}
        /\ stage' = nextStage
        /\ UNCHANGED <<open, why>>
  /\ UNCHANGED given

RegisterPubSub == RegisterDefault("pubsub", "reminder")
RegisterReminder == RegisterDefault("reminder", "ok")

Next ==
  \/ NewTelemetry
  \/ ConnectPostgres \/ PostgresFails \/ MalformedDSN
  \/ ConnectRedis \/ RedisFails
  \/ ConnectEtcd \/ EtcdFails
  \/ NewServers
  \/ RegisterPubSub \/ RegisterReminder

Spec == Init /\ [][Next]_vars

-----------------------------------------------------------------------------
(* Properties *)

\* A New that returns an error has closed telemetry and every connection it opened,
\* wherever it failed.  Only the client of the micro server's registry may be left open,
\* and only by the refusal of a default component, once the micro server is made: no
\* branch of New closes that one.
OnlyRegistryLeaks ==
  stage = "failed" =>
    /\ open \subseteq {"registry"}
    /\ "registry" \in open => /\ {"service", "etcd"} \subseteq opts
                              /\ opts \cap Defaults # {}
                              /\ why # "connection"

\* A New that succeeds has opened just what was asked for, every service that was
\* asked for has the connection it works with, and is found under its own name and
\* nobody else's: the Mesa is safe to run.
\* Mutants of Missing break it.
ReadyToRun ==
  stage = "ok" =>
    /\ open \ {"registry"} = {"telemetry"} \cup (opts \cap Connections)
    /\ components = opts \cap Defaults
    /\ "service" \in opts <=> "registry" \in open
    /\ "service" \in opts => "etcd" \in open
    /\ "pubsub" \in components => "redis" \in open
    /\ "reminder" \in components => "postgres" \in open
    /\ \A c \in components : GetComponent(NameOf(c)) = {c}

\* The rules of Validate and those New applies agree: options that came from a valid
\* Config never make New fail for something that is missing, unless a service scheme
\* was added to them without etcd.
ValidatedConfigBuilds ==
  Validate /\ why = "requirement" => "service" \in opts /\ "etcd" \notin opts

=============================================================================
