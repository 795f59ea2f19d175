----------------------------- MODULE Dispatcher -----------------------------
(***************************************************************************)
(* DispatcherNotifier (reminder/dispatcher.go): which handler a reminder   *)
(* goes to while handlers are still being registered.  Keys are trimmed    *)
(* and lowered everywhere, so they are values here, and "" is the blank    *)
(* one.  The handler is looked up under the lock and called without it.    *)
(***************************************************************************)
EXTENDS Integers

CONSTANTS Channels, Types,   \* keys that are not blank
          Notifies           \* calls of Notify

VARIABLES
  routes, types, channels, fallback,   \* what has a handler
  note                                 \* the calls of Notify

dispatcherVars == <<routes, types, channels, fallback, note>>

\* A payload is blank, not JSON, or an envelope whose type may be blank.
Payloads == {[json |-> TRUE, type |-> ""], [json |-> FALSE, type |-> ""]}
            \cup {[json |-> TRUE, type |-> t] : t \in Types}

DispatcherInit ==
  /\ routes = {} /\ types = {} /\ channels = {} /\ fallback = FALSE
  /\ note = [n \in Notifies |-> [at |-> "idle", outcome |-> "none"]]

\* Register, RegisterType, RegisterChannel and SetFallback; the first three refuse
\* a blank key.
Register(c, t) ==
  /\ c # "" /\ t # ""
  /\ routes' = routes \cup {<<c, t>>}
  /\ UNCHANGED <<types, channels, fallback, note>>

RegisterType(t) ==
  /\ t # ""
  /\ types' = types \cup {t}
  /\ UNCHANGED <<routes, channels, fallback, note>>

RegisterChannel(c) ==
  /\ c # ""
  /\ channels' = channels \cup {c}
  /\ UNCHANGED <<routes, types, fallback, note>>

SetFallback ==
  /\ fallback' = TRUE
  /\ UNCHANGED <<routes, types, channels, note>>

\* Which of its handlers the dispatcher picks.
\* Mutant: lookup_ChannelFirst asks the channel's before the type's.
lookup_ChannelFirst(c, t) ==
  IF c # "" /\ t # "" /\ <<c, t>> \in routes THEN "route"
  ELSE IF c # "" /\ c \in channels THEN "channel"
  ELSE IF t # "" /\ t \in types THEN "type"
  ELSE IF fallback THEN "fallback"
  ELSE "none"
lookup(c, t) ==
  IF c # "" /\ t # "" /\ <<c, t>> \in routes THEN "route"
  ELSE IF t # "" /\ t \in types THEN "type"
  ELSE IF c # "" /\ c \in channels THEN "channel"
  ELSE IF fallback THEN "fallback"
  ELSE "none"

\* Priority, and the handlers there are for a reminder.
Rank == [none |-> 0, fallback |-> 1, channel |-> 2, type |-> 3, route |-> 4]
Handlers(c, t) ==
  {"none"} \cup {x \in {"fallback"} : fallback}
           \cup {x \in {"channel"} : c \in channels}
           \cup {x \in {"type"} : t \in types}
           \cup {x \in {"route"} : <<c, t>> \in routes}

\* Notify reads the reminder; `had' is history: the handlers there were by then.
Notify(n, c, p) ==
  /\ note[n].at = "idle"
  /\ note' = [note EXCEPT ![n] = [at |-> "read", channel |-> c, payload |-> p,
                                  had |-> Handlers(c, p.type), outcome |-> "none"]]
  /\ UNCHANGED <<routes, types, channels, fallback>>

\* The lookup, and what Notify then does: call the handler, or return one of two
\* errors.
Lookup(n) ==
  /\ note[n].at = "read"
  /\ LET found == lookup(note[n].channel, note[n].payload.type)
         outcome == IF found # "none" THEN found
                    ELSE IF note[n].payload.json THEN "ErrNoNotifierHandler" ELSE "decode error"
     IN  note' = [note EXCEPT ![n].at = "looked", ![n].outcome = outcome]
  /\ UNCHANGED <<routes, types, channels, fallback>>

DispatcherNext ==
  \/ \E c \in Channels \cup {""}, t \in Types \cup {""} : Register(c, t)
  \/ \E t \in Types \cup {""} : RegisterType(t)
  \/ \E c \in Channels \cup {""} : RegisterChannel(c)
  \/ SetFallback
  \/ \E n \in Notifies :
       \/ \E c \in Channels \cup {""}, p \in Payloads : Notify(n, c, p)
       \/ Lookup(n)

DispatcherSpec == DispatcherInit /\ [][DispatcherNext]_dispatcherVars

-----------------------------------------------------------------------------
(* Properties *)

\* A reminder goes to a handler that is at least as specific as any that was there
\* when Notify was called (readme.md: channel and type, type, channel, fallback),
\* whatever is registered meanwhile; a handler that was there is never missed, and a
\* payload that is not JSON is no error as long as somebody takes it.
DispatchFollowsPriority ==
  \A n \in Notifies : note[n].at = "looked" =>
    IF note[n].outcome \in {"ErrNoNotifierHandler", "decode error"}
    THEN /\ note[n].had = {"none"}
         /\ (note[n].outcome = "decode error") <=> ~note[n].payload.json
    ELSE \A h \in note[n].had : Rank[note[n].outcome] >= Rank[h]

=============================================================================
