------------------------------ MODULE Settings ------------------------------
(***************************************************************************)
(* How the settings of the pub/sub and the reminder component reach their  *)
(* service.  WithComponents, WithPubSub and WithReminder merge what they   *)
(* are given into one config (options.go); New turns the config into       *)
(* service options, the config's own Options first (buildOptions), and     *)
(* the service applies them to its defaults (pubsub/options.go,            *)
(* reminder/options.go).                                                   *)
(* A field is a sequence, empty when it has its zero value: a string or    *)
(* number <<v>>, a *bool <<TRUE>> or <<FALSE>>, a slice itself.  Fields    *)
(* that are treated alike are modelled once: prefix stands for the other   *)
(* numbers and strings of the stream policy, too.                          *)
(***************************************************************************)
EXTENDS Integers, Sequences

CONSTANT MaxMerges   \* bound: options that give component settings

ASSUME MaxMergesAssumption == MaxMerges \in Nat

VARIABLES
  component,   \* the component whose settings are followed; each has its own config
  asked,       \* history: the configs given, in order
  config,      \* options.components: what they were merged to
  effective    \* the options of the service, once it is built

settingsVars == <<component, asked, config, effective>>

Pick(new, old) == IF new = <<>> THEN old ELSE new

\* mergePubSubComponentConfig and mergeReminderComponentConfig.  A retry policy, the
\* retry delays and the Options are replaced whole.
Merge(current, incoming) == [f \in DOMAIN current |-> Pick(incoming[f], current[f])]

-----------------------------------------------------------------------------
(* Service options *)

WithStreamPolicy(o, p) ==
  [o EXCEPT !.prefix = Pick(p.prefix, @), !.approx = p.approx]
WithDeadLetterPolicy(o, p) ==
  [o EXCEPT !.suffix = Pick(p.suffix, @), !.dlq = p.dlq]
WithRetryPolicy(o, p) ==
  [o EXCEPT !.maxDeliver = Pick(p.maxDeliver, @), !.backoff = Pick(p.backoff, @)]
\* Delays that are not positive are dropped, and the option with the last of them.
Positive(delays) == IF delays = <<>> THEN <<>> ELSE SelectSeq(delays, LAMBDA d : d > 0)
WithRetryDelays(o, p) ==
  [o EXCEPT !.delays = Pick(Positive(p.delays), @)]

Apply(o, option) ==
  CASE option.with = "stream"     -> WithStreamPolicy(o, option)
    [] option.with = "deadLetter" -> WithDeadLetterPolicy(o, option)
    [] option.with = "retry"      -> WithRetryPolicy(o, option)
    [] option.with = "delays"     -> WithRetryDelays(o, option)

defaultOptions ==
  [prefix |-> <<"default">>, approx |-> <<TRUE>>, suffix |-> <<"default">>, dlq |-> <<TRUE>>,
   maxDeliver |-> <<3>>, backoff |-> <<1, 5, 30>>, delays |-> <<1, 5, 30>>]

\* A policy struct starts from its zero value.
Flag(field) == Pick(field, <<FALSE>>)

When(given, option) == IF given THEN <<option>> ELSE <<>>

\* The options the fields of a config stand for.
Derived(c) ==
  (IF c.retry = <<>> THEN <<>> ELSE <<c.retry[1]>>)
  \o When(c.prefix # <<>> \/ c.approx # <<>>,
          [with |-> "stream", prefix |-> c.prefix, approx |-> Flag(c.approx)])
  \o When(c.dlq # <<>> \/ c.suffix # <<>>,
          [with |-> "deadLetter", suffix |-> c.suffix, dlq |-> Flag(c.dlq)])
  \o When(c.delays # <<>>, [with |-> "delays", delays |-> c.delays])

\* Mutant: buildOptions_Last lets the config's Options have the last word.
buildOptions_Last(c) == Derived(c) \o c.options
buildOptions(c) == c.options \o Derived(c)

-----------------------------------------------------------------------------
(* Configs *)

Zero == [retry |-> <<>>, prefix |-> <<>>, approx |-> <<>>, dlq |-> <<>>, suffix |-> <<>>,
         delays |-> <<>>, options |-> <<>>]

\* A value says which config gave it.  Options come from one With* function here: the
\* service applies several one by one, in their order.
None == {<<>>}
Maybe(S) == None \cup {<<x>> : x \in S}

RetryPolicies(n) ==
  {[with |-> "retry", maxDeliver |-> <<n>>, backoff |-> <<>>],
   [with |-> "retry", maxDeliver |-> <<>>, backoff |-> <<n>>]}
PubSubOptions(n) ==
  {[with |-> "stream", prefix |-> <<-n>>, approx |-> <<TRUE>>],
   [with |-> "deadLetter", suffix |-> <<-n>>, dlq |-> <<FALSE>>]}
RetryDelays(n) == {<<n>>, <<0>>, <<n, 0>>}
ReminderOptions(n) == {[with |-> "delays", delays |-> d] : d \in RetryDelays(n)}

PubSubConfigs(n) ==
  [retry : Maybe(RetryPolicies(n)), prefix : Maybe({n}), approx : Maybe(BOOLEAN),
   dlq : Maybe(BOOLEAN), suffix : Maybe({n}), delays : None, options : Maybe(PubSubOptions(n))]

ReminderConfigs(n) ==
  [retry : None, prefix : None, approx : None, dlq : None, suffix : None,
   delays : None \cup RetryDelays(n), options : Maybe(ReminderOptions(n))]

SettingsInit ==
  /\ component \in {"pubsub", "reminder"}
  /\ asked = <<>> /\ config = Zero /\ effective = <<>>

Configs(n) == IF component = "pubsub" THEN PubSubConfigs(n) ELSE ReminderConfigs(n)

\* One of WithComponents, WithPubSub, WithReminder.
WithComponents ==
  /\ effective = <<>> /\ Len(asked) < MaxMerges
  /\ LET n == Len(asked) + 1
     IN  \E incoming \in Configs(n) :
           /\ asked' = Append(asked, incoming)
           /\ config' = Merge(config, incoming)
  /\ UNCHANGED <<component, effective>>

\* What the options make of the defaults, after each of them.
Applied(options) ==
  LET o[n \in 0 .. Len(options)] ==
        IF n = 0 THEN defaultOptions ELSE Apply(o[n - 1], options[n])
  IN  o

\* NewService, with what buildOptions returns.
NewService ==
  /\ effective = <<>>
  /\ LET options == buildOptions(config)
     IN  effective' = <<Applied(options)[Len(options)]>>
  /\ UNCHANGED <<component, asked, config>>

SettingsNext == WithComponents \/ NewService

SettingsSpec == SettingsInit /\ [][SettingsNext]_settingsVars

-----------------------------------------------------------------------------
(* Properties *)

\* The last non-zero value given to a field, if any.
LastGiven(f) ==
  LET given == {i \in DOMAIN asked : asked[i][f] # <<>>}
  IN  IF given = {} THEN <<>> ELSE asked[CHOOSE i \in given : \A j \in given : j <= i][f]

\* What the last Options that were given say of a setting, if anything.
FromOptions(f) ==
  LET options == LastGiven("options")
  IN  IF options # <<>> /\ f \in DOMAIN options[1] THEN options[1][f] ELSE <<>>

\* What becomes of each setting, whatever was merged before or after it: a field wins
\* over Options, even over those of a later call, the last value over earlier ones, and
\* what nobody gave has its default; a retry policy is a unit.  The two switches, approx
\* and dlq, are an exception: once another field of their policy was given, and the
\* switch itself never as a field, the switch is off, whatever Options and the default
\* say, for buildOptions hands over a policy that starts from its zero value.
SettingsArrive ==
  effective # <<>> =>
    LET o == effective[1]
        Expect(f) == Pick(LastGiven(f), Pick(FromOptions(f), defaultOptions[f]))
        Switch(f, other) == IF LastGiven(f) = <<>> /\ LastGiven(other) # <<>>
                            THEN <<FALSE>> ELSE Expect(f)
        retry == LastGiven("retry")
    IN  /\ o.prefix = Expect("prefix") /\ o.suffix = Expect("suffix")
        /\ o.approx = Switch("approx", "prefix") /\ o.dlq = Switch("dlq", "suffix")
        /\ \A f \in {"maxDeliver", "backoff"} :
             o[f] = Pick(IF retry = <<>> THEN <<>> ELSE retry[1][f], defaultOptions[f])
        /\ o.delays = Pick(Positive(LastGiven("delays")),
                           Pick(Positive(FromOptions("delays")), defaultOptions.delays))

\* A message that has used up its deliveries is dead-lettered (readme.md) unless
\* somebody said that dead letters are disabled.
DeadLettersUnlessDisabled ==
  effective # <<>> =>
    \/ effective[1].dlq = <<TRUE>>
    \/ \E i \in DOMAIN asked :
         \/ asked[i].dlq = <<FALSE>>
         \/ \E j \in DOMAIN asked[i].options :
              /\ asked[i].options[j].with = "deadLetter"
              /\ asked[i].options[j].dlq = <<FALSE>>

=============================================================================
