----------------------------- MODULE ConfigRules -----------------------------
(***************************************************************************)
(* From the text of config.yaml to a snapshot (core/config.go, configloader *)
(* Parse, control/compiler) and through the state file of controld: which  *)
(* defaults are filled in, what is refused where, what a provider becomes, *)
(* and what a restart makes of it.  Only the fields that some rule relates *)
(* to another are kept.                                                    *)
(***************************************************************************)
EXTENDS Integers, Sequences, SequencesExt

CONSTANTS
  Words        \* what may be written where the file has a text

ASSUME WordsAssumption ==
  {"", " ", "a", "b", "m", "n", "u", "x", "yes", "no", "admin", "viewer", "Admin", "other",
   "openai", "anthropic", "openai_chat_completions", "anthropic_messages",
   "https://host", "relative"} \subseteq Words

VARIABLES
  config,      \* the configuration
  stage        \* "written", "loaded", "refused", "compiled", "failed" or "restarted"

configVars == <<config, stage>>

Spaces == " "
Unset == -1
DefaultSources == {"openai", "anthropic"}

Enabled(p) == p.enabled # "no"       \* not said means yes

(* NormalizeProtocolAdapter: a provider with an Anthropic URL and no adapter  *)
(* is an Anthropic one.                                                       *)
NormalizeProtocolAdapter(adapter, url) ==
  IF adapter # "" THEN adapter
  ELSE IF url # "" THEN "anthropic_messages" ELSE "openai_chat_completions"

normalizeProvider(p) ==
  [p EXCEPT !.adapter = NormalizeProtocolAdapter(@, p.url), !.weight = IF @ = 0 THEN 1 ELSE @]

(* Normalize: zero means the default, so it cannot be configured.             *)
Or(value, default) == IF value = 0 THEN default ELSE value
OrPositive(value, default) == IF value <= 0 THEN default ELSE value

Minutes(pricing) == OrPositive(pricing.minutes, IF pricing.hours > 0 THEN pricing.hours * 60 ELSE 15)

normalizePricing(p) ==
  [p EXCEPT !.minutes = Minutes(p), !.hours = (Minutes(p) + 59) \div 60,
            !.sources = IF @ = {} /\ ~p.sourcesSet THEN DefaultSources ELSE @]

normalizeRouting(r) ==
  [r EXCEPT !.retries = Or(@, 2), !.statusMin = IF @ = Unset THEN 500 ELSE @]

normalizeBenchmarking(b) ==
  [b EXCEPT !.normal = OrPositive(@, 8), !.suspect = OrPositive(@, 20), !.failures = OrPositive(@, 2)]

Normalize(c) ==
  [c EXCEPT !.providers = [i \in DOMAIN @ |-> normalizeProvider(@[i])],
            !.routing = normalizeRouting(@), !.pricing = normalizePricing(@),
            !.benchmarking = normalizeBenchmarking(@)]

(* Validate, run after Normalize.                                             *)
JudgeServed(c) ==
  \E i \in DOMAIN c.providers :
    LET p == c.providers[i]
    IN Enabled(p) /\ c.benchmarking.judge \in ToSet(p.models)
       /\ c.benchmarking.provider \in {"", p.name}

Validate(c) ==
  /\ c.pricing.hours >= 0 /\ c.pricing.minutes >= 0
  /\ c.benchmarking.enabled => c.benchmarking.judge # "" /\ JudgeServed(c)
  /\ c.providers # <<>>
  /\ \A i \in DOMAIN c.providers :
       /\ c.providers[i].name # "" /\ c.providers[i].base # ""
       /\ NormalizeProtocolAdapter(c.providers[i].adapter, c.providers[i].url)
            \in {"openai_chat_completions", "anthropic_messages"}

------------------------------------------------------------------------------
(* compileModelTable: the first of equal names, under its alias upstream.     *)
compileModelTable(models, aliases) ==
  LET first == {i \in DOMAIN models : models[i] # Spaces /\ \A j \in 1..i - 1 : models[j] # models[i]}
      upstream(m) == IF m \in DOMAIN aliases /\ aliases[m] # Spaces THEN aliases[m] ELSE m
  IN {[public |-> models[i], upstream |-> upstream(models[i])] : i \in first}

(* A key goes into x-api-key for an Anthropic URL too, whatever the adapter.  *)
compileCredentials(p) ==
  IF p.url # "" \/ NormalizeProtocolAdapter(p.adapter, p.url) = "anthropic_messages"
  THEN "api_key" ELSE "bearer"

Compilable(p) ==
  /\ p.name # Spaces /\ p.base # Spaces
  /\ compileModelTable(p.models, p.aliases) # {} /\ p.url # "relative"

compileProvider(p) ==
  LET adapter == NormalizeProtocolAdapter(p.adapter, p.url)
  IN [id |-> p.name, base |-> p.base, adapter |-> adapter,
      credential |-> compileCredentials(p), models |-> compileModelTable(p.models, p.aliases),
      accounting |-> IF adapter = "anthropic_messages" THEN "anthropic_usage" ELSE "openai_usage",
      weight |-> p.weight]

(* resolveQuotaRecoveryIntervalMin, compileAdminTokens                        *)
resolveQuotaRecoveryIntervalMin(r) ==
  IF r.disableCooldown THEN 0
  ELSE IF r.recovery <= 0 THEN 60 ELSE IF r.recovery < 5 THEN 5 ELSE r.recovery

compileRole(role) == IF role \in {"admin", "viewer"} THEN role ELSE "viewer"

NoSnapshot == [providers |-> <<>>]

(* CompileFromConfig: NoSnapshot for an error.                                *)
EnabledProviders(c) ==
  FlattenSeq([i \in DOMAIN c.providers |->
                IF Enabled(c.providers[i]) THEN <<c.providers[i]>> ELSE <<>>])

CompileFromConfig(config0) ==
  LET c == Normalize(config0)
      enabled == EnabledProviders(c)
  IN IF enabled = <<>> \/ \E i \in DOMAIN enabled : ~Compilable(enabled[i]) THEN NoSnapshot
     ELSE [providers |-> [i \in DOMAIN enabled |-> compileProvider(enabled[i])],
           routing |-> [retries |-> c.routing.retries, statusMin |-> c.routing.statusMin,
                        recovery |-> resolveQuotaRecoveryIntervalMin(c.routing)],
           pricing |-> [minutes |-> c.pricing.minutes, sources |-> c.pricing.sources],
           role |-> compileRole(c.role)]

(* Mutant: zero is taken for unset.                                           *)
BugRestored(c) == [c EXCEPT !.routing.statusMin = IF @ = 0 THEN Unset ELSE @]

(* The YAML of the state file omits an empty list of sources, so that it can  *)
(* no longer be told from one that was never given.                           *)
Restored(c) == [c EXCEPT !.pricing.sourcesSet = c.pricing.sources # {}]

------------------------------------------------------------------------------
(* The configurations there are: ConfigInit takes some, RulesSpec any.        *)
ProviderType ==
  [name : Words, enabled : Words, base : Words, models : Seq(Words),
   aliases : UNION {[D -> Words] : D \in SUBSET Words},
   adapter : Words, url : Words, weight : Int]
RoutingType ==
  [retries : Int, statusMin : Int, recovery : Int, disableCooldown : BOOLEAN]
PricingType ==
  [hours : Int, minutes : Int, sources : SUBSET Words, sourcesSet : BOOLEAN]
BenchmarkingType ==
  [enabled : BOOLEAN, judge : Words, provider : Words, normal : Int, suspect : Int, failures : Int]
Configs ==
  [providers : Seq(ProviderType), role : Words, routing : RoutingType, pricing : PricingType,
   benchmarking : BenchmarkingType]

NoAliases == [m \in {} |-> ""]
AProvider == [name |-> "a", enabled |-> "", base |-> "https://host", models |-> <<"m">>,
              aliases |-> NoAliases, adapter |-> "", url |-> "", weight |-> 0]
AConfig == [providers |-> <<AProvider>>, role |-> "admin",
            routing |-> [retries |-> 0, statusMin |-> Unset, recovery |-> 0, disableCooldown |-> FALSE],
            pricing |-> [hours |-> 0, minutes |-> 0, sources |-> {}, sourcesSet |-> FALSE],
            benchmarking |-> [enabled |-> FALSE, judge |-> "m", provider |-> "", normal |-> 0,
                              suspect |-> 0, failures |-> 0]]

WrittenProviders ==
  [name : {"", Spaces, "a"}, enabled : {"", "yes", "no"}, base : {"", Spaces, "https://host"},
   weight : {-2, 0, 3},
   models : {<<>>, <<Spaces>>, <<"m", "m">>, <<"n", Spaces, "m">>},
   aliases : {NoAliases, [m \in {"m"} |-> "u"], [m \in {"m"} |-> Spaces]},
   adapter : {"", "openai_chat_completions", "anthropic_messages", "other"},
   url : {"", "https://host", "relative"}]

(* What an operator may have written: one group of fields varies at a time.   *)
ConfigInit ==
  /\ stage = "written"
  /\ \/ \E p \in WrittenProviders, more \in {<<>>, <<AProvider>>} :
          config = [AConfig EXCEPT !.providers = <<p>> \o more]
     \/ \E h \in -1..2, m \in {-1, 0, 1, 90}, s \in {{}, {"openai"}}, set \in BOOLEAN :
          (s # {} => set)
          /\ config = [AConfig EXCEPT !.pricing = [hours |-> h, minutes |-> m, sources |-> s, sourcesSet |-> set]]
     \/ \E n \in 0..3, s \in {Unset, 0, 400}, r \in {-1, 0, 3, 30}, d \in BOOLEAN, role \in {"admin", "viewer", "Admin", ""} :
          config = [AConfig EXCEPT !.role = role,
                    !.routing = [retries |-> n, statusMin |-> s, recovery |-> r, disableCooldown |-> d]]
     \/ \E j \in {"", "m", "x"}, p \in {"", "a", "b"}, e \in {"", "no"}, n \in {-1, 0, 3}, f \in {-1, 0, 3} :
          config = [AConfig EXCEPT !.providers[1].enabled = e,
                    !.benchmarking = [enabled |-> TRUE, judge |-> j, provider |-> p, normal |-> n,
                                      suspect |-> 0, failures |-> f]]

(* Parse                                                                      *)
Load ==
  /\ stage = "written"
  /\ config' = Normalize(config)
  /\ stage' = IF Validate(Normalize(config)) THEN "loaded" ELSE "refused"

(* The publisher compiles a revision and saves it, or not.                    *)
CompileRevision ==
  /\ stage = "loaded"
  /\ stage' = IF CompileFromConfig(config) # NoSnapshot THEN "compiled" ELSE "failed"
  /\ UNCHANGED config

(* controld starts again with the revisions of its state file.                *)
Restart ==
  /\ stage \in {"compiled", "failed"}
  /\ config' = Restored(config)
  /\ stage' = "restarted"

ConfigNext == Load \/ CompileRevision \/ Restart

RulesSpec == stage = "written" /\ config \in Configs /\ [][ConfigNext]_configVars

------------------------------------------------------------------------------
(* A key of a provider goes where its protocol looks for it, unless an        *)
(* explicit OpenAI adapter comes with an Anthropic URL.                       *)
KeyWhereExpected(p, source) ==
  \/ (p.credential = "api_key") = (p.adapter = "anthropic_messages")
  \/ source.adapter = "openai_chat_completions" /\ source.url # ""

(* Filling in defaults twice is filling them in once, for a configuration is  *)
(* normalised when it is read and whenever it is compiled.  What was accepted *)
(* compiles unless no provider is enabled, or an enabled one has a name or a  *)
(* base_url of nothing but blanks (Validate refuses the empty text only), no  *)
(* model, or a relative Anthropic URL.  Every provider of a snapshot was      *)
(* enabled, has a base URL, offers a model once and is used the way its       *)
(* adapter asks; a token gains no role by a typing error.                     *)
CompileSound ==
  LET snapshot == CompileFromConfig(config)
      enabled == EnabledProviders(config)
  IN /\ Normalize(Normalize(config)) = Normalize(config)
     /\ stage # "written" => Normalize(config) = config \/ stage = "restarted"
     /\ stage = "loaded" => config.pricing.minutes > 0 /\ config.pricing.hours * 60 >= config.pricing.minutes
     /\ stage = "failed" =>
          \/ enabled = <<>>
          \/ \E p \in ToSet(enabled) :
               \/ p.name = Spaces \/ p.base = Spaces \/ p.url = "relative"
               \/ ToSet(p.models) \ {Spaces} = {}
     /\ stage = "compiled" =>
          /\ Len(snapshot.providers) = Len(enabled)
          /\ \A i \in DOMAIN enabled :
               LET p == snapshot.providers[i]
               IN /\ \A m, n \in p.models : m.public = n.public => m = n
                  /\ {m.public : m \in p.models} = ToSet(enabled[i].models) \ {Spaces}
                  /\ p.adapter \in {"openai_chat_completions", "anthropic_messages"}
                  /\ (p.accounting = "anthropic_usage") = (p.adapter = "anthropic_messages")
                  /\ KeyWhereExpected(p, enabled[i]) /\ p.weight # 0
                  /\ p.base \notin {"", Spaces}
          /\ snapshot.role = "admin" => config.role = "admin"
          /\ snapshot.routing.recovery = 0 \/ snapshot.routing.recovery >= 5

(* What controld compiles after a restart is what it compiled before, but     *)
(* that pricing sources which were switched off by an empty list come back.   *)
RestartCompilesSame ==
  [][Restart => LET before == CompileFromConfig(config)
                    after == CompileFromConfig(config')
                IN \/ after = before
                   \/ /\ config.pricing.sourcesSet /\ config.pricing.sources = {}
                      /\ after.pricing.sources = DefaultSources]_configVars

RulesSound == []CompileSound /\ RestartCompilesSame

=============================================================================
