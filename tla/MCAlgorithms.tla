---------------------------- MODULE MCAlgorithms ----------------------------
(***************************************************************************)
(* The parts of the system that compute rather than wait: protocol         *)
(* bridges, conversions of bodies, rules of the configuration, prices and  *)
(* costs.  They share no state; the initial state chooses which of them    *)
(* runs.                                                                   *)
(***************************************************************************)
EXTENDS Pricing, CompatStreams, CompatBodies, ConfigRules, TLC

VARIABLES
  part         \* which of them runs


(* Two catalogs: another has prices of one provider, a price of a dated    *)
(* model, and exchange rates.                                              *)
gpt == Name(FALSE, "gpt", << >>)
claude == Name(FALSE, "claude", << >>)
claudeDated == Name(FALSE, "claude", <<"date">>)
kimi == Name(FALSE, "kimi", << >>)
Price(cur, input, cachedInput, output, rate) ==
  [cur |-> cur, input |-> input, cached |-> cachedInput, output |-> output, rate |-> rate]
MCBootstrap ==
  Key(NoProvider, gpt) :> Price("USD", 4, 1, 8, 1)
    @@ Key(NoProvider, claude) :> Price("USD", 3, 0, 7, 1)
    @@ Key(NoProvider, kimi) :> Price("CNY", 5, 2, 9, 0)
MCCatalogs ==
  {MCBootstrap,
   Key("p", claude) :> Price("USD", 2, 1, 5, 1) @@ Key("p", claudeDated) :> Price("USD", 3, 1, 6, 1)
     @@ Key(NoProvider, claudeDated) :> Price("USD", 6, 0, 11, 1)
     @@ [MCBootstrap EXCEPT ![Key(NoProvider, kimi)] = Price("CNY", 6, 2, 10, 2)]}

Request(requested, effective, provider, bucket, p, c, o, outcome) ==
  [requested |-> requested, effective |-> effective, provider |-> provider, bucket |-> bucket,
   usage |-> [prompt |-> p, cached |-> c, completion |-> o], outcome |-> outcome]
MCRequests ==
  {Request(Blank, [gpt EXCEPT !.caps = TRUE], "p", 1, 3, 1, 1, "served"),
   Request(Blank, gpt, "p", 1, 2, 2, 1, "served"),
   Request(Blank, Name(FALSE, "claude", <<"date", "effort">>), "p", 2, 5, 1, 2, "served"),
   Request(Name(TRUE, "claude", <<"effort">>), kimi, "q", 2, 1, 0, 1, "served"),
   Request(Blank, Name(TRUE, "kimi", <<"variant">>), "q", 1, 2, 1, 3, "served"),
   Request(Blank, Name(TRUE, "other", << >>), "q", 2, 2, 1, 3, "served"),
   Request(gpt, gpt, "q", 2, 0, 0, 0, "cache"),
   Request(gpt, gpt, "p", 2, 1, 0, 0, "failed")}


StreamsRest == StreamInit /\ bridge = "openai"
BodiesRest == client = "chat" /\ history = << >> /\ said = << >>
RulesRest == config = AConfig /\ stage = "written"
PricingRest == live = MCBootstrap /\ facts = EmptyBag

MCInit ==
  \/ part = "streams" /\ StreamInit /\ BodiesRest /\ RulesRest /\ PricingRest
  \/ part = "bodies" /\ StreamsRest /\ BodyInit /\ RulesRest /\ PricingRest
  \/ part = "rules" /\ StreamsRest /\ BodiesRest /\ ConfigInit /\ PricingRest
  \/ part = "pricing" /\ StreamsRest /\ BodiesRest /\ RulesRest /\ PricingInit

MCNext ==
  \/ part = "streams" /\ StreamNext
     /\ UNCHANGED <<part, bodyVars, configVars, pricingVars>>
  \/ part = "bodies" /\ BodyNext
     /\ UNCHANGED <<part, streamVars, configVars, pricingVars>>
  \/ part = "rules" /\ ConfigNext
     /\ UNCHANGED <<part, streamVars, bodyVars, pricingVars>>
  \/ part = "pricing" /\ PricingNext
     /\ UNCHANGED <<part, streamVars, bodyVars, configVars>>

MCSpec ==
  MCInit /\ [][MCNext]_<<part, streamVars, bodyVars, configVars, pricingVars>>
=============================================================================
