------------------------------- MODULE Pricing -------------------------------
(***************************************************************************)
(* What a request costs and what the cost reports say.  gatewayd fixes the *)
(* cost of a request with its live catalog (gateway/api/pricing.go); the   *)
(* pricing report adds up those, and estimates with the built-in catalog   *)
(* what has none (telemetry/query/queries.go); the cost report prices the  *)
(* tokens of all requests anew with the built-in catalog                   *)
(* (telemetry/query/cost.go).  All find a price by the names the model may *)
(* go under (telemetry/pricing.go).                                        *)
(*                                                                         *)
(* A model's name is a record: whether a vendor's path precedes it, its    *)
(* base, the suffixes after it, and whether it is spelt with capitals.     *)
(* Amounts are integers: price per token, where the code divides by a      *)
(* million; the rounding of floats is left out.                            *)
(***************************************************************************)
EXTENDS Naturals, SequencesExt

CONSTANTS
  Bootstrap,  \* BootstrapPricingCatalog: Key(NoProvider, name) -> price
  Catalogs,   \* the catalogs that are live, one after the other
  Requests,   \* requests, as the gateway reports them
  MaxFacts    \* bounds the requests

VARIABLES live, facts  \* the live catalog; request_facts, as a bag

pricingVars == <<live, facts>>

Name(path, base, tail) == [path |-> path, base |-> base, tail |-> tail, caps |-> FALSE]
Blank == Name(FALSE, "", << >>)
Lower(n) == [n EXCEPT !.caps = FALSE]   \* normalizePricingAlias
NoProvider == ""
Key(p, n) == <<p, n>>                   \* providerScopedPricingKey
Unpriced == [cur |-> "", input |-> 0, cached |-> 0, output |-> 0, rate |-> 0]

Names == [path : BOOLEAN, base : STRING, tail : Seq(STRING), caps : BOOLEAN]
UsageType == [prompt : Nat, cached : Nat, completion : Nat]

(* No built-in price is of one provider only, and extractUsage never leaves *)
(* more cached tokens than tokens.                                          *)
ASSUME PricingAssumption ==
  /\ Bootstrap \in Catalogs /\ \A k \in DOMAIN Bootstrap : k[1] = NoProvider
  /\ \A c \in Catalogs : \A k \in DOMAIN c :
       {c[k].input, c[k].cached, c[k].output, c[k].rate} \subseteq Nat
  /\ \A r \in Requests :
       /\ r.requested \in Names /\ r.effective \in Names
       /\ r.usage \in UsageType /\ r.usage.cached <= r.usage.prompt

-----------------------------------------------------------------------------
(* Names, and the price of a model *)

(* trimPricingSnapshotSuffix and the like take off the last suffix; that   *)
(* of an effort ("-high") only where the name begins with "claude-".       *)
Trimmable(n) ==
  n.tail # << >> /\ (Last(n.tail) = "effort" => ~n.path /\ n.base = "claude")

Shorter(n) ==
  (IF n.path THEN <<[n EXCEPT !.path = FALSE]>> ELSE << >>)
    \o (IF Trimmable(n) THEN <<[n EXCEPT !.tail = Front(@)]>> ELSE << >>)

(* The queue of the code visits names in the order of how much was taken   *)
(* off.  A name met twice changes nothing for who looks for the first.     *)
Levels(model) ==
  LET Level[d \in 0..Len(model.tail) + 1] ==
        IF d = 0 THEN <<Lower(model)>>
        ELSE FlattenSeq([i \in DOMAIN Level[d - 1] |-> Shorter(Level[d - 1][i])])
  IN  Level

canonicalPricingAliases(model) ==
  IF model = Blank THEN << >>
  ELSE FlattenSeq([d \in 1..Len(model.tail) + 2 |-> Levels(model)[d - 1]])

pricingLookupCandidates(requested, effective) ==
  canonicalPricingAliases(requested) \o canonicalPricingAliases(effective)

Found(catalog, p, n) == IF Key(p, n) \in DOMAIN catalog THEN <<Key(p, n)>> ELSE << >>

BugKeysFound(catalog, p, candidates) ==
  FlattenSeq([i \in DOMAIN candidates |-> Found(catalog, p, Reverse(candidates)[i])])

KeysFound(catalog, p, candidates) ==
  FlattenSeq([i \in DOMAIN candidates |-> Found(catalog, p, candidates[i])])

(* The keys of ResolvePricing, best first: the provider's prices of any    *)
(* candidate come before the general price of the first.                   *)
PriceKeys(catalog, requested, effective, provider) ==
  LET candidates == pricingLookupCandidates(requested, effective)
      scoped == IF provider = NoProvider THEN << >> ELSE KeysFound(catalog, provider, candidates)
  IN  scoped \o KeysFound(catalog, NoProvider, candidates)

ResolvePricing(catalog, r, e, p) ==
  LET found == PriceKeys(catalog, r, e, p) IN IF found = << >> THEN Unpriced ELSE catalog[Head(found)]

-----------------------------------------------------------------------------
(* Costs *)

Least(a, b) == IF a < b THEN a ELSE b
normalizeCachedPromptTokens(u) == Least(u.cached, u.prompt)

(* calculateNativeCost, calculateLegacyNativeCost, calculatePricingCost.   *)
NativeCost(u, p) ==
  LET c == normalizeCachedPromptTokens(u)
  IN  (u.prompt - c) * p.input + c * (IF p.cached > 0 THEN p.cached ELSE p.input)
        + u.completion * p.output

(* calculateUSDCost: applyFXToPrice has multiplied the prices by the rate. *)
UsdCost(u, p) == NativeCost(u, p) * p.rate

(* What resolveFixedPricing and the event of a request leave in its row.   *)
Fact(r, status, p) ==
  [requested |-> r.requested, effective |-> r.effective, provider |-> r.provider,
   bucket |-> r.bucket, usage |-> r.usage, status |-> status, cur |-> p.cur,
   cost |-> NativeCost(r.usage, p), usd |-> UsdCost(r.usage, p)]

NoTokens(u) == u.prompt = 0 /\ u.cached = 0 /\ u.completion = 0

resolveFixedPricing(r) ==
  LET p == ResolvePricing(live, r.requested, r.effective, r.provider)
  IN  IF r.outcome = "cache" THEN Fact(r, "fixed", [Unpriced EXCEPT !.cur = "USD"])
      ELSE IF r.outcome = "failed" \/ NoTokens(r.usage) \/ p = Unpriced
      THEN Fact(r, "unpriced", Unpriced)
      ELSE Fact(r, "fixed", p)

-----------------------------------------------------------------------------
(* The reports: SQL groups rows, adds up their tokens and their costs.     *)

Total(val) == SumFunction([f \in DOMAIN val |-> facts[f] * val[f]])
Facts == BagToSet(facts)
Tokens(S) == [prompt |-> Total([f \in S |-> f.usage.prompt]),
              cached |-> Total([f \in S |-> f.usage.cached]),
              completion |-> Total([f \in S |-> f.usage.completion])]

(* projectedPricingModelExpression *)
PricedAs(f) == IF f.requested # Blank THEN f.requested ELSE f.effective

(* GROUP BY: the facts that agree on by. *)
Groups(by) == {{f \in DOMAIN by : by[f] = by[g]} : g \in DOMAIN by}
One(S) == CHOOSE f \in S : TRUE

(* QueryPricingEconomics *)
normalizePricingStatus(status, u) ==
  IF status # "" THEN status ELSE IF NoTokens(u) THEN "unpriced" ELSE "estimated_legacy"

EconomicsRow(S) ==
  LET f == One(S)
      u == Tokens(S)
      status == normalizePricingStatus(f.status, u)
      estimate == ResolvePricing(Bootstrap, f.requested, f.effective, f.provider)
      usd == Total([g \in S |-> g.usd])
      estimated == status = "estimated_legacy" /\ usd = 0
  IN  [of |-> S, status |-> status,
       cost |-> IF estimated THEN NativeCost(u, estimate) ELSE Total([g \in S |-> g.cost]),
       usd |-> IF estimated THEN UsdCost(u, estimate) ELSE usd,
       cur |-> IF estimated /\ NativeCost(u, estimate) > 0 THEN estimate.cur ELSE f.cur]

EconomicsRows ==
  {EconomicsRow(S) : S \in
     Groups([f \in Facts |-> <<f.requested, f.effective, f.provider, f.status, f.cur>>])}

Economics ==
  LET rows == EconomicsRows
      Of(s) == {r \in rows : r.status = s}
      Currencies == {r.cur : r \in Of("fixed")}
      In(c) == SumFunction([r \in {q \in Of("fixed") : q.cur = c} |-> r.cost])
  IN  [exact |-> SumFunction([r \in Of("fixed") |-> r.usd]),
       estimated |-> SumFunction([r \in Of("estimated_legacy") |-> r.usd]),
       totals |-> [c \in Currencies |-> In(c)]]

(* The query of a cost report: tokens by model, or by model and provider.  *)
CostRows(S, byProvider) ==
  LET priced == {f \in S : PricedAs(f) # Blank}
      ProviderOf(f) == IF byProvider THEN f.provider ELSE NoProvider
  IN  {[model |-> PricedAs(One(R)), provider |-> ProviderOf(One(R)), usage |-> Tokens(R)] :
         R \in Groups([f \in priced |-> <<PricedAs(f), ProviderOf(f)>>])}

(* Rows that differ in capitals only become one summary, with the cost of  *)
(* all of them.                                                            *)
SameSummary(rows, r) == {q \in rows : Lower(q.model) = Lower(r.model) /\ q.provider = r.provider}
BuildPricingSnapshot(rows, price) ==
  [r \in rows |-> SumFunction([q \in SameSummary(rows, r) |-> NativeCost(q.usage, price[q])])]

(* The summary goes under the name of its first row, which SQL sorts       *)
(* before; the cost of a row is looked up under the row's own name.        *)
buildCostEntries(rows) ==
  LET price == [r \in rows |-> ResolvePricing(Bootstrap, Blank, r.model, r.provider)]
      summary == BuildPricingSnapshot(rows, price)
      IsFirst(r) == r.model.caps \/ \A q \in SameSummary(rows, r) : ~q.model.caps
  IN  {[row |-> r,
        cost |-> IF IsFirst(r) THEN summary[r] ELSE 0,
        cur |-> IF IsFirst(r) /\ price[r] # Unpriced THEN price[r].cur ELSE "USD"] : r \in rows}

ByModel == buildCostEntries(CostRows(Facts, FALSE))
ByProvider == buildCostEntries(CostRows(Facts, TRUE))
Bucket(b) == {f \in Facts : f.bucket = b}
ByTimeRange == [b \in {f.bucket : f \in Facts} |-> buildCostEntries(CostRows(Bucket(b), TRUE))]

-----------------------------------------------------------------------------
PricingInit == live \in Catalogs /\ facts = EmptyBag

(* The live catalog is refreshed or configured anew. *)
PricesChange == live' \in Catalogs \ {live} /\ UNCHANGED facts

(* A request ends and its event is projected. *)
Reported(r) ==
  /\ BagCardinality(facts) < MaxFacts
  /\ facts' = facts (+) SetToBag({resolveFixedPricing(r)}) /\ UNCHANGED live

(* A row of the time before requests had a pricing status is imported. *)
Imported(r) ==
  /\ BagCardinality(facts) < MaxFacts
  /\ r.outcome = "served" /\ facts' = facts (+) SetToBag({Fact(r, "", Unpriced)})
  /\ UNCHANGED live

PricingNext == PricesChange \/ \E r \in Requests : Reported(r) \/ Imported(r)

PricingSpec == PricingInit /\ [][PricingNext]_pricingVars

-----------------------------------------------------------------------------
(* A provider's own price comes before the general one; of those, the one  *)
(* found under the name from which least was taken off; and it is one of a *)
(* model of the same base.                                                 *)
TakenOff(n, key) ==
  (IF n.path = key[2].path THEN 0 ELSE 1) + Len(n.tail) - Len(key[2].tail)

PricesFit ==
  \A f \in Facts : \A cat \in Catalogs :
    LET found == ToSet(PriceKeys(cat, Blank, f.effective, f.provider))
        best == Head(PriceKeys(cat, Blank, f.effective, f.provider))
    IN  \A k \in found :
          /\ k[2].base = f.effective.base
          /\ best[1] = k[1] => TakenOff(f.effective, best) <= TakenOff(f.effective, k)
          /\ k[1] # NoProvider => best[1] = k[1]

(* The pricing report gives exactly the costs fixed when the requests were *)
(* served, in USD and in each currency, whatever became of the catalog,    *)
(* and an estimate of every imported row that is the sum of its own.       *)
EconomicsKept ==
  LET fixed == {f \in Facts : f.status = "fixed"}
      old == {f \in Facts : f.status = ""}
      Estimate(f) == UsdCost(f.usage, ResolvePricing(Bootstrap, f.requested, f.effective, f.provider))
      report == Economics
  IN  /\ report.exact = Total([f \in fixed |-> f.usd])
      /\ report.estimated = Total([f \in old |-> Estimate(f)])
      /\ DOMAIN report.totals = {f.cur : f \in fixed}
      /\ \A c \in DOMAIN report.totals :
           report.totals[c] = Total([f \in {g \in fixed : g.cur = c} |-> f.cost])

(* The three cost reports agree on what was spent in each currency, though *)
(* each groups the requests in its own way, merges names that differ in    *)
(* capitals, and looks costs up by the names before the merge.  Tokens are *)
(* not lost either.  (The same with a built-in price for one provider only *)
(* would be false: ByModel prices without a provider.)                     *)
Spent(entries, c) == SumFunction([e \in {x \in entries : x.cur = c} |-> e.cost])
Prompts(entries) == SumFunction([e \in entries |-> e.row.usage.prompt])

ViewsAgree ==
  LET models == ByModel
      providers == ByProvider
      buckets == ByTimeRange
  IN  /\ \A c \in {"USD", "CNY"} :
           /\ Spent(models, c) = Spent(providers, c)
           /\ Spent(models, c) = SumFunction([b \in DOMAIN buckets |-> Spent(buckets[b], c)])
      /\ Prompts(models) = Prompts(providers)
      /\ Prompts(models) = SumFunction([b \in DOMAIN buckets |-> Prompts(buckets[b])])

(* What the gateway and its reports say of prices and costs. *)
CostsSound == PricesFit /\ EconomicsKept /\ ViewsAgree
=============================================================================
