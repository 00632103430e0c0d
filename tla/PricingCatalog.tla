--------------------------- MODULE PricingCatalog ---------------------------
(***************************************************************************)
(* The live price list of gatewayd (internal/telemetry/pricing_catalog.go, *)
(* pricing_runtime.go).  Its configuration and its snapshot are two atomic *)
(* values without a lock.  A ticker refreshes it every minute; the daemon, *)
(* under snapshotMu, refreshes it on request and gives it a new            *)
(* configuration when a snapshot is published.  Both write the cache file  *)
(* that the next start reads.                                              *)
(***************************************************************************)
EXTENDS Naturals, Sequences

CONSTANTS
  Keys,        \* models, and models of one provider, that have a price
  Bootstrap,   \* those of BootstrapPricingCatalog
  Prices,      \* Prices[s]: the keys the page of source s prices
  Configs,     \* Configs[c] is a PricingConfig: its sources in order, whether
               \* each is enabled, its manual prices, and whether FX is
  MaxEdition,  \* how often the vendors change their prices
  MaxUpdates   \* bounds the configurations published

Sources == DOMAIN Prices
Config == DOMAIN Configs
Writers == {"ticker", "daemon"}   \* "daemon" holds snapshotMu

CatalogAssumption ==
  /\ Bootstrap \subseteq Keys /\ Prices \in [Sources -> SUBSET Keys]
  /\ \A c \in Config :
       /\ Configs[c].sources \in Seq([id : Sources, on : BOOLEAN])
       /\ Configs[c].manual \subseteq Keys /\ Configs[c].fx \in BOOLEAN
  /\ MaxEdition \in Nat \ {0} /\ MaxUpdates \in Nat

VARIABLES
  edition,     \* external: of the vendors' pages
  cfg, state,  \* the two atomic values
  cache,       \* what the cache file gives
  step,        \* what each writer is doing
  mine,        \* the configuration and the snapshot it works with
  updates

catalogVars == <<edition, cfg, state, cache, step, mine, updates>>

(* A price: who set it (which edition of a source's page, which            *)
(* configuration's manual price), and whether its USD amounts are there.   *)
Price(from, of, usd) == [from |-> from, of |-> of, usd |-> usd]
Unpriced == Price("nobody", 0, FALSE)
BootPrice == Price("bootstrap", 0, FALSE)

(* The places of a configuration's enabled sources, and all it names.      *)
Enabled(c) == {i \in DOMAIN Configs[c].sources : Configs[c].sources[i].on}
Configured(c) == {Configs[c].sources[i].id : i \in DOMAIN Configs[c].sources}

NoFX == [on |-> FALSE, rates |-> FALSE]
BootSnapshot ==
  [live |-> [s \in Sources |-> 0], fx |-> NoFX,
   catalog |-> [k \in Keys |-> IF k \in Bootstrap THEN BootPrice ELSE Unpriced]]
Snapshots == [live : [Sources -> 0..MaxEdition], fx : [on : BOOLEAN, rates : BOOLEAN],
              catalog : [Keys -> [from : {"nobody", "bootstrap"} \cup Sources \cup Config,
                                  of : 0..MaxEdition, usd : BOOLEAN]]]

(* applyPricingConfigToSnapshot: later sources cover earlier ones, manual  *)
(* prices cover all; only sources the configuration names are kept.        *)
applyPricingConfigToSnapshot(snap, c) ==
  LET live == [s \in Sources |-> IF s \in Configured(c) THEN snap.live[s] ELSE 0]
      usd == snap.fx.on /\ snap.fx.rates
      from == Configs[c].sources
      Of(k) == {i \in Enabled(c) : live[from[i].id] # 0 /\ k \in Prices[from[i].id]}
      Last(S) == CHOOSE i \in S : \A j \in S : j <= i
  IN  [live |-> live, fx |-> snap.fx,
       catalog |-> [k \in Keys |->
         IF k \in Configs[c].manual THEN Price(c, 0, usd)
         ELSE IF Of(k) # {} THEN LET s == from[Last(Of(k))].id IN Price(s, live[s], usd)
         ELSE BootSnapshot.catalog[k]]]

(* mergePricingSnapshots, without the catalog: whoever calls it applies a  *)
(* configuration to the result, which computes the catalog anew.           *)
mergePricingSnapshots(base, overlay) ==
  [base EXCEPT
     !.live = [s \in Sources |-> IF overlay.live[s] # 0 THEN overlay.live[s] ELSE @[s]],
     !.fx = IF overlay.fx.on \/ overlay.fx.rates THEN overlay.fx ELSE @]

(* A file that is missing, or that an interrupted os.WriteFile left torn,  *)
(* does not parse and counts for nothing.                                  *)
Cached(file) == mergePricingSnapshots(BootSnapshot, file)

pricingSnapshotFromConfig(file, c) == applyPricingConfigToSnapshot(Cached(file), c)

stripPricingManualOverrides(snap, c) ==
  [snap EXCEPT !.catalog = [k \in Keys |-> IF k \in Configs[c].manual THEN Unpriced ELSE @[k]]]

(* pricingSnapshotForUpdate: with no source's prices left, those of the    *)
(* old catalog that nothing covers are kept.                               *)
pricingSnapshotForUpdate(current, cached, c) ==
  LET updated == applyPricingConfigToSnapshot(mergePricingSnapshots(cached, current), c)
      noneLive == \A s \in Sources : updated.live[s] = 0
  IN  IF noneLive
      THEN [updated EXCEPT !.catalog = [k \in Keys |->
              IF @[k] = Unpriced THEN current.catalog[k] ELSE @[k]]]
      ELSE updated

(* refreshPricingSnapshot: a source that is not asked (disabled, or not    *)
(* due yet) or does not answer keeps what the snapshot has of it.          *)
refreshPricingSnapshot(current, c, answered, rates) ==
  applyPricingConfigToSnapshot(
    [current EXCEPT
       !.live = [s \in Sources |-> IF s \in answered THEN edition ELSE @[s]],
       !.fx = [on |-> Configs[c].fx, rates |-> @.rates \/ rates]], c)

-----------------------------------------------------------------------------
Idle == [cfg |-> CHOOSE c \in Config : TRUE, snap |-> BootSnapshot]

CatalogInit ==
  /\ edition = 1 /\ cfg \in Config /\ cache = BootSnapshot /\ updates = 0
  /\ state = pricingSnapshotFromConfig(cache, cfg)
  /\ step = [w \in Writers |-> "idle"] /\ mine = [w \in Writers |-> Idle]

Goes(w, from, to) == step[w] = from /\ step' = [step EXCEPT ![w] = to]

(* External: a vendor's page has other prices. *)
PagesChange ==
  /\ edition < MaxEdition /\ edition' = edition + 1
  /\ UNCHANGED <<cfg, state, cache, step, mine, updates>>

(* refresh reads the configuration, then the snapshot. *)
ReadConfig(w) ==
  /\ Goes(w, "idle", "config") /\ mine' = [mine EXCEPT ![w].cfg = cfg]
  /\ UNCHANGED <<edition, cfg, state, cache, updates>>

ReadSnapshot(w) ==
  /\ Goes(w, "config", "fetch") /\ mine' = [mine EXCEPT ![w].snap = state]
  /\ UNCHANGED <<edition, cfg, state, cache, updates>>

(* The sources and the exchange rates are fetched over the network, each   *)
(* with a timeout: any of them may fail.                                   *)
Fetch(w) ==
  /\ Goes(w, "fetch", "store")
  /\ LET c == mine[w].cfg
         on == {Configs[c].sources[i].id : i \in Enabled(c)}
     IN  \E answered \in SUBSET on, rates \in {FALSE, Configs[c].fx} :
           mine' = [mine EXCEPT ![w].snap = refreshPricingSnapshot(@, c, answered, rates)]
  /\ UNCHANGED <<edition, cfg, state, cache, updates>>

BugStore(w) ==
  /\ Goes(w, "store", "save")
  /\ state' = IF mine[w].snap.live = state.live THEN state ELSE mine[w].snap
  /\ UNCHANGED <<edition, cfg, cache, mine, updates>>

Store(w) ==
  /\ Goes(w, "store", "save") /\ state' = mine[w].snap
  /\ UNCHANGED <<edition, cfg, cache, mine, updates>>

(* savePricingCatalogCache *)
Save(w) ==
  /\ Goes(w, "save", "idle") /\ mine' = [mine EXCEPT ![w] = Idle]
  /\ cache' = mine[w].snap
  /\ UNCHANGED <<edition, cfg, state, updates>>

(* It fails, before os.WriteFile or in it,                                 *)
SaveFails(w) ==
  /\ Goes(w, "save", "again")
  /\ cache' \in {cache, BootSnapshot}
  /\ UNCHANGED <<edition, cfg, state, mine, updates>>

(* and the same snapshot is stored once more, with LastError in it.        *)
StoreAgain(w) ==
  /\ Goes(w, "again", "idle") /\ mine' = [mine EXCEPT ![w] = Idle]
  /\ state' = mine[w].snap
  /\ UNCHANGED <<edition, cfg, cache, updates>>

(* UpdateConfig, called by ApplySnapshot under snapshotMu, strips the      *)
(* manual prices of the configuration it replaces,                         *)
UpdateStrips ==
  /\ updates < MaxUpdates /\ updates' = updates + 1
  /\ Goes("daemon", "idle", "configure")
  /\ \E c \in Config :
       mine' = [mine EXCEPT !["daemon"] =
                  [cfg |-> c, snap |-> stripPricingManualOverrides(state, cfg)]]
  /\ UNCHANGED <<edition, cfg, state, cache>>

(* stores the new configuration,                                           *)
UpdateConfigures ==
  /\ Goes("daemon", "configure", "compute") /\ cfg' = mine["daemon"].cfg
  /\ UNCHANGED <<edition, state, cache, mine, updates>>

(* reads the cache file and computes the snapshot,                         *)
UpdateComputes ==
  /\ Goes("daemon", "compute", "publish")
  /\ mine' = [mine EXCEPT !["daemon"].snap =
                pricingSnapshotForUpdate(@, Cached(cache), mine["daemon"].cfg)]
  /\ UNCHANGED <<edition, cfg, state, cache, updates>>

(* and stores it, whatever a refresh has stored meanwhile.                 *)
UpdateStores ==
  /\ Goes("daemon", "publish", "idle") /\ state' = mine["daemon"].snap
  /\ mine' = [mine EXCEPT !["daemon"] = Idle]
  /\ UNCHANGED <<edition, cfg, cache, updates>>

(* gatewayd dies, perhaps in the middle of os.WriteFile, and is started    *)
(* again with the configuration of the snapshot it was given last.         *)
Restarts ==
  /\ updates < MaxUpdates /\ updates' = updates + 1
  /\ cache' \in {cache} \cup {BootSnapshot : w \in {v \in Writers : step[v] = "save"}}
  /\ state' = pricingSnapshotFromConfig(cache', cfg)
  /\ step' = [w \in Writers |-> "idle"] /\ mine' = [w \in Writers |-> Idle]
  /\ UNCHANGED <<edition, cfg>>

Refresh(w) == ReadConfig(w) \/ ReadSnapshot(w) \/ Fetch(w) \/ Store(w) \/ Save(w)
              \/ SaveFails(w) \/ StoreAgain(w)
Update == UpdateConfigures \/ UpdateComputes \/ UpdateStores

DaemonGoesOn == Update \/ (step["daemon"] # "idle" /\ Refresh("daemon"))

CatalogNext ==
  PagesChange \/ UpdateStrips \/ Update \/ Restarts \/ \E w \in Writers : Refresh(w)

(* The ticker fires every minute, its fetches have timeouts; a call of the *)
(* daemon that has begun goes on.                                          *)
CatalogFairness ==
  /\ WF_catalogVars(Refresh("ticker"))
  /\ WF_catalogVars(DaemonGoesOn)

CatalogTypeOK ==
  /\ edition \in 1..MaxEdition /\ cfg \in Config /\ updates \in 0..MaxUpdates
  /\ state \in Snapshots /\ cache \in Snapshots
  /\ step \in [Writers -> {"idle", "config", "fetch", "store", "save", "again",
                           "configure", "compute", "publish"}]
  /\ mine \in [Writers -> [cfg : Config, snap : Snapshots]]

(* Refreshes and updates overwrite each other's snapshot; once no more     *)
(* configurations are published, the prices become, and stay, those of the *)
(* configuration in force: its manual prices, its sources, its choice of   *)
(* FX, and nothing of an earlier one.                                      *)
PricesFollowConfig ==
  <>[](state = applyPricingConfigToSnapshot(state, cfg) /\ state.fx.on = Configs[cfg].fx)
=============================================================================
