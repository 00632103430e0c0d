---------------------------- MODULE ProviderState ----------------------------
(***************************************************************************)
(* What gatewayd knows of its providers (RuntimeState in                   *)
(* internal/gateway/api/runtime_state.go, with the key rotators of         *)
(* key_rotation.go), and everything that reads and writes it: the requests *)
(* that ask for an order of the providers and report how each attempt      *)
(* went, the health probes (cmd/gatewayd/health_probe.go), and             *)
(* ApplySnapshot, which may come between any two steps of the others.      *)
(*                                                                         *)
(* One lock guards every operation, so each is one action.  Time is kept   *)
(* as ages, in ticks: an age of Horizon is "never" or longer ago than      *)
(* anything the policies ask for.  All providers serve the one model.      *)
(***************************************************************************)
EXTENDS Naturals, Sequences, FiniteSets

CONSTANTS
  Requests,
  Providers,
  Keys,
  Sessions,        \* sticky keys
  Snapshots,
  Policy,          \* what the snapshots say, see SnapshotPolicy
  Answers,         \* Providers -> the statuses its upstream may answer with
  ProbeAnswers,    \* the same for its probe path
  MaxFailCount,    \* 3 in key_rotation.go
  KeyCooldown,     \* the five minutes of runHealthProbeOnce
  MaxAttempts,     \* bound: attempts of one request, HardRetryCap and fallbacks
  Horizon,         \* bound: ages beyond it are not told apart
  CountCap,        \* bound: nor are failure counts beyond it
  MaxEvents,       \* bound: how many publishes and diagnostic requests happen
  None

(* ok: below 400.  denied: 401 or 403.  quota: 429.  down: 408, 5xx, or no    *)
(* answer.  refused: any other 4xx.                                           *)
Status == {"ok", "denied", "quota", "down", "refused"}

SnapshotPolicy ==
  [providers   : SUBSET Providers,                \* those that are enabled
   keys        : [Providers -> SUBSET Keys],      \* api_keys, without the disabled
   guarded     : BOOLEAN,                         \* not disable_cooldown
   threshold   : Nat, cooldown : 0..Horizon,      \* failure_policy
   quota       : 0..Horizon,
   passthrough : 0..Horizon,
   sticky      : 0..Horizon,                      \* ttl_sec, 0 when disabled
   health      : BOOLEAN]

ASSUME ProviderAssumption ==
  /\ Policy \in [Snapshots -> SnapshotPolicy]
  /\ Answers \in [Providers -> SUBSET Status]
  /\ ProbeAnswers \in [Providers -> (SUBSET Status) \ {{}}]
  /\ IsFiniteSet(Providers)
  /\ MaxFailCount \in Nat \ {0}
  /\ Horizon \in Nat \ {0}
  /\ KeyCooldown \in 1..Horizon
  /\ CountCap \in Nat \ {0} /\ \A s \in Snapshots : Policy[s].threshold <= CountCap
  /\ MaxAttempts \in Nat \ {0}
  /\ MaxEvents \in Nat
  /\ None \notin Providers /\ None \notin Keys /\ None \notin Sessions
  /\ None \notin Snapshots

VARIABLES
  current,    \* the daemon's snapshot
  providers,  \* RuntimeState.providers, None where there is no entry
  rotators,   \* RuntimeState.keyRotators
  sticky,     \* RuntimeState.sticky
  req,        \* the requests, see Request
  loop,       \* the probe loop, see Loop
  next,       \* the snapshot ApplySnapshot will start probes for, or None
  events      \* the number of publishes and diagnostic requests so far

vars == <<current, providers, rotators, sticky, req, loop, next, events>>

Age == 0..Horizon
Older(age) == IF age < Horizon THEN age + 1 ELSE age

State   == [failures : 0..CountCap, failed : Age, quota : Age]
Fresh   == [failures |-> 0, failed |-> Horizon, quota |-> Horizon]
Key     == [fails : 0..MaxFailCount, failed : Age]
NewKey  == [fails |-> 0, failed |-> Horizon]
Rotator == UNION {[K -> Key] : K \in SUBSET Keys}
ASSUME NoneAssumption == None \notin State \cup Rotator
Binding == [provider : Providers, left : Age]

(* A request: its snapshot and session, the candidates left to try, the key   *)
(* of the call it makes, and whether that is a key of the present rotator.    *)
Request ==
  [pc : {"idle", "order", "try", "call", "remember"},
   snap : Snapshots \cup {None}, session : Sessions \cup {None},
   todo : Seq(Providers), tries : 0..MaxAttempts,
   key : Keys \cup {None}, shared : BOOLEAN]
Idle == [pc |-> "idle", snap |-> None, session |-> None, todo |-> <<>>, tries |-> 0,
         key |-> None, shared |-> FALSE]

Loop == [stage : {"off", "start", "round", "wait"}, snap : Snapshots \cup {None},
         flying : SUBSET Providers, cancelled : BOOLEAN]
Off == [stage |-> "off", snap |-> None, flying |-> {}, cancelled |-> FALSE]

-----------------------------------------------------------------------------
(* providerGateStateFromLocked *)

BugCoolingDown(st, policy) == policy.threshold > 0 /\ st.failures >= policy.threshold

CoolingDown(st, policy) ==
  policy.threshold > 0 /\ st.failures >= policy.threshold /\ st.failed < policy.cooldown

QuotaBlocked(st, policy) == st.quota < policy.quota

Blocked(st, policy) == policy.guarded /\ (CoolingDown(st, policy) \/ QuotaBlocked(st, policy))

(* passthrough_after_sec: blocked, but for so long that it is tried again. *)
PassesThrough(st, policy) ==
  /\ policy.passthrough > 0
  /\ \/ CoolingDown(st, policy) /\ st.failed >= policy.passthrough
     \/ QuotaBlocked(st, policy) /\ st.quota >= policy.passthrough

(* ensureProviderStateLocked, for some providers. *)
Ensure(known, P) == [p \in Providers |-> IF p \in P /\ known[p] = None THEN Fresh ELSE known[p]]

(* orderProviderCandidates rotates a weighted pool; any order may come out. *)
Arrangements(S) ==
  {o \in [1..Cardinality(S) -> S] : \A i, j \in DOMAIN o : o[i] = o[j] => i = j}

BugOrders(policy, known, bound) ==
  LET open   == {p \in policy.providers : ~Blocked(known[p], policy)}
      behind == {p \in policy.providers \ open : PassesThrough(known[p], policy)}
      First(S) == IF bound \in S THEN <<bound>> ELSE <<>> IN
  {a \o First(behind) \o b :
     a \in Arrangements(open \ {bound}), b \in Arrangements(behind \ {bound})}

(* orderCandidates: who is not blocked before who is let through, and among   *)
(* each of them the provider the session is bound to first.                   *)
Orders(policy, known, bound) ==
  LET open   == {p \in policy.providers : ~Blocked(known[p], policy)}
      behind == {p \in policy.providers \ open : PassesThrough(known[p], policy)}
      First(S) == IF bound \in S THEN <<bound>> ELSE <<>> IN
  {First(open) \o a \o First(behind) \o b :
     a \in Arrangements(open \ {bound}), b \in Arrangements(behind \ {bound})}

(* reportAttemptResult.  When the last failure was is only looked at while    *)
(* failures are counted.                                                      *)
Reported(st, status) ==
  IF status \in {"quota", "down"}
  THEN [failures |-> IF st.failures < CountCap THEN st.failures + 1 ELSE CountCap,
        failed   |-> 0,
        quota    |-> IF status = "quota" THEN 0 ELSE st.quota]
  ELSE Fresh

(* NewKeyRotator for every provider with keys. *)
Rotators(policy) ==
  [p \in Providers |-> IF p \in policy.providers /\ policy.keys[p] # {}
                       THEN [k \in policy.keys[p] |-> NewKey] ELSE None]

UsableKeys(rotator) == {k \in DOMAIN rotator : rotator[k].fails < MaxFailCount}

(* ReportSuccess and ReportFailure; a count beyond the maximum is not told apart. *)
KeyReported(rotator, k, status) ==
  IF status = "ok" THEN [rotator EXCEPT ![k] = NewKey]
  ELSE IF status = "denied"
  THEN [rotator EXCEPT ![k] = [fails |-> IF @.fails < MaxFailCount THEN @.fails + 1 ELSE @.fails,
                               failed |-> 0]]
  ELSE rotator

-----------------------------------------------------------------------------

Init ==
  /\ current \in Snapshots
  /\ providers = Ensure([p \in Providers |-> None], Policy[current].providers)
  /\ rotators = Rotators(Policy[current])
  /\ sticky = [s \in Sessions |-> None]
  /\ req = [r \in Requests |-> Idle]
  /\ loop = Off
  /\ next = current
  /\ events = 0

Goto(r, step) == req' = [req EXCEPT ![r].pc = step]

(* A request comes in and keeps the snapshot it finds. *)
Receive(r) ==
  /\ req[r].pc = "idle"
  /\ \E s \in Sessions \cup {None} :
       req' = [req EXCEPT ![r] = [Idle EXCEPT !.pc = "order", !.snap = current, !.session = s]]
  /\ UNCHANGED <<current, providers, rotators, sticky, loop, next, events>>

Order(r) ==
  /\ req[r].pc = "order"
  /\ LET policy == Policy[req[r].snap]
         bound  == IF req[r].session = None \/ sticky[req[r].session] = None THEN None
                   ELSE sticky[req[r].session].provider IN
     /\ providers' = Ensure(providers, policy.providers)
     /\ \E order \in Orders(policy, providers', bound) :
          req' = [req EXCEPT ![r].pc = "try", ![r].todo = order]
  /\ UNCHANGED <<current, rotators, sticky, loop, next, events>>

(* A diagnostic request passes the gate, for one attempt at the provider it   *)
(* names.                                                                     *)
Pin(r) ==
  /\ req[r].pc = "order" /\ events < MaxEvents
  /\ \E p \in Policy[req[r].snap].providers :
       req' = [req EXCEPT ![r].pc = "try", ![r].todo = <<p>>,
                            ![r].tries = MaxAttempts - 1, ![r].session = None]
  /\ events' = events + 1
  /\ UNCHANGED <<current, providers, rotators, sticky, loop, next>>

(* forwardToUpstream, up to the call: KeyRotatorForProvider and Next.  The    *)
(* rotator is the present one, or one of the request's own if that has gone;  *)
(* without a usable key the call uses the static credentials.                 *)
Call(r) ==
  /\ req[r].pc = "try" /\ req[r].todo # <<>> /\ req[r].tries < MaxAttempts
  /\ LET p      == Head(req[r].todo)
         own    == Policy[req[r].snap].keys[p]
         shared == own # {} /\ rotators[p] # None
         usable == IF shared THEN UsableKeys(rotators[p]) ELSE own IN
     \E k \in IF usable = {} THEN {None} ELSE usable :
       req' = [req EXCEPT ![r].pc = "call", ![r].tries = @ + 1,
                          ![r].key = k, ![r].shared = shared /\ k # None]
  /\ UNCHANGED <<current, providers, rotators, sticky, loop, next, events>>

BugReportKey(r, p, status) ==
  rotators' = IF req[r].key # None /\ rotators[p] # None /\ req[r].key \in DOMAIN rotators[p]
              THEN [rotators EXCEPT ![p] = KeyReported(@, req[r].key, status)]
              ELSE rotators

(* The key's result goes to the rotator it came from, which a publish may     *)
(* have replaced.                                                             *)
ReportKey(r, p, status) ==
  rotators' = IF req[r].shared
              THEN [rotators EXCEPT ![p] = KeyReported(@, req[r].key, status)]
              ELSE rotators

(* The call ends and is reported; a client that leaves makes it fail as well. *)
(* Then the handler succeeds, tries the provider again, goes on to the next,  *)
(* or gives up.                                                               *)
Return(r) ==
  /\ req[r].pc = "call"
  /\ LET p == Head(req[r].todo) IN
     \E status \in Answers[p] \cup {"down"} :
       /\ ReportKey(r, p, status)
       /\ LET known == Ensure(providers, {p}) IN
          providers' = [known EXCEPT ![p] = Reported(@, status)]
       /\ \/ status = "ok" /\ Goto(r, "remember")
          \/ status # "ok" /\ \E rest \in {req[r].todo, Tail(req[r].todo)} :
               req' = [req EXCEPT ![r].pc = "try", ![r].todo = rest, ![r].key = None,
                                  ![r].shared = FALSE]
  /\ UNCHANGED <<current, sticky, loop, next, events>>

GiveUp(r) ==
  /\ req[r].pc = "try"
  /\ req' = [req EXCEPT ![r] = Idle]
  /\ UNCHANGED <<current, providers, rotators, sticky, loop, next, events>>

(* rememberSticky *)
Remember(r) ==
  /\ req[r].pc = "remember"
  /\ LET ttl == Policy[req[r].snap].sticky IN
     sticky' = IF ttl = 0 \/ req[r].session = None THEN sticky
               ELSE [sticky EXCEPT ![req[r].session] =
                       [provider |-> Head(req[r].todo), left |-> ttl]]
  /\ req' = [req EXCEPT ![r] = Idle]
  /\ UNCHANGED <<current, providers, rotators, loop, next, events>>

-----------------------------------------------------------------------------
(* ApplySnapshot and the probes. *)

BugForgetNew(policy) ==
  [p \in Providers |-> IF p \in policy.providers THEN providers[p] ELSE None]

(* RuntimeState.ApplySnapshot keeps what is known of providers that stay. *)
Known(policy) ==
  Ensure([p \in Providers |-> IF p \in policy.providers THEN providers[p] ELSE None],
         policy.providers)

(* Daemon.ApplySnapshot, of which controld makes one call at a time; the probe *)
(* loop of the earlier snapshot is cancelled and awaited.                      *)
ApplySnapshot(s) ==
  /\ next = None /\ events < MaxEvents
  /\ current' = s
  /\ providers' = Known(Policy[s])
  /\ sticky' = [k \in Sessions |->
       IF sticky[k] = None \/ sticky[k].provider \notin Policy[s].providers THEN None
       ELSE sticky[k]]
  /\ rotators' = Rotators(Policy[s])
  /\ req' = [r \in Requests |-> [req[r] EXCEPT !.shared = FALSE]]
  /\ loop' = IF loop.stage = "off" THEN loop ELSE [loop EXCEPT !.cancelled = TRUE]
  /\ next' = s
  /\ events' = events + 1

StartLoop ==
  /\ next # None /\ loop.stage = "off"
  /\ loop' = IF Policy[next].health THEN [Off EXCEPT !.stage = "start", !.snap = next] ELSE Off
  /\ next' = None
  /\ UNCHANGED <<current, providers, rotators, sticky, req, events>>

(* TryRecover *)
Recover(rotator) ==
  [k \in DOMAIN rotator |->
     IF rotator[k].fails = MaxFailCount /\ rotator[k].failed >= KeyCooldown
     THEN NewKey ELSE rotator[k]]

(* runHealthProbeOnce: keys may recover, then every provider is probed.  Also *)
(* a cancelled loop may begin one more round, if its ticker is due as well.   *)
Round ==
  /\ loop.stage \in {"start", "wait"}
  /\ LET P == Policy[loop.snap].providers IN
     /\ rotators' = [p \in Providers |->
          IF p \in P /\ Policy[loop.snap].keys[p] # {} /\ rotators[p] # None
          THEN Recover(rotators[p]) ELSE rotators[p]]
     /\ loop' = [loop EXCEPT !.stage = IF P = {} THEN "wait" ELSE "round", !.flying = P]
  /\ UNCHANGED <<current, providers, sticky, req, next, events>>

(* ReportProbeResult: any status from 400 on comes with an error.  A probe    *)
(* that is cancelled fails.  With the last of them the round is over.         *)
ProbeStatus(status) == IF status \in {"ok", "quota"} THEN status ELSE "down"

ProbeReturns(p) ==
  /\ p \in loop.flying
  /\ \E status \in ProbeAnswers[p] \cup (IF loop.cancelled THEN {"down"} ELSE {}) :
       LET known == Ensure(providers, {p}) IN
       providers' = [known EXCEPT ![p] = Reported(@, ProbeStatus(status))]
  /\ loop' = [loop EXCEPT !.flying = @ \ {p},
                          !.stage  = IF loop.flying = {p} THEN "wait" ELSE @]
  /\ UNCHANGED <<current, rotators, sticky, req, next, events>>

LoopEnds ==
  /\ loop.stage = "wait" /\ loop.cancelled
  /\ loop' = Off
  /\ UNCHANGED <<current, providers, rotators, sticky, req, next, events>>

(* A binding that has run out is deleted before anybody looks at it. *)
Tick ==
  /\ providers' = [p \in Providers |-> IF providers[p] = None THEN None
       ELSE [providers[p] EXCEPT !.failed = Older(@), !.quota = Older(@)]]
  /\ rotators' = [p \in Providers |-> IF rotators[p] = None THEN None
       ELSE [k \in DOMAIN rotators[p] |-> [rotators[p][k] EXCEPT !.failed = Older(@)]]]
  /\ sticky' = [s \in Sessions |-> IF sticky[s] = None \/ sticky[s].left = 0 THEN None
       ELSE [sticky[s] EXCEPT !.left = @ - 1]]
  /\ UNCHANGED <<current, req, loop, next, events>>

Step(r) == Order(r) \/ Pin(r) \/ Call(r) \/ Return(r) \/ GiveUp(r) \/ Remember(r)

Next ==
  \/ \E r \in Requests : Receive(r) \/ Step(r)
  \/ \E s \in Snapshots : ApplySnapshot(s)
  \/ StartLoop \/ Round \/ LoopEnds
  \/ \E p \in Providers : ProbeReturns(p)
  \/ Tick

Spec == Init /\ [][Next]_vars

(* Time passes, requests and the loop go on.  Of a cancelled loop's two ready *)
(* channels the select takes either; a due ticker does not win for ever.      *)
FairSpec ==
  /\ Spec
  /\ \A r \in Requests : WF_vars(Step(r))
  /\ WF_vars(StartLoop) /\ WF_vars(Round) /\ SF_vars(LoopEnds)
  /\ \A p \in Providers : WF_vars(ProbeReturns(p))
  /\ WF_vars(Tick)
-----------------------------------------------------------------------------
(* Properties. *)

(* Types; whatever comes in between, the providers of the snapshot in force   *)
(* have an entry, and a call that has a key of a present rotator finds it.    *)
TypeOK ==
  /\ current \in Snapshots
  /\ providers \in [Providers -> State \cup {None}]
  /\ \A p \in Policy[current].providers : providers[p] # None
  /\ rotators \in [Providers -> Rotator \cup {None}]
  /\ \A p \in Providers : rotators[p] # None => rotators[p] \in [Policy[current].keys[p] -> Key]
  /\ sticky \in [Sessions -> Binding \cup {None}]
  /\ req \in [Requests -> Request]
  /\ \A r \in Requests :
       /\ req[r].pc # "idle" => req[r].snap # None
       /\ req[r].pc \in {"call", "remember"} => req[r].todo # <<>>
       /\ req[r].pc = "call" /\ req[r].shared =>
            /\ rotators[Head(req[r].todo)] # None
            /\ req[r].key \in DOMAIN rotators[Head(req[r].todo)]
  /\ loop \in Loop
  /\ loop.stage # "off" => loop.snap # None
  /\ loop.stage = "round" <=> loop.flying # {}
  /\ next \in Snapshots \cup {None}
  /\ events \in 0..MaxEvents

(* A key is blamed only for calls that took it from the rotator it is in now: *)
(* what a call reports that a publish has overtaken, of a key of that name    *)
(* that may since have been replaced, goes nowhere (KeyRotatorForProvider).   *)
KeyBlameIsCurrent ==
  [][\A p \in Providers, k \in Keys :
       (/\ rotators[p] # None /\ k \in DOMAIN rotators[p]
        /\ rotators'[p] # None /\ k \in DOMAIN rotators'[p]
        /\ rotators'[p][k].fails > rotators[p][k].fails)
       => \E r \in Requests : /\ req[r].pc = "call" /\ req[r].shared
                              /\ req[r].key = k /\ Head(req[r].todo) = p]_vars

Routable(p) ==
  p \in Policy[current].providers =>
    \/ ~Blocked(providers[p], Policy[current])
    \/ PassesThrough(providers[p], Policy[current])

(* Of the candidates no one is lost: those that are not blocked are in the    *)
(* list, once each and before those that are let through all the same; the    *)
(* one its session is bound to leads its part (orderCandidates).              *)
CandidatesComplete ==
  [][\A r \in Requests :
       (req[r].pc = "order" /\ req'[r].pc = "try" /\ events' = events) =>
         LET policy == Policy[req[r].snap]
             order  == req'[r].todo
             open   == {p \in policy.providers : ~Blocked(providers'[p], policy)} IN
         /\ open \subseteq {order[i] : i \in DOMAIN order}
         /\ \A i, j \in DOMAIN order : (i < j /\ order[j] \in open) => order[i] \in open \ {order[j]}
         /\ \A s \in Sessions :
              (req[r].session = s /\ sticky[s] # None /\ sticky[s].provider \in open)
                => order[1] = sticky[s].provider]_vars

Probed(p) == loop.stage # "off" /\ p \in Policy[loop.snap].providers

(* Cooldowns end: a provider whose probes succeed, or that is not probed, is  *)
(* offered requests again and again, however they fare                        *)
(* (docs/provider-fallback-health.md, "Runtime Model").                       *)
RoutableAgain ==
  \A p \in Providers : <>[](Probed(p) => ProbeAnswers[p] = {"ok"}) => []<>Routable(p)

(* "Periodically try to recover failed keys" (the design of key rotation):    *)
(* while probes run, a key that has failed becomes usable (TryRecoverAPIKeys).*)
KeysReturn ==
  \A p \in Providers, k \in Keys :
    <>[]Probed(p) => []<>(rotators[p] # None /\ k \in DOMAIN rotators[p]
                            => rotators[p][k].fails < MaxFailCount)

(* What has failed is tried again in the end, a provider as well as a key.    *)
FailuresEnd == RoutableAgain /\ KeysReturn
=============================================================================
