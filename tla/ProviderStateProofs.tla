-------------------------- MODULE ProviderStateProofs --------------------------
(***************************************************************************)
(* Proofs about what gatewayd knows of its providers, for any number of    *)
(* requests, providers, keys, sessions, snapshots and publishes, and every *)
(* length of the cooldowns; about any configuration, and about the         *)
(* conversations gatewayd converts, of any length.                         *)
(***************************************************************************)
EXTENDS ProviderState, ConfigRules, CompatBodies, FiniteSetTheorems, SequenceTheorems, TLAPS

(* The parts of the type invariant, by the variables they speak of. *)
ProvidersOK ==
  /\ current \in Snapshots
  /\ providers \in [Providers -> State \cup {None}]
  /\ \A p \in Policy[current].providers : providers[p] # None

RotatorsOK ==
  /\ rotators \in [Providers -> Rotator \cup {None}]
  /\ \A p \in Providers : rotators[p] # None => rotators[p] \in [Policy[current].keys[p] -> Key]

RequestOK(q) ==
  /\ q.pc # "idle" => q.snap # None
  /\ q.pc \in {"call", "remember"} => q.todo # <<>>
  /\ q.pc = "call" /\ q.shared =>
       /\ rotators[Head(q.todo)] # None
       /\ q.key \in DOMAIN rotators[Head(q.todo)]

RequestsOK == req \in [Requests -> Request] /\ \A r \in Requests : RequestOK(req[r])

LoopOK ==
  /\ loop \in Loop
  /\ loop.stage # "off" => loop.snap # None
  /\ loop.stage = "round" <=> loop.flying # {}
  /\ next \in Snapshots \cup {None}
  /\ events \in 0..MaxEvents

LEMMA Parts ==
  /\ TypeOK <=> /\ ProvidersOK /\ RotatorsOK /\ RequestsOK /\ LoopOK
                /\ sticky \in [Sessions -> Binding \cup {None}]
  /\ TypeOK' <=> /\ ProvidersOK' /\ RotatorsOK' /\ RequestsOK' /\ LoopOK'
                 /\ sticky' \in [Sessions -> Binding \cup {None}]
BY DEF TypeOK, ProvidersOK, RotatorsOK, RequestsOK, RequestOK, LoopOK

-----------------------------------------------------------------------------
(* The operators. *)

LEMMA Ages == /\ Horizon \in Age /\ 0 \in Age
              /\ \A a \in Age : Older(a) \in Age
BY ProviderAssumption DEF Age, Older

LEMMA FreshTypes == /\ Fresh \in State /\ NewKey \in Key
                    /\ Fresh # None /\ \A K \in SUBSET Keys : [K -> Key] \subseteq Rotator
<1>1. 0 \in 0..CountCap /\ 0 \in 0..MaxFailCount
  BY ProviderAssumption
<1>2. Fresh \in State /\ NewKey \in Key
  BY <1>1, Ages DEF Fresh, State, NewKey, Key
<1>3. QED
  BY <1>2, NoneAssumption DEF Rotator

LEMMA PolicyTypes ==
  ASSUME NEW s \in Snapshots
  PROVE  /\ Policy[s].providers \in SUBSET Providers
         /\ Policy[s].keys \in [Providers -> SUBSET Keys]
         /\ Policy[s].sticky \in Age
BY ProviderAssumption DEF SnapshotPolicy, Age

LEMMA EnsureTypes ==
  ASSUME NEW known \in [Providers -> State \cup {None}], NEW P \in SUBSET Providers
  PROVE  /\ Ensure(known, P) \in [Providers -> State \cup {None}]
         /\ \A p \in P : Ensure(known, P)[p] \in State
         /\ \A p \in Providers : known[p] # None => Ensure(known, P)[p] # None
BY FreshTypes DEF Ensure

LEMMA ReportedTypes ==
  ASSUME NEW st \in State, NEW status
  PROVE  Reported(st, status) \in State
<1>1. st.failures \in 0..CountCap /\ st.quota \in Age /\ CountCap \in Nat
  BY ProviderAssumption DEF State
<1>2. (IF st.failures < CountCap THEN st.failures + 1 ELSE CountCap) \in 0..CountCap
  BY <1>1
<1>3. QED
  BY <1>1, <1>2, FreshTypes, Ages DEF Reported, State

(* A report keeps the table of providers in shape. *)
LEMMA ReportKeepsProviders ==
  ASSUME ProvidersOK, NEW p \in Providers, NEW status, current' = current,
         providers' = [Ensure(providers, {p}) EXCEPT ![p] = Reported(@, status)]
  PROVE  ProvidersOK'
<1> DEFINE known == Ensure(providers, {p})
<1>1. /\ known \in [Providers -> State \cup {None}] /\ known[p] \in State
      /\ \A q \in Providers : providers[q] # None => known[q] # None
  BY EnsureTypes DEF ProvidersOK
<1>2. Reported(known[p], status) \in State
  BY <1>1, ReportedTypes
<1>3. QED
  BY <1>1, <1>2, NoneAssumption, PolicyTypes DEF ProvidersOK

LEMMA KeyReportedTypes ==
  ASSUME NEW K \in SUBSET Keys, NEW rotator \in [K -> Key], NEW k \in K, NEW status
  PROVE  KeyReported(rotator, k, status) \in [K -> Key]
<1>1. rotator[k].fails \in 0..MaxFailCount /\ MaxFailCount \in Nat
  BY ProviderAssumption DEF Key
<1> DEFINE worse == [fails |-> IF rotator[k].fails < MaxFailCount THEN rotator[k].fails + 1
                               ELSE rotator[k].fails, failed |-> 0]
<1>2. worse \in Key
  BY <1>1, Ages DEF Key
<1> HIDE DEF worse
<1>3. CASE status = "ok"
  BY <1>3, FreshTypes DEF KeyReported
<1>4. CASE status = "denied"
  <2>1. KeyReported(rotator, k, status) = [rotator EXCEPT ![k] = worse]
    BY <1>4 DEF KeyReported, worse
  <2>2. QED
    BY <2>1, <1>2
<1>5. CASE status \notin {"ok", "denied"}
  BY <1>5 DEF KeyReported
<1>6. QED
  BY <1>3, <1>4, <1>5

LEMMA RotatorsTypes ==
  ASSUME NEW s \in Snapshots
  PROVE  /\ Rotators(Policy[s]) \in [Providers -> Rotator \cup {None}]
         /\ \A p \in Providers : Rotators(Policy[s])[p] # None =>
              Rotators(Policy[s])[p] \in [Policy[s].keys[p] -> Key]
<1>1. \A p \in Providers : [k \in Policy[s].keys[p] |-> NewKey] \in [Policy[s].keys[p] -> Key]
  BY FreshTypes
<1>2. QED
  BY <1>1, FreshTypes, PolicyTypes DEF Rotators

LEMMA RecoverTypes ==
  ASSUME NEW K \in SUBSET Keys, NEW rotator \in [K -> Key]
  PROVE  Recover(rotator) \in [K -> Key]
BY FreshTypes DEF Recover

LEMMA ArrangementsTypes ==
  ASSUME NEW S \in SUBSET Providers
  PROVE  Arrangements(S) \subseteq Seq(Providers)
<1>1. IsFiniteSet(S)
  BY ProviderAssumption, FS_Subset
<1>2. Cardinality(S) \in Nat
  BY <1>1, FS_CardinalityType
<1>3. QED
  BY <1>2, IsASeq DEF Arrangements

LEMMA OrdersTypes ==
  ASSUME NEW s \in Snapshots, NEW known, NEW bound
  PROVE  Orders(Policy[s], known, bound) \subseteq Seq(Providers)
<1> DEFINE policy == Policy[s]
           open   == {p \in policy.providers : ~Blocked(known[p], policy)}
           behind == {p \in policy.providers \ open : PassesThrough(known[p], policy)}
           First(S) == IF bound \in S THEN <<bound>> ELSE <<>>
<1>1. open \in SUBSET Providers /\ behind \in SUBSET Providers
  BY PolicyTypes
<1>2. \A S \in SUBSET Providers : First(S) \in Seq(Providers)
  OBVIOUS
<1>3. /\ Arrangements(open \ {bound}) \subseteq Seq(Providers)
      /\ Arrangements(behind \ {bound}) \subseteq Seq(Providers)
  BY <1>1, ArrangementsTypes
<1>4. First(open) \in Seq(Providers) /\ First(behind) \in Seq(Providers)
  BY <1>1, <1>2
<1> DEFINE A == Arrangements(open \ {bound})
           B == Arrangements(behind \ {bound})
           Joined(a, b) == First(open) \o a \o First(behind) \o b
<1>5. \A a \in A, b \in B : Joined(a, b) \in Seq(Providers)
  <2> HIDE DEF open, behind, First
  <2>1. QED
    BY <1>3, <1>4
<1>6. Orders(policy, known, bound) = {Joined(a, b) : a \in A, b \in B}
  BY DEF Orders
<1> HIDE DEF open, behind, First, A, B, Joined
<1>7. ASSUME NEW order \in Orders(policy, known, bound) PROVE order \in Seq(Providers)
  BY <1>5, <1>6
<1>8. QED
  BY <1>7

-----------------------------------------------------------------------------
(* The type invariant. *)

LEMMA InitTypes == Init => TypeOK
<1> SUFFICES ASSUME Init PROVE TypeOK
  OBVIOUS
<1>1. [p \in Providers |-> None] \in [Providers -> State \cup {None}]
  OBVIOUS
<1>2. ProvidersOK
  BY <1>1, EnsureTypes, PolicyTypes, NoneAssumption DEF Init, ProvidersOK
<1>3. RotatorsOK
  BY RotatorsTypes DEF Init, RotatorsOK
<1>4. Idle \in Request /\ RequestOK(Idle)
  BY ProviderAssumption DEF Idle, Request, RequestOK
<1>5. RequestsOK
  BY <1>4 DEF Init, RequestsOK
<1>6. LoopOK
  BY ProviderAssumption DEF Init, LoopOK, Loop, Off
<1>7. QED
  BY <1>2, <1>3, <1>5, <1>6, Parts DEF Init

(* A request moves; what it knew of its rotator is still so. *)
LEMMA RequestMoves ==
  ASSUME RequestsOK, NEW r \in Requests, NEW q \in Request,
         req' = [req EXCEPT ![r] = q], rotators' = rotators, RequestOK(q)
  PROVE  RequestsOK'
<1>1. req' \in [Requests -> Request] /\ req'[r] = q
  BY DEF RequestsOK
<1>2. ASSUME NEW k \in Requests PROVE RequestOK(req[k])'
  <2>1. CASE k = r
    BY <2>1, <1>1 DEF RequestOK
  <2>2. CASE k # r
    BY <2>2 DEF RequestsOK, RequestOK
  <2>3. QED
    BY <2>1, <2>2
<1>3. QED
  BY <1>1, <1>2 DEF RequestsOK

(* What requests take for granted of the rotators holds of others as well,    *)
(* as long as they have the same keys.                                        *)
LEMMA RequestsStay ==
  ASSUME RequestsOK, req' = req,
         \A p \in Providers : rotators[p] # None =>
           rotators'[p] # None /\ DOMAIN rotators[p] = DOMAIN rotators'[p]
  PROVE  RequestsOK'
<1>1. ASSUME NEW r \in Requests PROVE RequestOK(req[r])'
  <2>1. RequestOK(req[r]) /\ req[r] \in Request
    BY DEF RequestsOK
  <2>2. req[r].pc = "call" => Head(req[r].todo) \in Providers
    <3> HAVE req[r].pc = "call"
    <3>1. req[r].todo \in Seq(Providers) /\ req[r].todo # <<>>
      BY <2>1 DEF Request, RequestOK
    <3>2. QED
      BY <3>1
  <2>3. QED
    BY <2>1, <2>2 DEF RequestOK
<1>2. QED
  BY <1>1 DEF RequestsOK

(* The handler's steps. *)

LEMMA ReceiveTypes ==
  ASSUME TypeOK, NEW r \in Requests, Receive(r)
  PROVE  TypeOK'
<1>0. ProvidersOK /\ RotatorsOK /\ RequestsOK /\ LoopOK
  BY Parts
<1>1. PICK s \in Sessions \cup {None} :
        req' = [req EXCEPT ![r] = [Idle EXCEPT !.pc = "order", !.snap = current, !.session = s]]
  BY DEF Receive
<1> DEFINE q == [Idle EXCEPT !.pc = "order", !.snap = current, !.session = s]
<1>2. q \in Request /\ RequestOK(q)
  <2>1. Idle \in Request
    BY ProviderAssumption DEF Idle, Request
  <2>2. current \in Snapshots /\ current # None
    BY <1>0, ProviderAssumption DEF ProvidersOK
  <2>3. q \in Request /\ q.pc = "order" /\ q.snap = current
    BY <2>1, <2>2 DEF Request
  <2>4. QED
    BY <2>2, <2>3 DEF RequestOK
<1>3. RequestsOK'
  BY <1>0, <1>1, <1>2, RequestMoves DEF Receive
<1>4. QED
  BY <1>0, Parts, <1>3 DEF Receive, ProvidersOK, RotatorsOK, LoopOK

LEMMA OrderTypes ==
  ASSUME TypeOK, NEW r \in Requests, Order(r)
  PROVE  TypeOK'
<1>0. ProvidersOK /\ RotatorsOK /\ RequestsOK /\ LoopOK
  BY Parts
<1>1. req[r] \in Request /\ req[r].pc = "order" /\ req[r].snap \in Snapshots
  BY <1>0 DEF Order, RequestsOK, RequestOK, Request
<1> DEFINE policy == Policy[req[r].snap]
<1>2. policy.providers \in SUBSET Providers
  BY <1>1, PolicyTypes
<1>3. ProvidersOK'
  BY <1>0, <1>2, EnsureTypes, PolicyTypes DEF Order, ProvidersOK
<1> DEFINE bound == IF req[r].session = None \/ sticky[req[r].session] = None THEN None
                    ELSE sticky[req[r].session].provider
<1>4. PICK order \in Orders(policy, providers', bound) :
        req' = [req EXCEPT ![r].pc = "try", ![r].todo = order]
  BY DEF Order
<1>5. order \in Seq(Providers)
  BY <1>1, <1>4, OrdersTypes
<1> DEFINE q == [req[r] EXCEPT !.pc = "try", !.todo = order]
<1>6. q \in Request /\ RequestOK(q) /\ req' = [req EXCEPT ![r] = q]
  BY <1>0, <1>1, <1>4, <1>5, ProviderAssumption DEF Request, RequestOK, RequestsOK
<1>7. RequestsOK'
  BY <1>0, <1>6, RequestMoves DEF Order
<1>8. QED
  BY <1>0, Parts, <1>3, <1>7 DEF Order, RotatorsOK, LoopOK

LEMMA PinTypes ==
  ASSUME TypeOK, NEW r \in Requests, Pin(r)
  PROVE  TypeOK'
<1>0. ProvidersOK /\ RotatorsOK /\ RequestsOK /\ LoopOK
  BY Parts
<1>1. req[r] \in Request /\ req[r].pc = "order" /\ req[r].snap \in Snapshots
  BY <1>0 DEF Pin, RequestsOK, RequestOK, Request
<1>2. PICK p \in Policy[req[r].snap].providers :
        req' = [req EXCEPT ![r].pc = "try", ![r].todo = <<p>>,
                           ![r].tries = MaxAttempts - 1, ![r].session = None]
  BY DEF Pin
<1>3. <<p>> \in Seq(Providers) /\ MaxAttempts - 1 \in 0..MaxAttempts
  BY <1>1, PolicyTypes, ProviderAssumption
<1> DEFINE q == [req[r] EXCEPT !.pc = "try", !.todo = <<p>>,
                               !.tries = MaxAttempts - 1, !.session = None]
<1>4. q \in Request /\ RequestOK(q) /\ req' = [req EXCEPT ![r] = q]
  BY <1>0, <1>1, <1>2, <1>3, ProviderAssumption DEF Request, RequestOK, RequestsOK
<1>5. RequestsOK'
  BY <1>0, <1>4, RequestMoves DEF Pin
<1>6. events' \in 0..MaxEvents
  BY <1>0, ProviderAssumption DEF Pin, LoopOK
<1>7. QED
  BY <1>0, Parts, <1>5, <1>6 DEF Pin, ProvidersOK, RotatorsOK, LoopOK

LEMMA CallTypes ==
  ASSUME TypeOK, NEW r \in Requests, Call(r)
  PROVE  TypeOK'
<1>0. ProvidersOK /\ RotatorsOK /\ RequestsOK /\ LoopOK
  BY Parts
<1>1. /\ req[r] \in Request /\ req[r].pc = "try" /\ req[r].snap \in Snapshots
      /\ req[r].todo # <<>> /\ Head(req[r].todo) \in Providers
      /\ req[r].tries + 1 \in 0..MaxAttempts
  <2>1. req[r] \in Request /\ RequestOK(req[r])
    BY <1>0 DEF RequestsOK
  <2>2. req[r].pc = "try" /\ req[r].todo # <<>> /\ req[r].tries < MaxAttempts
    BY DEF Call
  <2>3. req[r].todo \in Seq(Providers) /\ req[r].tries \in 0..MaxAttempts /\ req[r].snap \in Snapshots
    BY <2>1, <2>2, ProviderAssumption DEF Request, RequestOK
  <2>4. Head(req[r].todo) \in Providers
    BY <2>2, <2>3
  <2>5. QED
    BY <2>1, <2>2, <2>3, <2>4, ProviderAssumption
<1> DEFINE p      == Head(req[r].todo)
           own    == Policy[req[r].snap].keys[p]
           shared == own # {} /\ rotators[p] # None
           usable == IF shared THEN UsableKeys(rotators[p]) ELSE own
<1>2. PICK k \in IF usable = {} THEN {None} ELSE usable :
        req' = [req EXCEPT ![r].pc = "call", ![r].tries = @ + 1,
                           ![r].key = k, ![r].shared = shared /\ k # None]
  BY DEF Call
<1>3. own \in SUBSET Keys
  BY <1>1, PolicyTypes
<1>4. shared => UsableKeys(rotators[p]) \subseteq Keys
  BY <1>0, <1>1 DEF RotatorsOK, UsableKeys, Rotator
<1>5. k \in Keys \cup {None}
  BY <1>2, <1>3, <1>4
<1>6. shared /\ k # None => rotators[p] # None /\ k \in DOMAIN rotators[p]
  BY <1>2 DEF UsableKeys
<1>7. (shared /\ k # None) \in BOOLEAN
  OBVIOUS
<1> HIDE DEF shared, usable, own
<1> DEFINE q == [req[r] EXCEPT !.pc = "call", !.tries = @ + 1, !.key = k,
                               !.shared = shared /\ k # None]
<1>8. q \in Request /\ req' = [req EXCEPT ![r] = q]
  BY <1>0, <1>1, <1>2, <1>5, <1>7 DEF Request, RequestsOK
<1>9. RequestOK(q)
  BY <1>1, <1>6, ProviderAssumption DEF Request, RequestOK
<1>10. RequestsOK'
  BY <1>0, <1>8, <1>9, RequestMoves DEF Call
<1>11. QED
  BY <1>0, Parts, <1>10 DEF Call, ProvidersOK, RotatorsOK, LoopOK

(* What a call reports of its key leaves every rotator its keys. *)
LEMMA ReportKeyTypes ==
  ASSUME TypeOK, NEW r \in Requests, req[r].pc = "call", NEW status,
         ReportKey(r, Head(req[r].todo), status), current' = current
  PROVE  /\ RotatorsOK'
         /\ \A p \in Providers : rotators[p] # None =>
              rotators'[p] # None /\ DOMAIN rotators[p] = DOMAIN rotators'[p]
<1>0. ProvidersOK /\ RotatorsOK /\ RequestsOK /\ LoopOK
  BY Parts
<1> DEFINE p == Head(req[r].todo)  k == req[r].key  K == Policy[current].keys[p]
<1>1. CASE ~req[r].shared
  BY <1>0, <1>1 DEF ReportKey, RotatorsOK
<1>2. CASE req[r].shared
  <2>1. req[r] \in Request /\ RequestOK(req[r]) /\ req[r].todo # <<>>
    BY <1>0 DEF RequestsOK, RequestOK
  <2>2. p \in Providers
    BY <2>1 DEF Request
  <2>3. rotators[p] \in [K -> Key] /\ K \in SUBSET Keys /\ k \in K
    BY <1>0, <1>2, <2>1, <2>2, PolicyTypes DEF RotatorsOK, ProvidersOK, RequestOK
  <2> DEFINE new == KeyReported(rotators[p], k, status)
  <2>5. rotators' = [rotators EXCEPT ![p] = new]
    BY <1>2 DEF ReportKey
  <2> HIDE DEF p, k, K
  <2>4. new \in [K -> Key] /\ new \in Rotator /\ new # None
    <3>1. new \in [K -> Key]
      BY <2>3, KeyReportedTypes
    <3>2. QED
      BY <2>3, <3>1, FreshTypes, NoneAssumption
  <2> HIDE DEF new
  <2>6. /\ rotators' \in [Providers -> Rotator \cup {None}] /\ rotators'[p] = new
        /\ \A x \in Providers : x # p => rotators'[x] = rotators[x]
    BY <1>0, <2>2, <2>4, <2>5 DEF RotatorsOK
  <2>7. \A x \in Providers : rotators'[x] # None => rotators'[x] \in [Policy[current].keys[x] -> Key]
    BY <1>0, <2>4, <2>6 DEF RotatorsOK, K
  <2>8. QED
    BY <1>0, <2>3, <2>4, <2>6, <2>7 DEF RotatorsOK
<1>3. QED
  BY <1>1, <1>2

LEMMA ReturnTypes ==
  ASSUME TypeOK, NEW r \in Requests, Return(r)
  PROVE  TypeOK'
<1>0. ProvidersOK /\ RotatorsOK /\ RequestsOK /\ LoopOK
  BY Parts
<1> DEFINE p == Head(req[r].todo)
<1>1. /\ req[r] \in Request /\ req[r].pc = "call" /\ RequestOK(req[r])
      /\ req[r].snap # None /\ req[r].todo # <<>> /\ req[r].todo \in Seq(Providers)
  BY <1>0 DEF Return, RequestsOK, RequestOK, Request
<1>2. p \in Providers /\ Tail(req[r].todo) \in Seq(Providers)
  BY <1>1
<1>3. PICK status \in Answers[p] \cup {"down"} :
        /\ ReportKey(r, p, status)
        /\ LET known == Ensure(providers, {p}) IN
           providers' = [known EXCEPT ![p] = Reported(@, status)]
        /\ \/ status = "ok" /\ Goto(r, "remember")
           \/ status # "ok" /\ \E rest \in {req[r].todo, Tail(req[r].todo)} :
                req' = [req EXCEPT ![r].pc = "try", ![r].todo = rest, ![r].key = None,
                                   ![r].shared = FALSE]
  BY DEF Return
<1>4. current' = current
  BY DEF Return
<1>5. ProvidersOK'
  BY <1>0, <1>2, <1>3, <1>4, ReportKeepsProviders
<1>6. /\ RotatorsOK'
      /\ \A x \in Providers : rotators[x] # None =>
           rotators'[x] # None /\ DOMAIN rotators[x] = DOMAIN rotators'[x]
  BY <1>1, <1>3, <1>4, ReportKeyTypes
<1>7. PICK q \in Request : /\ req' = [req EXCEPT ![r] = q]
                           /\ q.pc \in {"remember", "try"} /\ q.snap # None
                           /\ q.pc = "remember" => q.todo # <<>>
  <2>1. CASE Goto(r, "remember")
    <3> DEFINE q == [req[r] EXCEPT !.pc = "remember"]
    <3>1. /\ q \in Request /\ q.pc = "remember" /\ q.snap # None /\ q.todo # <<>>
          /\ req' = [req EXCEPT ![r] = q]
      BY <2>1, <1>1 DEF Goto, Request
    <3>2. QED
      BY <3>1
  <2>2. CASE \E rest \in {req[r].todo, Tail(req[r].todo)} :
               req' = [req EXCEPT ![r].pc = "try", ![r].todo = rest, ![r].key = None,
                                  ![r].shared = FALSE]
    <3>1. PICK rest \in {req[r].todo, Tail(req[r].todo)} :
            req' = [req EXCEPT ![r].pc = "try", ![r].todo = rest, ![r].key = None,
                               ![r].shared = FALSE]
      BY <2>2
    <3> DEFINE q == [req[r] EXCEPT !.pc = "try", !.todo = rest, !.key = None, !.shared = FALSE]
    <3>2. /\ q \in Request /\ q.pc = "try" /\ q.snap # None
          /\ req' = [req EXCEPT ![r] = q]
      BY <3>1, <1>1, <1>2 DEF Request
    <3>3. QED
      BY <3>2
  <2>3. QED
    BY <1>3, <2>1, <2>2
<1>8. RequestsOK'
  <2>1. req' \in [Requests -> Request] /\ req'[r] = q
    BY <1>0, <1>7 DEF RequestsOK
  <2>2. RequestOK(req[r])'
    BY <1>7, <2>1 DEF RequestOK
  <2>3. ASSUME NEW k \in Requests, k # r PROVE RequestOK(req[k])'
    <3>1. req'[k] = req[k] /\ RequestOK(req[k]) /\ req[k] \in Request
      BY <1>0, <1>7, <2>3 DEF RequestsOK
    <3>2. req[k].pc = "call" => Head(req[k].todo) \in Providers
      <4> HAVE req[k].pc = "call"
      <4>1. req[k].todo \in Seq(Providers) /\ req[k].todo # <<>>
        BY <3>1 DEF Request, RequestOK
      <4>2. QED
        BY <4>1
    <3>3. QED
      BY <1>6, <3>1, <3>2 DEF RequestOK
  <2>4. QED
    BY <2>1, <2>2, <2>3 DEF RequestsOK
<1>9. QED
  BY <1>0, <1>5, <1>6, <1>8, Parts DEF Return, LoopOK

LEMMA GiveUpTypes ==
  ASSUME TypeOK, NEW r \in Requests, GiveUp(r)
  PROVE  TypeOK'
<1>0. ProvidersOK /\ RotatorsOK /\ RequestsOK /\ LoopOK
  BY Parts
<1>1. Idle \in Request /\ RequestOK(Idle)
  BY ProviderAssumption DEF Idle, Request, RequestOK
<1>2. RequestsOK'
  BY <1>0, <1>1, RequestMoves DEF GiveUp
<1>3. QED
  BY <1>0, <1>2, Parts DEF GiveUp, ProvidersOK, RotatorsOK, LoopOK

LEMMA RememberTypes ==
  ASSUME TypeOK, NEW r \in Requests, Remember(r)
  PROVE  TypeOK'
<1>0. ProvidersOK /\ RotatorsOK /\ RequestsOK /\ LoopOK
      /\ sticky \in [Sessions -> Binding \cup {None}]
  BY Parts
<1>1. Idle \in Request /\ RequestOK(Idle)
  BY ProviderAssumption DEF Idle, Request, RequestOK
<1>2. RequestsOK'
  BY <1>0, <1>1, RequestMoves DEF Remember
<1>3. /\ req[r].snap \in Snapshots /\ req[r].session \in Sessions \cup {None}
      /\ req[r].todo \in Seq(Providers) /\ req[r].todo # <<>>
  BY <1>0 DEF Remember, RequestsOK, RequestOK, Request
<1> DEFINE binding == [provider |-> Head(req[r].todo), left |-> Policy[req[r].snap].sticky]
<1>4. binding \in Binding
  BY <1>3, PolicyTypes DEF Binding
<1>5. sticky' = sticky \/ (/\ req[r].session \in Sessions
                           /\ sticky' = [sticky EXCEPT ![req[r].session] = binding])
  BY <1>3 DEF Remember
<1> HIDE DEF binding
<1>6. sticky' \in [Sessions -> Binding \cup {None}]
  BY <1>0, <1>4, <1>5
<1>7. QED
  BY <1>0, <1>2, <1>6, Parts DEF Remember, ProvidersOK, RotatorsOK, LoopOK

(* ApplySnapshot and the probes. *)

LEMMA ApplySnapshotTypes ==
  ASSUME TypeOK, NEW s \in Snapshots, ApplySnapshot(s)
  PROVE  TypeOK'
<1>0. ProvidersOK /\ RotatorsOK /\ RequestsOK /\ LoopOK
      /\ sticky \in [Sessions -> Binding \cup {None}]
  BY Parts
<1>1. ProvidersOK'
  <2> DEFINE kept == [p \in Providers |-> IF p \in Policy[s].providers THEN providers[p] ELSE None]
  <2>1. kept \in [Providers -> State \cup {None}]
    BY <1>0 DEF ProvidersOK
  <2>2. providers' = Ensure(kept, Policy[s].providers) /\ current' = s
    BY DEF ApplySnapshot, Known
  <2> HIDE DEF kept
  <2>3. QED
    BY <2>1, <2>2, EnsureTypes, PolicyTypes, NoneAssumption DEF ProvidersOK
<1>2. RotatorsOK'
  BY RotatorsTypes DEF ApplySnapshot, RotatorsOK
<1>3. RequestsOK'
  <2>1. req' = [r \in Requests |-> [req[r] EXCEPT !.shared = FALSE]]
    BY DEF ApplySnapshot
  <2>2. ASSUME NEW r \in Requests
        PROVE  /\ req'[r] \in Request /\ ~req'[r].shared /\ req'[r].pc = req[r].pc
               /\ req'[r].snap = req[r].snap /\ req'[r].todo = req[r].todo
    BY <1>0, <2>1 DEF RequestsOK, Request
  <2>3. \A r \in Requests : RequestOK(req[r])'
    BY <1>0, <2>2 DEF RequestsOK, RequestOK
  <2>4. QED
    BY <2>1, <2>2, <2>3 DEF RequestsOK
<1>4. sticky' \in [Sessions -> Binding \cup {None}]
  BY <1>0 DEF ApplySnapshot
<1>5. LoopOK'
  <2>1. /\ loop \in Loop /\ (loop.stage # "off" => loop.snap # None)
        /\ loop.stage = "round" <=> loop.flying # {}
    BY <1>0 DEF LoopOK
  <2>2. /\ loop' \in Loop /\ (loop'.stage # "off" => loop'.snap # None)
        /\ loop'.stage = "round" <=> loop'.flying # {}
    <3>1. CASE loop' = loop
      BY <2>1, <3>1
    <3>2. CASE loop.stage # "off" /\ loop' = [loop EXCEPT !.cancelled = TRUE]
      BY <2>1, <3>2 DEF Loop
    <3>3. QED
      BY <3>1, <3>2 DEF ApplySnapshot
  <2>3. events' \in 0..MaxEvents /\ next' \in Snapshots
    BY <1>0, ProviderAssumption DEF ApplySnapshot, LoopOK
  <2>4. QED
    BY <2>2, <2>3 DEF LoopOK
<1>6. QED
  BY <1>1, <1>2, <1>3, <1>4, <1>5, Parts

LEMMA RoundTypes ==
  ASSUME TypeOK, Round
  PROVE  TypeOK'
<1>0. ProvidersOK /\ RotatorsOK /\ RequestsOK /\ LoopOK
  BY Parts
<1> DEFINE P == Policy[loop.snap].providers
<1>1. loop \in Loop /\ loop.snap \in Snapshots /\ P \in SUBSET Providers
  BY <1>0, PolicyTypes DEF Round, LoopOK, Loop
<1>2. /\ rotators' = [p \in Providers |-> rotators'[p]]
      /\ \A p \in Providers : rotators'[p] \in {rotators[p], Recover(rotators[p])}
      /\ \A p \in Providers : rotators[p] = None => rotators'[p] = None
  BY <1>0 DEF Round, RotatorsOK
<1>3. ASSUME NEW p \in Providers, rotators[p] # None
      PROVE  /\ rotators'[p] \in [Policy[current].keys[p] -> Key]
             /\ rotators'[p] \in Rotator /\ rotators'[p] # None
             /\ DOMAIN rotators'[p] = DOMAIN rotators[p]
  <2> DEFINE K == Policy[current].keys[p]
  <2>1. K \in SUBSET Keys /\ rotators[p] \in [K -> Key]
    BY <1>0, <1>3, PolicyTypes DEF RotatorsOK, ProvidersOK
  <2> HIDE DEF K
  <2>2. Recover(rotators[p]) \in [K -> Key]
    BY <2>1, RecoverTypes
  <2>3. rotators'[p] \in [K -> Key]
    BY <1>2, <2>1, <2>2
  <2>4. QED
    BY <2>1, <2>3, FreshTypes, NoneAssumption DEF K
<1>4. RotatorsOK'
  <2>1. \A p \in Providers : rotators'[p] \in Rotator \cup {None}
    BY <1>2, <1>3
  <2>2. rotators' \in [Providers -> Rotator \cup {None}]
    BY <1>2, <2>1
  <2>3. QED
    BY <1>2, <1>3, <2>2 DEF Round, RotatorsOK
<1>5. RequestsOK'
  BY <1>0, <1>3, RequestsStay DEF Round
<1>6. LoopOK'
  BY <1>0, <1>1 DEF Round, LoopOK, Loop
<1>7. QED
  BY <1>0, <1>4, <1>5, <1>6, Parts DEF Round, ProvidersOK

LEMMA ProbeReturnsTypes ==
  ASSUME TypeOK, NEW p \in Providers, ProbeReturns(p)
  PROVE  TypeOK'
<1>0. ProvidersOK /\ RotatorsOK /\ RequestsOK /\ LoopOK
  BY Parts
<1>1. PICK status : providers' = [Ensure(providers, {p}) EXCEPT ![p] = Reported(@, ProbeStatus(status))]
  BY DEF ProbeReturns
<1>2. ProvidersOK'
  BY <1>0, <1>1, ReportKeepsProviders DEF ProbeReturns
<1>3. LoopOK'
  <2> DEFINE to == IF loop.flying = {p} THEN "wait" ELSE loop.stage
  <2>1. /\ loop \in Loop /\ loop.snap # None /\ loop.stage = "round"
        /\ p \in loop.flying
    BY <1>0 DEF ProbeReturns, LoopOK
  <2>2. to \in {"round", "wait"} /\ (to = "round" <=> loop.flying # {p})
    BY <2>1
  <2>3. loop' = [loop EXCEPT !.flying = @ \ {p}, !.stage = to]
    BY DEF ProbeReturns
  <2> HIDE DEF to
  <2>4. /\ loop' \in Loop /\ loop'.stage = to
        /\ loop'.flying = loop.flying \ {p} /\ loop'.snap = loop.snap
    BY <2>1, <2>2, <2>3 DEF Loop
  <2>5. QED
    BY <1>0, <2>1, <2>2, <2>4 DEF ProbeReturns, LoopOK
<1>4. RequestsOK'
  BY <1>0, RequestsStay DEF ProbeReturns
<1>5. QED
  BY <1>0, <1>2, <1>3, <1>4, Parts DEF ProbeReturns, RotatorsOK

LEMMA TickTypes ==
  ASSUME TypeOK, Tick
  PROVE  TypeOK'
<1>0. ProvidersOK /\ RotatorsOK /\ RequestsOK /\ LoopOK
      /\ sticky \in [Sessions -> Binding \cup {None}]
  BY Parts
<1>1. ProvidersOK'
  <2>1. ASSUME NEW p \in Providers, providers[p] # None
        PROVE  providers'[p] \in State
    BY <1>0, <2>1, Ages DEF Tick, ProvidersOK, State
  <2>2. \A p \in Providers : providers[p] = None => providers'[p] = None
    BY DEF Tick
  <2>3. providers' = [p \in Providers |-> providers'[p]] /\ current' = current
    BY DEF Tick
  <2>4. providers' \in [Providers -> State \cup {None}]
    BY <2>1, <2>2, <2>3
  <2>5. QED
    BY <1>0, <2>1, <2>3, <2>4, NoneAssumption, PolicyTypes DEF ProvidersOK
<1>2. ASSUME NEW p \in Providers, rotators[p] # None
      PROVE  /\ rotators'[p] \in [Policy[current].keys[p] -> Key]
             /\ rotators'[p] \in Rotator /\ rotators'[p] # None
             /\ DOMAIN rotators'[p] = DOMAIN rotators[p]
  <2> DEFINE K == Policy[current].keys[p]
  <2>1. K \in SUBSET Keys /\ rotators[p] \in [K -> Key]
    BY <1>0, <1>2, PolicyTypes DEF RotatorsOK, ProvidersOK
  <2>2. rotators'[p] = [k \in DOMAIN rotators[p] |-> [rotators[p][k] EXCEPT !.failed = Older(@)]]
    BY <1>2 DEF Tick
  <2> HIDE DEF K
  <2>3. \A k \in K : [rotators[p][k] EXCEPT !.failed = Older(@)] \in Key
    BY <2>1, Ages DEF Key
  <2>4. rotators'[p] \in [K -> Key]
    BY <2>1, <2>2, <2>3
  <2>5. QED
    BY <2>1, <2>4, FreshTypes, NoneAssumption DEF K
<1>3. RotatorsOK'
  <2>1. /\ rotators' = [p \in Providers |-> rotators'[p]]
        /\ \A p \in Providers : rotators[p] = None => rotators'[p] = None
    BY DEF Tick
  <2>2. \A p \in Providers : rotators'[p] \in Rotator \cup {None}
    BY <1>2, <2>1
  <2>3. rotators' \in [Providers -> Rotator \cup {None}]
    BY <2>1, <2>2
  <2>4. QED
    BY <1>2, <2>1, <2>3 DEF Tick, RotatorsOK
<1>4. RequestsOK'
  BY <1>0, <1>2, RequestsStay DEF Tick
<1>5. sticky' \in [Sessions -> Binding \cup {None}]
  <2>1. ASSUME NEW s \in Sessions, sticky[s] # None, sticky[s].left # 0
        PROVE  [sticky[s] EXCEPT !.left = @ - 1] \in Binding
    BY <1>0, <2>1, ProviderAssumption DEF Binding, Age
  <2>2. QED
    BY <1>0, <2>1 DEF Tick
<1>6. QED
  BY <1>0, <1>1, <1>3, <1>4, <1>5, Parts DEF Tick, LoopOK

LEMMA StepTypes == TypeOK /\ [Next]_vars => TypeOK'
<1> SUFFICES ASSUME TypeOK, [Next]_vars PROVE TypeOK'
  OBVIOUS
<1>0. ProvidersOK /\ RotatorsOK /\ RequestsOK /\ LoopOK
      /\ sticky \in [Sessions -> Binding \cup {None}]
  BY Parts
<1>1. CASE \E r \in Requests : Receive(r) \/ Step(r)
  BY <1>1, ReceiveTypes, OrderTypes, PinTypes, CallTypes, ReturnTypes, GiveUpTypes, RememberTypes
     DEF Step
<1>2. CASE \E s \in Snapshots : ApplySnapshot(s)
  BY <1>2, ApplySnapshotTypes
<1>3. CASE StartLoop
  <2>1. LoopOK'
    BY <1>0, <1>3 DEF StartLoop, LoopOK, Loop, Off
  <2>2. RequestsOK'
    BY <1>0, <1>3, RequestsStay DEF StartLoop
  <2>3. QED
    BY <1>0, <1>3, <2>1, <2>2, Parts DEF StartLoop, ProvidersOK, RotatorsOK
<1>4. CASE Round
  BY <1>4, RoundTypes
<1>5. CASE LoopEnds
  <2>1. LoopOK'
    BY <1>0, <1>5 DEF LoopEnds, LoopOK, Loop, Off
  <2>2. RequestsOK'
    BY <1>0, <1>5, RequestsStay DEF LoopEnds
  <2>3. QED
    BY <1>0, <1>5, <2>1, <2>2, Parts DEF LoopEnds, ProvidersOK, RotatorsOK
<1>6. CASE \E p \in Providers : ProbeReturns(p)
  BY <1>6, ProbeReturnsTypes
<1>7. CASE Tick
  BY <1>7, TickTypes
<1>8. CASE UNCHANGED vars
  BY <1>8 DEF vars, TypeOK
<1>9. QED
  BY <1>1, <1>2, <1>3, <1>4, <1>5, <1>6, <1>7, <1>8 DEF Next

(* The tables that requests, probes and publishes share keep their shape: a   *)
(* provider of the snapshot in force has a state, and a call finds the key it *)
(* took in the rotator it took it from.                                       *)
THEOREM ProviderTypes == Spec => []TypeOK
<1>1. Init => TypeOK
  BY InitTypes
<1>2. TypeOK /\ [Next]_vars => TypeOK'
  BY StepTypes
<1>3. QED
  BY <1>1, <1>2, PTL DEF Spec

-----------------------------------------------------------------------------
(* Blame of keys. *)

Blamed(p, k) ==
  /\ rotators[p] # None /\ k \in DOMAIN rotators[p]
  /\ rotators'[p] # None /\ k \in DOMAIN rotators'[p]
  /\ rotators'[p][k].fails > rotators[p][k].fails

(* The step of KeyBlameIsCurrent. *)
BlameIsCurrent ==
  \A p \in Providers, k \in Keys : Blamed(p, k) =>
    \E r \in Requests : /\ req[r].pc = "call" /\ req[r].shared
                        /\ req[r].key = k /\ Head(req[r].todo) = p

LEMMA NoBlame ==
  ASSUME NEW p, NEW k, Blamed(p, k), rotators[p][k].fails \in 0..MaxFailCount
  PROVE  rotators'[p][k].fails \notin {0, rotators[p][k].fails}
<1> DEFINE n == rotators[p][k].fails  m == rotators'[p][k].fails
<1>1. n \in Nat /\ m > n
  BY ProviderAssumption DEF Blamed
<1> HIDE DEF n, m
<1>2. m # 0 /\ m # n
  BY <1>1
<1>3. QED
  BY <1>2 DEF n, m

(* No other step counts a failure: a publish begins with new keys, a probe    *)
(* round only forgives, and time changes no count.                            *)
LEMMA OnlyReturnsBlame ==
  ASSUME TypeOK, Next, NEW p \in Providers, NEW k \in Keys, Blamed(p, k)
  PROVE  \E r \in Requests : Return(r)
<1>0. rotators[p] \in [Policy[current].keys[p] -> Key]
  BY DEF TypeOK, Blamed
<1>1. rotators[p][k].fails \in 0..MaxFailCount
  BY <1>0 DEF Blamed, Key
<1>2. rotators'[p][k].fails \notin {0, rotators[p][k].fails}
  BY <1>1, NoBlame
<1>3. CASE \E s \in Snapshots : ApplySnapshot(s)
  <2>1. PICK s \in Snapshots : rotators' = Rotators(Policy[s])
    BY <1>3 DEF ApplySnapshot
  <2>2. rotators'[p][k] = NewKey
    BY <2>1 DEF Blamed, Rotators
  <2>3. QED
    BY <1>1, <1>2, <2>2 DEF NewKey
<1>4. CASE Round
  <2>1. rotators'[p] \in {rotators[p], Recover(rotators[p])}
    BY <1>4 DEF Round
  <2>2. rotators'[p][k] \in {rotators[p][k], NewKey}
    BY <2>1 DEF Blamed, Recover
  <2>3. QED
    BY <1>1, <1>2, <2>2 DEF NewKey
<1>5. CASE Tick
  <2>1. rotators'[p][k] = [rotators[p][k] EXCEPT !.failed = Older(@)]
    BY <1>5 DEF Tick, Blamed
  <2>2. rotators'[p][k].fails = rotators[p][k].fails
    BY <1>0, <2>1 DEF Blamed, Key
  <2>3. QED
    BY <1>1, <1>2, <2>2
<1>6. QED
  BY <1>2, <1>3, <1>4, <1>5
     DEF Next, Step, Receive, Order, Pin, Call, GiveUp, Remember, StartLoop, LoopEnds, ProbeReturns

LEMMA BlameStep == TypeOK /\ [Next]_vars => BlameIsCurrent
<1> SUFFICES ASSUME TypeOK, [Next]_vars, NEW p \in Providers, NEW k \in Keys, Blamed(p, k)
             PROVE  \E r \in Requests : /\ req[r].pc = "call" /\ req[r].shared
                                        /\ req[r].key = k /\ Head(req[r].todo) = p
  BY DEF BlameIsCurrent
<1>1. rotators[p] \in [Policy[current].keys[p] -> Key]
  BY DEF TypeOK, Blamed
<1>2. rotators[p][k].fails \in 0..MaxFailCount
  BY <1>1 DEF Blamed, Key
<1>3. Next
  BY <1>2, NoBlame DEF vars
<1>4. PICK r \in Requests : Return(r)
  BY <1>3, OnlyReturnsBlame
<1>5. PICK status : ReportKey(r, Head(req[r].todo), status)
  BY <1>4 DEF Return
<1> DEFINE h == Head(req[r].todo)
<1>6. /\ req[r].pc = "call" /\ req[r].shared
      /\ rotators' = [rotators EXCEPT ![h] = KeyReported(@, req[r].key, status)]
  BY <1>2, <1>4, <1>5, NoBlame DEF Return, ReportKey
<1> HIDE DEF h
<1>7. h = p
  <2> SUFFICES ASSUME h # p PROVE FALSE
    OBVIOUS
  <2>1. rotators'[p] = rotators[p]
    BY <1>6 DEF TypeOK
  <2>2. QED
    BY <1>2, <2>1, NoBlame
<1>8. req[r].key = k
  <2> SUFFICES ASSUME req[r].key # k PROVE FALSE
    OBVIOUS
  <2>1. rotators'[p] = KeyReported(rotators[p], req[r].key, status)
    BY <1>6, <1>7 DEF TypeOK
  <2>2. rotators'[p][k] = rotators[p][k]
    BY <1>1, <2>1 DEF KeyReported, Blamed
  <2>3. QED
    BY <1>2, <2>2, NoBlame
<1>9. QED
  BY <1>6, <1>7, <1>8 DEF h

(* A key is blamed only for a call that took it from the rotator it is in     *)
(* now, whatever publishes, probes and other requests do meanwhile.           *)
THEOREM KeysBlamedFairly == Spec => KeyBlameIsCurrent
<1>1. TypeOK /\ [Next]_vars => BlameIsCurrent
  BY BlameStep
<1>2. QED
  BY <1>1, ProviderTypes, PTL DEF Spec, KeyBlameIsCurrent, BlameIsCurrent, Blamed

-----------------------------------------------------------------------------
(* The order of the candidates. *)

(* What an order of candidates owes to those that are open.                   *)
Offered(open, bound, order) ==
  /\ \A p \in open : \E i \in DOMAIN order : order[i] = p
  /\ \A i, j \in DOMAIN order : i < j /\ order[j] \in open => order[i] \in open /\ order[i] # order[j]
  /\ bound \in open => order # <<>> /\ order[1] = bound

(* An arrangement has everybody, once.                                        *)
LEMMA ArrangementHasAll ==
  ASSUME NEW S \in SUBSET Providers, NEW o \in Arrangements(S)
  PROVE  /\ o \in Seq(S) /\ \A i, j \in DOMAIN o : o[i] = o[j] => i = j
         /\ \A p \in S : \E i \in DOMAIN o : o[i] = p
<1> DEFINE N == Cardinality(S)
<1>1. IsFiniteSet(S) /\ N \in Nat
  BY ProviderAssumption, FS_Subset, FS_CardinalityType
<1>2. o \in [1..N -> S] /\ \A i, j \in 1..N : o[i] = o[j] => i = j
  BY DEF Arrangements
<1>3. IsFiniteSet(1..N) /\ Cardinality(1..N) = N
  <2> HIDE DEF N
  <2>1. Cardinality(1..N) = IF 1 > N THEN 0 ELSE N - 1 + 1
    BY <1>1, FS_Interval
  <2>2. QED
    BY <1>1, <2>1, FS_Interval
<1>4. o \in Injection(1..N, S)
  BY <1>2 DEF Injection, IsInjective
<1>5. o \in Surjection(1..N, S)
  BY <1>1, <1>3, <1>4, FS_Injection
<1>6. \A p \in S : \E i \in 1..N : o[i] = p
  BY <1>5 DEF Surjection
<1> HIDE DEF N
<1>7. QED
  BY <1>1, <1>2, <1>6, IsASeq

(* Who is blocked is put behind the open ones and disturbs nobody.            *)
LEMMA PutBehind ==
  ASSUME NEW open, NEW bound, NEW x \in Seq(Providers), NEW y \in Seq(Providers),
         Offered(open, bound, x), \A i \in DOMAIN y : y[i] \notin open
  PROVE  Offered(open, bound, x \o y)
<1> DEFINE z == x \o y
<1>1. Len(x) \in Nat /\ Len(y) \in Nat /\ Len(z) = Len(x) + Len(y)
  OBVIOUS
<1>2. /\ DOMAIN x = 1..Len(x) /\ DOMAIN y = 1..Len(y) /\ DOMAIN z = 1..(Len(x) + Len(y))
      /\ \A i \in DOMAIN z : z[i] = IF i <= Len(x) THEN x[i] ELSE y[i - Len(x)]
  OBVIOUS
<1> HIDE DEF z
<1>3. \A i \in DOMAIN x : i \in DOMAIN z /\ z[i] = x[i]
  BY <1>1, <1>2
<1>4. \A j \in DOMAIN z : z[j] \in open => j \in DOMAIN x /\ \A i \in DOMAIN z : i < j => i \in DOMAIN x
  BY <1>1, <1>2
<1>5. \A i, j \in DOMAIN z : i < j /\ z[j] \in open => z[i] \in open /\ z[i] # z[j]
  BY <1>3, <1>4 DEF Offered
<1>6. \A p \in open : \E i \in DOMAIN z : z[i] = p
  BY <1>3 DEF Offered
<1>7. bound \in open => z # <<>> /\ z[1] = bound
  <2> SUFFICES ASSUME bound \in open PROVE z # <<>> /\ z[1] = bound
    OBVIOUS
  <2>1. 1 \in DOMAIN x /\ x[1] = bound
    BY DEF Offered
  <2>2. 1 \in DOMAIN z /\ z[1] = bound
    BY <1>3, <2>1
  <2>3. QED
    BY <2>2
<1>8. QED
  BY <1>5, <1>6, <1>7 DEF Offered, z

(* The open ones, the bound one first.                                        *)
LEMMA OpenLead ==
  ASSUME NEW open \in SUBSET Providers, NEW bound, NEW a \in Arrangements(open \ {bound})
  PROVE  /\ (IF bound \in open THEN <<bound>> ELSE <<>>) \o a \in Seq(Providers)
         /\ Offered(open, bound, (IF bound \in open THEN <<bound>> ELSE <<>>) \o a)
<1>1. /\ a \in Seq(open \ {bound}) /\ \A i, j \in DOMAIN a : a[i] = a[j] => i = j
      /\ \A p \in open \ {bound} : \E i \in DOMAIN a : a[i] = p
  BY ArrangementHasAll
<1>2. a \in Seq(Providers) /\ Len(a) \in Nat /\ DOMAIN a = 1..Len(a) /\ \A i \in DOMAIN a : a[i] \in open \ {bound}
  BY <1>1
<1>3. CASE bound \notin open
  <2>1. <<>> \o a = a
    BY <1>2
  <2>2. Offered(open, bound, a)
    BY <1>1, <1>2, <1>3 DEF Offered
  <2>3. QED
    BY <1>2, <1>3, <2>1, <2>2
<1>4. CASE bound \in open
  <2> DEFINE z == <<bound>> \o a
  <2>1. bound \in Providers
    BY <1>4
  <2>2. /\ z \in Seq(Providers) /\ DOMAIN z = 1..(Len(a) + 1) /\ z[1] = bound
        /\ \A i \in DOMAIN a : z[i + 1] = a[i]
    BY <1>2, <2>1
  <2> HIDE DEF z
  <2>3. \A i \in DOMAIN z : i # 1 => i - 1 \in DOMAIN a /\ z[i] = a[i - 1]
    <3> SUFFICES ASSUME NEW i \in DOMAIN z, i # 1 PROVE i - 1 \in DOMAIN a /\ z[i] = a[i - 1]
      OBVIOUS
    <3>1. i - 1 \in DOMAIN a /\ (i - 1) + 1 = i
      BY <1>2, <2>2
    <3>2. QED
      BY <2>2, <3>1
  <2>4. \A i \in DOMAIN z : z[i] \in open
    BY <1>2, <1>4, <2>2, <2>3
  <2>5. \A i, j \in DOMAIN z : i < j => z[i] # z[j]
    <3> SUFFICES ASSUME NEW i \in DOMAIN z, NEW j \in DOMAIN z, i < j PROVE z[i] # z[j]
      OBVIOUS
    <3>1. j # 1 /\ i \in Int /\ j \in Int /\ i - 1 # j - 1
      BY <1>2, <2>2
    <3>2. j - 1 \in DOMAIN a /\ z[j] = a[j - 1]
      BY <2>3, <3>1
    <3>3. CASE i = 1
      BY <1>2, <2>2, <3>2, <3>3
    <3>4. CASE i # 1
      <4>1. i - 1 \in DOMAIN a /\ z[i] = a[i - 1]
        BY <2>3, <3>4
      <4>2. QED
        BY <1>1, <3>1, <3>2, <4>1
    <3>5. QED
      BY <3>3, <3>4
  <2>6. \A p \in open : \E i \in DOMAIN z : z[i] = p
    <3> SUFFICES ASSUME NEW p \in open PROVE \E i \in DOMAIN z : z[i] = p
      OBVIOUS
    <3>1. CASE p = bound
      BY <1>2, <2>2, <3>1
    <3>2. CASE p # bound
      <4>1. PICK i \in DOMAIN a : a[i] = p
        BY <1>1, <3>2
      <4>2. i + 1 \in DOMAIN z /\ z[i + 1] = p
        BY <1>2, <2>2, <4>1
      <4>3. QED
        BY <4>2
    <3>3. QED
      BY <3>1, <3>2
  <2>7. z # <<>>
    BY <1>2, <2>2
  <2>8. Offered(open, bound, z)
    BY <2>2, <2>4, <2>5, <2>6, <2>7 DEF Offered
  <2>9. QED
    BY <1>4, <2>2, <2>8 DEF z
<1>5. QED
  BY <1>3, <1>4

LEMMA OrdersOffer ==
  ASSUME NEW s \in Snapshots, NEW known, NEW bound, NEW order \in Orders(Policy[s], known, bound)
  PROVE  Offered({p \in Policy[s].providers : ~Blocked(known[p], Policy[s])}, bound, order)
<1> DEFINE policy == Policy[s]
           open   == {p \in policy.providers : ~Blocked(known[p], policy)}
           behind == {p \in policy.providers \ open : PassesThrough(known[p], policy)}
           First(S) == IF bound \in S THEN <<bound>> ELSE <<>>
<1>1. open \in SUBSET Providers /\ behind \in SUBSET Providers /\ behind \cap open = {}
  BY PolicyTypes
<1> DEFINE A == Arrangements(open \ {bound})
           B == Arrangements(behind \ {bound})
           Joined(a, b) == First(open) \o a \o First(behind) \o b
<1>0. Orders(policy, known, bound) = {Joined(a, b) : a \in A, b \in B}
  BY DEF Orders
<1> HIDE DEF open, behind, First, A, B, Joined
<1>2. PICK a \in A, b \in B : order = Joined(a, b)
  BY <1>0
<1> USE DEF A, B, First, Joined
<1> DEFINE x == First(open) \o a
<1>3. x \in Seq(Providers) /\ Offered(open, bound, x)
  BY <1>1, OpenLead
<1> HIDE DEF x
<1> DEFINE f == First(behind)
<1>4. f \in Seq(Providers) /\ \A i \in DOMAIN f : f[i] \notin open
  BY <1>1
<1> HIDE DEF f
<1>5. x \o f \in Seq(Providers) /\ Offered(open, bound, x \o f)
  BY <1>3, <1>4, PutBehind
<1>6. b \in Seq(Providers) /\ \A i \in DOMAIN b : b[i] \notin open
  <2>1. b \in Seq(behind \ {bound})
    BY <1>1, ArrangementHasAll
  <2>2. QED
    BY <1>1, <2>1
<1>7. Offered(open, bound, x \o f \o b)
  BY <1>5, <1>6, PutBehind
<1>8. order = x \o f \o b
  BY <1>2 DEF x, f
<1>9. QED
  BY <1>7, <1>8 DEF open

(* The property of one step.                                                  *)
OffersAll ==
  \A r \in Requests :
    (req[r].pc = "order" /\ req'[r].pc = "try" /\ events' = events) =>
      LET policy == Policy[req[r].snap]
          order  == req'[r].todo
          open   == {p \in policy.providers : ~Blocked(providers'[p], policy)} IN
      /\ open \subseteq {order[i] : i \in DOMAIN order}
      /\ \A i, j \in DOMAIN order : (i < j /\ order[j] \in open) => order[i] \in open \ {order[j]}
      /\ \A s \in Sessions :
           (req[r].session = s /\ sticky[s] # None /\ sticky[s].provider \in open)
             => order[1] = sticky[s].provider

(* Only the order itself takes a request from there without an event.         *)
LEMMA OnlyOrdersOffer ==
  ASSUME TypeOK, [Next]_vars, NEW r \in Requests,
         req[r].pc = "order", req'[r].pc = "try", events' = events
  PROVE  Order(r)
<1>1. req \in [Requests -> Request] /\ events \in Nat
  BY ProviderAssumption DEF TypeOK
<1>2. Next /\ events' # events + 1
  BY <1>1 DEF vars
<1>3. ASSUME NEW q \in Requests, Receive(q) \/ Step(q)
      PROVE  q = r
  BY <1>1, <1>3 DEF Receive, Step, Order, Pin, Call, Return, GiveUp, Remember, Goto
<1>4. ~Receive(r) /\ ~Pin(r) /\ ~Call(r) /\ ~Return(r) /\ ~GiveUp(r) /\ ~Remember(r)
  BY <1>2 DEF Receive, Pin, Call, Return, GiveUp, Remember
<1>5. QED
  BY <1>1, <1>2, <1>3, <1>4 DEF Next, Step, ApplySnapshot, StartLoop, Round, LoopEnds, ProbeReturns, Tick

LEMMA OfferStep == TypeOK /\ [Next]_vars => OffersAll
<1> SUFFICES ASSUME TypeOK, [Next]_vars, NEW r \in Requests,
                    req[r].pc = "order", req'[r].pc = "try", events' = events
             PROVE  LET policy == Policy[req[r].snap]
                        order  == req'[r].todo
                        open   == {p \in policy.providers : ~Blocked(providers'[p], policy)} IN
                    /\ open \subseteq {order[i] : i \in DOMAIN order}
                    /\ \A i, j \in DOMAIN order : (i < j /\ order[j] \in open) => order[i] \in open \ {order[j]}
                    /\ \A s \in Sessions :
                         (req[r].session = s /\ sticky[s] # None /\ sticky[s].provider \in open)
                           => order[1] = sticky[s].provider
  BY DEF OffersAll
<1> DEFINE policy == Policy[req[r].snap]
           open   == {p \in policy.providers : ~Blocked(providers'[p], policy)}
           bound  == IF req[r].session = None \/ sticky[req[r].session] = None THEN None
                     ELSE sticky[req[r].session].provider
<1>1. Order(r)
  BY OnlyOrdersOffer
<1>2. PICK order \in Orders(policy, providers', bound) :
        req' = [req EXCEPT ![r].pc = "try", ![r].todo = order]
  BY <1>1 DEF Order
<1>3. req[r].snap \in Snapshots /\ req[r] \in Request
  BY DEF TypeOK, Request
<1>4. Offered(open, bound, order)
  BY <1>2, <1>3, OrdersOffer
<1>5. req'[r].todo = order
  BY <1>2, <1>3 DEF TypeOK, Request
<1>6. \A s \in Sessions : req[r].session = s /\ sticky[s] # None => bound = sticky[s].provider
  BY ProviderAssumption
<1> HIDE DEF open, bound
<1>7. open \subseteq {order[i] : i \in DOMAIN order}
  BY <1>4 DEF Offered
<1>8. \A i, j \in DOMAIN order : (i < j /\ order[j] \in open) => order[i] \in open \ {order[j]}
  BY <1>4 DEF Offered
<1>9. \A s \in Sessions : (req[r].session = s /\ sticky[s] # None /\ sticky[s].provider \in open)
                            => order[1] = sticky[s].provider
  BY <1>4, <1>6 DEF Offered
<1>10. QED
  BY <1>5, <1>7, <1>8, <1>9 DEF open

(* However many providers there are, whatever was reported of them meanwhile  *)
(* and whichever order the rotation gives: those that are not blocked are all *)
(* offered, once, and before the rest, the bound one first.                   *)
THEOREM NoCandidateLost == Spec => CandidatesComplete
<1>1. TypeOK /\ [Next]_vars => OffersAll
  BY OfferStep
<1>2. QED
  BY <1>1, ProviderTypes, PTL DEF Spec, CandidatesComplete, OffersAll

LEMMA LeastNumber ==
  ASSUME NEW S, S \subseteq Nat, S # {}
  PROVE  \E n \in S : \A m \in S : n <= m
<1> DEFINE N == Nat
           R == OpToRel(<, Nat)
<1>0. \A m, n \in Nat : <<m, n>> \in R <=> m < n
  BY Zenon DEF OpToRel
<1>1. S \subseteq N /\ IsWellFoundedOn(R, N)
  BY NatLessThanWellFounded, Zenon
<1> HIDE DEF N, R
<1>2. \E n \in S : \A m \in S : ~ (<<m, n>> \in R)
  BY ONLY <1>1, S # {}, WFMin, SMT
<1>3. PICK n \in S : \A m \in S : ~ (<<m, n>> \in R)
  BY <1>2, Zenon
<1>4. n \in Nat
  BY Zenon
<1>5. ASSUME NEW m \in S
      PROVE  n <= m
  <2>1. m \in Nat /\ ~(m < n)
    BY <1>0, <1>3, <1>4, Zenon
  <2>2. QED
    BY ONLY <1>4, <2>1, SMT
<1>6. QED
  BY <1>5, Zenon

(* Induction up to a bound, for a set of numbers: the first one missing     *)
(* would have one before it that is not.                                    *)
LEMMA Induction ==
  ASSUME NEW N \in Nat, NEW T, 0 \in T, \A n \in 1..N : n - 1 \in T => n \in T
  PROVE  \A n \in 0..N : n \in T
<1> DEFINE S == {n \in 0..N : n \notin T}
<1>1. SUFFICES ASSUME S # {} PROVE FALSE
  OBVIOUS
<1>2. S \subseteq Nat
  OBVIOUS
<1> HIDE DEF S
<1>3. PICK n \in S : \A m \in S : n <= m
  BY <1>1, <1>2, LeastNumber
<1> USE DEF S
<1>4. n \in 1..N /\ n - 1 \in 0..N /\ ~(n <= n - 1)
  OBVIOUS
<1>5. n - 1 \notin S
  BY <1>3, <1>4
<1>6. QED
  BY <1>4, <1>5

(* A set of numbers with a bound has a largest one.                         *)
LEMMA LargestNumber ==
  ASSUME NEW S, S # {}, NEW N \in Nat, S \subseteq 0..N
  PROVE  \E n \in S : \A m \in S : n >= m
<1> DEFINE U == {u \in Nat : \A m \in S : m <= u}
<1>1. U \subseteq Nat /\ U # {}
  <2>1. N \in U
    OBVIOUS
  <2>2. QED
    BY <2>1
<1> HIDE DEF U
<1>2. PICK u \in U : \A v \in U : u <= v
  BY <1>1, LeastNumber
<1> USE DEF U
<1>3. u \in S
  <2>1. SUFFICES ASSUME u \notin S PROVE FALSE
    OBVIOUS
  <2>2. PICK m \in S : TRUE
    OBVIOUS
  <2>3. u \in Nat /\ u - 1 \in Nat /\ \A l \in S : l <= u - 1
    BY <2>1, <2>2
  <2>4. u - 1 \in U
    BY <2>3
  <2>5. QED
    BY <1>2, <2>3, <2>4
<1>4. QED
  BY <1>3

(* A recursion over 1..N with its values in S is one some function solves.  *)
Solvable(S, N, base, step) ==
  \E f \in [0..N -> S] : f[0] = base /\ \A n \in 1..N : f[n] = step[<<f[n - 1], n>>]

LEMMA Recursion ==
  ASSUME NEW S, NEW N \in Nat, NEW base \in S, NEW step \in [S \X (1..N) -> S]
  PROVE  Solvable(S, N, base, step)
<1> DEFINE Solves(f, m) == f[0] = base /\ \A n \in 1..m : f[n] = step[<<f[n - 1], n>>]
           T == {m \in 0..N : \E f \in [0..m -> S] : Solves(f, m)}
<1>1. 0 \in T
  <2> DEFINE f == [n \in 0..0 |-> base]
  <2>1. f \in [0..0 -> S] /\ Solves(f, 0)
    OBVIOUS
  <2> HIDE DEF f
  <2>2. QED
    BY <2>1
<1>2. ASSUME NEW n \in 1..N, n - 1 \in T
      PROVE  n \in T
  <2>1. PICK f \in [0..(n - 1) -> S] : Solves(f, n - 1)
    BY <1>2
  <2> DEFINE last == step[<<f[n - 1], n>>]
             g == [m \in 0..n |-> IF m = n THEN last ELSE f[m]]
  <2>2. last \in S
    <3>1. f[n - 1] \in S
      OBVIOUS
    <3>2. QED
      BY <3>1
  <2> HIDE DEF last
  <2>3. g \in [0..n -> S]
    BY <2>2
  <2>4. g[0] = base
    BY <2>1
  <2>5. ASSUME NEW m \in 1..n
        PROVE  g[m] = step[<<g[m - 1], m>>]
    <3>1. CASE m = n
      <4>1. g[m] = last /\ g[m - 1] = f[n - 1]
        BY <3>1
      <4>2. QED
        BY <3>1, <4>1 DEF last
    <3>2. CASE m # n
      <4>1. m \in 1..(n - 1) /\ g[m] = f[m] /\ g[m - 1] = f[m - 1]
        BY <3>2
      <4>2. QED
        BY <2>1, <4>1
    <3>3. QED
      BY <3>1, <3>2
  <2> HIDE DEF g
  <2>6. QED
    BY <2>3, <2>4, <2>5
<1> HIDE DEF T
<1>3. \A n \in 0..N : n \in T
  BY ONLY N \in Nat, <1>1, <1>2, Induction, Zenon
<1>4. N \in T
  BY <1>3
<1>5. QED
  BY <1>4 DEF T, Solvable

(***************************************************************************)
(* FlattenSeq, of the community modules, is the last value of a recursion. *)
(***************************************************************************)

LEMMA ConcatEmpty ==
  ASSUME NEW S, NEW a \in Seq(S)
  PROVE  <<>> \o a = a /\ a \o <<>> = a
OBVIOUS

LEMMA ConcatIs ==
  ASSUME NEW S, NEW a \in Seq(S), NEW b \in Seq(S)
  PROVE  a \o b = [i \in 1..Len(a) + Len(b) |-> IF i <= Len(a) THEN a[i] ELSE b[i - Len(a)]]
<1> DEFINE l == a \o b
           m == Len(a)
           n == Len(b)
           r == [i \in 1..m + n |-> IF i <= m THEN a[i] ELSE b[i - m]]
<1>1. m \in Nat /\ n \in Nat /\ l \in Seq(S) /\ Len(l) = m + n
  OBVIOUS
<1>2. ASSUME NEW i \in 1..m + n
      PROVE  l[i] = IF i <= m THEN a[i] ELSE b[i - m]
  <2>1. CASE i <= m
    BY <2>1
  <2>2. CASE ~(i <= m)
    BY <2>2
  <2>3. QED
    BY <2>1, <2>2
<1> HIDE DEF l, m, n
<1>3. l = [i \in 1..m + n |-> l[i]]
  <2>1. l \in [1..m + n -> S]
    BY <1>1
  <2>2. QED
    BY <2>1
<1>4. l = r
  BY <1>2, <1>3
<1>5. QED
  BY <1>4 DEF l, m, n

Associates(a, b, c) == (a \o b) \o c = a \o (b \o c)
LEMMA ConcatThree ==
  ASSUME NEW S, NEW a \in Seq(S), NEW b \in Seq(S), NEW c \in Seq(S)
  PROVE  Associates(a, b, c)
<1> DEFINE l == (a \o b) \o c
           r == a \o (b \o c)
<1>1. Len(l) = Len(a) + Len(b) + Len(c) /\ Len(r) = Len(a) + Len(b) + Len(c) /\ l \in Seq(S) /\ r \in Seq(S)
  OBVIOUS
<1>2. ASSUME NEW i \in 1..Len(a) + Len(b) + Len(c)
      PROVE  l[i] = r[i]
  <2>1. CASE i <= Len(a)
    BY <2>1
  <2>2. CASE i > Len(a) /\ i <= Len(a) + Len(b)
    BY <2>2
  <2>3. CASE i > Len(a) + Len(b)
    BY <2>3
  <2>4. QED
    BY <2>1, <2>2, <2>3
<1> HIDE DEF l, r
<1>3. l = r
  BY <1>1, <1>2
<1>4. QED
  BY <1>3 DEF l, r, Associates

FlatSteps(p, f, N) == \A n \in 1..N : f[n] = f[n - 1] \o p[n]
FlatRun(p, f) == f[0] = <<>> /\ FlatSteps(p, f, Len(p))

(* Two runs that make the same steps are the same.                          *)
LEMMA FlatRunsAgree ==
  ASSUME NEW N \in Nat, NEW f, NEW g, NEW p, f[0] = g[0], FlatSteps(p, f, N), FlatSteps(p, g, N)
  PROVE  f[N] = g[N]
<1> DEFINE T == {n \in 0..N : f[n] = g[n]}
<1>1. 0 \in T
  OBVIOUS
<1>2. ASSUME NEW n \in 1..N, n - 1 \in T
      PROVE  n \in T
  <2>1. f[n - 1] = g[n - 1] /\ n \in 0..N
    BY <1>2
  <2>2. f[n] = f[n - 1] \o p[n] /\ g[n] = g[n - 1] \o p[n]
    BY DEF FlatSteps
  <2>3. QED
    BY <2>1, <2>2
<1> HIDE DEF T
<1>3. \A n \in 0..N : n \in T
  BY ONLY N \in Nat, <1>1, <1>2, Induction, Zenon
<1>4. N \in T
  BY <1>3
<1>5. QED
  BY <1>4 DEF T

LEMMA FlattenRuns ==
  ASSUME NEW S, NEW p \in Seq(Seq(S))
  PROVE  \E f \in [0..Len(p) -> Seq(S)] : FlatRun(p, f) /\ FlattenSeq(p) = f[Len(p)]
<1> DEFINE N == Len(p)
           Q == Seq(S)
           step == [a \in Q \X (1..N) |-> a[1] \o p[a[2]]]
<1>1. N \in Nat /\ <<>> \in Q /\ \A n \in 1..N : p[n] \in Q
  OBVIOUS
<1>2. \A a, b \in Q : a \o b \in Q
  OBVIOUS
<1> HIDE DEF Q, N
<1>3. step \in [Q \X (1..N) -> Q] /\ \A a \in Q, n \in 1..N : step[<<a, n>>] = a \o p[n]
  BY <1>1, <1>2
<1> HIDE DEF step
<1>4. PICK f \in [0..N -> Q] : f[0] = <<>> /\ \A n \in 1..N : f[n] = step[<<f[n - 1], n>>]
  <2> DEFINE base == <<>>
  <2>1. base \in Q
    BY <1>1
  <2> HIDE DEF base
  <2>2. Solvable(Q, N, base, step)
    BY ONLY <1>1, <1>3, <2>1, Recursion
  <2>3. QED
    BY ONLY <2>2, Zenon DEF base, Solvable
<1>5. ASSUME NEW n \in 1..N
      PROVE  n - 1 \in 0..N /\ f[n - 1] \in Q /\ f[n] = f[n - 1] \o p[n] /\ p[n] \in Q
  <2>1. n - 1 \in 0..N
    BY <1>1
  <2>2. QED
    BY <1>1, <1>3, <1>4, <2>1
<1>6. FlatRun(p, f)
  BY <1>4, <1>5 DEF FlatRun, FlatSteps, N
<1>7. CASE N = 0
  <2>1. FlattenSeq(p) = <<>>
    BY <1>7 DEF FlattenSeq, N
  <2>2. QED
    BY <1>4, <1>6, <1>7, <2>1 DEF N, Q
<1>8. CASE N # 0
  <2> DEFINE Solves(h) == h = [i \in 1..N |-> IF i = 1 THEN p[i] ELSE h[i - 1] \o p[i]]
             flat == CHOOSE h : Solves(h)
             g == [i \in 1..N |-> f[i]]
  <2>1. FlattenSeq(p) = flat[N]
    BY <1>8 DEF FlattenSeq, N
  <2>2. Solves(g)
    <3>1. ASSUME NEW i \in 1..N
          PROVE  g[i] = IF i = 1 THEN p[i] ELSE g[i - 1] \o p[i]
      <4>1. CASE i = 1
        <5>0. 1 - 1 = 0 /\ 1 \in 1..N
          BY <4>1
        <5>1. f[1] = f[0] \o p[1] /\ f[0] = <<>> /\ p[1] \in Q
          BY <1>4, <1>5, <5>0
        <5>2. f[1] = p[1]
          BY <5>1, ConcatEmpty DEF Q
        <5>3. QED
          BY <4>1, <5>2
      <4>2. CASE i # 1
        <5>1. i - 1 \in 1..N
          BY <1>1, <4>2
        <5>2. QED
          BY <1>5, <4>2, <5>1
      <4>3. QED
        BY <4>1, <4>2
    <3>2. QED
      BY <3>1
  <2> HIDE DEF Solves, g
  <2>3. Solves(flat)
    BY <2>2
  <2> HIDE DEF flat
  <2> DEFINE h == [i \in 0..N |-> IF i = 0 THEN <<>> ELSE flat[i]]
  <2>4. h[0] = f[0]
    BY <1>1, <1>4
  <2>5. ASSUME NEW n \in 1..N
        PROVE  h[n] = h[n - 1] \o p[n] /\ f[n] = f[n - 1] \o p[n]
    <3>1. flat[n] = IF n = 1 THEN p[n] ELSE flat[n - 1] \o p[n]
      BY <2>3 DEF Solves
    <3>2. h[n] = flat[n]
      BY <1>1
    <3>3. CASE n = 1
      <4>1. h[n - 1] = <<>> /\ p[n] \in Seq(S)
        BY <1>5, <1>1, <3>3 DEF Q
      <4>2. <<>> \o p[n] = p[n]
        BY <4>1, ConcatEmpty
      <4>3. QED
        BY <1>5, <3>1, <3>2, <3>3, <4>1, <4>2
    <3>4. CASE n # 1
      <4>1. n - 1 \in 1..N /\ n - 1 # 0 /\ n - 1 \in 0..N
        BY <1>1, <3>4
      <4>2. h[n - 1] = flat[n - 1]
        BY <4>1
      <4>3. QED
        BY <1>5, <3>1, <3>2, <3>4, <4>2
    <3>5. QED
      BY <3>3, <3>4
  <2> HIDE DEF h
  <2>6. h[N] = f[N]
    <3>1. FlatSteps(p, h, N) /\ FlatSteps(p, f, N)
      BY <2>5 DEF FlatSteps
    <3>2. QED
      BY ONLY <1>1, <2>4, <3>1, FlatRunsAgree, Zenon
  <2>7. h[N] = flat[N]
    BY <1>1, <1>8 DEF h
  <2>8. QED
    BY <1>6, <2>1, <2>6, <2>7 DEF N, Q
<1>9. QED
  BY <1>7, <1>8

LEMMA FlattenType ==
  ASSUME NEW S, NEW p \in Seq(Seq(S))
  PROVE  FlattenSeq(p) \in Seq(S)
<1>1. PICK f \in [0..Len(p) -> Seq(S)] : FlattenSeq(p) = f[Len(p)]
  BY FlattenRuns, Zenon
<1>2. Len(p) \in 0..Len(p)
  OBVIOUS
<1>3. QED
  BY <1>1, <1>2

LEMMA FlattenConcat ==
  ASSUME NEW S, NEW p \in Seq(Seq(S)), NEW q \in Seq(Seq(S))
  PROVE  FlattenSeq(p \o q) = FlattenSeq(p) \o FlattenSeq(q)
<1> DEFINE N == Len(p)
           M == Len(q)
           r == p \o q
<1>1. /\ N \in Nat /\ M \in Nat /\ r \in Seq(Seq(S)) /\ Len(r) = N + M
      /\ \A n \in 1..N : r[n] = p[n]
      /\ \A n \in 1..M : r[N + n] = q[n] /\ q[n] \in Seq(S)
  OBVIOUS
<1>2. PICK f \in [0..N -> Seq(S)] : FlatRun(p, f) /\ FlattenSeq(p) = f[N]
  BY FlattenRuns, Zenon
<1>3. PICK g \in [0..M -> Seq(S)] : FlatRun(q, g) /\ FlattenSeq(q) = g[M]
  BY FlattenRuns, Zenon
<1>4. PICK h \in [0..Len(r) -> Seq(S)] : FlatRun(r, h) /\ FlattenSeq(r) = h[Len(r)]
  BY <1>1, FlattenRuns, Zenon
<1> HIDE DEF r
<1>5. h[N] = f[N]
  <2>1. h[0] = f[0]
    BY <1>2, <1>4 DEF FlatRun
  <2>2. ASSUME NEW n \in 1..N
        PROVE  h[n] = h[n - 1] \o p[n] /\ f[n] = f[n - 1] \o p[n]
    <3>1. n \in 1..Len(r)
      BY <1>1
    <3>2. QED
      BY <1>1, <1>2, <1>4, <3>1 DEF FlatRun, FlatSteps
  <2>3. N \in Nat /\ FlatSteps(p, h, N) /\ FlatSteps(p, f, N)
    BY <1>1, <2>2 DEF FlatSteps
  <2> HIDE DEF N
  <2>4. QED
    BY ONLY <2>1, <2>3, FlatRunsAgree, Zenon
<1> DEFINE T == {n \in 0..M : h[N + n] = h[N] \o g[n]}
<1>6. 0 \in T
  <2>1. g[0] = <<>> /\ h[N] \in Seq(S) /\ N + 0 = N
    BY <1>1, <1>3, <1>4 DEF FlatRun
  <2>2. h[N] \o g[0] = h[N]
    BY <2>1
  <2>3. QED
    BY <1>1, <2>1, <2>2
<1>7. ASSUME NEW n \in 1..M, n - 1 \in T
      PROVE  n \in T
  <2>1. N + n \in 1..Len(r) /\ (N + n) - 1 = N + (n - 1) /\ n - 1 \in 0..M /\ N \in 0..Len(r)
    BY <1>1
  <2>2. h[N + n] = h[N + (n - 1)] \o r[N + n]
    BY <1>4, <2>1 DEF FlatRun, FlatSteps
  <2>3. g[n] = g[n - 1] \o q[n]
    BY <1>3 DEF FlatRun, FlatSteps
  <2>4. h[N] \in Seq(S) /\ g[n - 1] \in Seq(S) /\ q[n] \in Seq(S)
    BY <1>1, <1>3, <1>4, <2>1
  <2>5. (h[N] \o g[n - 1]) \o q[n] = h[N] \o (g[n - 1] \o q[n])
    <3> DEFINE a == h[N]
               b == g[n - 1]
               c == q[n]
    <3>1. a \in Seq(S) /\ b \in Seq(S) /\ c \in Seq(S)
      BY <2>4
    <3> HIDE DEF a, b, c
    <3>2. Associates(a, b, c)
      BY ONLY <3>1, ConcatThree, Zenon
    <3>3. QED
      BY <3>2 DEF a, b, c, Associates
  <2>6. h[N + (n - 1)] = h[N] \o g[n - 1]
    BY <1>7
  <2>7. r[N + n] = q[n] /\ n \in 0..M
    <3> HIDE DEF N, M, r
    <3>1. r[N + n] = q[n]
      BY ONLY <1>1, n \in 1..M, Zenon
    <3>2. n \in 0..M
      BY ONLY <1>1, n \in 1..M, SMT
    <3>3. QED
      BY <3>1, <3>2
  <2>8. QED
    BY <2>2, <2>3, <2>5, <2>6, <2>7
<1> HIDE DEF T
<1>8. \A n \in 0..M : n \in T
  BY ONLY <1>1, <1>6, <1>7, Induction, Zenon
<1>9. M \in T
  BY <1>1, <1>8
<1>10. QED
  BY <1>1, <1>2, <1>3, <1>4, <1>5, <1>9 DEF T, r

(* Of parts of which one at most is not empty, that one is left.            *)
LEMMA FlattenOne ==
  ASSUME NEW S, NEW p \in Seq(Seq(S)), NEW k \in 1..Len(p), \A n \in 1..Len(p) : n # k => p[n] = <<>>
  PROVE  FlattenSeq(p) = p[k]
<1> DEFINE N == Len(p)
<1>1. N \in Nat /\ p[k] \in Seq(S)
  OBVIOUS
<1>2. PICK f \in [0..N -> Seq(S)] : FlatRun(p, f) /\ FlattenSeq(p) = f[N]
  BY FlattenRuns, Zenon
<1> HIDE DEF N
<1> DEFINE T == {n \in 0..N : f[n] = IF n < k THEN <<>> ELSE p[k]}
<1>3. 0 \in T
  BY <1>1, <1>2 DEF FlatRun, N
<1>4. ASSUME NEW n \in 1..N, n - 1 \in T
      PROVE  n \in T
  <2>1. f[n] = f[n - 1] \o p[n] /\ n - 1 \in 0..N /\ n \in 0..N
    <3>1. n - 1 \in 0..N /\ n \in 0..N
      BY <1>1
    <3>2. QED
      BY <1>2, <3>1 DEF FlatRun, FlatSteps, N
  <2>2. f[n - 1] = IF n - 1 < k THEN <<>> ELSE p[k]
    BY <1>4
  <2>3. CASE n < k
    <3>1. p[n] = <<>> /\ n - 1 < k
      BY <2>3 DEF N
    <3>2. f[n] = <<>> \o <<>>
      BY <2>1, <2>2, <3>1
    <3>3. QED
      BY <2>1, <2>3, <3>2
  <2>4. CASE n = k
    <3>1. n - 1 < k /\ ~(n < k)
      BY <2>4
    <3>2. f[n] = <<>> \o p[k]
      BY <2>1, <2>2, <2>4, <3>1
    <3>3. QED
      BY <1>1, <2>1, <3>1, <3>2
  <2>5. CASE n > k
    <3>1. p[n] = <<>> /\ ~(n - 1 < k) /\ ~(n < k)
      BY <2>5 DEF N
    <3>2. f[n] = p[k] \o <<>>
      BY <2>1, <2>2, <3>1
    <3>3. QED
      BY <1>1, <2>1, <3>1, <3>2
  <2>6. QED
    BY <2>3, <2>4, <2>5 DEF N
<1> HIDE DEF T
<1>5. \A n \in 0..N : n \in T
  BY ONLY <1>1, <1>3, <1>4, Induction, Zenon
<1>6. N \in T
  BY <1>1, <1>5
<1>7. ~(N < k)
  BY <1>1 DEF N
<1>8. QED
  BY <1>2, <1>6, <1>7 DEF T

LEMMA FlattenNone ==
  ASSUME NEW S, NEW p \in Seq(Seq(S)), \A n \in 1..Len(p) : p[n] = <<>>
  PROVE  FlattenSeq(p) = <<>>
<1>1. CASE Len(p) = 0
  BY <1>1 DEF FlattenSeq
<1>2. CASE Len(p) # 0
  <2>1. 1 \in 1..Len(p)
    BY <1>2
  <2>2. QED
    BY <2>1, FlattenOne
<1>3. QED
  BY <1>1, <1>2

(***************************************************************************)
(* The rules of the configuration.                                         *)
(***************************************************************************)

(* One leaf per record: what normalisation makes of a typed one is typed.   *)
LEMMA PricingNormalised ==
  ASSUME NEW p \in PricingType
  PROVE  /\ normalizePricing(p) \in PricingType
         /\ normalizePricing(p).minutes = Minutes(p) /\ Minutes(p) \in Int /\ Minutes(p) > 0
         /\ normalizePricing(p).hours = (Minutes(p) + 59) \div 60
         /\ normalizePricing(p).sourcesSet = p.sourcesSet
         /\ normalizePricing(p).sources = IF p.sources = {} /\ ~p.sourcesSet THEN DefaultSources ELSE p.sources
<1>1. Minutes(p) \in Int /\ Minutes(p) > 0
  BY DEF Minutes, OrPositive, PricingType
<1> DEFINE m == Minutes(p)
<1> HIDE DEF m
<1>2. m \in Int /\ (m + 59) \div 60 \in Int
  BY <1>1 DEF m
<1>3. DefaultSources \in SUBSET Words
  <2>1. "openai" \in Words /\ "anthropic" \in Words
    BY WordsAssumption
  <2>2. QED
    BY <2>1 DEF DefaultSources
<1>4. normalizePricing(p) =
        [p EXCEPT !.minutes = m, !.hours = (m + 59) \div 60,
                  !.sources = IF p.sources = {} /\ ~p.sourcesSet THEN DefaultSources ELSE p.sources]
  BY DEF normalizePricing, m, PricingType
<1>5. QED
  BY <1>1, <1>2, <1>3, <1>4 DEF PricingType, m

LEMMA PricingOnce ==
  ASSUME NEW p \in PricingType
  PROVE  normalizePricing(normalizePricing(p)) = normalizePricing(p)
<1> DEFINE q == normalizePricing(p)
           r == normalizePricing(q)
<1>1. q \in PricingType /\ r \in PricingType
  BY PricingNormalised
<1>2. q.minutes > 0 /\ q.minutes = Minutes(p) /\ q.hours = (Minutes(p) + 59) \div 60
  BY PricingNormalised
<1>3. r.minutes = Minutes(q) /\ r.hours = (Minutes(q) + 59) \div 60 /\ r.sourcesSet = q.sourcesSet
      /\ r.sources = IF q.sources = {} /\ ~q.sourcesSet THEN DefaultSources ELSE q.sources
  BY <1>1, PricingNormalised
<1>4. ~(q.sources = {} /\ ~q.sourcesSet)
  BY PricingNormalised DEF DefaultSources
<1> HIDE DEF q, r
<1>5. Minutes(q) = q.minutes
  BY <1>1, <1>2 DEF Minutes, OrPositive, PricingType
<1>6. r.minutes = q.minutes /\ r.hours = q.hours /\ r.sources = q.sources /\ r.sourcesSet = q.sourcesSet
  BY <1>2, <1>3, <1>4, <1>5
<1>7. r = q
  BY <1>1, <1>6 DEF PricingType
<1>8. QED
  BY <1>7 DEF q, r

LEMMA RoutingNormalised ==
  ASSUME NEW r \in RoutingType
  PROVE  /\ normalizeRouting(r) \in RoutingType
         /\ normalizeRouting(normalizeRouting(r)) = normalizeRouting(r)
<1> DEFINE s == IF r.statusMin = Unset THEN 500 ELSE r.statusMin
           n == IF r.retries = 0 THEN 2 ELSE r.retries
<1>1. normalizeRouting(r) = [r EXCEPT !.retries = n, !.statusMin = s]
  BY DEF normalizeRouting, Or, RoutingType
<1>2. n \in Int /\ n # 0 /\ s \in Int /\ s # Unset
  BY DEF RoutingType, Unset
<1> HIDE DEF n, s
<1>3. normalizeRouting(r) \in RoutingType
  BY <1>1, <1>2 DEF RoutingType
<1> DEFINE q == normalizeRouting(r)
<1>4. q.retries = n /\ q.statusMin = s /\ q \in RoutingType
  BY <1>1, <1>3 DEF RoutingType
<1> HIDE DEF q
<1>5. normalizeRouting(q) = [q EXCEPT !.retries = q.retries, !.statusMin = q.statusMin]
  BY <1>2, <1>4 DEF normalizeRouting, Or
<1>6. normalizeRouting(q) = q
  BY <1>4, <1>5 DEF RoutingType
<1>7. QED
  BY <1>3, <1>6 DEF q

LEMMA BenchmarkingNormalised ==
  ASSUME NEW b \in BenchmarkingType
  PROVE  /\ normalizeBenchmarking(b) \in BenchmarkingType
         /\ normalizeBenchmarking(normalizeBenchmarking(b)) = normalizeBenchmarking(b)
<1> DEFINE n == OrPositive(b.normal, 8)
           s == OrPositive(b.suspect, 20)
           f == OrPositive(b.failures, 2)
<1>1. normalizeBenchmarking(b) = [b EXCEPT !.normal = n, !.suspect = s, !.failures = f]
  BY DEF normalizeBenchmarking, BenchmarkingType
<1>2. n \in Int /\ n > 0 /\ s \in Int /\ s > 0 /\ f \in Int /\ f > 0
  BY DEF OrPositive, BenchmarkingType
<1> HIDE DEF n, s, f
<1>3. QED
  BY <1>1, <1>2 DEF normalizeBenchmarking, OrPositive, BenchmarkingType

LEMMA ProviderNormalised ==
  ASSUME NEW p \in ProviderType
  PROVE  /\ normalizeProvider(p) \in ProviderType
         /\ normalizeProvider(normalizeProvider(p)) = normalizeProvider(p)
         /\ normalizeProvider(p).weight # 0
<1> DEFINE a == NormalizeProtocolAdapter(p.adapter, p.url)
           w == IF p.weight = 0 THEN 1 ELSE p.weight
<1>1. normalizeProvider(p) = [p EXCEPT !.adapter = a, !.weight = w]
  BY DEF normalizeProvider, ProviderType
<1>2. a \in Words /\ a # "" /\ w \in Int /\ w # 0
  <2>1. "openai_chat_completions" \in Words /\ "anthropic_messages" \in Words
    BY WordsAssumption
  <2>2. p.adapter \in Words /\ p.weight \in Int
    BY DEF ProviderType
  <2>3. a \in Words /\ a # ""
    <3>1. CASE p.adapter # ""
      BY <2>2, <3>1 DEF NormalizeProtocolAdapter
    <3>2. CASE p.adapter = "" /\ p.url # ""
      BY <2>1, <3>2 DEF NormalizeProtocolAdapter
    <3>3. CASE p.adapter = "" /\ p.url = ""
      BY <2>1, <3>3 DEF NormalizeProtocolAdapter
    <3>4. QED
      BY <3>1, <3>2, <3>3
  <2>4. w \in Int /\ w # 0
    BY <2>2
  <2>5. QED
    BY <2>3, <2>4
<1> HIDE DEF a, w
<1>3. [p EXCEPT !.adapter = a, !.weight = w] \in ProviderType
  BY <1>2 DEF ProviderType
<1>4. QED
  BY <1>1, <1>2, <1>3 DEF normalizeProvider, NormalizeProtocolAdapter, ProviderType

(* A configuration is normalised part by part.                              *)
LEMMA NormalizeIs ==
  ASSUME NEW c \in Configs
  PROVE  /\ Normalize(c) \in Configs
         /\ Normalize(c).providers = [i \in DOMAIN c.providers |-> normalizeProvider(c.providers[i])]
         /\ Normalize(c).routing = normalizeRouting(c.routing)
         /\ Normalize(c).pricing = normalizePricing(c.pricing)
         /\ Normalize(c).benchmarking = normalizeBenchmarking(c.benchmarking)
         /\ Normalize(c).role = c.role
<1> DEFINE ps == [i \in DOMAIN c.providers |-> normalizeProvider(c.providers[i])]
           ro == normalizeRouting(c.routing)
           pr == normalizePricing(c.pricing)
           be == normalizeBenchmarking(c.benchmarking)
<1>0. c.providers \in Seq(ProviderType) /\ c.role \in Words /\ c.routing \in RoutingType
      /\ c.pricing \in PricingType /\ c.benchmarking \in BenchmarkingType
  BY DEF Configs
<1>1. ps \in Seq(ProviderType)
  <2>1. \A i \in DOMAIN c.providers : normalizeProvider(c.providers[i]) \in ProviderType
    BY <1>0, ProviderNormalised
  <2>2. QED
    BY <1>0, <2>1
<1>2. ro \in RoutingType /\ pr \in PricingType /\ be \in BenchmarkingType
  BY <1>0, RoutingNormalised, PricingNormalised, BenchmarkingNormalised
<1>3. Normalize(c) = [c EXCEPT !.providers = ps, !.routing = ro, !.pricing = pr, !.benchmarking = be]
  BY DEF Normalize, Configs
<1> HIDE DEF ps, ro, pr, be
<1>4. /\ Normalize(c) \in Configs /\ Normalize(c).providers = ps /\ Normalize(c).routing = ro
      /\ Normalize(c).pricing = pr /\ Normalize(c).benchmarking = be /\ Normalize(c).role = c.role
  BY <1>0, <1>1, <1>2, <1>3 DEF Configs
<1>5. QED
  BY <1>4 DEF ps, ro, pr, be

LEMMA SameConfig ==
  ASSUME NEW c \in Configs, NEW d \in Configs, c.providers = d.providers, c.routing = d.routing,
         c.pricing = d.pricing, c.benchmarking = d.benchmarking, c.role = d.role
  PROVE  c = d
BY DEF Configs

LEMMA NormalizeOnce ==
  ASSUME NEW c \in Configs
  PROVE  Normalize(Normalize(c)) = Normalize(c)
<1> DEFINE d == Normalize(c)
           e == Normalize(d)
<1>1. d \in Configs /\ e \in Configs
  BY NormalizeIs
<1>2. c.providers \in Seq(ProviderType) /\ c.routing \in RoutingType /\ c.pricing \in PricingType
      /\ c.benchmarking \in BenchmarkingType
  BY DEF Configs
<1>3. d.routing = normalizeRouting(c.routing) /\ d.pricing = normalizePricing(c.pricing)
      /\ d.benchmarking = normalizeBenchmarking(c.benchmarking) /\ d.role = c.role
      /\ d.providers = [i \in DOMAIN c.providers |-> normalizeProvider(c.providers[i])]
  BY NormalizeIs
<1> HIDE DEF d
<1>4. e.routing = normalizeRouting(d.routing) /\ e.pricing = normalizePricing(d.pricing)
      /\ e.benchmarking = normalizeBenchmarking(d.benchmarking) /\ e.role = d.role
      /\ e.providers = [i \in DOMAIN d.providers |-> normalizeProvider(d.providers[i])]
  BY <1>1, NormalizeIs
<1> HIDE DEF e
<1>5. e.routing = d.routing
  BY <1>2, <1>3, <1>4, RoutingNormalised
<1>6. e.pricing = d.pricing
  BY <1>2, <1>3, <1>4, PricingOnce
<1>7. e.benchmarking = d.benchmarking
  BY <1>2, <1>3, <1>4, BenchmarkingNormalised
<1>8. e.providers = d.providers
  <2>1. \A i \in DOMAIN c.providers :
          normalizeProvider(normalizeProvider(c.providers[i])) = normalizeProvider(c.providers[i])
    BY <1>2, ProviderNormalised
  <2>2. QED
    BY <1>3, <1>4, <2>1
<1>9. e = d
  BY <1>1, <1>3, <1>4, <1>5, <1>6, <1>7, <1>8, SameConfig
<1>10. QED
  BY <1>9 DEF d, e


(* Of equal names the first is in the table, and no other.                  *)
FirstOnes(models) ==
  {i \in DOMAIN models : models[i] # Spaces /\ \A j \in 1..i - 1 : models[j] # models[i]}
Renamed(models, aliases, i) ==
  IF models[i] \in DOMAIN aliases /\ aliases[models[i]] # Spaces THEN aliases[models[i]] ELSE models[i]

LEMMA TableIs ==
  ASSUME NEW models, NEW aliases
  PROVE  compileModelTable(models, aliases) =
           {[public |-> models[i], upstream |-> Renamed(models, aliases, i)] : i \in FirstOnes(models)}
BY Zenon DEF compileModelTable, FirstOnes, Renamed

LEMMA FirstExists ==
  ASSUME NEW models \in Seq(Words), NEW w \in ToSet(models) \ {Spaces}
  PROVE  \E i \in FirstOnes(models) : models[i] = w
<1> DEFINE S == {i \in DOMAIN models : models[i] = w}
<1>1. S \subseteq Nat /\ S # {}
  BY DEF ToSet
<1>2. PICK n \in S : \A m \in S : n <= m
  BY ONLY <1>1, LeastNumber, Zenon
<1>3. n \in DOMAIN models /\ models[n] = w /\ n \in 1..Len(models)
  BY <1>2
<1>4. ASSUME NEW j \in 1..n - 1
      PROVE  models[j] # w
  <2>1. j \in DOMAIN models /\ ~(n <= j)
    BY <1>3
  <2>2. QED
    BY <1>2, <2>1
<1>5. n \in FirstOnes(models)
  BY <1>3, <1>4 DEF FirstOnes
<1>6. QED
  BY <1>3, <1>5

LEMMA ModelTable ==
  ASSUME NEW models \in Seq(Words), NEW aliases
  PROVE  /\ \A m, n \in compileModelTable(models, aliases) : m.public = n.public => m = n
         /\ {m.public : m \in compileModelTable(models, aliases)} = ToSet(models) \ {Spaces}
         /\ compileModelTable(models, aliases) = {} => ToSet(models) \ {Spaces} = {}
<1> DEFINE T == compileModelTable(models, aliases)
           F == FirstOnes(models)
           Row(i) == [public |-> models[i], upstream |-> Renamed(models, aliases, i)]
<1>1. T = {Row(i) : i \in F}
  BY TableIs
<1>2. ASSUME NEW m \in T, NEW n \in T, m.public = n.public
      PROVE  m = n
  <2>1. PICK i \in F, j \in F : m = Row(i) /\ n = Row(j)
    BY <1>1
  <2>2. models[i] = models[j]
    BY <1>2, <2>1
  <2>3. i \in 1..Len(models) /\ j \in 1..Len(models)
        /\ (\A k \in 1..i - 1 : models[k] # models[i]) /\ (\A k \in 1..j - 1 : models[k] # models[j])
    BY DEF FirstOnes
  <2>4. ~(i < j) /\ ~(j < i)
    BY <2>2, <2>3
  <2>5. i = j
    BY <2>3, <2>4
  <2>6. QED
    BY <2>1, <2>5
<1>3. ASSUME NEW m \in T
      PROVE  m.public \in ToSet(models) \ {Spaces}
  <2>1. PICK i \in F : m = Row(i)
    BY <1>1
  <2>2. QED
    BY <2>1 DEF FirstOnes, ToSet
<1>4. ASSUME NEW w \in ToSet(models) \ {Spaces}
      PROVE  \E m \in T : m.public = w
  <2>1. PICK i \in F : models[i] = w
    BY FirstExists
  <2>2. Row(i) \in T /\ Row(i).public = w
    BY <1>1, <2>1
  <2>3. QED
    BY <2>2
<1> HIDE DEF T
<1>5. {m.public : m \in T} = ToSet(models) \ {Spaces}
  BY <1>3, <1>4
<1>6. T = {} => ToSet(models) \ {Spaces} = {}
  BY <1>4
<1>7. QED
  BY <1>2, <1>5, <1>6 DEF T

(* The providers that are enabled, in their order.                          *)
LEMMA EnabledOnes ==
  ASSUME NEW c \in Configs
  PROVE  EnabledProviders(c) \in Seq({p \in ToSet(c.providers) : Enabled(p)})
<1> DEFINE S == {p \in ToSet(c.providers) : Enabled(p)}
           Piece(i) == IF Enabled(c.providers[i]) THEN <<c.providers[i]>> ELSE <<>>
           parts == [i \in DOMAIN c.providers |-> Piece(i)]
<1>1. c.providers \in Seq(ProviderType)
  BY DEF Configs
<1>2. ASSUME NEW i \in DOMAIN c.providers
      PROVE  Piece(i) \in Seq(S)
  <2>1. CASE Enabled(c.providers[i])
    <3>1. c.providers[i] \in S
      BY <2>1 DEF ToSet
    <3>2. QED
      BY <2>1, <3>1
  <2>2. CASE ~Enabled(c.providers[i])
    BY <2>2
  <2>3. QED
    BY <2>1, <2>2
<1> HIDE DEF Piece, S
<1>3. parts \in Seq(Seq(S))
  <2> DEFINE Q == Seq(S)
  <2>1. \A i \in DOMAIN c.providers : Piece(i) \in Q
    BY <1>2
  <2> HIDE DEF Q
  <2>2. parts \in Seq(Q)
    BY <1>1, <2>1
  <2>3. QED
    BY <2>2 DEF Q
<1> HIDE DEF parts
<1>4. FlattenSeq(parts) \in Seq(S)
  BY <1>3, FlattenType
<1>5. QED
  BY <1>4 DEF parts, Piece, S, EnabledProviders

(* What compiles, and to what.                                              *)
Served(c) == EnabledProviders(Normalize(c))
Compiles(c) == Served(c) # <<>> /\ \A i \in DOMAIN Served(c) : Compilable(Served(c)[i])
Compiled(c) ==
  [providers |-> [i \in DOMAIN Served(c) |-> compileProvider(Served(c)[i])],
   routing |-> [retries |-> Normalize(c).routing.retries, statusMin |-> Normalize(c).routing.statusMin,
                recovery |-> resolveQuotaRecoveryIntervalMin(Normalize(c).routing)],
   pricing |-> [minutes |-> Normalize(c).pricing.minutes, sources |-> Normalize(c).pricing.sources],
   role |-> compileRole(Normalize(c).role)]

LEMMA CompilationIs ==
  ASSUME NEW c
  PROVE  CompileFromConfig(c) = IF Compiles(c) THEN Compiled(c) ELSE NoSnapshot
BY Zenon DEF CompileFromConfig, Compiles, Compiled, Served

LEMMA CompiledOrNot ==
  ASSUME NEW c \in Configs
  PROVE  Compiles(c) <=> CompileFromConfig(c) # NoSnapshot
<1>1. Served(c) \in Seq({p \in ToSet(Normalize(c).providers) : Enabled(p)})
  BY NormalizeIs, EnabledOnes DEF Served
<1>2. ASSUME Compiles(c)
      PROVE  Compiled(c) # NoSnapshot
  <2>1. 1 \in DOMAIN Served(c)
    BY <1>1, <1>2 DEF Compiles
  <2>2. 1 \in DOMAIN Compiled(c).providers
    BY <2>1 DEF Compiled
  <2>3. 1 \notin DOMAIN NoSnapshot.providers
    BY DEF NoSnapshot
  <2>4. QED
    BY <2>2, <2>3
<1>3. QED
  BY <1>2, CompilationIs


(* A provider that is served is one of the configuration's.                 *)
LEMMA EnabledAt ==
  ASSUME NEW c \in Configs, NEW i \in DOMAIN EnabledProviders(c)
  PROVE  \E k \in DOMAIN c.providers : EnabledProviders(c)[i] = c.providers[k] /\ c.providers[k] \in ProviderType
<1> DEFINE S == {p \in ToSet(c.providers) : Enabled(p)}
           e == EnabledProviders(c)
<1>1. e \in Seq(S)
  BY EnabledOnes
<1> HIDE DEF e
<1>2. i \in DOMAIN e
  BY DEF e
<1>3. e[i] \in S
  BY <1>1, <1>2
<1>4. PICK k \in DOMAIN c.providers : e[i] = c.providers[k]
  BY <1>3 DEF ToSet
<1>5. c.providers \in Seq(ProviderType)
  BY DEF Configs
<1>6. QED
  BY <1>4, <1>5 DEF e

LEMMA AdapterKept ==
  ASSUME NEW p \in ProviderType, normalizeProvider(p) = p
  PROVE  NormalizeProtocolAdapter(p.adapter, p.url) = p.adapter /\ p.weight # 0 /\ p.adapter # ""
<1>1. p.adapter = NormalizeProtocolAdapter(p.adapter, p.url)
  <2> DEFINE a == NormalizeProtocolAdapter(p.adapter, p.url)
             w == IF p.weight = 0 THEN 1 ELSE p.weight
  <2>1. p = [p EXCEPT !.adapter = a, !.weight = w]
    BY DEF normalizeProvider, ProviderType
  <2> HIDE DEF a, w
  <2>2. p.adapter = a
    BY <2>1 DEF ProviderType
  <2>3. QED
    BY <2>2 DEF a
<1>2. p.weight # 0
  BY ProviderNormalised
<1>3. p.adapter # ""
  BY <1>1 DEF NormalizeProtocolAdapter
<1>4. QED
  BY <1>1, <1>2, <1>3

LEMMA CompiledProvider ==
  ASSUME NEW p \in ProviderType, normalizeProvider(p) = p,
         NormalizeProtocolAdapter(p.adapter, p.url) \in {"openai_chat_completions", "anthropic_messages"}
  PROVE  /\ compileProvider(p).models = compileModelTable(p.models, p.aliases)
         /\ compileProvider(p).adapter \in {"openai_chat_completions", "anthropic_messages"}
         /\ (compileProvider(p).accounting = "anthropic_usage") = (compileProvider(p).adapter = "anthropic_messages")
         /\ KeyWhereExpected(compileProvider(p), p)
         /\ compileProvider(p).weight # 0
         /\ compileProvider(p).base = p.base
<1> DEFINE q == compileProvider(p)
<1>1. NormalizeProtocolAdapter(p.adapter, p.url) = p.adapter /\ p.weight # 0
  BY AdapterKept
<1>2. /\ q.models = compileModelTable(p.models, p.aliases)
      /\ q.adapter = p.adapter
      /\ q.credential = IF p.url # "" \/ p.adapter = "anthropic_messages" THEN "api_key" ELSE "bearer"
      /\ q.accounting = IF p.adapter = "anthropic_messages" THEN "anthropic_usage" ELSE "openai_usage"
      /\ q.weight = p.weight /\ q.base = p.base
  BY <1>1 DEF compileProvider, compileCredentials
<1> HIDE DEF q
<1>3. p.adapter \in {"openai_chat_completions", "anthropic_messages"}
  BY <1>1
<1>4. (q.accounting = "anthropic_usage") = (q.adapter = "anthropic_messages")
  BY <1>2
<1>5. KeyWhereExpected(q, p)
  <2>1. CASE p.adapter = "anthropic_messages"
    BY <1>2, <2>1 DEF KeyWhereExpected
  <2>2. CASE p.adapter = "openai_chat_completions" /\ p.url # ""
    BY <2>2 DEF KeyWhereExpected
  <2>3. CASE p.adapter = "openai_chat_completions" /\ p.url = ""
    BY <1>2, <2>3 DEF KeyWhereExpected
  <2>4. QED
    BY <1>3, <2>1, <2>2, <2>3
<1>6. QED
  BY <1>1, <1>2, <1>3, <1>4, <1>5 DEF q

LEMMA HasBase ==
  ASSUME NEW c \in Configs, Normalize(c) = c, Validate(c), Compiles(c), NEW i \in DOMAIN EnabledProviders(c)
  PROVE  EnabledProviders(c)[i].base \notin {"", Spaces}
<1> DEFINE p == EnabledProviders(c)[i]
<1>1. Compilable(p)
  BY DEF Compiles, Served
<1>2. PICK k \in DOMAIN c.providers : p = c.providers[k]
  BY EnabledAt
<1>3. c.providers[k].base # ""
  BY DEF Validate
<1> HIDE DEF p
<1>4. p.base # Spaces /\ p.base # ""
  BY <1>1, <1>2, <1>3 DEF Compilable
<1>5. QED
  BY <1>4 DEF p

(* Restored tells a restart only whether there are sources.                 *)
LEMMA RestoredIs ==
  ASSUME NEW c \in Configs
  PROVE  /\ Restored(c) \in Configs
         /\ Restored(c).providers = c.providers /\ Restored(c).routing = c.routing
         /\ Restored(c).benchmarking = c.benchmarking /\ Restored(c).role = c.role
         /\ Restored(c).pricing = [c.pricing EXCEPT !.sourcesSet = c.pricing.sources # {}]
         /\ Restored(c).pricing \in PricingType
<1> DEFINE b == c.pricing.sources # {}
           q == [c.pricing EXCEPT !.sourcesSet = b]
<1>1. b \in BOOLEAN /\ c.pricing \in PricingType
  BY DEF Configs
<1> HIDE DEF b
<1>2. q \in PricingType
  BY <1>1 DEF PricingType
<1>3. Restored(c) = [c EXCEPT !.pricing = q]
  BY DEF Restored, q, b, Configs
<1> HIDE DEF q
<1>4. QED
  BY <1>2, <1>3 DEF Configs, q, b

(* The invariant: what was loaded is normalised and valid, and what was     *)
(* compiled or not compiles or does not.                                    *)
RulesInv ==
  /\ config \in Configs
  /\ stage \in {"written", "loaded", "refused", "compiled", "failed", "restarted"}
  /\ stage \in {"loaded", "refused", "compiled", "failed"} => Normalize(config) = config
  /\ stage \in {"loaded", "compiled", "failed"} => Validate(config)
  /\ stage = "compiled" => Compiles(config)
  /\ stage = "failed" => ~Compiles(config)

LEMMA RulesInvKept == RulesInv /\ [ConfigNext]_configVars => RulesInv'
<1> SUFFICES ASSUME RulesInv, [ConfigNext]_configVars
             PROVE  RulesInv'
  OBVIOUS
<1>1. CASE Load
  <2>1. config \in Configs /\ config' = Normalize(config) /\ config' \in Configs
    BY <1>1, NormalizeIs DEF RulesInv, Load
  <2>2. Normalize(config') = config'
    BY <2>1, NormalizeOnce
  <2>3. (stage' = "loaded" /\ Validate(config')) \/ stage' = "refused"
    BY <1>1, <2>1 DEF Load
  <2>4. QED
    BY <2>1, <2>2, <2>3 DEF RulesInv
<1>2. CASE CompileRevision
  <2>1. config' = config /\ config \in Configs /\ Normalize(config) = config /\ Validate(config)
    BY <1>2 DEF RulesInv, CompileRevision
  <2>2. (stage' = "compiled" /\ Compiles(config)) \/ (stage' = "failed" /\ ~Compiles(config))
    BY <1>2, <2>1, CompiledOrNot DEF CompileRevision
  <2>3. QED
    BY <2>1, <2>2 DEF RulesInv
<1>3. CASE Restart
  <2>1. config' \in Configs /\ stage' = "restarted"
    BY <1>3, RestoredIs DEF RulesInv, Restart
  <2>2. QED
    BY <2>1 DEF RulesInv
<1>4. CASE UNCHANGED configVars
  BY <1>4 DEF RulesInv, configVars
<1>5. QED
  BY <1>1, <1>2, <1>3, <1>4 DEF ConfigNext


LEMMA RefusedForAReason ==
  ASSUME NEW c \in Configs, Normalize(c) = c, ~Compiles(c)
  PROVE  \/ EnabledProviders(c) = <<>>
         \/ \E p \in ToSet(EnabledProviders(c)) :
              \/ p.name = Spaces \/ p.base = Spaces \/ p.url = "relative"
              \/ ToSet(p.models) \ {Spaces} = {}
<1> DEFINE e == EnabledProviders(c)
<1>1. e = <<>> \/ \E i \in DOMAIN e : ~Compilable(e[i])
  BY DEF Compiles, Served
<1>2. ASSUME NEW i \in DOMAIN e, ~Compilable(e[i])
      PROVE  \/ e[i].name = Spaces \/ e[i].base = Spaces \/ e[i].url = "relative"
             \/ ToSet(e[i].models) \ {Spaces} = {}
  <2>1. e[i] \in ProviderType
    BY EnabledAt
  <2>2. e[i].models \in Seq(Words)
    BY <2>1 DEF ProviderType
  <2>3. compileModelTable(e[i].models, e[i].aliases) = {} => ToSet(e[i].models) \ {Spaces} = {}
    BY <2>2, ModelTable
  <2>4. QED
    BY <1>2, <2>3 DEF Compilable
<1> HIDE DEF e
<1>3. \A i \in DOMAIN e : e[i] \in ToSet(e)
  BY DEF ToSet
<1>4. e = <<>> \/ \E p \in ToSet(e) :
        p.name = Spaces \/ p.base = Spaces \/ p.url = "relative" \/ ToSet(p.models) \ {Spaces} = {}
  BY <1>1, <1>2, <1>3
<1>5. QED
  BY <1>4 DEF e

AsServed(p, s) ==
  /\ \A m, n \in p.models : m.public = n.public => m = n
  /\ {m.public : m \in p.models} = ToSet(s.models) \ {Spaces}
  /\ p.adapter \in {"openai_chat_completions", "anthropic_messages"}
  /\ (p.accounting = "anthropic_usage") = (p.adapter = "anthropic_messages")
  /\ KeyWhereExpected(p, s) /\ p.weight # 0
  /\ p.base \notin {"", Spaces}

LEMMA SnapshotIs ==
  ASSUME NEW c \in Configs, Normalize(c) = c, Validate(c), Compiles(c)
  PROVE  /\ Len(CompileFromConfig(c).providers) = Len(EnabledProviders(c))
         /\ \A i \in DOMAIN EnabledProviders(c) :
              AsServed(CompileFromConfig(c).providers[i], EnabledProviders(c)[i])
         /\ CompileFromConfig(c).role = "admin" => c.role = "admin"
         /\ CompileFromConfig(c).routing.recovery = 0 \/ CompileFromConfig(c).routing.recovery >= 5
<1> DEFINE e == EnabledProviders(c)
           s == CompileFromConfig(c)
<1>1. s = Compiled(c) /\ Served(c) = e
  BY CompilationIs DEF Served
<1>2. e \in Seq({p \in ToSet(c.providers) : Enabled(p)})
  BY EnabledOnes
<1> HIDE DEF e
<1>3. /\ s.providers = [i \in DOMAIN e |-> compileProvider(e[i])]
      /\ s.routing.recovery = resolveQuotaRecoveryIntervalMin(c.routing)
      /\ s.role = compileRole(c.role)
  BY <1>1 DEF Compiled
<1>4. Len(s.providers) = Len(e)
  BY <1>2, <1>3
<1>5. ASSUME NEW i \in DOMAIN e
      PROVE  AsServed(s.providers[i], e[i])
  <2>1. PICK k \in DOMAIN c.providers : e[i] = c.providers[k] /\ c.providers[k] \in ProviderType
    BY EnabledAt DEF e
  <2>2. normalizeProvider(c.providers[k]) = c.providers[k]
    <3>1. c.providers = [j \in DOMAIN c.providers |-> normalizeProvider(c.providers[j])]
      BY NormalizeIs
    <3>2. QED
      BY <3>1
  <2>3. NormalizeProtocolAdapter(e[i].adapter, e[i].url) \in {"openai_chat_completions", "anthropic_messages"}
    BY <2>1 DEF Validate
  <2> DEFINE p == e[i]
             q == compileProvider(p)
  <2>4. p \in ProviderType /\ normalizeProvider(p) = p /\ p.models \in Seq(Words)
    BY <2>1, <2>2 DEF ProviderType
  <2> HIDE DEF p
  <2>5. /\ q.models = compileModelTable(p.models, p.aliases)
        /\ q.adapter \in {"openai_chat_completions", "anthropic_messages"}
        /\ (q.accounting = "anthropic_usage") = (q.adapter = "anthropic_messages")
        /\ KeyWhereExpected(q, p)
        /\ q.weight # 0 /\ q.base = p.base
    BY <2>3, <2>4, CompiledProvider DEF p
  <2>6. /\ \A m, n \in compileModelTable(p.models, p.aliases) : m.public = n.public => m = n
        /\ {m.public : m \in compileModelTable(p.models, p.aliases)} = ToSet(p.models) \ {Spaces}
    BY <2>4, ModelTable
  <2>10. p.base \notin {"", Spaces}
    BY HasBase DEF p, e
  <2> HIDE DEF q
  <2>11. q.base \notin {"", Spaces}
    BY <2>5, <2>10
  <2>12. /\ \A m, n \in q.models : m.public = n.public => m = n
         /\ {m.public : m \in q.models} = ToSet(p.models) \ {Spaces}
    BY ONLY <2>5, <2>6
  <2>7. AsServed(q, p)
    BY ONLY <2>5, <2>11, <2>12, Zenon DEF AsServed
  <2>8. s.providers[i] = q
    BY <1>3 DEF q, p
  <2>9. QED
    BY <2>7, <2>8 DEF p
<1>6. s.role = "admin" => c.role = "admin"
  BY <1>3 DEF compileRole
<1>7. s.routing.recovery = 0 \/ s.routing.recovery >= 5
  <2>1. c.routing.recovery \in Int
    BY DEF Configs, RoutingType
  <2>2. QED
    BY <1>3, <2>1 DEF resolveQuotaRecoveryIntervalMin
<1>8. QED
  BY <1>4, <1>5, <1>6, <1>7 DEF e

LEMMA RefreshSpacing ==
  ASSUME NEW c \in Configs, Normalize(c) = c
  PROVE  c.pricing.minutes > 0 /\ c.pricing.hours * 60 >= c.pricing.minutes
<1>1. c.pricing \in PricingType /\ normalizePricing(c.pricing) = c.pricing
  BY NormalizeIs DEF Configs
<1> DEFINE m == Minutes(c.pricing)
<1>2. c.pricing.minutes = m /\ m \in Int /\ m > 0 /\ c.pricing.hours = (m + 59) \div 60
  BY <1>1, PricingNormalised
<1> HIDE DEF m
<1>3. ((m + 59) \div 60) * 60 >= m
  BY <1>2
<1>4. QED
  BY <1>2, <1>3

LEMMA RulesInvSound == RulesInv => CompileSound
<1> SUFFICES ASSUME RulesInv
             PROVE  CompileSound
  OBVIOUS
<1>1. Normalize(Normalize(config)) = Normalize(config)
  BY NormalizeOnce DEF RulesInv
<1>2. stage # "written" => Normalize(config) = config \/ stage = "restarted"
  BY DEF RulesInv
<1>3. stage = "loaded" => config.pricing.minutes > 0 /\ config.pricing.hours * 60 >= config.pricing.minutes
  BY RefreshSpacing DEF RulesInv
<1>4. stage = "failed" =>
        \/ EnabledProviders(config) = <<>>
        \/ \E p \in ToSet(EnabledProviders(config)) :
             \/ p.name = Spaces \/ p.base = Spaces \/ p.url = "relative"
             \/ ToSet(p.models) \ {Spaces} = {}
  BY RefusedForAReason DEF RulesInv
<1>5. stage = "compiled" =>
        /\ Len(CompileFromConfig(config).providers) = Len(EnabledProviders(config))
        /\ \A i \in DOMAIN EnabledProviders(config) :
             AsServed(CompileFromConfig(config).providers[i], EnabledProviders(config)[i])
        /\ CompileFromConfig(config).role = "admin" => config.role = "admin"
        /\ CompileFromConfig(config).routing.recovery = 0 \/ CompileFromConfig(config).routing.recovery >= 5
  BY SnapshotIs DEF RulesInv
<1>6. QED
  BY <1>1, <1>2, <1>3, <1>4, <1>5, Zenon DEF CompileSound, AsServed

(* What controld compiles after it has come back.                           *)
LEMMA SameOrDefaults ==
  ASSUME NEW c \in Configs, Normalize(c) = c
  PROVE  \/ CompileFromConfig(Restored(c)) = CompileFromConfig(c)
         \/ /\ c.pricing.sourcesSet /\ c.pricing.sources = {}
            /\ CompileFromConfig(Restored(c)).pricing.sources = DefaultSources
<1> DEFINE d == Restored(c)
           n == Normalize(d)
<1>1. /\ d \in Configs /\ d.providers = c.providers /\ d.routing = c.routing
      /\ d.benchmarking = c.benchmarking /\ d.role = c.role
      /\ d.pricing = [c.pricing EXCEPT !.sourcesSet = c.pricing.sources # {}]
      /\ d.pricing \in PricingType
  BY RestoredIs
<1> HIDE DEF d
<1>2. /\ c.providers = [i \in DOMAIN c.providers |-> normalizeProvider(c.providers[i])]
      /\ c.routing = normalizeRouting(c.routing) /\ c.pricing = normalizePricing(c.pricing)
      /\ c.pricing \in PricingType
  BY NormalizeIs DEF Configs
<1>3. /\ n.providers = [i \in DOMAIN d.providers |-> normalizeProvider(d.providers[i])]
      /\ n.routing = normalizeRouting(d.routing) /\ n.role = d.role
      /\ n.pricing = normalizePricing(d.pricing)
  BY <1>1, NormalizeIs
<1> HIDE DEF n
<1>4. n.providers = c.providers /\ n.routing = c.routing /\ n.role = c.role
  BY <1>1, <1>2, <1>3
<1>5. Served(d) = Served(c)
  BY <1>4 DEF Served, EnabledProviders, n
<1>6. Compiles(d) <=> Compiles(c)
  BY <1>5 DEF Compiles
<1>7. /\ d.pricing.minutes = c.pricing.minutes /\ d.pricing.hours = c.pricing.hours
      /\ d.pricing.sources = c.pricing.sources /\ d.pricing.sourcesSet = (c.pricing.sources # {})
  BY <1>1, <1>2 DEF PricingType
<1>8. n.pricing.minutes = c.pricing.minutes
  <2>1. n.pricing.minutes = Minutes(d.pricing) /\ c.pricing.minutes = Minutes(c.pricing)
    BY <1>1, <1>2, <1>3, PricingNormalised
  <2>2. Minutes(d.pricing) = Minutes(c.pricing)
    BY <1>7 DEF Minutes
  <2>3. QED
    BY <2>1, <2>2
<1>9. n.pricing.sources = IF c.pricing.sources = {} THEN DefaultSources ELSE c.pricing.sources
  <2>1. n.pricing.sources =
          IF d.pricing.sources = {} /\ ~d.pricing.sourcesSet THEN DefaultSources ELSE d.pricing.sources
    BY <1>1, <1>3, PricingNormalised
  <2>2. QED
    BY <1>7, <2>1
<1>10. CASE ~Compiles(c)
  BY <1>6, <1>10, CompilationIs DEF d
<1>11. CASE Compiles(c) /\ c.pricing.sources # {}
  <2>1. n.pricing.sources = c.pricing.sources
    BY <1>9, <1>11
  <2>2. Compiled(d) = Compiled(c)
    BY <1>4, <1>5, <1>8, <2>1 DEF Compiled, n
  <2>3. CompileFromConfig(d) = Compiled(d) /\ CompileFromConfig(c) = Compiled(c)
    BY <1>6, <1>11, CompilationIs
  <2>4. QED
    BY <2>2, <2>3 DEF d
<1>12. CASE Compiles(c) /\ c.pricing.sources = {}
  <2>1. c.pricing.sourcesSet
    <3>1. c.pricing.sources =
            IF c.pricing.sources = {} /\ ~c.pricing.sourcesSet THEN DefaultSources ELSE c.pricing.sources
      BY <1>2, PricingNormalised
    <3>2. DefaultSources # {}
      BY DEF DefaultSources
    <3>3. QED
      BY <1>12, <3>1, <3>2
  <2>2. CompileFromConfig(d) = Compiled(d)
    BY <1>6, <1>12, CompilationIs
  <2>3. Compiled(d).pricing.sources = n.pricing.sources
    BY DEF Compiled, n
  <2>4. QED
    BY <1>9, <1>12, <2>1, <2>2, <2>3 DEF d
<1>13. QED
  BY <1>10, <1>11, <1>12

LEMMA RestartsAlike ==
  ASSUME RulesInv, Restart
  PROVE  LET before == CompileFromConfig(config)
             after == CompileFromConfig(config')
         IN \/ after = before
            \/ /\ config.pricing.sourcesSet /\ config.pricing.sources = {}
               /\ after.pricing.sources = DefaultSources
<1>1. config' = Restored(config) /\ config \in Configs /\ Normalize(config) = config
  BY DEF RulesInv, Restart
<1>2. QED
  BY <1>1, SameOrDefaults

(* RulesSound, for any texts and numbers in the configuration.              *)
THEOREM RulesAreSound == RulesSpec => RulesSound
<1>1. stage = "written" /\ config \in Configs => RulesInv
  BY DEF RulesInv
<1>2. RulesSpec => []RulesInv
  BY <1>1, RulesInvKept, PTL DEF RulesSpec
<1>3. RulesInv => CompileSound
  BY RulesInvSound
<1>4. RulesInv /\ [ConfigNext]_configVars =>
        [Restart => LET before == CompileFromConfig(config)
                        after == CompileFromConfig(config')
                    IN \/ after = before
                       \/ /\ config.pricing.sourcesSet /\ config.pricing.sources = {}
                          /\ after.pricing.sources = DefaultSources]_configVars
  BY RestartsAlike
<1>5. QED
  BY <1>2, <1>3, <1>4, PTL DEF RulesSpec, RulesSound, RestartCompilesSame

(* ConfigInit, from which the run starts, takes some of these.              *)
LEMMA Written ==
  /\ \A a, b, c \in Words : <<>> \in Seq(Words) /\ <<a>> \in Seq(Words) /\ <<a, b>> \in Seq(Words) /\ <<a, b, c>> \in Seq(Words)
  /\ \A a \in Words : [m \in {"m"} |-> a] \in UNION {[D -> Words] : D \in SUBSET Words}
  /\ NoAliases \in UNION {[D -> Words] : D \in SUBSET Words}
<1>1. \A a, b, c \in Words : <<>> \in Seq(Words) /\ <<a>> \in Seq(Words) /\ <<a, b>> \in Seq(Words) /\ <<a, b, c>> \in Seq(Words)
  OBVIOUS
<1>2. ASSUME NEW a \in Words
      PROVE  [m \in {"m"} |-> a] \in UNION {[D -> Words] : D \in SUBSET Words}
  <2>1. "m" \in Words
    BY WordsAssumption
  <2>2. {"m"} \in SUBSET Words /\ [m \in {"m"} |-> a] \in [{"m"} -> Words]
    BY <2>1
  <2>3. QED
    BY <2>2
<1>3. NoAliases \in [{} -> Words] /\ {} \in SUBSET Words
  BY DEF NoAliases
<1>4. NoAliases \in UNION {[D -> Words] : D \in SUBSET Words}
  BY <1>3
<1>5. QED
  BY <1>1, <1>2, <1>4

(* Records with typed fields are typed.                                     *)
Record(n, e, b, ms, al, ad, u, w) ==
  [name |-> n, enabled |-> e, base |-> b, models |-> ms, aliases |-> al, adapter |-> ad, url |-> u, weight |-> w]
LEMMA Recorded ==
  ASSUME NEW n \in Words, NEW e \in Words, NEW b \in Words, NEW ms \in Seq(Words),
         NEW al \in UNION {[D -> Words] : D \in SUBSET Words}, NEW ad \in Words, NEW u \in Words, NEW w \in Int
  PROVE  Record(n, e, b, ms, al, ad, u, w) \in ProviderType
<1> DEFINE A == UNION {[D -> Words] : D \in SUBSET Words}
<1>1. ProviderType = [name : Words, enabled : Words, base : Words, models : Seq(Words), aliases : A,
                   adapter : Words, url : Words, weight : Int]
  BY DEF ProviderType
<1>2. al \in A
  OBVIOUS
<1> HIDE DEF A
<1>3. QED
  BY <1>1, <1>2 DEF Record

Benchmarking(on, j, p, n, s, f) ==
  [enabled |-> on, judge |-> j, provider |-> p, normal |-> n, suspect |-> s, failures |-> f]
LEMMA BenchmarkingRecorded ==
  ASSUME NEW on \in BOOLEAN, NEW j \in Words, NEW p \in Words, NEW n \in Int, NEW s \in Int, NEW f \in Int
  PROVE  Benchmarking(on, j, p, n, s, f) \in BenchmarkingType
BY DEF Benchmarking, BenchmarkingType

PricingOf(h, m, s, set) == [hours |-> h, minutes |-> m, sources |-> s, sourcesSet |-> set]
LEMMA PricingRecorded ==
  ASSUME NEW h \in Int, NEW m \in Int, NEW s \in SUBSET Words, NEW set \in BOOLEAN
  PROVE  PricingOf(h, m, s, set) \in PricingType
BY DEF PricingOf, PricingType

RoutingOf(n, s, r, d) == [retries |-> n, statusMin |-> s, recovery |-> r, disableCooldown |-> d]
LEMMA RoutingRecorded ==
  ASSUME NEW n \in Int, NEW s \in Int, NEW r \in Int, NEW d \in BOOLEAN
  PROVE  RoutingOf(n, s, r, d) \in RoutingType
BY DEF RoutingOf, RoutingType

LEMMA OneProvider == AProvider \in ProviderType
<1>1. "a" \in Words /\ "" \in Words /\ "m" \in Words /\ "https://host" \in Words
  BY WordsAssumption
<1>2. <<"m">> \in Seq(Words)
  BY <1>1, Written
<1>3. Record("a", "", "https://host", <<"m">>, NoAliases, "", "", 0) \in ProviderType
  <2>1. NoAliases \in UNION {[D -> Words] : D \in SUBSET Words}
    BY Written
  <2>2. 0 \in Int
    OBVIOUS
  <2>3. QED
    BY ONLY <1>1, <1>2, <2>1, <2>2, Recorded, Zenon
<1>4. QED
  BY ONLY <1>3, Zenon DEF AProvider, Record

LEMMA OneConfig == AConfig \in Configs
<1>1. "admin" \in Words /\ "" \in Words /\ "m" \in Words
  BY WordsAssumption
<1>2. <<AProvider>> \in Seq(ProviderType)
  BY OneProvider
<1>3. AConfig.routing \in RoutingType
  BY DEF AConfig, RoutingType, Unset
<1>4. AConfig.pricing \in PricingType
  BY DEF AConfig, PricingType
<1>5. AConfig.benchmarking \in BenchmarkingType
  <2>1. FALSE \in BOOLEAN /\ 0 \in Int
    OBVIOUS
  <2>2. Benchmarking(FALSE, "m", "", 0, 0, 0) \in BenchmarkingType
    BY ONLY <1>1, <2>1, BenchmarkingRecorded, Zenon
  <2>3. QED
    BY <2>2 DEF AConfig, Benchmarking
<1>6. AConfig.providers \in Seq(ProviderType) /\ AConfig.role \in Words
  BY <1>1, <1>2 DEF AConfig
<1>7. AConfig = [providers |-> AConfig.providers, role |-> AConfig.role, routing |-> AConfig.routing,
                 pricing |-> AConfig.pricing, benchmarking |-> AConfig.benchmarking]
  BY DEF AConfig
<1>8. QED
  BY <1>3, <1>4, <1>5, <1>6, <1>7 DEF Configs

LEMMA ManyProviders == WrittenProviders \subseteq ProviderType
<1> DEFINE M == {<<>>, <<Spaces>>, <<"m", "m">>, <<"n", Spaces, "m">>}
           A == UNION {[D -> Words] : D \in SUBSET Words}
           B == {NoAliases, [m \in {"m"} |-> "u"], [m \in {"m"} |-> Spaces]}
<1>1. "" \in Words /\ "a" \in Words /\ "yes" \in Words /\ "no" \in Words
      /\ "m" \in Words /\ "n" \in Words /\ "u" \in Words /\ Spaces \in Words
  BY WordsAssumption DEF Spaces
<1>2. "openai_chat_completions" \in Words /\ "anthropic_messages" \in Words /\ "other" \in Words
      /\ "https://host" \in Words /\ "relative" \in Words
  BY WordsAssumption
<1>3. M \subseteq Seq(Words)
  <2>1. <<>> \in Seq(Words) /\ <<Spaces>> \in Seq(Words)
    BY <1>1, Written
  <2>2. <<"m", "m">> \in Seq(Words) /\ <<"n", Spaces, "m">> \in Seq(Words)
    BY <1>1, Written
  <2>3. QED
    BY ONLY <2>1, <2>2, Zenon
<1>4. B \subseteq A
  BY <1>1, Written
<1>5. {"", Spaces, "a"} \subseteq Words /\ {"", "yes", "no"} \subseteq Words
  BY ONLY <1>1, Zenon
<1>6. {"", "openai_chat_completions", "anthropic_messages", "other"} \subseteq Words
      /\ {"", Spaces, "https://host"} \subseteq Words
      /\ {"", "https://host", "relative"} \subseteq Words
  BY ONLY <1>1, <1>2, Zenon
<1>7. {-2, 0, 3} \subseteq Int
  OBVIOUS
<1>8. ASSUME NEW q \in WrittenProviders
      PROVE  q \in ProviderType
  <2>1. /\ q = Record(q.name, q.enabled, q.base, q.models, q.aliases, q.adapter, q.url, q.weight)
        /\ q.base \in {"", Spaces, "https://host"}
        /\ q.name \in {"", Spaces, "a"} /\ q.enabled \in {"", "yes", "no"} /\ q.weight \in {-2, 0, 3}
        /\ q.models \in M /\ q.aliases \in B
        /\ q.adapter \in {"", "openai_chat_completions", "anthropic_messages", "other"}
        /\ q.url \in {"", "https://host", "relative"}
    BY DEF WrittenProviders, Record
  <2> HIDE DEF M, B
  <2>2. q.name \in Words /\ q.enabled \in Words /\ q.base \in Words /\ q.weight \in Int /\ q.models \in Seq(Words)
        /\ q.aliases \in A /\ q.adapter \in Words /\ q.url \in Words
    BY ONLY <1>3, <1>4, <1>5, <1>6, <1>7, <2>1, Zenon
  <2>3. QED
    <3>1. q.aliases \in UNION {[D -> Words] : D \in SUBSET Words}
      BY <2>2 DEF A
    <3>2. q.name \in Words /\ q.enabled \in Words /\ q.base \in Words /\ q.weight \in Int /\ q.models \in Seq(Words)
          /\ q.adapter \in Words /\ q.url \in Words
      BY <2>2
    <3>3. Record(q.name, q.enabled, q.base, q.models, q.aliases, q.adapter, q.url, q.weight) \in ProviderType
      BY ONLY <3>1, <3>2, Recorded, Zenon
    <3>4. q = Record(q.name, q.enabled, q.base, q.models, q.aliases, q.adapter, q.url, q.weight)
      BY <2>1
    <3>5. QED
      BY ONLY <3>3, <3>4
<1>9. QED
  BY <1>8

LEMMA RunsStartTyped == ConfigInit => stage = "written" /\ config \in Configs
<1> SUFFICES ASSUME ConfigInit
             PROVE  config \in Configs
  BY DEF ConfigInit
<1>0. AConfig \in Configs
  BY OneConfig
<1>1. ASSUME NEW p \in WrittenProviders, NEW more \in {<<>>, <<AProvider>>},
             config = [AConfig EXCEPT !.providers = <<p>> \o more]
      PROVE  config \in Configs
  <2>1. p \in ProviderType /\ AProvider \in ProviderType
    BY ManyProviders, OneProvider
  <2>2. <<p>> \in Seq(ProviderType) /\ <<AProvider>> \in Seq(ProviderType) /\ <<>> \in Seq(ProviderType)
    BY <2>1
  <2>2a. more \in Seq(ProviderType)
    BY ONLY <2>2, more \in {<<>>, <<AProvider>>}, Zenon
  <2>3. <<p>> \o more \in Seq(ProviderType)
    BY ONLY <2>2, <2>2a
  <2> DEFINE ps == <<p>> \o more
  <2> HIDE DEF ps
  <2>4. ps \in Seq(ProviderType) /\ config = [AConfig EXCEPT !.providers = ps]
    BY <1>1, <2>3 DEF ps
  <2>5. QED
    BY <1>0, <2>4 DEF Configs
<1>2. ASSUME NEW q \in PricingType, config = [AConfig EXCEPT !.pricing = q]
      PROVE  config \in Configs
  BY <1>0, <1>2 DEF Configs
<1>3. ASSUME NEW q \in RoutingType, NEW role \in Words, config = [AConfig EXCEPT !.role = role, !.routing = q]
      PROVE  config \in Configs
  BY <1>0, <1>3 DEF Configs
<1>4. ASSUME NEW q \in BenchmarkingType, NEW e \in Words,
             config = [AConfig EXCEPT !.providers[1].enabled = e, !.benchmarking = q]
      PROVE  config \in Configs
  <2> DEFINE ps == [AConfig.providers EXCEPT ![1].enabled = e]
  <2>1. ps \in Seq(ProviderType)
    <3>1. AConfig.providers = <<AProvider>>
      BY DEF AConfig
    <3>2. [AProvider EXCEPT !.enabled = e] \in ProviderType
      BY OneProvider DEF ProviderType
    <3>3. ps = <<[AProvider EXCEPT !.enabled = e]>>
      BY <3>1
    <3> HIDE DEF ps
    <3>4. \A q2 \in ProviderType : <<q2>> \in Seq(ProviderType)
      OBVIOUS
    <3>5. QED
      BY ONLY <3>2, <3>3, <3>4, Zenon
  <2>2. config = [AConfig EXCEPT !.providers = ps, !.benchmarking = q]
    BY <1>0, <1>4 DEF Configs
  <2> HIDE DEF ps
  <2>3. QED
    BY <1>0, <2>1, <2>2 DEF Configs
<1>5. "openai" \in Words /\ "m" \in Words /\ "x" \in Words /\ "a" \in Words /\ "b" \in Words /\ "" \in Words
      /\ "no" \in Words /\ "admin" \in Words /\ "viewer" \in Words /\ "Admin" \in Words
  BY WordsAssumption
<1>6. \A h \in -1..2, m \in {-1, 0, 1, 90}, s \in {{}, {"openai"}}, set \in BOOLEAN :
        PricingOf(h, m, s, set) \in PricingType
  <2>1. {{}, {"openai"}} \subseteq SUBSET Words
    BY <1>5, Zenon
  <2>2. -1..2 \subseteq Int /\ {-1, 0, 1, 90} \subseteq Int
    OBVIOUS
  <2>3. QED
    BY ONLY <2>1, <2>2, PricingRecorded, Zenon
<1>7. \A n \in 0..3, s \in {Unset, 0, 400}, r \in {-1, 0, 3, 30}, d \in BOOLEAN :
        RoutingOf(n, s, r, d) \in RoutingType
  BY DEF Unset, RoutingOf, RoutingType
<1>8. \A j \in {"", "m", "x"}, p \in {"", "a", "b"}, n \in {-1, 0, 3}, f \in {-1, 0, 3} :
        Benchmarking(TRUE, j, p, n, 0, f) \in BenchmarkingType
  <2>1. {"", "m", "x"} \subseteq Words /\ {"", "a", "b"} \subseteq Words
    BY <1>5, Zenon
  <2>2. {-1, 0, 3} \subseteq Int /\ 0 \in Int /\ TRUE \in BOOLEAN
    OBVIOUS
  <2>3. QED
    BY ONLY <2>1, <2>2, BenchmarkingRecorded, Zenon
<1>9. \/ \E p \in WrittenProviders, more \in {<<>>, <<AProvider>>} :
           config = [AConfig EXCEPT !.providers = <<p>> \o more]
      \/ \E q \in PricingType : config = [AConfig EXCEPT !.pricing = q]
      \/ \E q \in RoutingType, w \in Words : config = [AConfig EXCEPT !.role = w, !.routing = q]
      \/ \E q \in BenchmarkingType, e \in Words :
           config = [AConfig EXCEPT !.providers[1].enabled = e, !.benchmarking = q]
  <2>1. CASE \E p \in WrittenProviders, more \in {<<>>, <<AProvider>>} :
               config = [AConfig EXCEPT !.providers = <<p>> \o more]
    BY <2>1, Zenon
  <2>2. CASE \E h \in -1..2, m \in {-1, 0, 1, 90}, s \in {{}, {"openai"}}, set \in BOOLEAN :
               (s # {} => set)
               /\ config = [AConfig EXCEPT !.pricing = [hours |-> h, minutes |-> m, sources |-> s, sourcesSet |-> set]]
    <3>1. PICK h \in -1..2, m \in {-1, 0, 1, 90}, s \in {{}, {"openai"}}, set \in BOOLEAN :
            (s # {} => set)
            /\ config = [AConfig EXCEPT !.pricing = [hours |-> h, minutes |-> m, sources |-> s, sourcesSet |-> set]]
      BY <2>2, Zenon
    <3> DEFINE q == PricingOf(h, m, s, set)
    <3>2. q \in PricingType
      BY <1>6, Zenon
    <3>3. config = [AConfig EXCEPT !.pricing = q]
      BY <3>1, Zenon DEF PricingOf
    <3> HIDE DEF q
    <3>4. QED
      BY <3>2, <3>3, Zenon
  <2>3. CASE \E n \in 0..3, s \in {Unset, 0, 400}, r \in {-1, 0, 3, 30}, d \in BOOLEAN, role \in {"admin", "viewer", "Admin", ""} :
               config = [AConfig EXCEPT !.role = role,
                         !.routing = [retries |-> n, statusMin |-> s, recovery |-> r, disableCooldown |-> d]]
    <3>1. {"admin", "viewer", "Admin", ""} \subseteq Words
      BY <1>5, Zenon
    <3> DEFINE N == 0..3
               S == {Unset, 0, 400}
               R == {-1, 0, 3, 30}
               V == {"admin", "viewer", "Admin", ""}
    <3>2. \E n \in N, s \in S, r \in R, d \in BOOLEAN, w \in V :
            config = [AConfig EXCEPT !.role = w, !.routing = RoutingOf(n, s, r, d)]
      BY <2>3, Zenon DEF RoutingOf
    <3>3. \A n \in N, s \in S, r \in R, d \in BOOLEAN : RoutingOf(n, s, r, d) \in RoutingType
      BY <1>7, Zenon
    <3> HIDE DEF N, S, R, V
    <3>4. \E q \in RoutingType, w \in V : config = [AConfig EXCEPT !.role = w, !.routing = q]
      BY ONLY <3>2, <3>3, Zenon
    <3>5. \E q \in RoutingType, w \in Words : config = [AConfig EXCEPT !.role = w, !.routing = q]
      BY <3>1, <3>4, Zenon DEF V
    <3>6. QED
      BY ONLY <3>5, Zenon
  <2>4. CASE \E j \in {"", "m", "x"}, p \in {"", "a", "b"}, e \in {"", "no"}, n \in {-1, 0, 3}, f \in {-1, 0, 3} :
               config = [AConfig EXCEPT !.providers[1].enabled = e,
                         !.benchmarking = [enabled |-> TRUE, judge |-> j, provider |-> p, normal |-> n,
                                           suspect |-> 0, failures |-> f]]
    <3>1. {"", "no"} \subseteq Words
      BY <1>5, Zenon
    <3>2. PICK j \in {"", "m", "x"}, p \in {"", "a", "b"}, e \in {"", "no"}, n \in {-1, 0, 3}, f \in {-1, 0, 3} :
               config = [AConfig EXCEPT !.providers[1].enabled = e,
                         !.benchmarking = Benchmarking(TRUE, j, p, n, 0, f)]
      BY <2>4, Zenon DEF Benchmarking
    <3>3. Benchmarking(TRUE, j, p, n, 0, f) \in BenchmarkingType /\ e \in Words
      BY <1>8, <3>1, Zenon
    <3>4. QED
      BY <3>2, <3>3, Zenon
  <2>5. QED
    BY <2>1, <2>2, <2>3, <2>4, Zenon DEF ConfigInit
<1>10. QED
  BY <1>1, <1>2, <1>3, <1>4, <1>9, Zenon

(***************************************************************************)
(* What a function makes of the elements of a sequence, put one behind the *)
(* other: all the conversions are of this form.                            *)
(***************************************************************************)
Mapped(g, s) == [i \in DOMAIN s |-> g[s[i]]]
Flat(g, s) == FlattenSeq(Mapped(g, s))

LEMMA MappedType ==
  ASSUME NEW S, NEW T, NEW g \in [S -> T], NEW s \in Seq(S)
  PROVE  Mapped(g, s) \in Seq(T)
BY DEF Mapped

LEMMA MappedLength ==
  ASSUME NEW S, NEW s \in Seq(S), NEW g
  PROVE  Len(Mapped(g, s)) = Len(s)
BY DEF Mapped

LEMMA MappedAt ==
  ASSUME NEW S, NEW s \in Seq(S), NEW g, NEW i \in 1..Len(s)
  PROVE  Mapped(g, s)[i] = g[s[i]]
BY DEF Mapped

(* Two sequences that are equal in length and everywhere are equal.          *)
LEMMA Everywhere ==
  ASSUME NEW S, NEW a \in Seq(S), NEW b \in Seq(S), Len(a) = Len(b),
         \A i \in 1..Len(a) : a[i] = b[i]
  PROVE  a = b
OBVIOUS

MappedJoins(g, a, b) == Mapped(g, a \o b) = Mapped(g, a) \o Mapped(g, b)
FlatOfOne(g, x) == Flat(g, <<x>>) = g[x]
FlatJoins(g, a, b) == Flat(g, a \o b) = Flat(g, a) \o Flat(g, b)

LEMMA MappedConcat ==
  ASSUME NEW S, NEW T, NEW g \in [S -> T], NEW a \in Seq(S), NEW b \in Seq(S)
  PROVE  MappedJoins(g, a, b)
<1> DEFINE c == a \o b
           l == Mapped(g, c)
           p == Mapped(g, a)
           q == Mapped(g, b)
           r == p \o q
           m == Len(a)
           n == Len(b)
<1>1. c \in Seq(S)
  OBVIOUS
<1>2. m \in Nat /\ n \in Nat /\ Len(c) = m + n
  OBVIOUS
<1>3. \A i \in 1..m + n : c[i] = IF i <= m THEN a[i] ELSE b[i - m]
  OBVIOUS
<1> HIDE DEF c, l, p, q, m, n
<1>4. p \in Seq(T)
  BY MappedType DEF p
<1>5. q \in Seq(T)
  BY MappedType DEF q
<1>6. l \in Seq(T)
  BY <1>1, MappedType DEF l
<1>7. Len(p) = m
  BY MappedLength DEF p, m
<1>8. Len(q) = n
  BY MappedLength DEF q, n
<1>9. Len(l) = m + n
  BY <1>1, <1>2, MappedLength DEF l
<1>10. \A i \in 1..m : p[i] = g[a[i]]
  BY MappedAt DEF p, m
<1>11. \A i \in 1..n : q[i] = g[b[i]]
  BY MappedAt DEF q, n
<1>12. \A i \in 1..m + n : l[i] = g[c[i]]
  <2>1. \A i \in 1..Len(c) : Mapped(g, c)[i] = g[c[i]]
    BY ONLY <1>1, MappedAt, Zenon
  <2>2. QED
    BY ONLY <1>2, <2>1 DEF l
<1>13a. r \in Seq(T) /\ Len(r) = Len(p) + Len(q)
  BY <1>4, <1>5
<1>13. r \in Seq(T) /\ Len(r) = m + n
  BY <1>7, <1>8, <1>13a
<1>14. \A i \in 1..m + n : r[i] = IF i <= m THEN p[i] ELSE q[i - m]
  BY ONLY <1>2, <1>4, <1>5, <1>7, <1>8
<1> HIDE DEF r
<1>15. ASSUME NEW i \in 1..m + n
       PROVE  l[i] = r[i]
  <2>1. CASE i <= m
    <3>1. i \in 1..m
      BY <1>2, <2>1
    <3>2. QED
      BY <1>3, <1>10, <1>12, <1>14, <2>1, <3>1
  <2>2. CASE ~(i <= m)
    <3>1. i - m \in 1..n
      BY <1>2, <2>2
    <3>2. QED
      BY <1>3, <1>11, <1>12, <1>14, <2>2, <3>1
  <2>3. QED
    BY <2>1, <2>2
<1>16. l = r
  BY ONLY <1>6, <1>9, <1>13, <1>15, Everywhere
<1>17. QED
  BY <1>16 DEF MappedJoins, l, r, p, q, c

LEMMA FlatType ==
  ASSUME NEW S, NEW T, NEW g \in [S -> Seq(T)], NEW s \in Seq(S)
  PROVE  Flat(g, s) \in Seq(T)
<1> DEFINE Q == Seq(T)
           p == Mapped(g, s)
<1>1. g \in [S -> Q]
  OBVIOUS
<1> HIDE DEF Q, p
<1>2. p \in Seq(Q)
  BY <1>1, MappedType DEF p
<1>3. FlattenSeq(p) \in Seq(T)
  BY <1>2, FlattenType DEF Q
<1>4. QED
  BY <1>3 DEF Flat, p

LEMMA FlatConcatOf ==
  ASSUME NEW S, NEW T, NEW Q, Q = Seq(T), NEW g \in [S -> Q], NEW a \in Seq(S), NEW b \in Seq(S)
  PROVE  FlatJoins(g, a, b)
<1> DEFINE p == Mapped(g, a)
           q == Mapped(g, b)
           l == Mapped(g, a \o b)
<1>2. MappedJoins(g, a, b)
  BY ONLY MappedConcat, Zenon
<1> HIDE DEF p, q, l
<1>2a. l = p \o q
  BY <1>2 DEF MappedJoins, p, q, l
<1>3. p \in Seq(Q)
  BY ONLY MappedType DEF p
<1>4. q \in Seq(Q)
  BY ONLY MappedType DEF q
<1>5. FlattenSeq(p \o q) = FlattenSeq(p) \o FlattenSeq(q)
  BY <1>3, <1>4, FlattenConcat
<1>6. FlattenSeq(l) = FlattenSeq(p) \o FlattenSeq(q)
  BY <1>2a, <1>5
<1>7. QED
  BY <1>6 DEF FlatJoins, Flat, p, q, l

LEMMA FlatConcat ==
  ASSUME NEW S, NEW T, NEW g \in [S -> Seq(T)], NEW a \in Seq(S), NEW b \in Seq(S)
  PROVE  FlatJoins(g, a, b)
BY ONLY FlatConcatOf, Zenon

LEMMA FlatEmpty ==
  ASSUME NEW g
  PROVE  Flat(g, <<>>) = <<>>
<1>1. Mapped(g, <<>>) \in Seq(Seq({})) /\ Len(Mapped(g, <<>>)) = 0
  BY DEF Mapped
<1>2. QED
  BY <1>1, FlattenNone DEF Flat

LEMMA FlatOne ==
  ASSUME NEW S, NEW T, NEW g \in [S -> Seq(T)], NEW x \in S
  PROVE  FlatOfOne(g, x)
<1> DEFINE s == <<x>>
           p == Mapped(g, s)
           Q == Seq(T)
<1>1. s \in Seq(S) /\ Len(s) = 1 /\ s[1] = x /\ 1 \in 1..Len(s)
  OBVIOUS
<1>2. g \in [S -> Q]
  OBVIOUS
<1> HIDE DEF s, p, Q
<1>3. p \in Seq(Q)
  BY <1>1, <1>2, MappedType DEF p
<1>4. Len(p) = 1
  BY <1>1, MappedLength DEF p
<1>5. p[1] = g[x]
  BY <1>1, MappedAt DEF p
<1>6. 1 \in 1..Len(p)
  BY <1>4
<1>6a. \A n \in 1..Len(p) : n # 1 => p[n] = <<>>
  BY <1>4
<1>7. p \in Seq(Seq(T))
  BY <1>3 DEF Q
<1>8. FlattenSeq(p) = p[1]
  BY ONLY <1>7, <1>6, <1>6a, FlattenOne
<1>9. QED
  BY <1>5, <1>8 DEF FlatOfOne, Flat, p, s

(* A statement about all sequences, by their length: what holds of no       *)
(* element and of one more holds of all.                                    *)
LEMMA ByElements ==
  ASSUME NEW S, NEW T, <<>> \in T,
         \A a \in Seq(S), x \in S : a \in T => a \o <<x>> \in T
  PROVE  \A s \in Seq(S) : s \in T
<1> SUFFICES ASSUME NEW s \in Seq(S)
             PROVE  s \in T
  OBVIOUS
<1> DEFINE N == Len(s)
           prefix(n) == [i \in 1..n |-> s[i]]
           U == {n \in 0..N : prefix(n) \in T}
<1>1. N \in Nat
  OBVIOUS
<1>2. 0 \in U
  <2>1. prefix(0) = <<>>
    OBVIOUS
  <2>2. QED
    BY <1>1, <2>1
<1>3. ASSUME NEW n \in 1..N, n - 1 \in U
      PROVE  n \in U
  <2>1. n - 1 \in 0..N /\ prefix(n - 1) \in T /\ n \in 0..N
    BY <1>3
  <2>2. prefix(n - 1) \in Seq(S) /\ s[n] \in S /\ Len(prefix(n - 1)) = n - 1
    BY <2>1
  <2>3. prefix(n - 1) \o <<s[n]>> = prefix(n)
    <3> DEFINE a == prefix(n - 1)
               b == <<s[n]>>
    <3>1. a \in Seq(S) /\ b \in Seq(S) /\ Len(a) = n - 1 /\ Len(b) = 1 /\ b[1] = s[n]
          /\ \A i \in 1..n - 1 : a[i] = s[i]
      BY <2>1, <2>2
    <3> HIDE DEF a, b
    <3>2. a \o b = [i \in 1..Len(a) + Len(b) |-> IF i <= Len(a) THEN a[i] ELSE b[i - Len(a)]]
      BY <3>1, ConcatIs
    <3>3. Len(a) + Len(b) = n
      BY <3>1
    <3>4. ASSUME NEW i \in 1..n
          PROVE  (IF i <= Len(a) THEN a[i] ELSE b[i - Len(a)]) = s[i]
      <4>1. CASE i <= n - 1
        BY <3>1, <4>1
      <4>2. CASE i = n
        BY <3>1, <4>2
      <4>3. QED
        BY <4>1, <4>2
    <3>5. a \o b = prefix(n)
      BY <3>2, <3>3, <3>4
    <3>6. QED
      BY <3>5 DEF a, b
  <2> HIDE DEF prefix
  <2>4. prefix(n) \in T
    BY <2>1, <2>2, <2>3
  <2>5. QED
    BY <2>1, <2>4
<1> HIDE DEF U
<1>4. \A n \in 0..N : n \in U
  BY ONLY <1>1, <1>2, <1>3, Induction, Zenon
<1>5. N \in U
  BY <1>1, <1>4
<1>6. prefix(N) = s
  OBVIOUS
<1>7. QED
  BY <1>5, <1>6 DEF U

Composed(S, h, g, k) == \A x \in S : k[x] = Flat(h, g[x])
OnePass(h, g, k, s) == Flat(h, Flat(g, s)) = Flat(k, s)
OneEach(k, g, s) == Mapped(k, s) = Flat(g, s)
Singles(S, k, g) == \A x \in S : g[x] = <<k[x]>>

(* What is made of what was made: one pass does it.                         *)
LEMMA FlatCompose ==
  ASSUME NEW S, NEW T, NEW U, NEW g \in [S -> Seq(T)], NEW h \in [T -> Seq(U)],
         NEW k \in [S -> Seq(U)], Composed(S, h, g, k)
  PROVE  \A s \in Seq(S) : OnePass(h, g, k, s)
<1> USE DEF Composed
<1> DEFINE W == {s \in Seq(S) : Flat(h, Flat(g, s)) = Flat(k, s)}
<1>1. <<>> \in W
  <2>1. Flat(g, <<>>) = <<>>
    BY FlatEmpty
  <2>2. Flat(k, <<>>) = <<>>
    BY FlatEmpty
  <2>3. Flat(h, <<>>) = <<>>
    BY FlatEmpty
  <2>4. QED
    BY <2>1, <2>2, <2>3
<1>2. ASSUME NEW a \in Seq(S), NEW x \in S, a \in W
      PROVE  a \o <<x>> \in W
  <2> DEFINE b == <<x>>
             c == a \o b
             ga == Flat(g, a)
             ka == Flat(k, a)
  <2>1. b \in Seq(S) /\ c \in Seq(S)
    OBVIOUS
  <2>2a. FlatOfOne(g, x)
    BY FlatOne, Zenon
  <2>2b. FlatOfOne(k, x)
    BY FlatOne, Zenon
  <2>2. Flat(g, b) = g[x] /\ Flat(k, b) = k[x]
    BY <2>2a, <2>2b DEF FlatOfOne
  <2> HIDE DEF b
  <2>3. Flat(g, c) = ga \o Flat(g, b)
    <3>1. FlatJoins(g, a, b)
      BY <2>1, FlatConcat, Zenon
    <3>2. QED
      BY <3>1 DEF FlatJoins
  <2>4. Flat(k, c) = ka \o Flat(k, b)
    <3>1. FlatJoins(k, a, b)
      BY <2>1, FlatConcat, Zenon
    <3>2. QED
      BY <3>1 DEF FlatJoins
  <2>5. ga \in Seq(T) /\ g[x] \in Seq(T)
    BY FlatType
  <2> HIDE DEF ga, c, ka
  <2>6. Flat(h, ga \o g[x]) = Flat(h, ga) \o Flat(h, g[x])
    <3>1. FlatJoins(h, ga, g[x])
      BY <2>5, FlatConcat, Zenon
    <3>2. QED
      BY <3>1 DEF FlatJoins
  <2>7. Flat(h, ga) = ka /\ Flat(h, g[x]) = k[x]
    BY <1>2 DEF ga, ka
  <2>8. Flat(h, Flat(g, c)) = Flat(k, c)
    BY <2>2, <2>3, <2>4, <2>6, <2>7
  <2>9. QED
    BY <2>1, <2>8 DEF c, b
<1> HIDE DEF W
<1>3. \A s \in Seq(S) : s \in W
  BY <1>1, <1>2, ByElements
<1>4. QED
  BY <1>3 DEF W, OnePass

(* One element each.                                                        *)
LEMMA FlatSingles ==
  ASSUME NEW S, NEW T, NEW k \in [S -> T], NEW g \in [S -> Seq(T)], Singles(S, k, g)
  PROVE  \A s \in Seq(S) : OneEach(k, g, s)
<1> USE DEF Singles
<1> DEFINE W == {s \in Seq(S) : Mapped(k, s) = Flat(g, s)}
<1>1. <<>> \in W
  <2>1. Flat(g, <<>>) = <<>>
    BY FlatEmpty
  <2>2. Mapped(k, <<>>) = <<>>
    BY DEF Mapped
  <2>3. QED
    BY <2>1, <2>2
<1>2. ASSUME NEW a \in Seq(S), NEW x \in S, a \in W
      PROVE  a \o <<x>> \in W
  <2> DEFINE b == <<x>>
             c == a \o b
  <2>1. b \in Seq(S) /\ c \in Seq(S)
    OBVIOUS
  <2>1a. FlatOfOne(g, x)
    BY FlatOne, Zenon
  <2>2. Flat(g, b) = g[x]
    BY <2>1a DEF FlatOfOne
  <2>3. Mapped(k, b) = <<k[x]>>
    BY DEF Mapped
  <2> HIDE DEF b
  <2>4. FlatJoins(g, a, b)
    BY <2>1, FlatConcat, Zenon
  <2>5. MappedJoins(k, a, b)
    BY <2>1, MappedConcat, Zenon
  <2>6. Mapped(k, a) = Flat(g, a) /\ Mapped(k, b) = Flat(g, b)
    BY <1>2, <2>2, <2>3
  <2>7. Mapped(k, c) = Flat(g, c)
    BY <2>4, <2>5, <2>6 DEF FlatJoins, MappedJoins
  <2>8. QED
    BY <2>1, <2>7 DEF b
<1> HIDE DEF W
<1>3. \A s \in Seq(S) : s \in W
  BY <1>1, <1>2, ByElements
<1>4. QED
  BY <1>3 DEF W, OneEach

(* Nothing of any.                                                          *)
LEMMA FlatNothing ==
  ASSUME NEW S, NEW g, NEW s \in Seq(S), \A x \in S : g[x] = <<>>
  PROVE  Flat(g, s) = <<>>
<1> DEFINE p == Mapped(g, s)
<1>0. Len(p) = Len(s) /\ Len(s) \in Nat
  BY MappedLength
<1>0a. \A n \in 1..Len(s) : p[n] = <<>>
  BY DEF Mapped
<1>0b. p = [n \in 1..Len(s) |-> p[n]]
  BY DEF Mapped
<1> HIDE DEF p
<1>1. p \in Seq(Seq({})) /\ \A n \in 1..Len(p) : p[n] = <<>>
  <2>1. <<>> \in Seq({})
    OBVIOUS
  <2>2. \A n \in 1..Len(s) : p[n] \in Seq({})
    BY <1>0a, <2>1
  <2> DEFINE Q == Seq({})
  <2> HIDE DEF Q
  <2>3. p \in Seq(Q)
    BY <1>0, <1>0b, <2>2 DEF Q
  <2>4. QED
    BY <1>0, <1>0a, <2>3 DEF Q
<1>2. FlattenSeq(p) = <<>>
  BY <1>1, FlattenNone
<1>3. QED
  BY <1>2 DEF Flat, p

(***************************************************************************)
(* Conversations.  What the conversions work on, with any numbers for      *)
(* texts, ids and arguments.                                               *)
(***************************************************************************)
Speakers == {"user", "assistant", "system"}
StatementType == [who : Speakers, what : {"text", "call", "result"}, id : Int, value : Int]

CallType == [id : Int, tool : Tools, value : Int, json : BOOLEAN, under : BOOLEAN]
ChatType ==
  {m \in [role : Speakers \cup {"tool"}, texts : Seq(Int), calls : Seq(CallType), answers : Int] :
     m.role = "tool" => Len(m.texts) = 1 /\ m.calls = <<>>}

TextBlocks == [type : {"text"}, text : Int]
UseBlocks == [type : {"tool_use"}, call : CallType]
ResultBlocks == [type : {"tool_result"}, id : Int, text : Int]
ThinkingBlocks == [type : {"thinking"}]
AssistantBlocks == TextBlocks \cup UseBlocks \cup ThinkingBlocks
UserBlocks == TextBlocks \cup ResultBlocks
AnyBlocks == TextBlocks \cup UseBlocks \cup ResultBlocks \cup ThinkingBlocks

(* Of a client's history, and of what is sent on.                           *)
AnthropicType ==
  [role : {"assistant"}, content : Seq(AssistantBlocks)]
  \cup [role : {"user"}, content : Seq(UserBlocks)]
  \cup [role : {"system"}, content : Seq(TextBlocks)]
SentType == [role : Speakers, content : Seq(AnyBlocks)]

ItemType ==
  [type : {"message"}, role : Speakers, text : Int]
  \cup [type : {"function_call", "custom_tool_call"}, call : CallType]
  \cup [type : {"function_call_output", "custom_tool_call_output"}, id : Int, text : Int]

(* What each of them says, and what of it counts.                           *)
SaidAs(role) == [t \in Int |-> <<Statement(role, "text", 0, t)>>]
CalledAs == [call \in CallType |-> <<CallStatement(call)>>]
InChat == [m \in ChatType |-> ChatStatements(m)]
InBlock(role) == [b \in AnyBlocks |-> BlockStatements(role, b)]
InSent == [m \in SentType |-> Flat(InBlock(m.role), m.content)]
InItem == [it \in ItemType |-> ItemStatements(it)]
Counts(what) == [f \in StatementType |-> IF f.what = what /\ f.value # 0 THEN <<f>> ELSE <<>>]

LEMMA StatementsTyped ==
  /\ \A role \in Speakers, t \in Int : Statement(role, "text", 0, t) \in StatementType
  /\ \A call \in CallType : CallStatement(call) \in StatementType
  /\ \A id, t \in Int : Statement("user", "result", id, t) \in StatementType
<1>1. \A role \in Speakers, t \in Int : Statement(role, "text", 0, t) \in StatementType
  BY DEF Statement, StatementType
<1>2. \A call \in CallType : CallStatement(call) \in StatementType
  BY DEF CallStatement, Statement, StatementType, CallType, Speakers
<1>3. \A id, t \in Int : Statement("user", "result", id, t) \in StatementType
  BY DEF Statement, StatementType, Speakers
<1>4. QED
  BY <1>1, <1>2, <1>3

LEMMA SaidAsTyped ==
  ASSUME NEW role \in Speakers
  PROVE  SaidAs(role) \in [Int -> Seq(StatementType)]
<1>1. \A t \in Int : <<Statement(role, "text", 0, t)>> \in Seq(StatementType)
  BY StatementsTyped
<1>2. QED
  BY <1>1 DEF SaidAs

LEMMA CalledAsTyped == CalledAs \in [CallType -> Seq(StatementType)]
<1>1. \A call \in CallType : <<CallStatement(call)>> \in Seq(StatementType)
  BY StatementsTyped
<1>2. QED
  BY <1>1 DEF CalledAs

LEMMA CountsTyped ==
  ASSUME NEW what
  PROVE  Counts(what) \in [StatementType -> Seq(StatementType)]
BY DEF Counts

(* What a chat message says, as two passes.                                 *)
LEMMA ChatSays ==
  ASSUME NEW m \in ChatType, m.role # "tool"
  PROVE  /\ ChatStatements(m) = Flat(SaidAs(m.role), m.texts) \o Flat(CalledAs, m.calls)
         /\ ChatStatements(m) \in Seq(StatementType)
<1> DEFINE role == m.role
           k == [t \in Int |-> Statement(role, "text", 0, t)]
           l == [call \in CallType |-> CallStatement(call)]
<1>1. role \in Speakers /\ m.texts \in Seq(Int) /\ m.calls \in Seq(CallType)
  BY DEF ChatType
<1>2. k \in [Int -> StatementType]
  BY <1>1, StatementsTyped
<1>3. l \in [CallType -> StatementType]
  BY StatementsTyped
<1>4. Map(LAMBDA t : Statement(m.role, "text", 0, t), m.texts) = Mapped(k, m.texts)
  BY <1>1 DEF Map, Mapped
<1>5. Map(CallStatement, m.calls) = Mapped(l, m.calls)
  BY <1>1 DEF Map, Mapped
<1>6. Singles(Int, k, SaidAs(role))
  BY DEF SaidAs, Singles
<1>7. Singles(CallType, l, CalledAs)
  BY DEF CalledAs, Singles
<1> HIDE DEF role, k, l
<1>8. SaidAs(role) \in [Int -> Seq(StatementType)]
  BY <1>1, SaidAsTyped
<1>9. OneEach(k, SaidAs(role), m.texts)
  BY <1>1, <1>2, <1>6, <1>8, FlatSingles, Zenon
<1>10. OneEach(l, CalledAs, m.calls)
  BY <1>1, <1>3, <1>7, CalledAsTyped, FlatSingles, Zenon
<1>11. Flat(SaidAs(role), m.texts) \in Seq(StatementType)
  BY <1>1, <1>8, FlatType
<1>12. Flat(CalledAs, m.calls) \in Seq(StatementType)
  BY <1>1, CalledAsTyped, FlatType
<1>13. ChatStatements(m) = Flat(SaidAs(role), m.texts) \o Flat(CalledAs, m.calls)
  BY <1>4, <1>5, <1>9, <1>10 DEF ChatStatements, role, OneEach
<1>14. ChatStatements(m) \in Seq(StatementType)
  BY <1>11, <1>12, <1>13
<1>15. QED
  BY <1>13, <1>14 DEF role

LEMMA ToolSays ==
  ASSUME NEW m \in ChatType, m.role = "tool"
  PROVE  /\ ChatStatements(m) = <<Statement("user", "result", m.answers, m.texts[1])>>
         /\ ChatStatements(m) \in Seq(StatementType)
<1>1. ChatStatements(m) = <<Statement("user", "result", m.answers, m.texts[1])>>
  BY DEF ChatStatements
<1>2. m.answers \in Int /\ m.texts[1] \in Int
  BY DEF ChatType
<1>3. QED
  BY <1>1, <1>2, StatementsTyped

LEMMA InChatTyped == InChat \in [ChatType -> Seq(StatementType)]
<1>1. \A m \in ChatType : ChatStatements(m) \in Seq(StatementType)
  BY ChatSays, ToolSays
<1>2. QED
  BY <1>1 DEF InChat

LEMMA BlockSays ==
  ASSUME NEW role, NEW b
  PROVE  /\ b.type = "text" => BlockStatements(role, b) = <<Statement(role, "text", 0, b.text)>>
         /\ b.type = "tool_use" => BlockStatements(role, b) = <<CallStatement(b.call)>>
         /\ b.type = "tool_result" => BlockStatements(role, b) = <<Statement("user", "result", b.id, b.text)>>
         /\ b.type = "thinking" => BlockStatements(role, b) = <<>>
BY Zenon DEF BlockStatements

LEMMA ItemSays ==
  ASSUME NEW it
  PROVE  /\ it.type = "message" => ItemStatements(it) = <<Statement(it.role, "text", 0, it.text)>>
         /\ it.type = "custom_tool_call" => ItemStatements(it) = <<CallStatement(it.call)>>
         /\ it.type = "function_call" => ItemStatements(it) = <<CallStatement(it.call)>>
         /\ it.type = "custom_tool_call_output" =>
              ItemStatements(it) = <<Statement("user", "result", it.id, it.text)>>
         /\ it.type = "function_call_output" =>
              ItemStatements(it) = <<Statement("user", "result", it.id, it.text)>>
BY Zenon DEF ItemStatements

LEMMA InBlockTyped ==
  ASSUME NEW role \in Speakers
  PROVE  InBlock(role) \in [AnyBlocks -> Seq(StatementType)]
<1>1. ASSUME NEW b \in AnyBlocks
      PROVE  BlockStatements(role, b) \in Seq(StatementType)
  <2>1. CASE b \in TextBlocks
    <3>1. b.type = "text" /\ b.text \in Int
      BY <2>1 DEF TextBlocks
    <3>2. BlockStatements(role, b) = <<Statement(role, "text", 0, b.text)>>
      BY <3>1, BlockSays
    <3>3. QED
      BY <3>1, <3>2, StatementsTyped
  <2>2. CASE b \in UseBlocks
    <3>1. b.type = "tool_use" /\ b.call \in CallType
      BY <2>2 DEF UseBlocks
    <3>2. BlockStatements(role, b) = <<CallStatement(b.call)>>
      BY <3>1, BlockSays
    <3>3. QED
      BY <3>1, <3>2, StatementsTyped
  <2>3. CASE b \in ResultBlocks
    <3>1. b.type = "tool_result" /\ b.id \in Int /\ b.text \in Int
      BY <2>3 DEF ResultBlocks
    <3>2. BlockStatements(role, b) = <<Statement("user", "result", b.id, b.text)>>
      BY <3>1, BlockSays
    <3>3. QED
      BY <3>1, <3>2, StatementsTyped
  <2>4. CASE b \in ThinkingBlocks
    <3>1. b.type = "thinking"
      BY <2>4 DEF ThinkingBlocks
    <3>2. BlockStatements(role, b) = <<>>
      BY <3>1, BlockSays
    <3>3. QED
      BY <3>2
  <2>5. QED
    BY <2>1, <2>2, <2>3, <2>4 DEF AnyBlocks
<1>2. QED
  BY <1>1 DEF InBlock

LEMMA InSentTyped == InSent \in [SentType -> Seq(StatementType)]
<1>1. ASSUME NEW m \in SentType
      PROVE  Flat(InBlock(m.role), m.content) \in Seq(StatementType)
  <2>1. m.role \in Speakers /\ m.content \in Seq(AnyBlocks)
    BY DEF SentType
  <2>2. InBlock(m.role) \in [AnyBlocks -> Seq(StatementType)]
    BY <2>1, InBlockTyped
  <2>3. QED
    BY <2>1, <2>2, FlatType
<1>2. QED
  BY <1>1 DEF InSent

LEMMA InItemTyped == InItem \in [ItemType -> Seq(StatementType)]
<1>1. ASSUME NEW it \in ItemType
      PROVE  ItemStatements(it) \in Seq(StatementType)
  <2>1. CASE it.type = "message" /\ it.role \in Speakers /\ it.text \in Int
    <3>1. ItemStatements(it) = <<Statement(it.role, "text", 0, it.text)>>
      BY <2>1, ItemSays
    <3>2. QED
      BY <2>1, <3>1, StatementsTyped
  <2>2. CASE (it.type = "custom_tool_call" \/ it.type = "function_call") /\ it.call \in CallType
    <3>1. ItemStatements(it) = <<CallStatement(it.call)>>
      BY <2>2, ItemSays
    <3>2. QED
      BY <2>2, <3>1, StatementsTyped
  <2>3. CASE (it.type = "custom_tool_call_output" \/ it.type = "function_call_output") /\ it.id \in Int /\ it.text \in Int
    <3>1. ItemStatements(it) = <<Statement("user", "result", it.id, it.text)>>
      BY <2>3, ItemSays
    <3>2. QED
      BY <2>3, <3>1, StatementsTyped
  <2>4. QED
    BY <2>1, <2>2, <2>3 DEF ItemType
<1>2. QED
  BY <1>1 DEF InItem

(* What a body says is what its messages say.                               *)
LEMMA FormSays ==
  ASSUME NEW m
  PROVE  /\ StatementsOf("chat", m) = ChatStatements(m)
         /\ StatementsOf("responses", m) = ItemStatements(m)
         /\ StatementsOf("anthropic", m) = FlattenMap(LAMBDA b : BlockStatements(m.role, b), m.content)
BY Zenon DEF StatementsOf

LEMMA BlocksSay ==
  ASSUME NEW m \in SentType
  PROVE  StatementsOf("anthropic", m) = InSent[m]
<1> DEFINE role == m.role
           content == m.content
<1>1. content \in Seq(AnyBlocks)
  BY DEF SentType
<1>2. [i \in DOMAIN content |-> BlockStatements(role, content[i])] = Mapped(InBlock(role), content)
  <2>1. \A i \in DOMAIN content : content[i] \in AnyBlocks
    BY <1>1
  <2> HIDE DEF content, role
  <2>2. QED
    BY <2>1 DEF Mapped, InBlock
<1>3. FlattenMap(LAMBDA b : BlockStatements(m.role, b), m.content) = Flat(InBlock(role), content)
  BY <1>2 DEF FlattenMap, Flat
<1>4. QED
  BY <1>3, FormSays DEF InSent

LEMMA BodySays ==
  /\ \A body \in Seq(ChatType) : Statements("chat", body) = Flat(InChat, body)
  /\ \A body \in Seq(SentType) : Statements("anthropic", body) = Flat(InSent, body)
  /\ \A body \in Seq(ItemType) : Statements("responses", body) = Flat(InItem, body)
<1>1. ASSUME NEW body \in Seq(ChatType)
      PROVE  Statements("chat", body) = Flat(InChat, body)
  <2>1. \A i \in DOMAIN body : body[i] \in ChatType
    OBVIOUS
  <2>2. \A i \in DOMAIN body : StatementsOf("chat", body[i]) = InChat[body[i]]
    BY <2>1, FormSays DEF InChat
  <2>3. [i \in DOMAIN body |-> StatementsOf("chat", body[i])] = Mapped(InChat, body)
    BY <2>2 DEF Mapped
  <2>4. QED
    BY <2>3 DEF Statements, FlattenMap, Flat
<1>2. ASSUME NEW body \in Seq(SentType)
      PROVE  Statements("anthropic", body) = Flat(InSent, body)
  <2>1. \A i \in DOMAIN body : body[i] \in SentType
    OBVIOUS
  <2>2. \A i \in DOMAIN body : StatementsOf("anthropic", body[i]) = InSent[body[i]]
    BY <2>1, BlocksSay
  <2>3. [i \in DOMAIN body |-> StatementsOf("anthropic", body[i])] = Mapped(InSent, body)
    BY <2>2 DEF Mapped
  <2>4. QED
    BY <2>3 DEF Statements, FlattenMap, Flat
<1>3. ASSUME NEW body \in Seq(ItemType)
      PROVE  Statements("responses", body) = Flat(InItem, body)
  <2>1. \A i \in DOMAIN body : body[i] \in ItemType
    OBVIOUS
  <2>2. \A i \in DOMAIN body : StatementsOf("responses", body[i]) = InItem[body[i]]
    BY <2>1, FormSays DEF InItem
  <2>3. [i \in DOMAIN body |-> StatementsOf("responses", body[i])] = Mapped(InItem, body)
    BY <2>2 DEF Mapped
  <2>4. QED
    BY <2>3 DEF Statements, FlattenMap, Flat
<1>4. QED
  BY <1>1, <1>2, <1>3

LEMMA PartIs ==
  ASSUME NEW s \in Seq(StatementType), NEW what
  PROVE  Part(s, what) = Flat(Counts(what), s)
<1>1. \A i \in DOMAIN s : s[i] \in StatementType
  OBVIOUS
<1>2. [i \in DOMAIN s |-> IF s[i].what = what /\ s[i].value # 0 THEN <<s[i]>> ELSE <<>>] = Mapped(Counts(what), s)
  BY <1>1 DEF Mapped, Counts
<1>3. QED
  BY <1>2 DEF Part, Where, FlattenMap, Flat

(* The texts, calls and results of a content.                               *)
TextIn == [b \in AnyBlocks |-> IF b.type = "text" THEN <<b.text>> ELSE <<>>]
CallIn == [b \in AnyBlocks |-> IF b.type = "tool_use" THEN <<b.call>> ELSE <<>>]

LEMMA TextInTyped == TextIn \in [AnyBlocks -> Seq(Int)]
<1>1. \A b \in AnyBlocks : b.type = "text" => b.text \in Int
  BY DEF AnyBlocks, TextBlocks, UseBlocks, ResultBlocks, ThinkingBlocks
<1>2. QED
  BY <1>1 DEF TextIn

LEMMA CallInTyped == CallIn \in [AnyBlocks -> Seq(CallType)]
<1>1. \A b \in AnyBlocks : b.type = "tool_use" => b.call \in CallType
  BY DEF AnyBlocks, TextBlocks, UseBlocks, ResultBlocks, ThinkingBlocks
<1>2. QED
  BY <1>1 DEF CallIn

LEMMA TextsAre ==
  ASSUME NEW content \in Seq(AnyBlocks)
  PROVE  TextsOf(content) = Flat(TextIn, content)
<1> DEFINE g == [b \in AnyBlocks |-> IF b.type = "text" THEN <<b>> ELSE <<>>]
           S == {b \in AnyBlocks : b.type = "text"}
           k == [b \in S |-> b.text]
           h == [b \in S |-> <<b.text>>]
           texts == Blocks(content, "text")
<1>1. \A i \in DOMAIN content : content[i] \in AnyBlocks
  OBVIOUS
<1>2. texts = Flat(g, content)
  <2>1. [i \in DOMAIN content |-> IF content[i].type = "text" THEN <<content[i]>> ELSE <<>>] = Mapped(g, content)
    BY <1>1 DEF Mapped
  <2>2. QED
    BY <2>1 DEF Blocks, Where, FlattenMap, Flat
<1>3. g \in [AnyBlocks -> Seq(S)]
  <2>1. \A b \in AnyBlocks : b.type = "text" => b \in S
    OBVIOUS
  <2> HIDE DEF S
  <2>2. QED
    BY <2>1
<1>4. \A b \in S : b.text \in Int
  BY DEF AnyBlocks, TextBlocks, UseBlocks, ResultBlocks, ThinkingBlocks
<1>5. k \in [S -> Int]
  BY <1>4
<1>6. h \in [S -> Seq(Int)]
  BY <1>4
<1>7. Singles(S, k, h)
  BY DEF Singles
<1>8. Composed(AnyBlocks, h, g, TextIn)
  <2>1. ASSUME NEW b \in AnyBlocks
        PROVE  TextIn[b] = Flat(h, g[b])
    <3>1. CASE b.type = "text"
      <4>1. b \in S /\ g[b] = <<b>>
        BY <3>1
      <4>2. TextIn[b] = h[b]
        BY <3>1, <4>1 DEF TextIn
      <4> HIDE DEF S, h, g
      <4>3. FlatOfOne(h, b)
        BY <1>6, <4>1, FlatOne, Zenon
      <4>4. QED
        BY <4>1, <4>2, <4>3 DEF FlatOfOne
    <3>2. CASE b.type # "text"
      <4>1. g[b] = <<>> /\ TextIn[b] = <<>>
        BY <3>2 DEF TextIn
      <4>2. QED
        BY <4>1, FlatEmpty
    <3>3. QED
      BY <3>1, <3>2
  <2> HIDE DEF g, h
  <2>2. QED
    BY <2>1 DEF Composed
<1>9. TextsOf(content) = Mapped(k, texts)
  <2>1. texts \in Seq(S)
    <3> HIDE DEF g, S
    <3>1. QED
      BY <1>2, <1>3, FlatType
  <2>2. \A i \in DOMAIN texts : texts[i] \in S
    BY <2>1
  <2> HIDE DEF texts
  <2>3. [i \in DOMAIN texts |-> texts[i].text] = Mapped(k, texts)
    BY <2>2 DEF Mapped
  <2>4. QED
    BY <2>3 DEF TextsOf, Map, texts
<1> HIDE DEF g, S, k, h, texts
<1>10. texts \in Seq(S)
  BY <1>2, <1>3, FlatType
<1>11. OneEach(k, h, texts)
  BY <1>5, <1>6, <1>7, <1>10, FlatSingles, Zenon
<1>12. OnePass(h, g, TextIn, content)
  BY <1>3, <1>6, <1>8, TextInTyped, FlatCompose, Zenon
<1>13. QED
  BY <1>2, <1>9, <1>11, <1>12 DEF OneEach, OnePass

LEMMA CallsAre ==
  ASSUME NEW content \in Seq(AnyBlocks)
  PROVE  CallsOf(content) = Flat(CallIn, content)
<1> DEFINE g == [b \in AnyBlocks |-> IF b.type = "tool_use" THEN <<b>> ELSE <<>>]
           S == {b \in AnyBlocks : b.type = "tool_use"}
           k == [b \in S |-> b.call]
           h == [b \in S |-> <<b.call>>]
           calls == Blocks(content, "tool_use")
<1>1. \A i \in DOMAIN content : content[i] \in AnyBlocks
  OBVIOUS
<1>2. calls = Flat(g, content)
  <2>1. [i \in DOMAIN content |-> IF content[i].type = "tool_use" THEN <<content[i]>> ELSE <<>>] = Mapped(g, content)
    BY <1>1 DEF Mapped
  <2>2. QED
    BY <2>1 DEF Blocks, Where, FlattenMap, Flat
<1>3. g \in [AnyBlocks -> Seq(S)]
  <2>1. \A b \in AnyBlocks : b.type = "tool_use" => b \in S
    OBVIOUS
  <2> HIDE DEF S
  <2>2. QED
    BY <2>1
<1>4. \A b \in S : b.call \in CallType
  BY DEF AnyBlocks, TextBlocks, UseBlocks, ResultBlocks, ThinkingBlocks
<1>5. k \in [S -> CallType]
  BY <1>4
<1>6. h \in [S -> Seq(CallType)]
  BY <1>4
<1>7. Singles(S, k, h)
  BY DEF Singles
<1>8. Composed(AnyBlocks, h, g, CallIn)
  <2>1. ASSUME NEW b \in AnyBlocks
        PROVE  CallIn[b] = Flat(h, g[b])
    <3>1. CASE b.type = "tool_use"
      <4>1. b \in S /\ g[b] = <<b>>
        BY <3>1
      <4>2. CallIn[b] = h[b]
        BY <3>1, <4>1 DEF CallIn
      <4> HIDE DEF S, h, g
      <4>3. FlatOfOne(h, b)
        BY <1>6, <4>1, FlatOne, Zenon
      <4>4. QED
        BY <4>1, <4>2, <4>3 DEF FlatOfOne
    <3>2. CASE b.type # "tool_use"
      <4>1. g[b] = <<>> /\ CallIn[b] = <<>>
        BY <3>2 DEF CallIn
      <4>2. QED
        BY <4>1, FlatEmpty
    <3>3. QED
      BY <3>1, <3>2
  <2> HIDE DEF g, h
  <2>2. QED
    BY <2>1 DEF Composed
<1>9. CallsOf(content) = Mapped(k, calls)
  <2>1. calls \in Seq(S)
    <3> HIDE DEF g, S
    <3>1. QED
      BY <1>2, <1>3, FlatType
  <2>2. \A i \in DOMAIN calls : calls[i] \in S
    BY <2>1
  <2> HIDE DEF calls
  <2>3. [i \in DOMAIN calls |-> calls[i].call] = Mapped(k, calls)
    BY <2>2 DEF Mapped
  <2>4. QED
    BY <2>3 DEF CallsOf, Map, calls
<1> HIDE DEF g, S, k, h, calls
<1>10. calls \in Seq(S)
  BY <1>2, <1>3, FlatType
<1>11. OneEach(k, h, calls)
  BY <1>5, <1>6, <1>7, <1>10, FlatSingles, Zenon
<1>12. OnePass(h, g, CallIn, content)
  BY <1>3, <1>6, <1>8, CallInTyped, FlatCompose, Zenon
<1>13. QED
  BY <1>2, <1>9, <1>11, <1>12 DEF OneEach, OnePass

(***************************************************************************)
(* What counts of a message is the same after it was converted.            *)
(***************************************************************************)
Whats == {"text", "call", "result"}
CountedIn(what, s) == Flat(Counts(what), s)

LEMMA FlatAgree ==
  ASSUME NEW S, NEW s \in Seq(S), NEW g, NEW h, \A x \in S : g[x] = h[x]
  PROVE  Flat(g, s) = Flat(h, s)
<1>1. \A i \in DOMAIN s : s[i] \in S
  OBVIOUS
<1>2. Mapped(g, s) = Mapped(h, s)
  BY <1>1 DEF Mapped
<1>3. QED
  BY <1>2 DEF Flat

LEMMA CountedOne ==
  ASSUME NEW f \in StatementType, NEW what
  PROVE  CountedIn(what, <<f>>) = IF f.what = what /\ f.value # 0 THEN <<f>> ELSE <<>>
<1>1. FlatOfOne(Counts(what), f)
  BY CountsTyped, FlatOne, Zenon
<1>2. QED
  BY <1>1 DEF FlatOfOne, CountedIn, Counts

LEMMA CountedNone ==
  ASSUME NEW what
  PROVE  CountedIn(what, <<>>) = <<>>
BY FlatEmpty DEF CountedIn

LEMMA CountedJoined ==
  ASSUME NEW a \in Seq(StatementType), NEW b \in Seq(StatementType), NEW what
  PROVE  CountedIn(what, a \o b) = CountedIn(what, a) \o CountedIn(what, b)
<1>1. FlatJoins(Counts(what), a, b)
  BY CountsTyped, FlatConcat, Zenon
<1>2. QED
  BY <1>1 DEF FlatJoins, CountedIn

LEMMA CountedTyped ==
  ASSUME NEW a \in Seq(StatementType), NEW what
  PROVE  CountedIn(what, a) \in Seq(StatementType)
BY CountsTyped, FlatType DEF CountedIn

(* Counting what a pass made is one pass.                                   *)
CountsOf(what, S, g) == [x \in S |-> CountedIn(what, g[x])]

LEMMA CountedPass ==
  ASSUME NEW S, NEW g \in [S -> Seq(StatementType)], NEW s \in Seq(S), NEW what
  PROVE  CountedIn(what, Flat(g, s)) = Flat(CountsOf(what, S, g), s)
<1> DEFINE k == CountsOf(what, S, g)
<1>1. \A x \in S : CountedIn(what, g[x]) \in Seq(StatementType)
  BY CountedTyped
<1>2. k \in [S -> Seq(StatementType)]
  BY <1>1 DEF CountsOf
<1>3. Composed(S, Counts(what), g, k)
  BY DEF Composed, CountsOf, CountedIn
<1> HIDE DEF k
<1>4. OnePass(Counts(what), g, k, s)
  BY <1>2, <1>3, CountsTyped, FlatCompose, Zenon
<1>5. QED
  BY <1>4 DEF OnePass, CountedIn, k

(* What an assistant says in blocks, its texts and its calls apart.         *)
TextsSaid == [b \in AnyBlocks |-> Flat(SaidAs("assistant"), TextIn[b])]
CallsSaid == [b \in AnyBlocks |-> Flat(CalledAs, CallIn[b])]

LEMMA AssistantBlock ==
  ASSUME NEW b \in AssistantBlocks
  PROVE  \/ /\ b \in TextBlocks
            /\ TextsSaid[b] = <<Statement("assistant", "text", 0, b.text)>> /\ CallsSaid[b] = <<>>
            /\ InBlock("assistant")[b] = <<Statement("assistant", "text", 0, b.text)>>
         \/ /\ b \in UseBlocks
            /\ TextsSaid[b] = <<>> /\ CallsSaid[b] = <<CallStatement(b.call)>>
            /\ InBlock("assistant")[b] = <<CallStatement(b.call)>>
         \/ TextsSaid[b] = <<>> /\ CallsSaid[b] = <<>> /\ InBlock("assistant")[b] = <<>>
<1> DEFINE A == "assistant"
<1>0. A \in Speakers /\ b \in AnyBlocks
  BY DEF Speakers, AssistantBlocks, AnyBlocks
<1>1. TextsSaid[b] = Flat(SaidAs(A), TextIn[b]) /\ CallsSaid[b] = Flat(CalledAs, CallIn[b])
      /\ InBlock(A)[b] = BlockStatements(A, b)
  BY <1>0 DEF TextsSaid, CallsSaid, InBlock
<1>2. CASE b \in TextBlocks
  <2>1. b.type = "text" /\ b.text \in Int
    BY <1>2 DEF TextBlocks
  <2>2. TextIn[b] = <<b.text>> /\ CallIn[b] = <<>>
    BY <1>0, <2>1 DEF TextIn, CallIn
  <2>3. FlatOfOne(SaidAs(A), b.text)
    BY <1>0, <2>1, SaidAsTyped, FlatOne, Zenon
  <2>4. SaidAs(A)[b.text] = <<Statement(A, "text", 0, b.text)>>
    BY <2>1 DEF SaidAs
  <2>5. Flat(CalledAs, <<>>) = <<>>
    BY FlatEmpty
  <2>6. TextsSaid[b] = <<Statement(A, "text", 0, b.text)>> /\ CallsSaid[b] = <<>>
    BY <1>1, <2>2, <2>3, <2>4, <2>5 DEF FlatOfOne
  <2>7. InBlock(A)[b] = <<Statement(A, "text", 0, b.text)>>
    BY <1>1, <2>1, BlockSays
  <2>8. QED
    BY <1>2, <2>6, <2>7
<1>3. CASE b \in UseBlocks
  <2>1. b.type = "tool_use" /\ b.call \in CallType
    BY <1>3 DEF UseBlocks
  <2>2. TextIn[b] = <<>> /\ CallIn[b] = <<b.call>>
    BY <1>0, <2>1 DEF TextIn, CallIn
  <2>3. FlatOfOne(CalledAs, b.call)
    BY <2>1, CalledAsTyped, FlatOne, Zenon
  <2>4. CalledAs[b.call] = <<CallStatement(b.call)>>
    BY <2>1 DEF CalledAs
  <2>5. Flat(SaidAs(A), <<>>) = <<>>
    BY FlatEmpty
  <2>6. TextsSaid[b] = <<>> /\ CallsSaid[b] = <<CallStatement(b.call)>>
    BY <1>1, <2>2, <2>3, <2>4, <2>5 DEF FlatOfOne
  <2>7. InBlock(A)[b] = <<CallStatement(b.call)>>
    BY <1>1, <2>1, BlockSays
  <2>8. QED
    BY <1>3, <2>6, <2>7
<1>4. CASE b \in ThinkingBlocks
  <2>1. b.type = "thinking"
    BY <1>4 DEF ThinkingBlocks
  <2>2. TextIn[b] = <<>> /\ CallIn[b] = <<>>
    BY <1>0, <2>1 DEF TextIn, CallIn
  <2>3. Flat(SaidAs(A), <<>>) = <<>> /\ Flat(CalledAs, <<>>) = <<>>
    BY FlatEmpty
  <2>4. InBlock(A)[b] = <<>>
    BY <1>1, <2>1, BlockSays
  <2>5. QED
    BY <1>1, <2>2, <2>3, <2>4
<1>5. QED
  BY <1>2, <1>3, <1>4 DEF AssistantBlocks

LEMMA AssistantSays ==
  ASSUME NEW content \in Seq(AssistantBlocks)
  PROVE  LET m == Chat("assistant", TextsOf(content), CallsOf(content))
         IN /\ m \in ChatType
            /\ ChatStatements(m) = Flat(TextsSaid, content) \o Flat(CallsSaid, content)
            /\ Flat(TextsSaid, content) \in Seq(StatementType)
            /\ Flat(CallsSaid, content) \in Seq(StatementType)
<1> DEFINE m == Chat("assistant", TextsOf(content), CallsOf(content))
           texts == TextsOf(content)
           calls == CallsOf(content)
           A == "assistant"
<1>0. A \in Speakers /\ content \in Seq(AnyBlocks)
  BY DEF Speakers, AssistantBlocks, AnyBlocks
<1>1. texts = Flat(TextIn, content) /\ calls = Flat(CallIn, content)
  BY <1>0, TextsAre, CallsAre
<1>2. Flat(TextIn, content) \in Seq(Int)
  BY <1>0, TextInTyped, FlatType
<1>3. Flat(CallIn, content) \in Seq(CallType)
  BY <1>0, CallInTyped, FlatType
<1> HIDE DEF texts, calls
<1>4. m \in ChatType /\ m.role = A /\ m.texts = texts /\ m.calls = calls
  BY <1>1, <1>2, <1>3 DEF Chat, ChatType, Speakers, texts, calls
<1>5. ChatStatements(m) = Flat(SaidAs(A), texts) \o Flat(CalledAs, calls)
  <2> HIDE DEF m
  <2>1. QED
    BY <1>4, ChatSays
<1>6. SaidAs(A) \in [Int -> Seq(StatementType)]
  BY <1>0, SaidAsTyped
<1>7. TextsSaid \in [AnyBlocks -> Seq(StatementType)]
  <2>1. ASSUME NEW b \in AnyBlocks
        PROVE  Flat(SaidAs(A), TextIn[b]) \in Seq(StatementType)
    <3>1. TextIn[b] \in Seq(Int)
      BY TextInTyped
    <3>2. QED
      BY <1>6, <3>1, FlatType
  <2>2. QED
    BY <2>1 DEF TextsSaid
<1>8. CallsSaid \in [AnyBlocks -> Seq(StatementType)]
  <2>1. ASSUME NEW b \in AnyBlocks
        PROVE  Flat(CalledAs, CallIn[b]) \in Seq(StatementType)
    <3>1. CallIn[b] \in Seq(CallType)
      BY CallInTyped
    <3>2. QED
      BY CalledAsTyped, <3>1, FlatType
  <2>2. QED
    BY <2>1 DEF CallsSaid
<1>9. Composed(AnyBlocks, SaidAs(A), TextIn, TextsSaid)
  BY DEF Composed, TextsSaid
<1>10. Composed(AnyBlocks, CalledAs, CallIn, CallsSaid)
  BY DEF Composed, CallsSaid
<1>11. OnePass(SaidAs(A), TextIn, TextsSaid, content)
  BY <1>0, <1>6, <1>7, <1>9, TextInTyped, FlatCompose, Zenon
<1>12. OnePass(CalledAs, CallIn, CallsSaid, content)
  BY <1>0, <1>8, <1>10, CallInTyped, CalledAsTyped, FlatCompose, Zenon
<1>13. Flat(TextsSaid, content) \in Seq(StatementType)
  BY <1>0, <1>7, FlatType
<1>14. Flat(CallsSaid, content) \in Seq(StatementType)
  BY <1>0, <1>8, FlatType
<1>15. ChatStatements(m) = Flat(TextsSaid, content) \o Flat(CallsSaid, content)
  BY <1>1, <1>5, <1>11, <1>12 DEF OnePass
<1>16. QED
  BY <1>4, <1>13, <1>14, <1>15, Zenon

(* The order between texts and calls is lost, that among the texts and that *)
(* among the calls is not.                                                  *)
LEMMA AssistantKept ==
  ASSUME NEW content \in Seq(AssistantBlocks), NEW what \in Whats
  PROVE  CountedIn(what, ChatStatements(Chat("assistant", TextsOf(content), CallsOf(content))))
         = CountedIn(what, Flat(InBlock("assistant"), content))
<1> DEFINE m == Chat("assistant", TextsOf(content), CallsOf(content))
           t == Flat(TextsSaid, content)
           u == Flat(CallsSaid, content)
           A == "assistant"
           T == CountsOf(what, AssistantBlocks, TextsSaid)
           U == CountsOf(what, AssistantBlocks, CallsSaid)
           B == CountsOf(what, AssistantBlocks, InBlock(A))
<1>1. ChatStatements(m) = t \o u /\ t \in Seq(StatementType) /\ u \in Seq(StatementType)
  BY AssistantSays
<1>2. ASSUME NEW b \in AssistantBlocks
      PROVE  /\ T[b] = CountedIn(what, TextsSaid[b])
             /\ U[b] = CountedIn(what, CallsSaid[b])
             /\ B[b] = CountedIn(what, InBlock(A)[b])
  BY DEF CountsOf
<1>0. AssistantBlocks \subseteq AnyBlocks /\ A \in Speakers
  BY DEF AssistantBlocks, AnyBlocks, Speakers
<1> DEFINE ts == [b \in AssistantBlocks |-> TextsSaid[b]]
           us == [b \in AssistantBlocks |-> CallsSaid[b]]
           bs == [b \in AssistantBlocks |-> InBlock(A)[b]]
<1>3. \A b \in AssistantBlocks : /\ TextsSaid[b] \in Seq(StatementType)
                                  /\ CallsSaid[b] \in Seq(StatementType)
                                  /\ InBlock(A)[b] \in Seq(StatementType)
  <2>1. ASSUME NEW b \in AssistantBlocks
        PROVE  /\ TextsSaid[b] \in Seq(StatementType)
               /\ CallsSaid[b] \in Seq(StatementType)
               /\ InBlock(A)[b] \in Seq(StatementType)
    <3>1. b \in TextBlocks => Statement(A, "text", 0, b.text) \in StatementType
      BY <1>0, StatementsTyped DEF TextBlocks
    <3>2. b \in UseBlocks => CallStatement(b.call) \in StatementType
      BY StatementsTyped DEF UseBlocks
    <3>3. CASE /\ b \in TextBlocks
               /\ TextsSaid[b] = <<Statement(A, "text", 0, b.text)>> /\ CallsSaid[b] = <<>>
               /\ InBlock(A)[b] = <<Statement(A, "text", 0, b.text)>>
      <4>1. Statement(A, "text", 0, b.text) \in StatementType
        BY <3>1, <3>3
      <4> HIDE DEF A
      <4>2. QED
        BY <3>3, <4>1
    <3>4. CASE /\ b \in UseBlocks
               /\ TextsSaid[b] = <<>> /\ CallsSaid[b] = <<CallStatement(b.call)>>
               /\ InBlock(A)[b] = <<CallStatement(b.call)>>
      <4> HIDE DEF A
      <4>1. QED
        BY <3>2, <3>4
    <3>5. CASE TextsSaid[b] = <<>> /\ CallsSaid[b] = <<>> /\ InBlock(A)[b] = <<>>
      <4> HIDE DEF A
      <4>1. QED
        BY <3>5
    <3>6. QED
      BY <3>3, <3>4, <3>5, AssistantBlock, Zenon
  <2>2. QED
    BY <2>1
<1>4. /\ ts \in [AssistantBlocks -> Seq(StatementType)]
      /\ us \in [AssistantBlocks -> Seq(StatementType)]
      /\ bs \in [AssistantBlocks -> Seq(StatementType)]
  BY <1>3
<1>5. t = Flat(ts, content) /\ u = Flat(us, content) /\ Flat(InBlock(A), content) = Flat(bs, content)
  <2>1. t = Flat(ts, content)
    BY FlatAgree
  <2>2. u = Flat(us, content)
    BY FlatAgree
  <2>3. Flat(InBlock(A), content) = Flat(bs, content)
    BY FlatAgree
  <2>4. QED
    BY <2>1, <2>2, <2>3
<1>6. /\ CountsOf(what, AssistantBlocks, ts) = T
      /\ CountsOf(what, AssistantBlocks, us) = U
      /\ CountsOf(what, AssistantBlocks, bs) = B
  BY DEF CountsOf
<1>7. /\ \A b \in TextBlocks : CountedIn(what, <<Statement(A, "text", 0, b.text)>>) =
                                 IF what = "text" /\ b.text # 0 THEN <<Statement(A, "text", 0, b.text)>> ELSE <<>>
      /\ \A b \in UseBlocks : what # "call" => CountedIn(what, <<CallStatement(b.call)>>) = <<>>
  <2>1. ASSUME NEW b \in TextBlocks
        PROVE  CountedIn(what, <<Statement(A, "text", 0, b.text)>>) =
                 IF what = "text" /\ b.text # 0 THEN <<Statement(A, "text", 0, b.text)>> ELSE <<>>
    <3>1. Statement(A, "text", 0, b.text) \in StatementType
      BY <1>0, StatementsTyped DEF TextBlocks
    <3>2. Statement(A, "text", 0, b.text).what = "text" /\ Statement(A, "text", 0, b.text).value = b.text
      BY DEF Statement
    <3>3. QED
      BY <3>1, <3>2, CountedOne
  <2>2. ASSUME NEW b \in UseBlocks, what # "call"
        PROVE  CountedIn(what, <<CallStatement(b.call)>>) = <<>>
    <3>1. CallStatement(b.call) \in StatementType
      BY StatementsTyped DEF UseBlocks
    <3>2. CallStatement(b.call).what = "call"
      BY DEF CallStatement, Statement
    <3>3. QED
      BY <2>2, <3>1, <3>2, CountedOne
  <2>3. QED
    BY <2>1, <2>2
<1>8. CountedIn(what, <<>>) = <<>>
  BY CountedNone
<1> HIDE DEF t, u, m, T, U, B, ts, us, bs, A
<1>9. CountedIn(what, t) = Flat(T, content)
  BY <1>4, <1>5, <1>6, CountedPass
<1>10. CountedIn(what, u) = Flat(U, content)
  BY <1>4, <1>5, <1>6, CountedPass
<1>11a. CountedIn(what, Flat(bs, content)) = Flat(CountsOf(what, AssistantBlocks, bs), content)
  BY <1>4, CountedPass
<1>11. CountedIn(what, Flat(InBlock(A), content)) = Flat(B, content)
  BY <1>5, <1>6, <1>11a
<1>12. CountedIn(what, ChatStatements(m)) = CountedIn(what, t) \o CountedIn(what, u)
  BY <1>1, CountedJoined
<1>13. CountedIn(what, t) \in Seq(StatementType) /\ CountedIn(what, u) \in Seq(StatementType)
  BY <1>1, CountedTyped
<1>14. CASE what # "call"
  <2>1. \A b \in AssistantBlocks : U[b] = <<>>
    BY <1>2, <1>7, <1>8, <1>14, AssistantBlock
  <2>2. \A b \in AssistantBlocks : T[b] = B[b]
    BY <1>2, <1>7, <1>8, <1>14, AssistantBlock DEF A
  <2>3. Flat(U, content) = <<>>
    BY <2>1, FlatNothing
  <2>4. Flat(T, content) = Flat(B, content)
    BY <2>2, FlatAgree
  <2>5. CountedIn(what, t) \o <<>> = CountedIn(what, t)
    BY <1>13, ConcatEmpty
  <2>6. QED
    BY <1>9, <1>10, <1>11, <1>12, <2>3, <2>4, <2>5 DEF m, A
<1>15. CASE what = "call"
  <2>1. \A b \in AssistantBlocks : T[b] = <<>>
    BY <1>2, <1>7, <1>8, <1>15, AssistantBlock DEF A
  <2>2. \A b \in AssistantBlocks : U[b] = B[b]
    BY <1>2, <1>7, <1>8, <1>15, AssistantBlock DEF A
  <2>3. Flat(T, content) = <<>>
    BY <2>1, FlatNothing
  <2>4. Flat(U, content) = Flat(B, content)
    BY <2>2, FlatAgree
  <2>5. <<>> \o CountedIn(what, u) = CountedIn(what, u)
    BY <1>13, ConcatEmpty
  <2>6. QED
    BY <1>9, <1>10, <1>11, <1>12, <2>3, <2>4, <2>5 DEF m, A
<1>16. QED
  BY <1>14, <1>15

(***************************************************************************)
(* A user's message is read block by block.                                *)
(***************************************************************************)
AccType == [out : Seq(ChatType), parts : Seq(Int)]
Unread == [out |-> <<>>, parts |-> <<>>]
ReadRun(content, r) ==
  r[0] = Unread /\ \A n \in 1..Len(content) : r[n] = readBlock(r[n - 1], content[n])
MessagesOf(acc) == IF flushUserParts(acc) = <<>> THEN <<Chat("user", <<>>, <<>>)>> ELSE flushUserParts(acc)

LEMMA UserMessages ==
  /\ \A texts \in Seq(Int), role \in Speakers : Chat(role, texts, <<>>) \in ChatType
  /\ \A id, t \in Int : ToolMessage(id, t) \in ChatType
<1>1. <<>> \in Seq(CallType)
  OBVIOUS
<1>2. ASSUME NEW texts \in Seq(Int), NEW role \in Speakers
      PROVE  Chat(role, texts, <<>>) \in ChatType
  BY <1>1 DEF Chat, ChatType, Speakers
<1>3. ASSUME NEW id \in Int, NEW t \in Int
      PROVE  ToolMessage(id, t) \in ChatType
  <2>1. <<t>> \in Seq(Int) /\ Len(<<t>>) = 1
    OBVIOUS
  <2>2. QED
    BY <1>1, <2>1 DEF ToolMessage, ChatType
<1>4. QED
  BY <1>2, <1>3

LEMMA FlushTyped ==
  ASSUME NEW acc \in AccType
  PROVE  flushUserParts(acc) \in Seq(ChatType)
<1>1. acc.out \in Seq(ChatType) /\ acc.parts \in Seq(Int)
  BY DEF AccType
<1>2. Chat("user", acc.parts, <<>>) \in ChatType
  BY <1>1, UserMessages DEF Speakers
<1>3. Append(acc.out, Chat("user", acc.parts, <<>>)) \in Seq(ChatType)
  BY <1>1, <1>2
<1>4. QED
  BY <1>1, <1>3 DEF flushUserParts

LEMMA BlockRead ==
  ASSUME NEW acc \in AccType, NEW b \in UserBlocks
  PROVE  readBlock(acc, b) \in AccType
<1>1. acc.out \in Seq(ChatType) /\ acc.parts \in Seq(Int) /\ flushUserParts(acc) \in Seq(ChatType)
  BY FlushTyped DEF AccType
<1>2. CASE b \in ResultBlocks
  <2>1. b.type = "tool_result" /\ ToolMessage(b.id, b.text) \in ChatType
    BY <1>2, UserMessages DEF ResultBlocks
  <2>2. Append(flushUserParts(acc), ToolMessage(b.id, b.text)) \in Seq(ChatType)
    BY <1>1, <2>1
  <2>3. readBlock(acc, b) = [out |-> Append(flushUserParts(acc), ToolMessage(b.id, b.text)), parts |-> <<>>]
    BY <2>1 DEF readBlock
  <2>4. QED
    BY <2>2, <2>3 DEF AccType
<1>3. CASE b \in TextBlocks
  <2>1. b.type = "text" /\ b.text \in Int
    BY <1>3 DEF TextBlocks
  <2>2. readBlock(acc, b) = [out |-> acc.out, parts |-> Append(acc.parts, b.text)]
    BY <2>1 DEF readBlock
  <2>3. QED
    BY <1>1, <2>1, <2>2 DEF AccType
<1>4. QED
  BY <1>2, <1>3 DEF UserBlocks

LEMMA UserRuns ==
  ASSUME NEW content \in Seq(UserBlocks)
  PROVE  \E r \in [0..Len(content) -> AccType] :
           ReadRun(content, r) /\ convertAnthropicUserMessageToOpenAI(content) = MessagesOf(r[Len(content)])
<1> DEFINE N == Len(content)
           step == [a \in AccType \X (1..N) |-> readBlock(a[1], content[a[2]])]
           Reads(h) == h = [n \in 0..N |-> IF n = 0 THEN Unread ELSE readBlock(h[n - 1], content[n])]
           read == CHOOSE h : Reads(h)
<1>1. N \in Nat /\ \A n \in 1..N : content[n] \in UserBlocks
  OBVIOUS
<1>2. Unread \in AccType
  BY DEF Unread, AccType
<1> HIDE DEF N
<1>3. step \in [AccType \X (1..N) -> AccType]
      /\ \A a \in AccType, n \in 1..N : step[<<a, n>>] = readBlock(a, content[n])
  BY <1>1, BlockRead
<1> HIDE DEF step
<1>4. PICK f \in [0..N -> AccType] : f[0] = Unread /\ \A n \in 1..N : f[n] = step[<<f[n - 1], n>>]
  <2> DEFINE base == Unread
  <2> HIDE DEF base
  <2>1. Solvable(AccType, N, base, step)
    BY <1>1, <1>2, <1>3, Recursion DEF base
  <2>2. QED
    BY ONLY <2>1, Zenon DEF base, Solvable
<1>5. ASSUME NEW n \in 1..N
      PROVE  n - 1 \in 0..N /\ f[n - 1] \in AccType /\ f[n] = readBlock(f[n - 1], content[n])
  <2>1. n - 1 \in 0..N
    BY <1>1
  <2>2. QED
    BY <1>3, <1>4, <2>1
<1>6. Reads(f)
  <2>1. ASSUME NEW n \in 0..N
        PROVE  f[n] = IF n = 0 THEN Unread ELSE readBlock(f[n - 1], content[n])
    <3>1. n # 0 => n \in 1..N
      BY <1>1
    <3>2. QED
      BY <1>4, <1>5, <3>1
  <2>2. f = [n \in 0..N |-> f[n]]
    BY <1>4
  <2>3. QED
    BY <2>1, <2>2
<1> HIDE DEF Reads
<1>7. Reads(read)
  BY <1>6
<1>8. convertAnthropicUserMessageToOpenAI(content) = MessagesOf(read[N])
  BY DEF convertAnthropicUserMessageToOpenAI, MessagesOf, Unread, N, Reads
<1> HIDE DEF read
<1>9. /\ read[0] = Unread
      /\ \A n \in 1..N : read[n] = readBlock(read[n - 1], content[n])
  BY <1>1, <1>7 DEF Reads
<1>10. \A n \in 0..N : read[n] = f[n]
  <2> DEFINE T == {n \in 0..N : read[n] = f[n]}
  <2>1. 0 \in T
    BY <1>1, <1>4, <1>9
  <2>2. \A n \in 1..N : n - 1 \in T => n \in T
    BY <1>5, <1>9
  <2> HIDE DEF T
  <2>3. \A n \in 0..N : n \in T
    BY ONLY <1>1, <2>1, <2>2, Induction, Zenon
  <2>4. QED
    BY <2>3 DEF T
<1>11. N \in 0..N
  BY <1>1
<1>12. ReadRun(content, f) /\ convertAnthropicUserMessageToOpenAI(content) = MessagesOf(f[N])
  BY <1>4, <1>5, <1>8, <1>10, <1>11 DEF ReadRun, N
<1>13. QED
  BY <1>12 DEF N

(* What was read so far says what the blocks said.                          *)
LEMMA FlushSays ==
  ASSUME NEW acc \in AccType
  PROVE  Flat(InChat, flushUserParts(acc)) = Flat(InChat, acc.out) \o Flat(SaidAs("user"), acc.parts)
<1> DEFINE m == Chat("user", acc.parts, <<>>)
           o == acc.out
           p == acc.parts
           W == SaidAs("user")
<1>1. o \in Seq(ChatType) /\ p \in Seq(Int)
  BY DEF AccType
<1>2. m \in ChatType /\ m.role = "user" /\ m.texts = p /\ m.calls = <<>>
  BY <1>1, UserMessages DEF Chat, Speakers
<1>3. Flat(InChat, o) \in Seq(StatementType)
  BY <1>1, InChatTyped, FlatType
<1>4. Flat(W, <<>>) = <<>> /\ Flat(CalledAs, <<>>) = <<>>
  BY FlatEmpty
<1>5. CASE p = <<>>
  <2>1. flushUserParts(acc) = o
    BY <1>5 DEF flushUserParts
  <2>2. QED
    BY <1>3, <1>4, <1>5, <2>1, ConcatEmpty
<1>6. CASE p # <<>>
  <2>1. flushUserParts(acc) = Append(o, m)
    BY <1>6 DEF flushUserParts
  <2> DEFINE s == <<m>>
  <2>2. Append(o, m) = o \o s /\ s \in Seq(ChatType)
    BY <1>1, <1>2
  <2>3. FlatOfOne(InChat, m)
    BY <1>2, InChatTyped, FlatOne, Zenon
  <2>4. Flat(InChat, s) = ChatStatements(m)
    BY <1>2, <2>3 DEF FlatOfOne, InChat
  <2> HIDE DEF s
  <2>5. FlatJoins(InChat, o, s)
    BY <1>1, <2>2, InChatTyped, FlatConcat, Zenon
  <2>6. W \in [Int -> Seq(StatementType)]
    BY SaidAsTyped DEF Speakers
  <2>7. Flat(W, p) \in Seq(StatementType)
    BY <1>1, <2>6, FlatType
  <2>8. ChatStatements(m) = Flat(W, p) \o <<>>
    <3> HIDE DEF m, W
    <3>1. ChatStatements(m) = Flat(SaidAs(m.role), m.texts) \o Flat(CalledAs, m.calls)
      BY <1>2, ChatSays
    <3>2. QED
      BY <1>2, <1>4, <3>1 DEF W
  <2>9. Flat(W, p) \o <<>> = Flat(W, p)
    BY <2>7, ConcatEmpty
  <2>10. Flat(InChat, o \o s) = Flat(InChat, o) \o Flat(InChat, s)
    BY <2>5 DEF FlatJoins
  <2>11. QED
    BY <2>1, <2>2, <2>4, <2>8, <2>9, <2>10
<1>7. QED
  BY <1>5, <1>6

Prefix(s, n) == [i \in 1..n |-> s[i]]

LEMMA PrefixGrows ==
  ASSUME NEW S, NEW s \in Seq(S), NEW n \in 1..Len(s)
  PROVE  /\ Prefix(s, n - 1) \in Seq(S) /\ <<s[n]>> \in Seq(S)
         /\ Prefix(s, n) = Prefix(s, n - 1) \o <<s[n]>>
<1> DEFINE a == Prefix(s, n - 1)
           b == <<s[n]>>
<1>1. a \in Seq(S) /\ b \in Seq(S) /\ Len(a) = n - 1 /\ Len(b) = 1 /\ b[1] = s[n]
      /\ \A i \in 1..n - 1 : a[i] = s[i]
  BY DEF Prefix
<1> HIDE DEF a, b
<1>2. a \o b = [i \in 1..Len(a) + Len(b) |-> IF i <= Len(a) THEN a[i] ELSE b[i - Len(a)]]
  BY <1>1, ConcatIs
<1>3. Len(a) + Len(b) = n
  BY <1>1
<1>4. ASSUME NEW i \in 1..n
      PROVE  (IF i <= Len(a) THEN a[i] ELSE b[i - Len(a)]) = s[i]
  <2>1. CASE i <= n - 1
    BY <1>1, <2>1
  <2>2. CASE i = n
    BY <1>1, <2>2
  <2>3. QED
    BY <2>1, <2>2
<1>5. a \o b = Prefix(s, n)
  BY <1>2, <1>3, <1>4 DEF Prefix
<1>6. QED
  BY <1>1, <1>5 DEF a, b

LEMMA PrefixEnds ==
  ASSUME NEW S, NEW s \in Seq(S)
  PROVE  Prefix(s, 0) = <<>> /\ Prefix(s, Len(s)) = s
BY DEF Prefix

(* One more block of a user, and what it says.                              *)
LEMMA ReadSays ==
  ASSUME NEW acc \in AccType, NEW b \in UserBlocks
  PROVE  Flat(InChat, flushUserParts(readBlock(acc, b))) = Flat(InChat, flushUserParts(acc)) \o InBlock("user")[b]
<1> DEFINE o == acc.out
           p == acc.parts
           W == SaidAs("user")
           fl == flushUserParts(acc)
           new == readBlock(acc, b)
<1>0. "user" \in Speakers /\ b \in AnyBlocks
  BY DEF Speakers, UserBlocks, AnyBlocks
<1>1. o \in Seq(ChatType) /\ p \in Seq(Int) /\ fl \in Seq(ChatType) /\ new \in AccType
  BY FlushTyped, BlockRead DEF AccType
<1>2. InBlock("user")[b] = BlockStatements("user", b)
  BY <1>0 DEF InBlock
<1>3. W \in [Int -> Seq(StatementType)]
  BY <1>0, SaidAsTyped
<1>4. Flat(InChat, o) \in Seq(StatementType)
  BY <1>1, InChatTyped, FlatType
<1>5. Flat(InChat, fl) \in Seq(StatementType)
  BY <1>1, InChatTyped, FlatType
<1>6. Flat(W, p) \in Seq(StatementType)
  BY <1>1, <1>3, FlatType
<1>7. Flat(InChat, fl) = Flat(InChat, o) \o Flat(W, p)
  BY FlushSays
<1>8. Flat(InChat, flushUserParts(new)) = Flat(InChat, new.out) \o Flat(W, new.parts)
  <2> HIDE DEF new
  <2>1. QED
    BY <1>1, FlushSays
<1>9. CASE b \in ResultBlocks
  <2> DEFINE m == ToolMessage(b.id, b.text)
             s == <<m>>
  <2>1. b.type = "tool_result" /\ m \in ChatType /\ b.id \in Int /\ b.text \in Int
    BY <1>9, UserMessages DEF ResultBlocks
  <2>2. new = [out |-> Append(fl, m), parts |-> <<>>]
    BY <2>1 DEF readBlock
  <2>3. new.out = fl \o s /\ new.parts = <<>> /\ s \in Seq(ChatType)
    <3> HIDE DEF m, fl
    <3>1. Append(fl, m) = fl \o <<m>>
      BY <1>1, <2>1
    <3>2. QED
      BY <2>1, <2>2, <3>1
  <2>4. m.role = "tool" /\ m.answers = b.id /\ m.texts[1] = b.text
    BY DEF ToolMessage
  <2>5. ChatStatements(m) = <<Statement("user", "result", b.id, b.text)>>
    <3> HIDE DEF m
    <3>1. QED
      BY <2>1, <2>4, ToolSays
  <2>6. FlatOfOne(InChat, m)
    BY <2>1, InChatTyped, FlatOne, Zenon
  <2>7. Flat(InChat, s) = ChatStatements(m)
    BY <2>1, <2>6 DEF FlatOfOne, InChat
  <2> HIDE DEF s, m, fl, new
  <2>8. FlatJoins(InChat, fl, s)
    BY <1>1, <2>3, InChatTyped, FlatConcat, Zenon
  <2>9. Flat(W, <<>>) = <<>>
    BY FlatEmpty
  <2>10. BlockStatements("user", b) = <<Statement("user", "result", b.id, b.text)>>
    BY <2>1, BlockSays
  <2>11. Flat(InChat, s) \in Seq(StatementType)
    BY <2>3, InChatTyped, FlatType
  <2>12. Flat(InChat, fl \o s) = Flat(InChat, fl) \o Flat(InChat, s)
    BY <2>8 DEF FlatJoins
  <2>13. Flat(InChat, fl) \o Flat(InChat, s) \in Seq(StatementType)
    BY <1>5, <2>11
  <2>14. (Flat(InChat, fl) \o Flat(InChat, s)) \o <<>> = Flat(InChat, fl) \o Flat(InChat, s)
    BY <2>13, ConcatEmpty
  <2>15. Flat(InChat, flushUserParts(new)) = Flat(InChat, fl) \o BlockStatements("user", b)
    BY <1>8, <2>3, <2>5, <2>7, <2>9, <2>10, <2>12, <2>14
  <2>16. QED
    BY <1>2, <2>15 DEF new, fl
<1>10. CASE b \in TextBlocks
  <2> DEFINE s == <<b.text>>
  <2>1. b.type = "text" /\ b.text \in Int
    BY <1>10 DEF TextBlocks
  <2>2. new = [out |-> o, parts |-> Append(p, b.text)]
    BY <2>1 DEF readBlock
  <2>3. new.out = o /\ new.parts = p \o s /\ s \in Seq(Int)
    <3> DEFINE t == b.text
    <3>0. p \in Seq(Int) /\ t \in Int
      BY <1>1, <2>1
    <3> HIDE DEF p, o, t
    <3>0a. Append(p, t) = p \o <<t>>
      BY <3>0
    <3>1. Append(p, b.text) = p \o <<b.text>>
      BY <3>0a DEF t
    <3>2. QED
      BY <2>1, <2>2, <3>1
  <2>4. FlatOfOne(W, b.text)
    BY <1>3, <2>1, FlatOne, Zenon
  <2>5. W[b.text] = <<Statement("user", "text", 0, b.text)>>
    BY <2>1 DEF SaidAs
  <2>6. Flat(W, s) = <<Statement("user", "text", 0, b.text)>>
    BY <2>4, <2>5 DEF FlatOfOne
  <2>7. BlockStatements("user", b) = <<Statement("user", "text", 0, b.text)>>
    BY <2>1, BlockSays
  <2> HIDE DEF s, W, fl, new, o, p
  <2>8. FlatJoins(W, p, s)
    BY <1>1, <1>3, <2>3, FlatConcat, Zenon
  <2>9. Flat(W, p \o s) = Flat(W, p) \o Flat(W, s)
    BY <2>8 DEF FlatJoins
  <2>10. Flat(W, s) \in Seq(StatementType)
    BY <1>3, <2>3, FlatType
  <2>11. Associates(Flat(InChat, o), Flat(W, p), Flat(W, s))
    BY <1>4, <1>6, <2>10, ConcatThree, Zenon
  <2>12. Flat(InChat, flushUserParts(new)) = Flat(InChat, fl) \o BlockStatements("user", b)
    BY <1>7, <1>8, <2>3, <2>6, <2>7, <2>9, <2>11 DEF Associates
  <2>13. QED
    BY <1>2, <2>12 DEF new, fl
<1>11. QED
  BY <1>9, <1>10 DEF UserBlocks

LEMMA UserKept ==
  ASSUME NEW content \in Seq(UserBlocks)
  PROVE  /\ convertAnthropicUserMessageToOpenAI(content) \in Seq(ChatType)
         /\ Flat(InChat, convertAnthropicUserMessageToOpenAI(content)) = Flat(InBlock("user"), content)
<1> DEFINE N == Len(content)
           W == InBlock("user")
<1>1. PICK r \in [0..N -> AccType] :
        ReadRun(content, r) /\ convertAnthropicUserMessageToOpenAI(content) = MessagesOf(r[N])
  BY UserRuns
<1>2. N \in Nat /\ content \in Seq(AnyBlocks) /\ UserBlocks \subseteq AnyBlocks
  BY DEF UserBlocks, AnyBlocks
<1>3. W \in [AnyBlocks -> Seq(StatementType)]
  BY InBlockTyped DEF Speakers
<1> HIDE DEF N, W
<1> DEFINE T == {n \in 0..N : Flat(InChat, flushUserParts(r[n])) = Flat(W, Prefix(content, n))}
<1>4. 0 \in T
  <2>1. r[0] = Unread /\ flushUserParts(Unread) = <<>>
    BY <1>1 DEF ReadRun, flushUserParts, Unread
  <2>2. Prefix(content, 0) = <<>>
    BY PrefixEnds
  <2>3. Flat(W, <<>>) = <<>> /\ Flat(InChat, <<>>) = <<>>
    BY FlatEmpty
  <2>4. QED
    BY <1>2, <2>1, <2>2, <2>3
<1>5. ASSUME NEW n \in 1..N, n - 1 \in T
      PROVE  n \in T
  <2> DEFINE a == Prefix(content, n - 1)
             b == content[n]
             s == <<b>>
  <2>1. n - 1 \in 0..N /\ n \in 0..N /\ r[n - 1] \in AccType /\ b \in UserBlocks /\ r[n] = readBlock(r[n - 1], b)
    <3>1. n - 1 \in 0..N /\ n \in 0..N /\ n \in 1..Len(content)
      BY <1>2 DEF N
    <3>2. QED
      BY <1>1, <3>1 DEF ReadRun
  <2>2. a \in Seq(AnyBlocks) /\ s \in Seq(AnyBlocks) /\ Prefix(content, n) = a \o s
    BY <1>2, PrefixGrows DEF N
  <2>3. b \in AnyBlocks
    BY <1>2, <2>1
  <2> HIDE DEF b
  <2>4. FlatOfOne(W, b)
    BY <1>3, <2>3, FlatOne, Zenon
  <2>5. Flat(W, s) = W[b]
    BY <2>4 DEF FlatOfOne
  <2> HIDE DEF a, s
  <2>6. FlatJoins(W, a, s)
    BY <1>3, <2>2, FlatConcat, Zenon
  <2>7. Flat(InChat, flushUserParts(r[n])) = Flat(InChat, flushUserParts(r[n - 1])) \o W[b]
    BY <2>1, ReadSays DEF W
  <2>8. Flat(InChat, flushUserParts(r[n - 1])) = Flat(W, a)
    BY <1>5 DEF a
  <2>9. Flat(InChat, flushUserParts(r[n])) = Flat(W, Prefix(content, n))
    BY <2>2, <2>5, <2>6, <2>7, <2>8 DEF FlatJoins
  <2>10. QED
    BY <2>1, <2>9
<1> HIDE DEF T
<1>6. \A n \in 0..N : n \in T
  BY ONLY <1>2, <1>4, <1>5, Induction, Zenon
<1>7. N \in 0..N
  BY <1>2
<1>8. Flat(InChat, flushUserParts(r[N])) = Flat(W, content)
  BY <1>6, <1>7, PrefixEnds DEF T, N
<1>9. r[N] \in AccType
  BY <1>1, <1>7
<1>10. flushUserParts(r[N]) \in Seq(ChatType)
  BY <1>9, FlushTyped
<1>11. CASE flushUserParts(r[N]) # <<>>
  BY <1>1, <1>8, <1>10, <1>11 DEF MessagesOf, W
<1>12. CASE flushUserParts(r[N]) = <<>>
  <2> DEFINE m == Chat("user", <<>>, <<>>)
  <2>0. "user" \in Speakers /\ <<>> \in Seq(Int)
    BY DEF Speakers
  <2>0a. m \in ChatType
    BY <2>0, UserMessages
  <2>1. m \in ChatType /\ m.role = "user" /\ m.texts = <<>> /\ m.calls = <<>>
    BY <2>0a DEF Chat
  <2> HIDE DEF m
  <2>2. ChatStatements(m) = Flat(SaidAs(m.role), m.texts) \o Flat(CalledAs, m.calls)
    BY <2>1, ChatSays
  <2>3. Flat(SaidAs(m.role), <<>>) = <<>> /\ Flat(CalledAs, <<>>) = <<>> /\ Flat(InChat, <<>>) = <<>>
    BY FlatEmpty
  <2>4. ChatStatements(m) = <<>>
    BY <2>1, <2>2, <2>3
  <2>5. FlatOfOne(InChat, m)
    BY <2>1, InChatTyped, FlatOne, Zenon
  <2>6. Flat(InChat, <<m>>) = <<>> /\ <<m>> \in Seq(ChatType)
    BY <2>1, <2>4, <2>5 DEF FlatOfOne, InChat
  <2>7. convertAnthropicUserMessageToOpenAI(content) = <<m>>
    BY <1>1, <1>12 DEF MessagesOf, m
  <2>8. QED
    BY <1>8, <1>12, <2>3, <2>6, <2>7 DEF W
<1>13. QED
  BY <1>11, <1>12

LEMMA FlatMapped ==
  ASSUME NEW S, NEW s \in Seq(S), NEW k, NEW g, NEW h, \A x \in S : h[k[x]] = g[x]
  PROVE  Flat(h, Mapped(k, s)) = Flat(g, s)
<1>1. \A i \in DOMAIN s : s[i] \in S
  OBVIOUS
<1>2. Mapped(h, Mapped(k, s)) = Mapped(g, s)
  BY <1>1 DEF Mapped
<1>3. QED
  BY <1>2 DEF Flat

LEMMA SystemKept ==
  ASSUME NEW content \in Seq(TextBlocks)
  PROVE  LET m == Chat("system", TextsOf(content), <<>>)
         IN m \in ChatType /\ ChatStatements(m) = Flat(InBlock("system"), content)
<1> DEFINE m == Chat("system", TextsOf(content), <<>>)
           texts == TextsOf(content)
           W == SaidAs("system")
           k == [b \in AnyBlocks |-> Flat(W, TextIn[b])]
<1>1. content \in Seq(AnyBlocks) /\ "system" \in Speakers
  BY DEF AnyBlocks, Speakers
<1>2. texts = Flat(TextIn, content)
  BY <1>1, TextsAre
<1>3. Flat(TextIn, content) \in Seq(Int)
  BY <1>1, TextInTyped, FlatType
<1>4. m \in ChatType
  BY <1>1, <1>2, <1>3, UserMessages
<1>5. m.role = "system" /\ m.texts = texts /\ m.calls = <<>>
  BY DEF Chat
<1>6. W \in [Int -> Seq(StatementType)]
  BY <1>1, SaidAsTyped
<1>7. ChatStatements(m) = Flat(W, texts) \o <<>>
  <2> HIDE DEF m
  <2>1. ChatStatements(m) = Flat(SaidAs(m.role), m.texts) \o Flat(CalledAs, m.calls)
    BY <1>4, <1>5, ChatSays
  <2>2. Flat(CalledAs, <<>>) = <<>>
    BY FlatEmpty
  <2>3. QED
    BY <1>5, <2>1, <2>2
<1>8. k \in [AnyBlocks -> Seq(StatementType)]
  <2>1. ASSUME NEW b \in AnyBlocks
        PROVE  Flat(W, TextIn[b]) \in Seq(StatementType)
    <3>1. TextIn[b] \in Seq(Int)
      BY TextInTyped
    <3>2. QED
      BY <1>6, <3>1, FlatType
  <2>2. QED
    BY <2>1
<1>9. Composed(AnyBlocks, W, TextIn, k)
  BY DEF Composed
<1>10. \A b \in TextBlocks : k[b] = InBlock("system")[b]
  <2>1. ASSUME NEW b \in TextBlocks
        PROVE  k[b] = InBlock("system")[b]
    <3>1. b \in AnyBlocks /\ b.type = "text" /\ b.text \in Int
      BY DEF AnyBlocks, TextBlocks
    <3>2. TextIn[b] = <<b.text>>
      BY <3>1 DEF TextIn
    <3>3. FlatOfOne(W, b.text)
      BY <1>6, <3>1, FlatOne, Zenon
    <3>4. W[b.text] = <<Statement("system", "text", 0, b.text)>>
      BY <3>1 DEF SaidAs
    <3>5. k[b] = <<Statement("system", "text", 0, b.text)>>
      BY <3>1, <3>2, <3>3, <3>4 DEF FlatOfOne
    <3>6. InBlock("system")[b] = BlockStatements("system", b)
      BY <3>1 DEF InBlock
    <3>7. QED
      BY <3>1, <3>5, <3>6, BlockSays
  <2>2. QED
    BY <2>1
<1> HIDE DEF k, W, m, texts
<1>11. OnePass(W, TextIn, k, content)
  BY <1>1, <1>6, <1>8, <1>9, TextInTyped, FlatCompose, Zenon
<1>12. Flat(k, content) = Flat(InBlock("system"), content)
  BY <1>10, FlatAgree
<1>13. Flat(k, content) \in Seq(StatementType)
  BY <1>1, <1>8, FlatType
<1>14. ChatStatements(m) = Flat(InBlock("system"), content)
  BY <1>2, <1>7, <1>11, <1>12, <1>13, ConcatEmpty DEF OnePass
<1>15. QED
  BY <1>4, <1>14 DEF m

(* From Anthropic to chat, a message and a body.                            *)
ToChat == [m \in AnthropicType |-> convertAnthropicMessageToOpenAI(m)]

LEMMA AnthropicSent == AnthropicType \subseteq SentType
<1>1. /\ Seq(AssistantBlocks) \subseteq Seq(AnyBlocks)
      /\ Seq(UserBlocks) \subseteq Seq(AnyBlocks)
      /\ Seq(TextBlocks) \subseteq Seq(AnyBlocks)
  <2>1. AssistantBlocks \subseteq AnyBlocks /\ UserBlocks \subseteq AnyBlocks /\ TextBlocks \subseteq AnyBlocks
    BY DEF AssistantBlocks, UserBlocks, AnyBlocks
  <2> HIDE DEF AssistantBlocks, UserBlocks, AnyBlocks, TextBlocks
  <2>2. QED
    BY <2>1
<1>2. QED
  BY <1>1 DEF AnthropicType, SentType, Speakers

LEMMA MessageConverts ==
  ASSUME NEW m
  PROVE  /\ m.role = "assistant" =>
              convertAnthropicMessageToOpenAI(m) = convertAnthropicAssistantMessageToOpenAI(m.content)
         /\ m.role = "user" =>
              convertAnthropicMessageToOpenAI(m) = convertAnthropicUserMessageToOpenAI(m.content)
         /\ m.role = "system" =>
              convertAnthropicMessageToOpenAI(m) = <<Chat("system", TextsOf(m.content), <<>>)>>
BY Zenon DEF convertAnthropicMessageToOpenAI

LEMMA MessageKept ==
  ASSUME NEW m \in AnthropicType
  PROVE  /\ convertAnthropicMessageToOpenAI(m) \in Seq(ChatType)
         /\ \A what \in Whats :
              CountedIn(what, Flat(InChat, convertAnthropicMessageToOpenAI(m))) = CountedIn(what, InSent[m])
<1>0. m \in SentType /\ InSent[m] = Flat(InBlock(m.role), m.content)
  BY AnthropicSent DEF InSent
<1> DEFINE new == convertAnthropicMessageToOpenAI(m)
<1>1. CASE m.role = "assistant" /\ m.content \in Seq(AssistantBlocks)
  <2> DEFINE c == Chat("assistant", TextsOf(m.content), CallsOf(m.content))
  <2>1. new = <<c>>
    BY <1>1, MessageConverts DEF convertAnthropicAssistantMessageToOpenAI
  <2>2. c \in ChatType
    BY <1>1, AssistantSays
  <2>3. ASSUME NEW what \in Whats
        PROVE  CountedIn(what, ChatStatements(c)) = CountedIn(what, InSent[m])
    BY <1>0, <1>1, AssistantKept
  <2> HIDE DEF c
  <2>4. FlatOfOne(InChat, c)
    BY <2>2, InChatTyped, FlatOne, Zenon
  <2>5. Flat(InChat, new) = ChatStatements(c)
    BY <2>1, <2>2, <2>4 DEF FlatOfOne, InChat
  <2>6. new \in Seq(ChatType)
    BY <2>1, <2>2
  <2>7. QED
    BY <2>3, <2>5, <2>6
<1>2. CASE m.role = "user" /\ m.content \in Seq(UserBlocks)
  BY <1>0, <1>2, MessageConverts, UserKept
<1>3. CASE m.role = "system" /\ m.content \in Seq(TextBlocks)
  <2> DEFINE c == Chat("system", TextsOf(m.content), <<>>)
  <2>1. new = <<c>>
    BY <1>3, MessageConverts
  <2>2. c \in ChatType /\ ChatStatements(c) = Flat(InBlock("system"), m.content)
    BY <1>3, SystemKept
  <2> HIDE DEF c
  <2>4. FlatOfOne(InChat, c)
    BY <2>2, InChatTyped, FlatOne, Zenon
  <2>5. Flat(InChat, new) = InSent[m]
    BY <1>0, <1>3, <2>1, <2>2, <2>4 DEF FlatOfOne, InChat
  <2>6. new \in Seq(ChatType)
    BY <2>1, <2>2
  <2>7. QED
    BY <2>5, <2>6
<1>4. QED
  BY <1>1, <1>2, <1>3 DEF AnthropicType

LEMMA ToChatTyped == ToChat \in [AnthropicType -> Seq(ChatType)]
<1>1. \A m \in AnthropicType : convertAnthropicMessageToOpenAI(m) \in Seq(ChatType)
  BY MessageKept
<1>2. QED
  BY <1>1 DEF ToChat

LEMMA ToChatIs ==
  ASSUME NEW body \in Seq(AnthropicType)
  PROVE  convertAnthropicRequestToOpenAIChat(body) = Flat(ToChat, body)
<1>1. \A i \in DOMAIN body : body[i] \in AnthropicType
  OBVIOUS
<1>2. [i \in DOMAIN body |-> convertAnthropicMessageToOpenAI(body[i])] = Mapped(ToChat, body)
  BY <1>1 DEF Mapped, ToChat
<1>3. QED
  BY <1>2 DEF convertAnthropicRequestToOpenAIChat, FlattenMap, Flat

(* Sent on as a chat request, an Anthropic client's history says the same.  *)
LEMMA AnthropicKept ==
  ASSUME NEW body \in Seq(AnthropicType)
  PROVE  /\ convertAnthropicRequestToOpenAIChat(body) \in Seq(ChatType)
         /\ \A what \in Whats :
              CountedIn(what, Statements("chat", convertAnthropicRequestToOpenAIChat(body)))
              = CountedIn(what, Statements("anthropic", body))
<1> DEFINE new == Flat(ToChat, body)
           k == [m \in AnthropicType |-> Flat(InChat, ToChat[m])]
           S == Seq(StatementType)
<1>1. new \in Seq(ChatType)
  BY ToChatTyped, FlatType
<1>2. body \in Seq(SentType)
  BY AnthropicSent
<1>3. Statements("chat", new) = Flat(InChat, new) /\ Statements("anthropic", body) = Flat(InSent, body)
  <2> HIDE DEF new
  <2>1. QED
    BY <1>1, <1>2, BodySays
<1>4. k \in [AnthropicType -> Seq(StatementType)]
  <2>1. ASSUME NEW m \in AnthropicType
        PROVE  Flat(InChat, ToChat[m]) \in Seq(StatementType)
    <3>1. ToChat[m] \in Seq(ChatType)
      BY ToChatTyped
    <3>2. QED
      BY <3>1, InChatTyped, FlatType
  <2>2. QED
    BY <2>1
<1>5. Composed(AnthropicType, InChat, ToChat, k)
  BY DEF Composed
<1>6. ASSUME NEW what \in Whats, NEW m \in AnthropicType
      PROVE  CountsOf(what, AnthropicType, k)[m] = CountsOf(what, SentType, InSent)[m]
  <2>1. k[m] = Flat(InChat, convertAnthropicMessageToOpenAI(m)) /\ m \in SentType
    BY AnthropicSent DEF ToChat
  <2> HIDE DEF k
  <2>2. CountedIn(what, k[m]) = CountedIn(what, InSent[m])
    BY <2>1, MessageKept
  <2>3. QED
    BY <2>1, <2>2 DEF CountsOf
<1> HIDE DEF k
<1>7. OnePass(InChat, ToChat, k, body)
  BY <1>4, <1>5, ToChatTyped, InChatTyped, FlatCompose, Zenon
<1>8. ASSUME NEW what \in Whats
      PROVE  CountedIn(what, Flat(InChat, new)) = CountedIn(what, Flat(InSent, body))
  <2>1. CountedIn(what, Flat(k, body)) = Flat(CountsOf(what, AnthropicType, k), body)
    BY <1>4, CountedPass
  <2>2. CountedIn(what, Flat(InSent, body)) = Flat(CountsOf(what, SentType, InSent), body)
    BY <1>2, InSentTyped, CountedPass
  <2>3. Flat(CountsOf(what, AnthropicType, k), body) = Flat(CountsOf(what, SentType, InSent), body)
    BY <1>6, FlatAgree
  <2>4. QED
    BY <1>7, <2>1, <2>2, <2>3 DEF OnePass
<1>9. QED
  BY <1>1, <1>3, <1>8, ToChatIs

(* Texts and calls as blocks, and as items of the Responses API.            *)
BlocksFor(texts, calls) == Map(TextBlock, texts) \o Map(ToolUse, calls)
ItemsFor(texts, calls) ==
  Map(LAMBDA t : [type |-> "message", role |-> "assistant", text |-> t], texts)
  \o Map(restoreResponsesCustomToolCall, calls)

LEMMA BlocksForSay ==
  ASSUME NEW texts \in Seq(Int), NEW calls \in Seq(CallType), NEW role \in Speakers
  PROVE  /\ BlocksFor(texts, calls) \in Seq(TextBlocks \cup UseBlocks)
         /\ Flat(InBlock(role), BlocksFor(texts, calls)) = Flat(SaidAs(role), texts) \o Flat(CalledAs, calls)
<1> DEFINE B == TextBlocks \cup UseBlocks
           k == [t \in Int |-> TextBlock(t)]
           l == [call \in CallType |-> ToolUse(call)]
           W == InBlock(role)
           a == Mapped(k, texts)
           b == Mapped(l, calls)
<1>1. \A t \in Int : TextBlock(t) \in TextBlocks /\ TextBlock(t).type = "text" /\ TextBlock(t).text = t
  BY DEF TextBlock, TextBlocks
<1>2. \A call \in CallType : ToolUse(call) \in UseBlocks /\ ToolUse(call).type = "tool_use" /\ ToolUse(call).call = call
  BY DEF ToolUse, UseBlocks
<1>3. Map(TextBlock, texts) = a
  <2>1. \A i \in DOMAIN texts : texts[i] \in Int
    OBVIOUS
  <2>2. QED
    BY <2>1 DEF Map, Mapped
<1>4. Map(ToolUse, calls) = b
  <2>1. \A i \in DOMAIN calls : calls[i] \in CallType
    OBVIOUS
  <2>2. QED
    BY <2>1 DEF Map, Mapped
<1>5. k \in [Int -> B] /\ l \in [CallType -> B] /\ B \subseteq AnyBlocks
  BY <1>1, <1>2 DEF AnyBlocks
<1>6. \A t \in Int : W[k[t]] = SaidAs(role)[t]
  <2>1. ASSUME NEW t \in Int
        PROVE  W[k[t]] = SaidAs(role)[t]
    <3>1. k[t] \in AnyBlocks /\ k[t] = TextBlock(t)
      BY <1>5
    <3>2. W[k[t]] = BlockStatements(role, TextBlock(t))
      BY <3>1 DEF InBlock
    <3>3. QED
      BY <1>1, <3>2, BlockSays DEF SaidAs
  <2>2. QED
    BY <2>1
<1>7. \A call \in CallType : W[l[call]] = CalledAs[call]
  <2>1. ASSUME NEW call \in CallType
        PROVE  W[l[call]] = CalledAs[call]
    <3>1. l[call] \in AnyBlocks /\ l[call] = ToolUse(call)
      BY <1>5
    <3>2. W[l[call]] = BlockStatements(role, ToolUse(call))
      BY <3>1 DEF InBlock
    <3>3. QED
      BY <1>2, <3>2, BlockSays DEF CalledAs
  <2>2. QED
    BY <2>1
<1> HIDE DEF B, k, l, W
<1>8. a \in Seq(B)
  BY <1>5, MappedType
<1>9. b \in Seq(B)
  BY <1>5, MappedType
<1>10. Flat(W, a) = Flat(SaidAs(role), texts)
  BY <1>6, FlatMapped
<1>11. Flat(W, b) = Flat(CalledAs, calls)
  BY <1>7, FlatMapped
<1>12. W \in [AnyBlocks -> Seq(StatementType)]
  BY InBlockTyped DEF W
<1> HIDE DEF a, b
<1>13. a \in Seq(AnyBlocks) /\ b \in Seq(AnyBlocks)
  BY <1>5, <1>8, <1>9
<1>14. FlatJoins(W, a, b)
  BY <1>12, <1>13, FlatConcat, Zenon
<1>15. a \o b \in Seq(B)
  BY <1>8, <1>9
<1>16. BlocksFor(texts, calls) = a \o b
  BY <1>3, <1>4 DEF BlocksFor
<1>17. QED
  BY <1>10, <1>11, <1>14, <1>15, <1>16 DEF FlatJoins, B, W

LEMMA ItemsForSay ==
  ASSUME NEW texts \in Seq(Int), NEW calls \in Seq(CallType)
  PROVE  /\ ItemsFor(texts, calls) \in Seq(ItemType)
         /\ Flat(InItem, ItemsFor(texts, calls)) = Flat(SaidAs("assistant"), texts) \o Flat(CalledAs, calls)
<1> DEFINE item(t) == [type |-> "message", role |-> "assistant", text |-> t]
           k == [t \in Int |-> item(t)]
           l == [call \in CallType |-> restoreResponsesCustomToolCall(call)]
           a == Mapped(k, texts)
           b == Mapped(l, calls)
           A == "assistant"
<1>1. \A t \in Int : item(t) \in ItemType /\ item(t).type = "message" /\ item(t).text = t /\ item(t).role = A
  BY DEF ItemType, Speakers
<1>2. ASSUME NEW call \in CallType
      PROVE  /\ restoreResponsesCustomToolCall(call) \in ItemType
             /\ restoreResponsesCustomToolCall(call).type \in {"custom_tool_call", "function_call"}
             /\ restoreResponsesCustomToolCall(call).call.id = call.id
             /\ restoreResponsesCustomToolCall(call).call.value = call.value
  <2>1. CASE call.tool = "custom"
    <3> DEFINE d == [call EXCEPT !.under = FALSE]
    <3>1. d \in CallType /\ d.id = call.id /\ d.value = call.value
      BY DEF CallType
    <3>2. restoreResponsesCustomToolCall(call) = [type |-> "custom_tool_call", call |-> d]
      BY <2>1 DEF restoreResponsesCustomToolCall
    <3> HIDE DEF d
    <3>3. QED
      BY <3>1, <3>2 DEF ItemType
  <2>2. CASE call.tool # "custom"
    <3>2. restoreResponsesCustomToolCall(call) = [type |-> "function_call", call |-> call]
      BY <2>2 DEF restoreResponsesCustomToolCall
    <3>3. QED
      BY <3>2 DEF ItemType
  <2>3. QED
    BY <2>1, <2>2
<1>3. Map(LAMBDA t : [type |-> "message", role |-> "assistant", text |-> t], texts) = a
  <2>1. \A i \in DOMAIN texts : texts[i] \in Int
    OBVIOUS
  <2>2. QED
    BY <2>1 DEF Map, Mapped
<1>4. Map(restoreResponsesCustomToolCall, calls) = b
  <2>1. \A i \in DOMAIN calls : calls[i] \in CallType
    OBVIOUS
  <2>2. QED
    BY <2>1 DEF Map, Mapped
<1>5. k \in [Int -> ItemType] /\ l \in [CallType -> ItemType]
  BY <1>1, <1>2
<1>6. \A t \in Int : InItem[k[t]] = SaidAs(A)[t]
  <2>1. ASSUME NEW t \in Int
        PROVE  InItem[k[t]] = SaidAs(A)[t]
    <3>1. k[t] = item(t)
      OBVIOUS
    <3> HIDE DEF k, item, A
    <3>2. InItem[k[t]] = ItemStatements(item(t))
      BY <1>1, <3>1 DEF InItem
    <3>3. QED
      BY <1>1, <3>2, ItemSays DEF SaidAs
  <2>2. QED
    BY <2>1
<1>7. \A call \in CallType : InItem[l[call]] = CalledAs[call]
  <2>1. ASSUME NEW call \in CallType
        PROVE  InItem[l[call]] = CalledAs[call]
    <3> DEFINE it == restoreResponsesCustomToolCall(call)
    <3>1. l[call] = it
      OBVIOUS
    <3>2. it \in ItemType /\ (it.type = "custom_tool_call" \/ it.type = "function_call")
          /\ it.call.id = call.id /\ it.call.value = call.value
      BY <1>2
    <3> HIDE DEF l, it
    <3>3. InItem[l[call]] = ItemStatements(it)
      BY <3>1, <3>2 DEF InItem
    <3>4. ItemStatements(it) = <<CallStatement(it.call)>>
      BY <3>2, ItemSays
    <3>5. CallStatement(it.call) = CallStatement(call)
      BY <3>2 DEF CallStatement
    <3>6. QED
      BY <3>3, <3>4, <3>5 DEF CalledAs
  <2>2. QED
    BY <2>1
<1> HIDE DEF k, l
<1>8. a \in Seq(ItemType)
  BY <1>5, MappedType
<1>9. b \in Seq(ItemType)
  BY <1>5, MappedType
<1>10. Flat(InItem, a) = Flat(SaidAs(A), texts)
  BY <1>6, FlatMapped
<1>11. Flat(InItem, b) = Flat(CalledAs, calls)
  BY <1>7, FlatMapped
<1> HIDE DEF a, b
<1>14. FlatJoins(InItem, a, b)
  BY <1>8, <1>9, InItemTyped, FlatConcat, Zenon
<1>15. a \o b \in Seq(ItemType)
  BY <1>8, <1>9
<1>16. ItemsFor(texts, calls) = a \o b
  BY <1>3, <1>4 DEF ItemsFor
<1>17. QED
  BY <1>10, <1>11, <1>14, <1>15, <1>16 DEF FlatJoins

(* From chat to Anthropic: what the results say is decoded.                 *)
Heard == [f \in StatementType |-> <<Decoded(f)>>]
InHeard == [m \in ChatType |-> Flat(Heard, InChat[m])]

LEMMA DecodedTyped ==
  ASSUME NEW f \in StatementType
  PROVE  /\ Decoded(f) \in StatementType
         /\ Decoded(f).what = f.what /\ (Decoded(f).value = 0 <=> f.value = 0)
         /\ f.what # "result" => Decoded(f) = f
<1>1. f.value \in Int
  BY DEF StatementType
<1>2. decodeOpenAIToolResultContent(f.value) \in Int
      /\ (decodeOpenAIToolResultContent(f.value) = 0 <=> f.value = 0)
  BY <1>1 DEF decodeOpenAIToolResultContent
<1>3. QED
  BY <1>2 DEF Decoded, StatementType

LEMMA HeardTyped == Heard \in [StatementType -> Seq(StatementType)]
<1>1. \A f \in StatementType : <<Decoded(f)>> \in Seq(StatementType)
  BY DecodedTyped
<1>2. QED
  BY <1>1 DEF Heard

LEMMA InHeardTyped == InHeard \in [ChatType -> Seq(StatementType)]
<1>1. ASSUME NEW m \in ChatType
      PROVE  Flat(Heard, InChat[m]) \in Seq(StatementType)
  <2>1. InChat[m] \in Seq(StatementType)
    BY InChatTyped
  <2>2. QED
    BY <2>1, HeardTyped, FlatType
<1>2. QED
  BY <1>1 DEF InHeard

(* Texts and calls are heard as they were said.                             *)
LEMMA NoResultHeard ==
  ASSUME NEW role \in Speakers, NEW texts \in Seq(Int), NEW calls \in Seq(CallType)
  PROVE  LET s == Flat(SaidAs(role), texts) \o Flat(CalledAs, calls)
         IN Flat(Heard, s) = s
<1> DEFINE W == SaidAs(role)
           a == Flat(W, texts)
           b == Flat(CalledAs, calls)
<1>1. W \in [Int -> Seq(StatementType)]
  BY SaidAsTyped
<1>2. \A t \in Int : Flat(Heard, W[t]) = W[t]
  <2>1. ASSUME NEW t \in Int
        PROVE  Flat(Heard, W[t]) = W[t]
    <3> DEFINE f == Statement(role, "text", 0, t)
    <3>1. W[t] = <<f>>
      BY DEF SaidAs
    <3>2. f \in StatementType
      BY StatementsTyped
    <3>3. f.what # "result"
      BY DEF Statement
    <3> HIDE DEF f, W
    <3>4. FlatOfOne(Heard, f)
      BY <3>2, HeardTyped, FlatOne, Zenon
    <3>5. QED
      BY <3>1, <3>2, <3>3, <3>4, DecodedTyped DEF FlatOfOne, Heard
  <2>2. QED
    BY <2>1
<1>3. \A c \in CallType : Flat(Heard, CalledAs[c]) = CalledAs[c]
  <2>1. ASSUME NEW c \in CallType
        PROVE  Flat(Heard, CalledAs[c]) = CalledAs[c]
    <3> DEFINE f == CallStatement(c)
    <3>1. CalledAs[c] = <<f>>
      BY DEF CalledAs
    <3>2. f \in StatementType
      BY StatementsTyped
    <3>3. f.what # "result"
      BY DEF CallStatement, Statement
    <3> HIDE DEF f
    <3>4. FlatOfOne(Heard, f)
      BY <3>2, HeardTyped, FlatOne, Zenon
    <3>5. QED
      BY <3>1, <3>2, <3>3, <3>4, DecodedTyped DEF FlatOfOne, Heard
  <2>2. QED
    BY <2>1
<1> HIDE DEF W
<1>4. OnePass(Heard, W, W, texts)
  <2>1. Composed(Int, Heard, W, W)
    BY <1>2 DEF Composed
  <2>2. QED
    BY <1>1, <2>1, HeardTyped, FlatCompose, Zenon
<1>5. OnePass(Heard, CalledAs, CalledAs, calls)
  <2>1. Composed(CallType, Heard, CalledAs, CalledAs)
    BY <1>3 DEF Composed
  <2>2. QED
    BY <2>1, CalledAsTyped, HeardTyped, FlatCompose, Zenon
<1>6. a \in Seq(StatementType) /\ b \in Seq(StatementType)
  BY <1>1, CalledAsTyped, FlatType
<1> HIDE DEF a, b
<1>7. FlatJoins(Heard, a, b)
  BY <1>6, HeardTyped, FlatConcat, Zenon
<1>8. Flat(Heard, a) = a /\ Flat(Heard, b) = b
  BY <1>4, <1>5 DEF OnePass, a, b
<1>9. QED
  BY <1>7, <1>8 DEF FlatJoins, a, b, W

(* What counts alike is heard alike.                                        *)
LEMMA HeardCounts ==
  ASSUME NEW s \in Seq(StatementType), NEW what
  PROVE  CountedIn(what, Flat(Heard, s)) = Flat(Heard, CountedIn(what, s))
<1> DEFINE k == CountsOf(what, StatementType, Heard)
<1>1. CountedIn(what, Flat(Heard, s)) = Flat(k, s)
  BY HeardTyped, CountedPass
<1>2. ASSUME NEW f \in StatementType
      PROVE  k[f] = Flat(Heard, Counts(what)[f])
  <2> DEFINE d == Decoded(f)
  <2>1. d \in StatementType /\ d.what = f.what /\ (d.value = 0 <=> f.value = 0)
    BY DecodedTyped
  <2>2. Heard[f] = <<d>>
    BY DEF Heard
  <2>3. k[f] = CountedIn(what, <<d>>)
    BY <2>2 DEF CountsOf
  <2> HIDE DEF d, k
  <2>4. k[f] = IF f.what = what /\ f.value # 0 THEN <<d>> ELSE <<>>
    BY <2>1, <2>3, CountedOne
  <2>5. FlatOfOne(Heard, f)
    BY HeardTyped, FlatOne, Zenon
  <2>6. Flat(Heard, <<>>) = <<>>
    BY FlatEmpty
  <2>7. Counts(what)[f] = IF f.what = what /\ f.value # 0 THEN <<f>> ELSE <<>>
    BY DEF Counts
  <2>8. QED
    BY <2>2, <2>4, <2>5, <2>6, <2>7 DEF FlatOfOne
<1>3. Composed(StatementType, Heard, Counts(what), k)
  BY <1>2 DEF Composed
<1>4. k \in [StatementType -> Seq(StatementType)]
  <2>1. \A f \in StatementType : CountedIn(what, Heard[f]) \in Seq(StatementType)
    BY HeardTyped, CountedTyped
  <2>2. QED
    BY <2>1 DEF CountsOf
<1> HIDE DEF k
<1>5. OnePass(Heard, Counts(what), k, s)
  BY <1>3, <1>4, HeardTyped, CountsTyped, FlatCompose, Zenon
<1>6. QED
  BY <1>1, <1>5 DEF OnePass, CountedIn

LEMMA ChatMessageKept ==
  ASSUME NEW m \in ChatType
  PROVE  /\ convertOpenAIMessageToAnthropic(m) \in SentType
         /\ InSent[convertOpenAIMessageToAnthropic(m)] = InHeard[m]
<1> DEFINE new == convertOpenAIMessageToAnthropic(m)
<1>0. m.texts \in Seq(Int) /\ m.calls \in Seq(CallType) /\ m.answers \in Int /\ m.role \in Speakers \cup {"tool"}
  BY DEF ChatType
<1>1. CASE m.role = "tool"
  <2> DEFINE t == decodeOpenAIToolResultContent(m.texts[1])
             b == ToolResult(m.answers, t)
             U == "user"
             f == Statement("user", "result", m.answers, m.texts[1])
  <2>0. m.texts[1] \in Int
    BY <1>1 DEF ChatType
  <2>1. t \in Int
    BY <2>0 DEF decodeOpenAIToolResultContent
  <2>1a. f \in StatementType
    BY <1>0, <2>0, StatementsTyped
  <2>1b. Decoded(f) = Statement("user", "result", m.answers, t)
    BY DEF Decoded, Statement
  <2> HIDE DEF t
  <2>2. b \in ResultBlocks /\ b \in AnyBlocks /\ b.type = "tool_result" /\ b.id = m.answers /\ b.text = t
    BY <1>0, <2>1 DEF ToolResult, ResultBlocks, AnyBlocks
  <2>3. new = [role |-> U, content |-> <<b>>]
    BY <1>1 DEF convertOpenAIMessageToAnthropic, convertOpenAIToolMessageToAnthropic, t
  <2>3a. U \in Speakers
    BY DEF Speakers
  <2> HIDE DEF b, U
  <2>4. <<b>> \in Seq(AnyBlocks)
    BY <2>2
  <2>5. new \in SentType /\ new.role = U /\ new.content = <<b>>
    BY <2>3, <2>3a, <2>4 DEF SentType
  <2> HIDE DEF new
  <2>6. InBlock(U) \in [AnyBlocks -> Seq(StatementType)]
    BY <2>3a, InBlockTyped
  <2>7. FlatOfOne(InBlock(U), b)
    BY <2>2, <2>6, FlatOne, Zenon
  <2>8. InSent[new] = BlockStatements(U, b)
    BY <2>2, <2>5, <2>7 DEF FlatOfOne, InSent, InBlock
  <2>9. BlockStatements(U, b) = <<Statement("user", "result", b.id, b.text)>>
    BY <2>2, BlockSays
  <2>10. ChatStatements(m) = <<f>>
    BY <1>1, ToolSays
  <2> HIDE DEF f
  <2>11. FlatOfOne(Heard, f)
    BY <2>1a, HeardTyped, FlatOne, Zenon
  <2>12. InHeard[m] = <<Decoded(f)>>
    BY <2>1a, <2>10, <2>11 DEF InHeard, InChat, FlatOfOne, Heard
  <2>13. QED
    BY <2>1b, <2>2, <2>5, <2>8, <2>9, <2>12 DEF new
<1>2. CASE m.role # "tool"
  <2> DEFINE c == BlocksFor(m.texts, m.calls)
  <2>1. m.role \in Speakers
    BY <1>0, <1>2
  <2>2. c \in Seq(TextBlocks \cup UseBlocks)
    BY <1>0, <2>1, BlocksForSay
  <2>3. Flat(InBlock(m.role), c) = Flat(SaidAs(m.role), m.texts) \o Flat(CalledAs, m.calls)
    BY <1>0, <2>1, BlocksForSay
  <2>4. new = [role |-> m.role, content |-> c]
    BY <1>2 DEF convertOpenAIMessageToAnthropic, BlocksFor
  <2>5. c \in Seq(AnyBlocks)
    <3>1. TextBlocks \cup UseBlocks \subseteq AnyBlocks
      BY DEF AnyBlocks
    <3> HIDE DEF c
    <3> QED
      BY <2>2, <3>1
  <2> HIDE DEF c
  <2>6. new \in SentType /\ new.role = m.role /\ new.content = c
    BY <2>1, <2>4, <2>5 DEF SentType
  <2> HIDE DEF new
  <2>7. InSent[new] = Flat(InBlock(m.role), c)
    BY <2>6 DEF InSent
  <2>8. InChat[m] = Flat(SaidAs(m.role), m.texts) \o Flat(CalledAs, m.calls)
    BY <1>2, ChatSays DEF InChat
  <2>9. InHeard[m] = InChat[m]
    BY <1>0, <2>1, <2>8, NoResultHeard DEF InHeard
  <2>10. QED
    BY <2>3, <2>6, <2>7, <2>8, <2>9 DEF new
<1>3. QED
  BY <1>1, <1>2

LEMMA ChatKept ==
  ASSUME NEW body \in Seq(ChatType)
  PROVE  LET new == Map(convertOpenAIMessageToAnthropic, body)
         IN new \in Seq(SentType) /\ Statements("anthropic", new) = Flat(Heard, Statements("chat", body))
<1> DEFINE k == [m \in ChatType |-> convertOpenAIMessageToAnthropic(m)]
           new == Map(convertOpenAIMessageToAnthropic, body)
<1>1. \A i \in DOMAIN body : body[i] \in ChatType
  OBVIOUS
<1>2. new = Mapped(k, body)
  BY <1>1 DEF Map, Mapped
<1>3. k \in [ChatType -> SentType]
  BY ChatMessageKept
<1>4. \A m \in ChatType : InSent[k[m]] = InHeard[m]
  BY ChatMessageKept
<1> HIDE DEF k, new
<1>5. new \in Seq(SentType)
  BY <1>2, <1>3, MappedType
<1>6. Flat(InSent, new) = Flat(InHeard, body)
  BY <1>2, <1>4, FlatMapped
<1>7. OnePass(Heard, InChat, InHeard, body)
  <2>1. Composed(ChatType, Heard, InChat, InHeard)
    BY DEF Composed, InHeard
  <2>2. QED
    BY <2>1, InChatTyped, InHeardTyped, HeardTyped, FlatCompose, Zenon
<1>8. QED
  BY <1>5, <1>6, <1>7, BodySays DEF new, OnePass

(* From the Responses API to chat.                                          *)
ItemToChat == [it \in ItemType |-> convertResponsesItem(it)]

LEMMA ItemConverts ==
  ASSUME NEW it
  PROVE  /\ it.type = "message" => convertResponsesItem(it) = <<Chat(it.role, <<it.text>>, <<>>)>>
         /\ it.type = "custom_tool_call" =>
              convertResponsesItem(it) = <<Chat("assistant", <<>>, <<[it.call EXCEPT !.json = TRUE, !.under = TRUE]>>)>>
         /\ it.type = "function_call" => convertResponsesItem(it) = <<Chat("assistant", <<>>, <<it.call>>)>>
         /\ it.type = "custom_tool_call_output" => convertResponsesItem(it) = <<ToolMessage(it.id, it.text)>>
         /\ it.type = "function_call_output" => convertResponsesItem(it) = <<ToolMessage(it.id, it.text)>>
BY Zenon DEF convertResponsesItem

LEMMA OneText ==
  ASSUME NEW role \in Speakers, NEW t \in Int
  PROVE  /\ Chat(role, <<t>>, <<>>) \in ChatType
         /\ ChatStatements(Chat(role, <<t>>, <<>>)) = <<Statement(role, "text", 0, t)>>
<1> DEFINE m == Chat(role, <<t>>, <<>>)
<1>0. <<t>> \in Seq(Int)
  OBVIOUS
<1>1. m \in ChatType
  <2> DEFINE texts == <<t>>
  <2> HIDE DEF texts
  <2>1. Chat(role, texts, <<>>) \in ChatType
    BY <1>0, UserMessages DEF texts
  <2>2. QED
    BY <2>1 DEF texts
<1>2. m.role = role /\ m.texts = <<t>> /\ m.calls = <<>> /\ role # "tool"
  BY DEF Chat, Speakers
<1> HIDE DEF m
<1>3. ChatStatements(m) = Flat(SaidAs(role), <<t>>) \o Flat(CalledAs, <<>>)
  BY <1>1, <1>2, ChatSays
<1>4. FlatOfOne(SaidAs(role), t)
  BY SaidAsTyped, FlatOne, Zenon
<1>5. Flat(SaidAs(role), <<t>>) = <<Statement(role, "text", 0, t)>>
  BY <1>4 DEF FlatOfOne, SaidAs
<1>6. Flat(CalledAs, <<>>) = <<>>
  BY FlatEmpty
<1>7. <<Statement(role, "text", 0, t)>> \in Seq(StatementType)
  BY StatementsTyped
<1>8. ChatStatements(m) = <<Statement(role, "text", 0, t)>>
  BY <1>3, <1>5, <1>6, <1>7, ConcatEmpty
<1>9. QED
  BY <1>1, <1>8 DEF m

LEMMA OneCall ==
  ASSUME NEW call \in CallType
  PROVE  /\ Chat("assistant", <<>>, <<call>>) \in ChatType
         /\ ChatStatements(Chat("assistant", <<>>, <<call>>)) = <<CallStatement(call)>>
<1> DEFINE m == Chat("assistant", <<>>, <<call>>)
<1>0. <<call>> \in Seq(CallType) /\ <<>> \in Seq(Int)
  OBVIOUS
<1>1. m \in ChatType
  BY <1>0 DEF Chat, ChatType, Speakers
<1>2. m.role = "assistant" /\ m.texts = <<>> /\ m.calls = <<call>> /\ m.role # "tool"
  BY DEF Chat
<1> HIDE DEF m
<1>3. ChatStatements(m) = Flat(SaidAs(m.role), <<>>) \o Flat(CalledAs, <<call>>)
  BY <1>1, <1>2, ChatSays
<1>4. FlatOfOne(CalledAs, call)
  BY CalledAsTyped, FlatOne, Zenon
<1>5. Flat(CalledAs, <<call>>) = <<CallStatement(call)>>
  BY <1>4 DEF FlatOfOne, CalledAs
<1>6. Flat(SaidAs(m.role), <<>>) = <<>>
  BY FlatEmpty
<1>7. <<CallStatement(call)>> \in Seq(StatementType)
  BY StatementsTyped
<1>8. ChatStatements(m) = <<CallStatement(call)>>
  BY <1>3, <1>5, <1>6, <1>7, ConcatEmpty
<1>9. QED
  BY <1>1, <1>8 DEF m

LEMMA OneResult ==
  ASSUME NEW id \in Int, NEW t \in Int
  PROVE  /\ ToolMessage(id, t) \in ChatType
         /\ ChatStatements(ToolMessage(id, t)) = <<Statement("user", "result", id, t)>>
<1>1. ToolMessage(id, t) \in ChatType
  BY UserMessages
<1>2. ToolMessage(id, t).role = "tool" /\ ToolMessage(id, t).answers = id /\ ToolMessage(id, t).texts[1] = t
  BY DEF ToolMessage
<1>3. QED
  BY <1>1, <1>2, ToolSays

LEMMA ItemKept ==
  ASSUME NEW it \in ItemType
  PROVE  \E m \in ChatType : convertResponsesItem(it) = <<m>> /\ ChatStatements(m) = ItemStatements(it)
<1>1. CASE it.type = "message" /\ it.role \in Speakers /\ it.text \in Int
  <2>1. ItemStatements(it) = <<Statement(it.role, "text", 0, it.text)>>
    BY <1>1, ItemSays
  <2>2. convertResponsesItem(it) = <<Chat(it.role, <<it.text>>, <<>>)>>
    BY <1>1, ItemConverts
  <2>3. QED
    BY <1>1, <2>1, <2>2, OneText
<1>2. CASE it.type = "custom_tool_call" /\ it.call \in CallType
  <2> DEFINE d == [it.call EXCEPT !.json = TRUE, !.under = TRUE]
  <2>1. ItemStatements(it) = <<CallStatement(it.call)>>
    BY <1>2, ItemSays
  <2>2. convertResponsesItem(it) = <<Chat("assistant", <<>>, <<d>>)>>
    BY <1>2, ItemConverts
  <2>3. d \in CallType /\ d.id = it.call.id /\ d.value = it.call.value
    BY <1>2 DEF CallType
  <2> HIDE DEF d
  <2>4. CallStatement(d) = CallStatement(it.call)
    BY <2>3 DEF CallStatement
  <2>5. QED
    BY <2>1, <2>2, <2>3, <2>4, OneCall
<1>3. CASE it.type = "function_call" /\ it.call \in CallType
  <2>1. ItemStatements(it) = <<CallStatement(it.call)>>
    BY <1>3, ItemSays
  <2>2. convertResponsesItem(it) = <<Chat("assistant", <<>>, <<it.call>>)>>
    BY <1>3, ItemConverts
  <2>3. QED
    BY <1>3, <2>1, <2>2, OneCall
<1>4. CASE (it.type = "custom_tool_call_output" \/ it.type = "function_call_output") /\ it.id \in Int /\ it.text \in Int
  <2>1. ItemStatements(it) = <<Statement("user", "result", it.id, it.text)>>
    BY <1>4, ItemSays
  <2>2. convertResponsesItem(it) = <<ToolMessage(it.id, it.text)>>
    BY <1>4, ItemConverts
  <2>3. QED
    BY <1>4, <2>1, <2>2, OneResult
<1>5. QED
  BY <1>1, <1>2, <1>3, <1>4 DEF ItemType

LEMMA ItemToChatTyped == ItemToChat \in [ItemType -> Seq(ChatType)]
<1>1. ASSUME NEW it \in ItemType
      PROVE  convertResponsesItem(it) \in Seq(ChatType)
  <2>1. PICK m \in ChatType : convertResponsesItem(it) = <<m>>
    BY ItemKept
  <2>2. <<m>> \in Seq(ChatType)
    OBVIOUS
  <2>3. QED
    BY <2>1, <2>2
<1>2. QED
  BY <1>1 DEF ItemToChat

LEMMA ItemToChatIs ==
  ASSUME NEW body \in Seq(ItemType)
  PROVE  convertResponsesInputToChatMessages(body) = Flat(ItemToChat, body)
<1>1. \A i \in DOMAIN body : body[i] \in ItemType
  OBVIOUS
<1>2. [i \in DOMAIN body |-> convertResponsesItem(body[i])] = Mapped(ItemToChat, body)
  BY <1>1 DEF Mapped, ItemToChat
<1>3. QED
  BY <1>2 DEF convertResponsesInputToChatMessages, FlattenMap, Flat

LEMMA ItemsKept ==
  ASSUME NEW body \in Seq(ItemType)
  PROVE  LET new == convertResponsesInputToChatMessages(body)
         IN new \in Seq(ChatType) /\ Statements("chat", new) = Statements("responses", body)
<1> DEFINE new == Flat(ItemToChat, body)
<1>1. new \in Seq(ChatType)
  BY ItemToChatTyped, FlatType
<1>2. Composed(ItemType, InChat, ItemToChat, InItem)
  <2>1. ASSUME NEW it \in ItemType
        PROVE  InItem[it] = Flat(InChat, ItemToChat[it])
    <3>1. PICK m \in ChatType : convertResponsesItem(it) = <<m>> /\ ChatStatements(m) = ItemStatements(it)
      BY ItemKept
    <3>2. FlatOfOne(InChat, m)
      BY InChatTyped, FlatOne, Zenon
    <3>3. QED
      BY <3>1, <3>2 DEF FlatOfOne, InItem, ItemToChat, InChat
  <2>2. QED
    BY <2>1 DEF Composed
<1>3. OnePass(InChat, ItemToChat, InItem, body)
  BY <1>2, ItemToChatTyped, InItemTyped, InChatTyped, FlatCompose, Zenon
<1>4. Statements("chat", new) = Flat(InChat, new)
  <2> HIDE DEF new
  <2>1. QED
    BY <1>1, BodySays
<1>5. Statements("responses", body) = Flat(InItem, body)
  BY BodySays
<1>6. QED
  BY <1>1, <1>3, <1>4, <1>5, ItemToChatIs DEF OnePass

(***************************************************************************)
(* The answers, as the client gets them.                                   *)
(***************************************************************************)
FormType(form) ==
  CASE form = "chat" -> ChatType [] form = "anthropic" -> AnthropicType [] form = "responses" -> ItemType

LEMMA FormTypes ==
  FormType("chat") = ChatType /\ FormType("anthropic") = AnthropicType /\ FormType("responses") = ItemType
BY Zenon DEF FormType

LEMMA Adapts ==
  ASSUME NEW answer
  PROVE  /\ \A from : Adapted("responses", from, answer) = adaptChatResponseToResponses(answer)
         /\ Adapted("anthropic", "chat", answer) = <<adaptOpenAIResponseToAnthropic(answer)>>
         /\ Adapted("anthropic", "anthropic", answer) = <<[role |-> "assistant", content |-> answer]>>
         /\ Adapted("chat", "anthropic", answer) = <<adaptAnthropicResponseToOpenAI(answer)>>
         /\ Adapted("chat", "chat", answer) = <<answer>>
BY Zenon DEF Adapted

(* A message of the history alone.                                          *)
LEMMA AloneSays ==
  /\ \A m \in ChatType : Statements("chat", <<m>>) = ChatStatements(m)
  /\ \A m \in SentType : Statements("anthropic", <<m>>) = InSent[m]
  /\ \A it \in ItemType : Statements("responses", <<it>>) = ItemStatements(it)
<1>1. ASSUME NEW m \in ChatType
      PROVE  Statements("chat", <<m>>) = ChatStatements(m)
  <2>1. FlatOfOne(InChat, m)
    BY InChatTyped, FlatOne, Zenon
  <2> DEFINE s == <<m>>
  <2>1a. s \in Seq(ChatType)
    OBVIOUS
  <2> HIDE DEF s
  <2>2a. Statements("chat", s) = Flat(InChat, s)
    BY <2>1a, BodySays
  <2>2. Statements("chat", <<m>>) = Flat(InChat, <<m>>)
    BY <2>2a DEF s
  <2>3. QED
    BY <2>1, <2>2 DEF FlatOfOne, InChat
<1>2. ASSUME NEW m \in SentType
      PROVE  Statements("anthropic", <<m>>) = InSent[m]
  <2>1. FlatOfOne(InSent, m)
    BY InSentTyped, FlatOne, Zenon
  <2> DEFINE s == <<m>>
  <2>1a. s \in Seq(SentType)
    OBVIOUS
  <2> HIDE DEF s
  <2>2a. Statements("anthropic", s) = Flat(InSent, s)
    BY <2>1a, BodySays
  <2>2. Statements("anthropic", <<m>>) = Flat(InSent, <<m>>)
    BY <2>2a DEF s
  <2>3. QED
    BY <2>1, <2>2 DEF FlatOfOne
<1>3. ASSUME NEW it \in ItemType
      PROVE  Statements("responses", <<it>>) = ItemStatements(it)
  <2>1. FlatOfOne(InItem, it)
    BY InItemTyped, FlatOne, Zenon
  <2> DEFINE s == <<it>>
  <2>1a. s \in Seq(ItemType)
    OBVIOUS
  <2> HIDE DEF s
  <2>2a. Statements("responses", s) = Flat(InItem, s)
    BY <2>1a, BodySays
  <2>2. Statements("responses", <<it>>) = Flat(InItem, <<it>>)
    BY <2>2a DEF s
  <2>3. QED
    BY <2>1, <2>2 DEF FlatOfOne, InItem
<1>4. QED
  BY <1>1, <1>2, <1>3

(* An empty text counts for nothing.                                        *)
LEMMA SilenceCounts ==
  ASSUME NEW what
  PROVE  CountedIn(what, <<Statement("assistant", "text", 0, 0)>>) = <<>>
<1>1. Statement("assistant", "text", 0, 0) \in StatementType
  BY StatementsTyped DEF Speakers
<1>2. Statement("assistant", "text", 0, 0).value = 0
  BY DEF Statement
<1>3. QED
  BY <1>1, <1>2, CountedOne

LEMMA ResponsesGets ==
  ASSUME NEW m \in ChatType, m.role = "assistant", NEW what
  PROVE  /\ adaptChatResponseToResponses(m) \in Seq(ItemType)
         /\ CountedIn(what, Statements("responses", adaptChatResponseToResponses(m))) = CountedIn(what, ChatStatements(m))
<1> DEFINE items == ItemsFor(m.texts, m.calls)
           it == [type |-> "message", role |-> "assistant", text |-> 0]
<1>1. m.texts \in Seq(Int) /\ m.calls \in Seq(CallType)
  BY DEF ChatType
<1>2. items \in Seq(ItemType)
  BY <1>1, ItemsForSay
<1>3. Flat(InItem, items) = ChatStatements(m)
  BY <1>1, ItemsForSay, ChatSays
<1>4. adaptChatResponseToResponses(m) = IF items = <<>> THEN <<it>> ELSE items
  BY DEF adaptChatResponseToResponses, ItemsFor
<1>5. it \in ItemType /\ it.type = "message" /\ it.role = "assistant" /\ it.text = 0
  BY DEF ItemType, Speakers
<1> HIDE DEF items, it
<1>6. CASE items # <<>>
  BY <1>2, <1>3, <1>4, <1>6, BodySays
<1>7. CASE items = <<>>
  <2>1. Flat(InItem, <<>>) = <<>>
    BY FlatEmpty
  <2>2. Statements("responses", <<it>>) = <<Statement("assistant", "text", 0, 0)>>
    BY <1>5, AloneSays, ItemSays
  <2>3. QED
    BY <1>3, <1>4, <1>5, <1>7, <2>1, <2>2, SilenceCounts, CountedNone
<1>8. QED
  BY <1>6, <1>7

LEMMA AnthropicGets ==
  ASSUME NEW m \in ChatType, m.role = "assistant", NEW what
  PROVE  /\ adaptOpenAIResponseToAnthropic(m) \in AnthropicType
         /\ CountedIn(what, InSent[adaptOpenAIResponseToAnthropic(m)]) = CountedIn(what, ChatStatements(m))
<1> DEFINE blocks == BlocksFor(m.texts, m.calls)
           A == "assistant"
           new == adaptOpenAIResponseToAnthropic(m)
<1>0. A \in Speakers
  BY DEF Speakers
<1>1. m.texts \in Seq(Int) /\ m.calls \in Seq(CallType)
  BY DEF ChatType
<1>2. blocks \in Seq(TextBlocks \cup UseBlocks)
  BY <1>0, <1>1, BlocksForSay
<1>3. Flat(InBlock(A), blocks) = ChatStatements(m)
  BY <1>0, <1>1, BlocksForSay, ChatSays
<1>4. new = [role |-> A, content |-> IF blocks = <<>> THEN <<TextBlock(0)>> ELSE blocks]
  BY DEF adaptOpenAIResponseToAnthropic, BlocksFor
<1>5. TextBlock(0) \in TextBlocks /\ TextBlock(0).type = "text" /\ TextBlock(0).text = 0
  BY DEF TextBlock, TextBlocks
<1>6. TextBlocks \cup UseBlocks \subseteq AssistantBlocks /\ AssistantBlocks \subseteq AnyBlocks
  BY DEF AssistantBlocks, AnyBlocks
<1> HIDE DEF blocks, new
<1>7. blocks \in Seq(AssistantBlocks) /\ <<TextBlock(0)>> \in Seq(AssistantBlocks)
  BY <1>2, <1>5, <1>6
<1>8. new \in AnthropicType /\ new.role = A
  BY <1>4, <1>7 DEF AnthropicType
<1>9. new \in SentType
  BY <1>8, AnthropicSent
<1>10. InSent[new] = Flat(InBlock(A), new.content)
  BY <1>8, <1>9 DEF InSent
<1>11. CASE blocks # <<>>
  BY <1>3, <1>4, <1>8, <1>10, <1>11 DEF new
<1>12. CASE blocks = <<>>
  <2>1. Flat(InBlock(A), <<>>) = <<>>
    BY FlatEmpty
  <2>2. new.content = <<TextBlock(0)>>
    BY <1>4, <1>12
  <2>3. TextBlock(0) \in AnyBlocks
    BY <1>5, <1>6
  <2>4. InBlock(A) \in [AnyBlocks -> Seq(StatementType)]
    BY <1>0, InBlockTyped
  <2>5. FlatOfOne(InBlock(A), TextBlock(0))
    BY <2>3, <2>4, FlatOne, Zenon
  <2>6. InSent[new] = BlockStatements(A, TextBlock(0))
    BY <1>10, <2>2, <2>3, <2>5 DEF FlatOfOne, InBlock
  <2>7. InSent[new] = <<Statement(A, "text", 0, 0)>>
    BY <1>5, <2>6, BlockSays
  <2>8. QED
    BY <1>3, <1>8, <1>12, <2>1, <2>7, SilenceCounts, CountedNone DEF new
<1>13. QED
  BY <1>11, <1>12

(***************************************************************************)
(* The calls of a turn and their results, as a chat provider reads them.   *)
(***************************************************************************)
AnsweredAt(body, i, calls) ==
  /\ i + Len(calls) <= Len(body)
  /\ {body[j].answers : j \in i + 1..i + Len(calls)} = {calls[k].id : k \in 1..Len(calls)}
CallsReturned(body, i) == AnsweredAt(body, i, body[i].calls)
Closed(body) == \A i \in 1..Len(body) : Len(body[i].calls) > 0 => CallsReturned(body, i)

QuietType == {m \in ChatType : m.calls = <<>>}
IdsOf(s) == {s[k].id : k \in 1..Len(s)}
AnswersOf(s) == {s[k].answers : k \in 1..Len(s)}
Waiting(body, calls) ==
  \E d \in Seq(ChatType), m \in ChatType :
    /\ body = d \o <<m>> /\ Closed(d)
    /\ Len(m.calls) = Len(calls) /\ IdsOf(m.calls) = IdsOf(calls)

JoinsAt(S, a, b) ==
  /\ a \o b \in Seq(S) /\ Len(a) \in Nat /\ Len(b) \in Nat /\ Len(a \o b) = Len(a) + Len(b)
  /\ \A i \in 1..Len(a) : (a \o b)[i] = a[i]
  /\ \A i \in 1..Len(b) : (a \o b)[Len(a) + i] = b[i]

LEMMA JoinedAt ==
  ASSUME NEW S, NEW a \in Seq(S), NEW b \in Seq(S)
  PROVE  JoinsAt(S, a, b)
BY DEF JoinsAt

LEMMA CallsCounted ==
  ASSUME NEW m \in ChatType
  PROVE  m.calls \in Seq(CallType) /\ Len(m.calls) \in Nat
BY DEF ChatType

LEMMA ClosedJoin ==
  ASSUME NEW a \in Seq(ChatType), NEW b \in Seq(ChatType), Closed(a), Closed(b)
  PROVE  Closed(a \o b)
<1> DEFINE c == a \o b
           m == Len(a)
           n == Len(b)
<1>1. /\ c \in Seq(ChatType) /\ m \in Nat /\ n \in Nat /\ Len(c) = m + n
      /\ \A i \in 1..m : c[i] = a[i]
      /\ \A i \in 1..n : c[m + i] = b[i]
  <2>1. JoinsAt(ChatType, a, b)
    BY JoinedAt, Zenon
  <2>2. QED
    BY <2>1 DEF JoinsAt
<1> HIDE DEF c, m, n
<1>2. ASSUME NEW i \in 1..m + n, Len(c[i].calls) > 0
      PROVE  CallsReturned(c, i)
  <2>1. CASE i <= m
    <3>1. i \in 1..m /\ c[i] = a[i] /\ a[i] \in ChatType
      BY <1>1, <2>1 DEF m
    <3>2. CallsReturned(a, i)
      BY <1>2, <3>1 DEF Closed, m
    <3> DEFINE p == Len(a[i].calls)
    <3>3. p \in Nat
      BY <3>1, CallsCounted
    <3>4. i + p <= m /\ {a[j].answers : j \in i + 1..i + p} = {a[i].calls[k].id : k \in 1..p}
      BY <3>2 DEF CallsReturned, AnsweredAt, m, p
    <3> HIDE DEF p
    <3>5. \A j \in i + 1..i + p : c[j] = a[j]
      BY <1>1, <3>1, <3>3, <3>4
    <3>6. {c[j].answers : j \in i + 1..i + p} = {a[j].answers : j \in i + 1..i + p}
      BY <3>5
    <3>7. i + p <= m + n
      BY <1>1, <3>1, <3>3, <3>4
    <3>8. AnsweredAt(c, i, a[i].calls)
      BY <1>1, <3>4, <3>6, <3>7 DEF AnsweredAt, p
    <3>9. QED
      BY <3>1, <3>8 DEF CallsReturned
  <2>2. CASE i > m
    <3> DEFINE h == i - m
    <3>1. h \in 1..n /\ i = m + h /\ c[i] = b[h] /\ b[h] \in ChatType
      BY <1>1, <2>2 DEF n
    <3> HIDE DEF h
    <3>2. CallsReturned(b, h)
      BY <1>2, <3>1 DEF Closed, n
    <3> DEFINE p == Len(b[h].calls)
    <3>3. p \in Nat
      BY <3>1, CallsCounted
    <3>4. h + p <= n /\ {b[j].answers : j \in h + 1..h + p} = {b[h].calls[k].id : k \in 1..p}
      BY <3>2 DEF CallsReturned, AnsweredAt, n, p
    <3> HIDE DEF p
    <3>4a. m \in Nat /\ n \in Nat /\ p \in Nat /\ h \in 1..n /\ i = m + h /\ h + p <= n
      BY <1>1, <3>1, <3>3, <3>4
    <3>5. \A j \in h + 1..h + p : c[m + j] = b[j] /\ m + j \in i + 1..i + p
      <4>1. ASSUME NEW j \in h + 1..h + p
            PROVE  j \in 1..n /\ m + j \in i + 1..i + p
        BY ONLY <3>4a, j \in h + 1..h + p
      <4>2. QED
        BY <1>1, <4>1
    <3>6. \A j \in i + 1..i + p : c[j] = b[j - m] /\ j - m \in h + 1..h + p
      <4>1. ASSUME NEW j \in i + 1..i + p
            PROVE  c[j] = b[j - m] /\ j - m \in h + 1..h + p
        <5>1. j - m \in h + 1..h + p /\ m + (j - m) = j
          BY ONLY <3>4a, j \in i + 1..i + p
        <5>2. QED
          BY <3>5, <5>1
      <4>2. QED
        BY <4>1
    <3>7. {c[j].answers : j \in i + 1..i + p} = {b[j].answers : j \in h + 1..h + p}
      <4>1. ASSUME NEW j \in i + 1..i + p
            PROVE  c[j].answers \in {b[x].answers : x \in h + 1..h + p}
        BY <3>6
      <4>2. ASSUME NEW j \in h + 1..h + p
            PROVE  b[j].answers \in {c[x].answers : x \in i + 1..i + p}
        BY <3>5
      <4>3. QED
        BY <4>1, <4>2
    <3>8. i + p <= m + n
      BY <1>1, <3>1, <3>3, <3>4
    <3>9. AnsweredAt(c, i, b[h].calls)
      BY <1>1, <3>4, <3>7, <3>8 DEF AnsweredAt, p
    <3>10. QED
      BY <3>1, <3>9 DEF CallsReturned
  <2>3. QED
    BY <1>1, <2>1, <2>2
<1>3. QED
  BY <1>1, <1>2 DEF Closed, c

LEMMA QuietClosed ==
  ASSUME NEW b \in Seq(QuietType)
  PROVE  b \in Seq(ChatType) /\ Closed(b)
<1>1. QuietType \subseteq ChatType /\ \A m \in QuietType : Len(m.calls) = 0
  BY DEF QuietType
<1>2. \A i \in 1..Len(b) : b[i] \in QuietType
  OBVIOUS
<1> HIDE DEF QuietType
<1>3. QED
  BY <1>1, <1>2 DEF Closed

LEMMA TurnCloses ==
  ASSUME NEW m \in ChatType, NEW t \in Seq(QuietType), Len(t) = Len(m.calls), AnswersOf(t) = IdsOf(m.calls)
  PROVE  Closed(<<m>> \o t)
<1> DEFINE a == <<m>>
           c == a \o t
           n == Len(t)
<1>1. t \in Seq(ChatType) /\ Closed(t) /\ a \in Seq(ChatType) /\ Len(a) = 1 /\ a[1] = m
  BY QuietClosed
<1>2. n \in Nat /\ \A i \in 1..n : t[i] \in QuietType
  OBVIOUS
<1> HIDE DEF a
<1>3. /\ c \in Seq(ChatType) /\ Len(c) = 1 + n
      /\ c[1] = m
      /\ \A i \in 1..n : c[1 + i] = t[i]
  <2>0. JoinsAt(ChatType, a, t)
    BY <1>1, JoinedAt, Zenon
  <2>1. \A i \in 1..Len(a) : c[i] = a[i]
    BY <2>0 DEF JoinsAt
  <2>2. c \in Seq(ChatType) /\ Len(c) = Len(a) + n /\ \A i \in 1..n : c[Len(a) + i] = t[i]
    BY <2>0 DEF JoinsAt
  <2>3. QED
    BY <1>1, <2>1, <2>2
<1> HIDE DEF c, n
<1>4. ASSUME NEW i \in 1..1 + n, Len(c[i].calls) > 0
      PROVE  CallsReturned(c, i)
  <2>1. i = 1
    <3>1. ASSUME i # 1
          PROVE  FALSE
      <4>1. i - 1 \in 1..n /\ 1 + (i - 1) = i
        BY <1>2, <3>1
      <4>2. c[i] \in QuietType
        BY <1>2, <1>3, <4>1
      <4>3. QED
        BY <1>4, <4>2 DEF QuietType
    <3>2. QED
      BY <3>1
  <2>2. Len(m.calls) = n
    BY DEF n
  <2>3. {c[j].answers : j \in 1 + 1..1 + n} = {t[k].answers : k \in 1..n}
    <3>1. \A j \in 1 + 1..1 + n : j - 1 \in 1..n /\ c[j] = t[j - 1]
      <4>1. ASSUME NEW j \in 1 + 1..1 + n
            PROVE  j - 1 \in 1..n /\ c[j] = t[j - 1]
        <5>1. j - 1 \in 1..n /\ 1 + (j - 1) = j
          BY <1>2
        <5>2. QED
          BY <1>3, <5>1
      <4>2. QED
        BY <4>1
    <3>2. \A k \in 1..n : 1 + k \in 1 + 1..1 + n /\ c[1 + k] = t[k]
      BY <1>2, <1>3
    <3>3. QED
      BY <3>1, <3>2
  <2>4. {t[k].answers : k \in 1..n} = {m.calls[k].id : k \in 1..n}
    BY <2>2 DEF AnswersOf, IdsOf, n
  <2>5. {c[j].answers : j \in 1 + 1..1 + Len(m.calls)} = {m.calls[k].id : k \in 1..Len(m.calls)}
    BY <2>2, <2>3, <2>4
  <2>5a. 1 + Len(m.calls) <= Len(c)
    BY <1>2, <1>3, <2>2
  <2>6. AnsweredAt(c, 1, m.calls)
    BY ONLY <2>5, <2>5a, Zenon DEF AnsweredAt
  <2>7. c[i].calls = m.calls
    BY <1>3, <2>1
  <2>8. QED
    BY <2>1, <2>6, <2>7 DEF CallsReturned
<1>5. QED
  BY <1>3, <1>4 DEF Closed, c, a

LEMMA ClosedTurns ==
  ASSUME NEW c \in Seq(ChatType), Closed(c)
  PROVE  TurnsClosed(c)
<1>1. DOMAIN c = 1..Len(c)
  OBVIOUS
<1>2. QED
  BY <1>1 DEF Closed, TurnsClosed, CallsReturned, AnsweredAt

LEMMA WaitingTurns ==
  ASSUME NEW c, NEW calls, Waiting(c, calls)
  PROVE  TurnsClosed(c)
<1>1. PICK d \in Seq(ChatType), m \in ChatType : c = d \o <<m>> /\ Closed(d)
  BY DEF Waiting
<1> DEFINE a == <<m>>
           n == Len(d)
<1>2. a \in Seq(ChatType) /\ Len(a) = 1
  OBVIOUS
<1> HIDE DEF a
<1>3. /\ d \o a \in Seq(ChatType) /\ n \in Nat /\ Len(d \o a) = n + 1
      /\ \A i \in 1..n : (d \o a)[i] = d[i]
  <2>1. JoinsAt(ChatType, d, a)
    BY <1>2, JoinedAt, Zenon
  <2>2. QED
    BY <1>2, <2>1 DEF JoinsAt
<1>4. c \in Seq(ChatType) /\ Len(c) = n + 1 /\ \A i \in 1..n : c[i] = d[i]
  BY <1>1, <1>3 DEF a
<1> HIDE DEF n
<1>5. ASSUME NEW i \in DOMAIN c, Len(c[i].calls) > 0, i < Len(c)
      PROVE  CallsReturned(c, i)
  <2>1. i \in 1..n /\ c[i] = d[i] /\ d[i] \in ChatType
    BY <1>3, <1>4, <1>5 DEF n
  <2>2. CallsReturned(d, i)
    BY <1>1, <1>5, <2>1 DEF Closed, n
  <2> DEFINE p == Len(d[i].calls)
  <2>3. p \in Nat
    BY <2>1, CallsCounted
  <2>4. i + p <= n /\ {d[j].answers : j \in i + 1..i + p} = {d[i].calls[k].id : k \in 1..p}
    BY <2>2 DEF CallsReturned, AnsweredAt, n, p
  <2> HIDE DEF p
  <2>5. \A j \in i + 1..i + p : c[j] = d[j]
    BY <1>3, <1>4, <2>1, <2>3, <2>4
  <2>6. {c[j].answers : j \in i + 1..i + p} = {d[j].answers : j \in i + 1..i + p}
    BY <2>5
  <2>7. i + p <= n + 1
    BY <1>3, <2>1, <2>3, <2>4
  <2>8. AnsweredAt(c, i, d[i].calls)
    BY <1>4, <2>4, <2>6, <2>7 DEF AnsweredAt, p
  <2>9. QED
    BY <2>1, <2>8 DEF CallsReturned
<1>6. QED
  BY <1>5 DEF TurnsClosed, CallsReturned, AnsweredAt

LEMMA TurnReturns ==
  ASSUME NEW c, NEW calls, Waiting(c, calls), NEW t \in Seq(QuietType),
         Len(t) = Len(calls), AnswersOf(t) = IdsOf(calls)
  PROVE  Closed(c \o t)
<1>1. PICK d \in Seq(ChatType), m \in ChatType :
        c = d \o <<m>> /\ Closed(d) /\ Len(m.calls) = Len(calls) /\ IdsOf(m.calls) = IdsOf(calls)
  BY DEF Waiting
<1>2. Closed(<<m>> \o t)
  BY <1>1, TurnCloses
<1> DEFINE a == <<m>>
<1>3. a \in Seq(ChatType) /\ t \in Seq(ChatType)
  BY QuietClosed
<1> HIDE DEF a
<1>4. a \o t \in Seq(ChatType) /\ Closed(a \o t)
  BY <1>2, <1>3 DEF a
<1>5. Closed(d \o (a \o t))
  BY <1>1, <1>4, ClosedJoin
<1>6. Associates(d, a, t)
  BY <1>3, ConcatThree, Zenon
<1>7. QED
  BY <1>1, <1>5, <1>6 DEF Associates, a

LEMMA TurnWaits ==
  ASSUME NEW c \in Seq(ChatType), Closed(c), NEW q \in Seq(QuietType), NEW m \in ChatType, NEW calls,
         Len(m.calls) = Len(calls), IdsOf(m.calls) = IdsOf(calls)
  PROVE  Waiting(c \o (q \o <<m>>), calls)
<1> DEFINE a == <<m>>
           d == c \o q
<1>1. a \in Seq(ChatType) /\ q \in Seq(ChatType) /\ Closed(q)
  BY QuietClosed
<1> HIDE DEF a
<1>2. d \in Seq(ChatType)
  BY <1>1
<1>3. Closed(d)
  BY <1>1, ClosedJoin
<1>4. Associates(c, q, a)
  BY <1>1, ConcatThree, Zenon
<1>5. c \o (q \o a) = d \o a
  BY <1>4 DEF Associates
<1> HIDE DEF d
<1>6. QED
  BY <1>2, <1>3, <1>5 DEF Waiting, a

(***************************************************************************)
(* The calls that have no result yet.                                      *)
(***************************************************************************)
ResultIds(s) == {s[i].id : i \in {j \in DOMAIN s : s[j].what = "result"}}
Pending(R) == [f \in StatementType |-> IF f.what = "call" /\ f.id \notin R THEN <<f>> ELSE <<>>]
PendingOf(s) == Flat(Pending(ResultIds(s)), s)
AskType == {f \in StatementType : f.what # "result"}

LEMMA PendingIs ==
  ASSUME NEW s \in Seq(StatementType), NEW R
  PROVE  FlattenMap(LAMBDA f : IF f.what = "call" /\ f.id \notin R THEN <<f>> ELSE <<>>, s) = Flat(Pending(R), s)
<1>1. \A i \in DOMAIN s : s[i] \in StatementType
  OBVIOUS
<1>2. [i \in DOMAIN s |-> IF s[i].what = "call" /\ s[i].id \notin R THEN <<s[i]>> ELSE <<>>] = Mapped(Pending(R), s)
  BY <1>1 DEF Mapped, Pending
<1>3. QED
  BY <1>2 DEF FlattenMap, Flat

LEMMA PendingTyped ==
  ASSUME NEW S \in SUBSET StatementType, NEW s \in Seq(S), NEW R
  PROVE  Flat(Pending(R), s) \in Seq(S)
<1> DEFINE w == Pending(R)
           g == [f \in S |-> w[f]]
<1>1. \A f \in S : w[f] \in Seq(S)
  BY DEF Pending
<1> HIDE DEF w
<1>2. g \in [S -> Seq(S)]
  BY <1>1
<1>2a. \A f \in S : w[f] = g[f]
  OBVIOUS
<1> HIDE DEF g
<1>3. Flat(w, s) = Flat(g, s)
  BY ONLY s \in Seq(S), <1>2a, FlatAgree
<1>4. Flat(g, s) \in Seq(S)
  BY <1>2, FlatType
<1>5. QED
  BY <1>3, <1>4 DEF w

LEMMA PendingFunction ==
  ASSUME NEW R
  PROVE  Pending(R) \in [StatementType -> Seq(StatementType)]
BY DEF Pending

LEMMA PendingJoins ==
  ASSUME NEW a \in Seq(StatementType), NEW b \in Seq(StatementType), NEW R
  PROVE  Flat(Pending(R), a \o b) = Flat(Pending(R), a) \o Flat(Pending(R), b)
<1>1. FlatJoins(Pending(R), a, b)
  BY PendingFunction, FlatConcat, Zenon
<1>2. QED
  BY <1>1 DEF FlatJoins

LEMMA IdsJoin ==
  ASSUME NEW a \in Seq(StatementType), NEW b \in Seq(StatementType)
  PROVE  ResultIds(a \o b) = ResultIds(a) \cup ResultIds(b)
<1> DEFINE c == a \o b
           m == Len(a)
           n == Len(b)
<1>1. /\ c \in Seq(StatementType) /\ m \in Nat /\ n \in Nat /\ Len(c) = m + n
      /\ \A i \in 1..m : c[i] = a[i]
      /\ \A i \in 1..n : c[m + i] = b[i]
  <2>1. JoinsAt(StatementType, a, b)
    BY JoinedAt, Zenon
  <2>2. QED
    BY <2>1 DEF JoinsAt
<1>2. DOMAIN a = 1..m /\ DOMAIN b = 1..n /\ DOMAIN c = 1..m + n
  BY <1>1
<1> HIDE DEF c, m, n
<1>3. ASSUME NEW x \in ResultIds(c)
      PROVE  x \in ResultIds(a) \cup ResultIds(b)
  <2>1. PICK i \in 1..m + n : c[i].what = "result" /\ x = c[i].id
    BY <1>2, <1>3 DEF ResultIds
  <2>2. CASE i <= m
    <3>1. i \in 1..m /\ c[i] = a[i]
      BY <1>1, <2>2
    <3>2. QED
      BY <1>2, <2>1, <3>1 DEF ResultIds
  <2>3. CASE i > m
    <3>1. i - m \in 1..n /\ m + (i - m) = i
      BY <1>1, <2>3
    <3>2. c[i] = b[i - m]
      BY <1>1, <3>1
    <3>3. QED
      BY <1>2, <2>1, <3>1, <3>2 DEF ResultIds
  <2>4. QED
    BY <1>1, <2>2, <2>3
<1>4. ASSUME NEW x \in ResultIds(a)
      PROVE  x \in ResultIds(c)
  <2>1. PICK i \in 1..m : a[i].what = "result" /\ x = a[i].id
    BY <1>2, <1>4 DEF ResultIds
  <2>2. i \in 1..m + n /\ c[i] = a[i]
    BY <1>1
  <2>3. QED
    BY <1>2, <2>1, <2>2 DEF ResultIds
<1>5. ASSUME NEW x \in ResultIds(b)
      PROVE  x \in ResultIds(c)
  <2>1. PICK i \in 1..n : b[i].what = "result" /\ x = b[i].id
    BY <1>2, <1>5 DEF ResultIds
  <2>2. m + i \in 1..m + n /\ c[m + i] = b[i]
    BY <1>1
  <2>3. QED
    BY <1>2, <2>1, <2>2 DEF ResultIds
<1>6. QED
  BY <1>3, <1>4, <1>5 DEF c

LEMMA AskedOnly ==
  ASSUME NEW s \in Seq(AskType)
  PROVE  s \in Seq(StatementType) /\ ResultIds(s) = {}
<1>1. AskType \subseteq StatementType /\ \A f \in AskType : f.what # "result"
  BY DEF AskType
<1> HIDE DEF AskType
<1>2. \A i \in DOMAIN s : s[i] \in AskType
  OBVIOUS
<1>3. QED
  BY <1>1, <1>2 DEF ResultIds

(* No call without a result is missed.                                      *)
LEMMA PendingHolds ==
  ASSUME NEW R
  PROVE  \A s \in Seq(StatementType) : \A j \in DOMAIN s :
           s[j].what = "call" /\ s[j].id \notin R => s[j].id \in IdsOf(Flat(Pending(R), s))
<1> DEFINE T == {s \in Seq(StatementType) : \A j \in DOMAIN s :
                   s[j].what = "call" /\ s[j].id \notin R => s[j].id \in IdsOf(Flat(Pending(R), s))}
<1>1. <<>> \in T
  OBVIOUS
<1>2. ASSUME NEW a \in Seq(StatementType), NEW x \in StatementType, a \in T
      PROVE  a \o <<x>> \in T
  <2> DEFINE b == <<x>>
             c == a \o b
             m == Len(a)
             p == Flat(Pending(R), a)
             q == Flat(Pending(R), b)
  <2>1. b \in Seq(StatementType) /\ Len(b) = 1 /\ b[1] = x
    OBVIOUS
  <2>1a. FlatOfOne(Pending(R), x)
    BY PendingFunction, FlatOne, Zenon
  <2>2. q = Pending(R)[x]
    BY <2>1a DEF FlatOfOne
  <2> HIDE DEF b
  <2>3. /\ c \in Seq(StatementType) /\ m \in Nat /\ Len(c) = m + 1
        /\ \A i \in 1..m : c[i] = a[i]
        /\ c[m + 1] = x
    <3>1. /\ c \in Seq(StatementType) /\ m \in Nat /\ Len(c) = m + Len(b)
          /\ \A i \in 1..m : c[i] = a[i]
          /\ \A i \in 1..Len(b) : c[m + i] = b[i]
      <4>1. JoinsAt(StatementType, a, b)
        BY <2>1, JoinedAt, Zenon
      <4>2. QED
        BY <4>1 DEF JoinsAt
    <3>2. QED
      BY <2>1, <3>1
  <2>4. p \in Seq(StatementType) /\ q \in Seq(StatementType)
    BY <2>1, PendingFunction, FlatType
  <2>5. Flat(Pending(R), c) = p \o q
    BY <2>1, PendingJoins
  <2> HIDE DEF p, q
  <2>6. /\ Len(p \o q) = Len(p) + Len(q) /\ Len(p) \in Nat /\ Len(q) \in Nat
        /\ \A i \in 1..Len(p) : (p \o q)[i] = p[i]
        /\ \A i \in 1..Len(q) : (p \o q)[Len(p) + i] = q[i]
    <3>1. JoinsAt(StatementType, p, q)
      BY <2>4, JoinedAt, Zenon
    <3>2. QED
      BY <3>1 DEF JoinsAt
  <2>7. \A y \in IdsOf(p) : y \in IdsOf(p \o q)
    BY <2>6 DEF IdsOf
  <2> HIDE DEF m
  <2>8. ASSUME NEW j \in DOMAIN c, c[j].what = "call", c[j].id \notin R
        PROVE  c[j].id \in IdsOf(p \o q)
    <3>1. CASE j \in 1..m
      <4>1. c[j] = a[j] /\ j \in DOMAIN a
        BY <2>3, <3>1 DEF m
      <4>2. a[j].id \in IdsOf(p)
        BY <1>2, <2>8, <4>1 DEF p
      <4>3. QED
        BY <2>7, <4>1, <4>2
    <3>2. CASE j = m + 1
      <4>1. c[j] = x
        BY <2>3, <3>2
      <4>2. q = <<x>>
        BY <2>2, <2>8, <4>1 DEF Pending
      <4>3. Len(q) = 1 /\ q[1] = x
        BY <4>2
      <4>4. Len(p) + 1 \in 1..Len(p \o q) /\ (p \o q)[Len(p) + 1] = x
        BY <2>6, <4>3
      <4>5. QED
        BY <4>1, <4>4 DEF IdsOf
    <3>3. QED
      BY <2>3, <3>1, <3>2
  <2> HIDE DEF c
  <2>9. c \in T
    BY <2>3, <2>5, <2>8
  <2>10. QED
    BY <2>9 DEF c, b
<1> HIDE DEF T
<1>3. \A s \in Seq(StatementType) : s \in T
  BY <1>1, <1>2, ByElements
<1>4. QED
  BY <1>3 DEF T

LEMMA NothingPending ==
  ASSUME NEW s \in Seq(StatementType), NEW R,
         \A i \in DOMAIN s : s[i].what = "call" => s[i].id \in R
  PROVE  Flat(Pending(R), s) = <<>>
<1> DEFINE S == {f \in StatementType : f.what = "call" => f.id \in R}
<1>1. \A i \in DOMAIN s : s[i] \in S
  OBVIOUS
<1>2. \A f \in S : Pending(R)[f] = <<>>
  BY DEF Pending
<1> HIDE DEF S
<1>3. s \in Seq(S)
  BY <1>1
<1>4. QED
  BY <1>2, <1>3, FlatNothing

(* What an answer leaves without a result: its calls.                       *)
LEMMA AsksTyped ==
  /\ \A role \in Speakers : SaidAs(role) \in [Int -> Seq(AskType)]
  /\ CalledAs \in [CallType -> Seq(AskType)]
<1>1. ASSUME NEW role \in Speakers, NEW t \in Int
      PROVE  <<Statement(role, "text", 0, t)>> \in Seq(AskType)
  <2>1. Statement(role, "text", 0, t) \in StatementType /\ Statement(role, "text", 0, t).what = "text"
    BY StatementsTyped DEF Statement
  <2>2. Statement(role, "text", 0, t) \in AskType
    BY <2>1 DEF AskType
  <2>3. QED
    BY <2>2
<1>2. ASSUME NEW call \in CallType
      PROVE  <<CallStatement(call)>> \in Seq(AskType)
  <2>1. CallStatement(call) \in StatementType /\ CallStatement(call).what = "call"
    BY StatementsTyped DEF CallStatement, Statement
  <2>2. CallStatement(call) \in AskType
    BY <2>1 DEF AskType
  <2>3. QED
    BY <2>2
<1>3. QED
  BY <1>1, <1>2 DEF SaidAs, CalledAs

LEMMA TextsNotPending ==
  ASSUME NEW texts \in Seq(Int), NEW role \in Speakers, NEW R
  PROVE  Flat(Pending(R), Flat(SaidAs(role), texts)) = <<>>
<1> DEFINE s == Flat(SaidAs(role), texts)
           S == {f \in StatementType : f.what = "text"}
           g == SaidAs(role)
<1>1. ASSUME NEW t \in Int
      PROVE  g[t] \in Seq(S)
  <2>1. Statement(role, "text", 0, t) \in StatementType /\ Statement(role, "text", 0, t).what = "text"
    BY StatementsTyped DEF Statement
  <2>2. Statement(role, "text", 0, t) \in S
    BY <2>1
  <2> HIDE DEF S
  <2>3. QED
    BY <2>2 DEF SaidAs
<1>2. g \in [Int -> Seq(S)]
  <2> HIDE DEF S
  <2>1. QED
    BY <1>1 DEF SaidAs
<1>3. S \subseteq StatementType /\ \A f \in S : f.what # "call"
  OBVIOUS
<1> HIDE DEF S, g
<1>4. Flat(g, texts) \in Seq(S)
  BY <1>2, FlatType
<1>5. s \in Seq(S)
  BY <1>4 DEF g
<1> HIDE DEF s
<1>6. s \in Seq(StatementType) /\ \A i \in DOMAIN s : s[i] \in S
  BY <1>3, <1>5
<1>7. Flat(Pending(R), s) = <<>>
  BY <1>3, <1>6, NothingPending
<1>8. QED
  BY <1>7 DEF s

LEMMA CallsPending ==
  ASSUME NEW calls \in Seq(CallType), NEW R, \A i \in 1..Len(calls) : calls[i].id \notin R
  PROVE  Flat(Pending(R), Flat(CalledAs, calls)) = Flat(CalledAs, calls)
<1> DEFINE S == {c \in CallType : c.id \notin R}
           k == [c \in CallType |-> Flat(Pending(R), CalledAs[c])]
<1>1. \A i \in DOMAIN calls : calls[i] \in S
  OBVIOUS
<1>2. ASSUME NEW c \in S
      PROVE  k[c] = CalledAs[c]
  <2> DEFINE f == CallStatement(c)
  <2>1. f \in StatementType /\ f.what = "call" /\ f.id = c.id /\ c \in CallType
    BY StatementsTyped DEF CallStatement, Statement
  <2>2. CalledAs[c] = <<f>>
    BY <2>1 DEF CalledAs
  <2> HIDE DEF f
  <2>3. FlatOfOne(Pending(R), f)
    BY <2>1, PendingFunction, FlatOne, Zenon
  <2>4. Flat(Pending(R), <<f>>) = <<f>>
    BY <2>1, <2>3 DEF FlatOfOne, Pending
  <2>5. QED
    BY <2>1, <2>2, <2>4
<1>3. k \in [CallType -> Seq(StatementType)]
  <2>1. ASSUME NEW c \in CallType
        PROVE  Flat(Pending(R), CalledAs[c]) \in Seq(StatementType)
    <3>1. CalledAs[c] \in Seq(StatementType)
      BY CalledAsTyped
    <3>2. QED
      BY <3>1, PendingFunction, FlatType
  <2>2. QED
    BY <2>1
<1>4. Composed(CallType, Pending(R), CalledAs, k)
  BY DEF Composed
<1> HIDE DEF k, S
<1>5. OnePass(Pending(R), CalledAs, k, calls)
  BY <1>3, <1>4, CalledAsTyped, PendingFunction, FlatCompose, Zenon
<1>6. calls \in Seq(S)
  BY <1>1
<1>7. Flat(k, calls) = Flat(CalledAs, calls)
  BY <1>2, <1>6, FlatAgree
<1>8. QED
  BY <1>5, <1>7 DEF OnePass

LEMMA CalledIds ==
  ASSUME NEW calls \in Seq(CallType)
  PROVE  LET s == Flat(CalledAs, calls)
         IN s \in Seq(AskType) /\ Len(s) = Len(calls) /\ IdsOf(s) = IdsOf(calls)
            /\ \A i \in 1..Len(calls) : s[i] = CallStatement(calls[i])
<1> DEFINE l == [call \in CallType |-> CallStatement(call)]
           s == Flat(CalledAs, calls)
<1>1. l \in [CallType -> StatementType]
  BY StatementsTyped
<1>2. Singles(CallType, l, CalledAs)
  BY DEF CalledAs, Singles
<1>3. \A call \in CallType : l[call] = CallStatement(call)
  OBVIOUS
<1> HIDE DEF l
<1>4. OneEach(l, CalledAs, calls)
  BY <1>1, <1>2, CalledAsTyped, FlatSingles, Zenon
<1>5. s = Mapped(l, calls)
  BY <1>4 DEF OneEach
<1>6. s \in Seq(AskType)
  BY AsksTyped, FlatType
<1>7. Len(s) = Len(calls) /\ \A i \in 1..Len(calls) : s[i] = l[calls[i]] /\ calls[i] \in CallType
  BY <1>5, MappedLength, MappedAt
<1> HIDE DEF s
<1>8. \A i \in 1..Len(calls) : s[i] = CallStatement(calls[i]) /\ s[i].id = calls[i].id
  BY <1>3, <1>7 DEF CallStatement, Statement
<1>9. IdsOf(s) = IdsOf(calls)
  BY <1>7, <1>8 DEF IdsOf
<1>10. QED
  BY <1>6, <1>7, <1>8, <1>9 DEF s

(* What an answer says, in a chat message or in blocks.                     *)
LEMMA MessagePending ==
  ASSUME NEW m \in ChatType, m.role = "assistant", NEW R, \A i \in 1..Len(m.calls) : m.calls[i].id \notin R
  PROVE  /\ ChatStatements(m) \in Seq(AskType)
         /\ Flat(Pending(R), ChatStatements(m)) = Flat(CalledAs, m.calls)
         /\ Len(ChatStatements(m)) >= Len(m.calls)
<1> DEFINE a == Flat(SaidAs("assistant"), m.texts)
           b == Flat(CalledAs, m.calls)
<1>0. "assistant" \in Speakers
  BY DEF Speakers
<1>1. m.texts \in Seq(Int) /\ m.calls \in Seq(CallType)
  BY DEF ChatType
<1>2. a \in Seq(AskType)
  BY <1>0, <1>1, AsksTyped, FlatType
<1>3. b \in Seq(AskType) /\ Len(b) = Len(m.calls)
  BY <1>1, CalledIds
<1>4. ChatStatements(m) = a \o b
  BY ChatSays
<1>5. Flat(Pending(R), a) = <<>>
  BY <1>0, <1>1, TextsNotPending
<1>6. Flat(Pending(R), b) = b
  BY <1>1, CallsPending
<1> HIDE DEF a, b
<1>7. a \in Seq(StatementType) /\ b \in Seq(StatementType)
  BY <1>2, <1>3, AskedOnly
<1>7a. Flat(Pending(R), a \o b) = Flat(Pending(R), a) \o Flat(Pending(R), b)
  BY <1>7, PendingJoins
<1>8. Flat(Pending(R), a \o b) = <<>> \o b
  BY <1>5, <1>6, <1>7a DEF a, b
<1>9. <<>> \o b = b
  BY <1>7, ConcatEmpty
<1>10. Len(a \o b) = Len(a) + Len(b) /\ Len(a) \in Nat /\ a \o b \in Seq(AskType)
  BY <1>2, <1>3
<1>11. QED
  BY <1>3, <1>4, <1>8, <1>9, <1>10 DEF b

LEMMA FlatLonger ==
  ASSUME NEW S, NEW T, NEW g \in [S -> Seq(T)], NEW h \in [S -> Seq(T)],
         \A x \in S : Len(g[x]) >= Len(h[x])
  PROVE  \A s \in Seq(S) : Len(Flat(g, s)) >= Len(Flat(h, s))
<1> DEFINE W == {s \in Seq(S) : Len(Flat(g, s)) >= Len(Flat(h, s))}
<1>1. <<>> \in W
  <2>1. Flat(g, <<>>) = <<>>
    BY FlatEmpty
  <2>2. Flat(h, <<>>) = <<>>
    BY FlatEmpty
  <2>3. QED
    BY <2>1, <2>2
<1>2. ASSUME NEW a \in Seq(S), NEW x \in S, a \in W
      PROVE  a \o <<x>> \in W
  <2> DEFINE b == <<x>>
             c == a \o b
  <2>1. b \in Seq(S) /\ c \in Seq(S)
    OBVIOUS
  <2>2. FlatOfOne(g, x)
    BY FlatOne, Zenon
  <2>3. FlatOfOne(h, x)
    BY FlatOne, Zenon
  <2>4. Flat(g, b) = g[x] /\ Flat(h, b) = h[x]
    BY <2>2, <2>3 DEF FlatOfOne
  <2> HIDE DEF b
  <2>5. FlatJoins(g, a, b)
    BY <2>1, FlatConcat, Zenon
  <2>6. FlatJoins(h, a, b)
    BY <2>1, FlatConcat, Zenon
  <2>7. Flat(g, a) \in Seq(T) /\ g[x] \in Seq(T) /\ Flat(h, a) \in Seq(T) /\ h[x] \in Seq(T)
    BY FlatType
  <2>8. Flat(g, c) = Flat(g, a) \o g[x] /\ Flat(h, c) = Flat(h, a) \o h[x]
    BY <2>4, <2>5, <2>6 DEF FlatJoins
  <2>9. Len(Flat(g, a)) >= Len(Flat(h, a))
    BY <1>2
  <2> HIDE DEF c
  <2>10. Len(Flat(g, c)) >= Len(Flat(h, c))
    BY <2>7, <2>8, <2>9
  <2>11. QED
    BY <2>1, <2>10 DEF c, b
<1> HIDE DEF W
<1>3. \A s \in Seq(S) : s \in W
  BY <1>1, <1>2, ByElements
<1>4. QED
  BY <1>3 DEF W

LEMMA BlocksPending ==
  ASSUME NEW content \in Seq(AssistantBlocks), NEW R, \A i \in 1..Len(CallsOf(content)) : CallsOf(content)[i].id \notin R
  PROVE  LET s == Flat(InBlock("assistant"), content)
         IN /\ s \in Seq(AskType)
            /\ Flat(Pending(R), s) = Flat(CalledAs, CallsOf(content))
            /\ Len(s) >= Len(CallsOf(content))
            /\ CallsOf(content) \in Seq(CallType)
<1> DEFINE A == "assistant"
           calls == CallsOf(content)
           s == Flat(InBlock(A), content)
           B == AssistantBlocks
           g == [b \in B |-> InBlock(A)[b]]
           h == [b \in B |-> CallsSaid[b]]
           k == [b \in B |-> Flat(Pending(R), g[b])]
<1>1. content \in Seq(AnyBlocks) /\ A \in Speakers
  BY DEF AnyBlocks, AssistantBlocks, Speakers
<1>2. calls = Flat(CallIn, content)
  BY <1>1, CallsAre
<1>3. calls \in Seq(CallType)
  <2>1. Flat(CallIn, content) \in Seq(CallType)
    BY <1>1, CallInTyped, FlatType
  <2>2. QED
    BY <1>2, <2>1
<1>4. ASSUME NEW b \in B
      PROVE  /\ InBlock(A)[b] \in Seq(AskType) /\ CallsSaid[b] \in Seq(AskType)
             /\ Len(InBlock(A)[b]) >= Len(CallsSaid[b])
             /\ Flat(Pending(R), InBlock(A)[b]) = Flat(Pending(R), CallsSaid[b])
  <2>1. CASE /\ b \in TextBlocks
             /\ CallsSaid[b] = <<>> /\ InBlock(A)[b] = <<Statement(A, "text", 0, b.text)>>
    <3> DEFINE f == Statement(A, "text", 0, b.text)
    <3>1. b.text \in Int
      BY <2>1 DEF TextBlocks
    <3>2. f \in StatementType /\ f.what = "text"
      BY <1>1, <3>1, StatementsTyped DEF Statement
    <3> HIDE DEF f
    <3>3. FlatOfOne(Pending(R), f)
      BY <3>2, PendingFunction, FlatOne, Zenon
    <3>4. Flat(Pending(R), <<f>>) = <<>>
      BY <3>2, <3>3 DEF FlatOfOne, Pending
    <3>5. Flat(Pending(R), <<>>) = <<>>
      BY FlatEmpty
    <3>6. f \in AskType /\ <<>> \in Seq(AskType)
      BY <3>2 DEF AskType
    <3>7. <<f>> \in Seq(AskType) /\ Len(<<f>>) = 1
      BY <3>6
    <3>8. InBlock(A)[b] = <<f>>
      BY <2>1 DEF f
    <3>9. CallsSaid[b] = <<>> /\ Len(<<>>) = 0
      BY <2>1
    <3>10. InBlock(A)[b] \in Seq(AskType) /\ CallsSaid[b] \in Seq(AskType)
      BY <3>6, <3>7, <3>8, <3>9
    <3>11. Len(InBlock(A)[b]) >= Len(CallsSaid[b])
      BY <3>7, <3>8, <3>9
    <3>12. Flat(Pending(R), InBlock(A)[b]) = Flat(Pending(R), CallsSaid[b])
      BY <3>4, <3>5, <3>8, <3>9
    <3>13. QED
      BY <3>10, <3>11, <3>12
  <2>2. CASE /\ b \in UseBlocks
             /\ CallsSaid[b] = <<CallStatement(b.call)>> /\ InBlock(A)[b] = <<CallStatement(b.call)>>
    <3>1. b.call \in CallType
      BY <2>2 DEF UseBlocks
    <3>2. CalledAs[b.call] \in Seq(AskType) /\ CalledAs[b.call] = <<CallStatement(b.call)>>
      BY <3>1, AsksTyped DEF CalledAs
    <3>3. CallsSaid[b] \in Seq(AskType)
      BY <2>2, <3>2
    <3>4. InBlock(A)[b] = CallsSaid[b]
      BY <2>2
    <3>5. QED
      BY <3>3, <3>4
  <2>3. CASE CallsSaid[b] = <<>> /\ InBlock(A)[b] = <<>>
    <3>1. <<>> \in Seq(AskType) /\ Len(<<>>) = 0
      OBVIOUS
    <3>2. InBlock(A)[b] \in Seq(AskType) /\ CallsSaid[b] \in Seq(AskType)
      BY <2>3, <3>1
    <3>3. InBlock(A)[b] = CallsSaid[b] /\ Len(InBlock(A)[b]) = 0 /\ Len(CallsSaid[b]) = 0
      BY <2>3, <3>1
    <3>4. QED
      BY <3>2, <3>3
  <2>4. QED
    BY <2>1, <2>2, <2>3, AssistantBlock
<1> HIDE DEF B
<1>5. g \in [B -> Seq(AskType)] /\ h \in [B -> Seq(AskType)]
  BY <1>4
<1>6. \A b \in B : g[b] = InBlock(A)[b] /\ h[b] = CallsSaid[b]
  OBVIOUS
<1>7. \A b \in B : Len(g[b]) >= Len(h[b]) /\ Flat(Pending(R), g[b]) = Flat(Pending(R), h[b])
  BY <1>4, <1>6
<1>8. content \in Seq(B)
  BY DEF B
<1> HIDE DEF g, h
<1>9. s = Flat(g, content)
  BY <1>6, <1>8, FlatAgree
<1>10. Flat(CallsSaid, content) = Flat(h, content)
  BY <1>6, <1>8, FlatAgree
<1>11. s \in Seq(AskType)
  BY <1>5, <1>8, <1>9, FlatType
<1>12. Len(Flat(g, content)) >= Len(Flat(h, content))
  BY <1>5, <1>7, <1>8, FlatLonger
<1>13. Composed(AnyBlocks, CalledAs, CallIn, CallsSaid)
  BY DEF Composed, CallsSaid
<1>14. CallsSaid \in [AnyBlocks -> Seq(StatementType)]
  <2>1. ASSUME NEW b \in AnyBlocks
        PROVE  Flat(CalledAs, CallIn[b]) \in Seq(StatementType)
    <3>1. CallIn[b] \in Seq(CallType)
      BY CallInTyped
    <3>2. QED
      BY <3>1, CalledAsTyped, FlatType
  <2>2. QED
    BY <2>1 DEF CallsSaid
<1>15. OnePass(CalledAs, CallIn, CallsSaid, content)
  BY <1>1, <1>13, <1>14, CallInTyped, CalledAsTyped, FlatCompose, Zenon
<1>16. Flat(CalledAs, calls) = Flat(h, content)
  BY <1>2, <1>10, <1>15 DEF OnePass
<1>17. Len(s) >= Len(calls)
  BY <1>3, <1>9, <1>12, <1>16, CalledIds
<1>18. g \in [B -> Seq(StatementType)] /\ h \in [B -> Seq(StatementType)]
  <2>1. Seq(AskType) \subseteq Seq(StatementType)
    BY AskedOnly
  <2>2. QED
    BY <1>5, <2>1
<1>19. k \in [B -> Seq(StatementType)]
  <2>1. ASSUME NEW b \in B
        PROVE  Flat(Pending(R), g[b]) \in Seq(StatementType)
    <3>1. g[b] \in Seq(StatementType)
      BY <1>18
    <3>2. QED
      BY <3>1, PendingFunction, FlatType
  <2>2. QED
    BY <2>1
<1>20. Composed(B, Pending(R), g, k)
  BY DEF Composed
<1>21. Composed(B, Pending(R), h, k)
  BY <1>7 DEF Composed
<1> HIDE DEF k
<1>22. OnePass(Pending(R), g, k, content)
  BY <1>8, <1>18, <1>19, <1>20, PendingFunction, FlatCompose, Zenon
<1>23. OnePass(Pending(R), h, k, content)
  BY <1>8, <1>18, <1>19, <1>21, PendingFunction, FlatCompose, Zenon
<1>24. Flat(Pending(R), s) = Flat(Pending(R), Flat(CalledAs, calls))
  BY <1>9, <1>16, <1>22, <1>23 DEF OnePass
<1>25. Flat(Pending(R), Flat(CalledAs, calls)) = Flat(CalledAs, calls)
  <2> HIDE DEF calls
  <2>1. \A i \in 1..Len(calls) : calls[i].id \notin R
    BY DEF calls
  <2>2. QED
    BY <1>3, <2>1, CallsPending
<1>26. QED
  BY <1>3, <1>11, <1>17, <1>24, <1>25

(***************************************************************************)
(* A history as a chat provider reads it, and what it says, are passes     *)
(* over it in every protocol.                                              *)
(***************************************************************************)
Clients == {"anthropic", "chat", "responses"}
KeepChat == [m \in ChatType |-> <<m>>]
AsChat(form) == IF form = "chat" THEN KeepChat ELSE IF form = "anthropic" THEN ToChat ELSE ItemToChat
Says(form) == IF form = "chat" THEN InChat ELSE IF form = "anthropic" THEN InSent ELSE InItem

LEMMA KeepChatIs ==
  /\ KeepChat \in [ChatType -> Seq(ChatType)]
  /\ \A body \in Seq(ChatType) : Flat(KeepChat, body) = body
<1> DEFINE k == [m \in ChatType |-> m]
<1>1. \A m \in ChatType : <<m>> \in Seq(ChatType)
  OBVIOUS
<1>2. KeepChat \in [ChatType -> Seq(ChatType)]
  BY <1>1 DEF KeepChat
<1>3. k \in [ChatType -> ChatType] /\ Singles(ChatType, k, KeepChat)
  BY DEF KeepChat, Singles
<1>4. \A m \in ChatType : k[m] = m
  OBVIOUS
<1> HIDE DEF k
<1>5. ASSUME NEW body \in Seq(ChatType)
      PROVE  Flat(KeepChat, body) = body
  <2>1. OneEach(k, KeepChat, body)
    BY <1>2, <1>3, FlatSingles, Zenon
  <2>2. \A i \in DOMAIN body : body[i] \in ChatType
    OBVIOUS
  <2>3. Mapped(k, body) = body
    BY <1>4, <2>2 DEF Mapped
  <2>4. QED
    BY <2>1, <2>3 DEF OneEach
<1>6. QED
  BY <1>2, <1>5

LEMMA FormTyped ==
  ASSUME NEW cl \in Clients
  PROVE  \E S : /\ FormType(cl) \subseteq S
                /\ Says(cl) \in [S -> Seq(StatementType)]
                /\ AsChat(cl) \in [FormType(cl) -> Seq(ChatType)]
                /\ \A body \in Seq(FormType(cl)) : Statements(cl, body) = Flat(Says(cl), body)
<1>1. CASE cl = "chat"
  <2>1. FormType(cl) = ChatType /\ Says(cl) = InChat /\ AsChat(cl) = KeepChat
    BY <1>1, FormTypes DEF Says, AsChat
  <2>2. \A body \in Seq(ChatType) : Statements(cl, body) = Flat(InChat, body)
    BY <1>1, BodySays
  <2>3. QED
    BY <2>1, <2>2, InChatTyped, KeepChatIs
<1>2. CASE cl = "anthropic"
  <2>1. FormType(cl) = AnthropicType /\ Says(cl) = InSent /\ AsChat(cl) = ToChat
    BY <1>2, FormTypes DEF Says, AsChat
  <2>2. Seq(AnthropicType) \subseteq Seq(SentType)
    BY AnthropicSent
  <2>3. \A body \in Seq(AnthropicType) : Statements(cl, body) = Flat(InSent, body)
    BY <1>2, <2>2, BodySays
  <2>4. QED
    BY <2>1, <2>3, InSentTyped, ToChatTyped, AnthropicSent
<1>3. CASE cl = "responses"
  <2>1. FormType(cl) = ItemType /\ Says(cl) = InItem /\ AsChat(cl) = ItemToChat
    BY <1>3, FormTypes DEF Says, AsChat
  <2>2. \A body \in Seq(ItemType) : Statements(cl, body) = Flat(InItem, body)
    BY <1>3, BodySays
  <2>3. QED
    BY <2>1, <2>2, InItemTyped, ItemToChatTyped
<1>4. QED
  BY <1>1, <1>2, <1>3 DEF Clients

LEMMA FormJoins ==
  ASSUME NEW cl \in Clients, NEW a \in Seq(FormType(cl)), NEW b \in Seq(FormType(cl))
  PROVE  /\ a \o b \in Seq(FormType(cl))
         /\ Statements(cl, a) \in Seq(StatementType) /\ Statements(cl, b) \in Seq(StatementType)
         /\ Flat(AsChat(cl), a) \in Seq(ChatType) /\ Flat(AsChat(cl), b) \in Seq(ChatType)
         /\ Statements(cl, a \o b) = Statements(cl, a) \o Statements(cl, b)
         /\ Flat(AsChat(cl), a \o b) = Flat(AsChat(cl), a) \o Flat(AsChat(cl), b)
<1> DEFINE F == FormType(cl)
           c == a \o b
           g == Says(cl)
           h == AsChat(cl)
<1>1. PICK S : /\ F \subseteq S /\ g \in [S -> Seq(StatementType)] /\ h \in [F -> Seq(ChatType)]
               /\ \A body \in Seq(F) : Statements(cl, body) = Flat(g, body)
  BY FormTyped
<1>2. c \in Seq(F)
  OBVIOUS
<1> HIDE DEF F, g, h
<1>3. a \in Seq(F) /\ b \in Seq(F)
  BY DEF F
<1>4. a \in Seq(S) /\ b \in Seq(S)
  BY <1>1, <1>3
<1>5. FlatJoins(g, a, b)
  BY <1>1, <1>4, FlatConcat, Zenon
<1>6. FlatJoins(h, a, b)
  BY <1>1, <1>3, FlatConcat, Zenon
<1>7. Flat(g, a) \in Seq(StatementType)
  BY <1>1, <1>4, FlatType
<1>8. Flat(g, b) \in Seq(StatementType)
  BY <1>1, <1>4, FlatType
<1>9. Flat(h, a) \in Seq(ChatType)
  BY <1>1, <1>3, FlatType
<1>10. Flat(h, b) \in Seq(ChatType)
  BY <1>1, <1>3, FlatType
<1> HIDE DEF c
<1>11. Statements(cl, a) = Flat(g, a) /\ Statements(cl, b) = Flat(g, b) /\ Statements(cl, c) = Flat(g, c)
  BY <1>1, <1>2, <1>3
<1>12. Statements(cl, a \o b) = Statements(cl, a) \o Statements(cl, b)
  BY <1>5, <1>11 DEF FlatJoins, c
<1>13. Flat(AsChat(cl), a \o b) = Flat(AsChat(cl), a) \o Flat(AsChat(cl), b)
  BY <1>6 DEF FlatJoins, h
<1>14. QED
  BY <1>2, <1>7, <1>8, <1>9, <1>10, <1>11, <1>12, <1>13 DEF F, c, h

LEMMA Forwards ==
  ASSUME NEW body
  PROVE  /\ \A adapter : Forward("responses", adapter, body) = convertResponsesInputToChatMessages(body)
         /\ Forward("anthropic", "chat", body) = convertAnthropicRequestToOpenAIChat(body)
         /\ Forward("chat", "anthropic", body) = convertOpenAIChatRequestToAnthropic(body)
         /\ Forward("anthropic", "anthropic", body) = body
         /\ Forward("chat", "chat", body) = body
<1>1. /\ \A adapter : ForwardFormat("responses", adapter) = "chat"
      /\ \A adapter : ForwardFormat("anthropic", adapter) = adapter
      /\ \A adapter : ForwardFormat("chat", adapter) = adapter
  BY DEF ForwardFormat
<1>2. \A adapter : Forward("responses", adapter, body) = convertResponsesInputToChatMessages(body)
  BY <1>1, Zenon DEF Forward
<1>3. Forward("anthropic", "chat", body) = convertAnthropicRequestToOpenAIChat(body)
  BY <1>1, Zenon DEF Forward
<1>4. Forward("chat", "anthropic", body) = convertOpenAIChatRequestToAnthropic(body)
  BY <1>1, Zenon DEF Forward
<1>5. Forward("anthropic", "anthropic", body) = body
  <2>1. /\ "anthropic" # "responses" /\ "anthropic" # "chat"
        /\ ForwardFormat("anthropic", "anthropic") = "anthropic"
    BY <1>1
  <2>2. QED
    BY ONLY <2>1, Zenon DEF Forward
<1>6. Forward("chat", "chat", body) = body
  BY <1>1, Zenon DEF Forward
<1>7. QED
  BY <1>2, <1>3, <1>4, <1>5, <1>6

LEMMA ChatForm ==
  ASSUME NEW cl \in Clients, NEW h \in Seq(FormType(cl))
  PROVE  /\ Forward(cl, "chat", h) = Flat(AsChat(cl), h)
         /\ cl = "responses" => Forward(cl, "anthropic", h) = Flat(AsChat(cl), h)
<1>1. CASE cl = "chat"
  BY <1>1, Forwards, FormTypes, KeepChatIs DEF AsChat
<1>2. CASE cl = "anthropic"
  BY <1>2, Forwards, FormTypes, ToChatIs DEF AsChat
<1>3. CASE cl = "responses"
  BY <1>3, Forwards, FormTypes, ItemToChatIs DEF AsChat
<1>4. QED
  BY <1>1, <1>2, <1>3 DEF Clients

(* What a client adds for the results of calls.                             *)
ToolMsg == [f \in StatementType |-> ToolMessage(f.id, f.id + 100)]
ResultSaid == [f \in StatementType |-> Statement("user", "result", f.id, f.id + 100)]

LEMMA ToolMsgs ==
  ASSUME NEW calls \in Seq(StatementType)
  PROVE  /\ Mapped(ToolMsg, calls) \in Seq(QuietType) /\ Mapped(ResultSaid, calls) \in Seq(StatementType)
         /\ Len(Mapped(ToolMsg, calls)) = Len(calls) /\ Len(Mapped(ResultSaid, calls)) = Len(calls)
         /\ AnswersOf(Mapped(ToolMsg, calls)) = IdsOf(calls)
         /\ \A i \in 1..Len(calls) : Mapped(ToolMsg, calls)[i] = ToolMsg[calls[i]]
         /\ \A i \in 1..Len(calls) : Mapped(ResultSaid, calls)[i] = ResultSaid[calls[i]]
<1>1. \A f \in StatementType : f.id \in Int /\ f.id + 100 \in Int
  BY DEF StatementType
<1>2. ASSUME NEW f \in StatementType
      PROVE  ToolMessage(f.id, f.id + 100) \in QuietType
             /\ Statement("user", "result", f.id, f.id + 100) \in StatementType
  <2>1. ToolMessage(f.id, f.id + 100) \in ChatType
    BY <1>1, UserMessages
  <2>2. ToolMessage(f.id, f.id + 100).calls = <<>>
    BY DEF ToolMessage
  <2>3. QED
    BY <1>1, <2>1, <2>2, StatementsTyped DEF QuietType
<1>3. ToolMsg \in [StatementType -> QuietType] /\ ResultSaid \in [StatementType -> StatementType]
  BY <1>2 DEF ToolMsg, ResultSaid
<1>4. Mapped(ToolMsg, calls) \in Seq(QuietType)
  BY <1>3, MappedType
<1>5. Mapped(ResultSaid, calls) \in Seq(StatementType)
  BY <1>3, MappedType
<1>6. Len(Mapped(ToolMsg, calls)) = Len(calls)
  BY MappedLength
<1>7. Len(Mapped(ResultSaid, calls)) = Len(calls)
  BY MappedLength
<1>8. \A i \in 1..Len(calls) : Mapped(ToolMsg, calls)[i] = ToolMsg[calls[i]] /\ calls[i] \in StatementType
  BY MappedAt
<1>9. \A i \in 1..Len(calls) : Mapped(ResultSaid, calls)[i] = ResultSaid[calls[i]]
  BY MappedAt
<1>10. \A f \in StatementType : ToolMsg[f].answers = f.id
  BY DEF ToolMsg, ToolMessage
<1>11. AnswersOf(Mapped(ToolMsg, calls)) = IdsOf(calls)
  BY <1>6, <1>8, <1>10 DEF AnswersOf, IdsOf
<1>12. QED
  BY <1>4, <1>5, <1>6, <1>7, <1>8, <1>9, <1>11

(* A pass that makes one element of each is what is mapped.                 *)
LEMMA PassOfOnes ==
  ASSUME NEW S, NEW T, NEW k \in [S -> T], NEW s \in Seq(S)
  PROVE  Flat([x \in S |-> <<k[x]>>], s) = Mapped(k, s)
<1> DEFINE g == [x \in S |-> <<k[x]>>]
<1>1. \A x \in S : <<k[x]>> \in Seq(T)
  OBVIOUS
<1>2. g \in [S -> Seq(T)]
  BY <1>1
<1>3. Singles(S, k, g)
  BY DEF Singles
<1> HIDE DEF g
<1>4. OneEach(k, g, s)
  BY <1>2, <1>3, FlatSingles, Zenon
<1>5. QED
  BY <1>4 DEF OneEach, g

LEMMA ResultsRead ==
  ASSUME NEW calls \in Seq(StatementType), calls # <<>>, NEW content \in Seq(UserBlocks), Len(content) = Len(calls),
         \A i \in 1..Len(calls) : content[i] = ToolResult(calls[i].id, calls[i].id + 100)
  PROVE  convertAnthropicUserMessageToOpenAI(content) = Mapped(ToolMsg, calls)
<1> DEFINE N == Len(content)
<1>1. PICK r \in [0..N -> AccType] :
        ReadRun(content, r) /\ convertAnthropicUserMessageToOpenAI(content) = MessagesOf(r[N])
  BY UserRuns
<1> DEFINE T == {n \in 0..N : /\ r[n].parts = <<>> /\ Len(r[n].out) = n
                              /\ \A i \in 1..n : r[n].out[i] = ToolMsg[calls[i]]}
<1>2. N \in Nat
  OBVIOUS
<1>3. 0 \in T
  <2>1. r[0] = Unread
    BY <1>1 DEF ReadRun
  <2>2. r[0].parts = <<>> /\ Len(r[0].out) = 0
    BY <2>1 DEF Unread
  <2>3. QED
    BY <1>2, <2>2
<1>4. ASSUME NEW n \in 1..N, n - 1 \in T
      PROVE  n \in T
  <2> DEFINE acc == r[n - 1]
             f == calls[n]
             b == content[n]
             m == ToolMessage(f.id, f.id + 100)
             o == acc.out
  <2>1. n - 1 \in 0..N /\ n \in 0..N /\ acc.parts = <<>> /\ Len(o) = n - 1
        /\ \A i \in 1..n - 1 : o[i] = ToolMsg[calls[i]]
    BY <1>4
  <2>2. r[n] = readBlock(acc, b)
    BY <1>1 DEF ReadRun
  <2>3. f \in StatementType /\ b = ToolResult(f.id, f.id + 100)
    BY <1>2
  <2>4. b.type = "tool_result" /\ b.id = f.id /\ b.text = f.id + 100
    BY <2>3 DEF ToolResult
  <2>5. acc \in AccType
    BY <2>1
  <2>6. o \in Seq(ChatType)
    BY <2>5 DEF AccType
  <2>7. m \in ChatType /\ ToolMsg[f] = m
    <3>1. f.id \in Int /\ f.id + 100 \in Int
      BY <2>3 DEF StatementType
    <3>2. QED
      BY <2>3, <3>1, UserMessages DEF ToolMsg
  <2> HIDE DEF acc, b, m
  <2>8. flushUserParts(acc) = o
    BY <2>1 DEF flushUserParts
  <2>9. r[n] = [out |-> Append(o, m), parts |-> <<>>]
    BY <2>2, <2>4, <2>8 DEF readBlock, m
  <2> HIDE DEF o, f
  <2>10. /\ Len(Append(o, m)) = n /\ Append(o, m)[n] = m
         /\ \A i \in 1..n - 1 : Append(o, m)[i] = o[i]
    BY <2>1, <2>6, <2>7
  <2>11. ASSUME NEW i \in 1..n
         PROVE  Append(o, m)[i] = ToolMsg[calls[i]]
    <3>1. CASE i = n
      BY <2>7, <2>10, <3>1 DEF f
    <3>2. CASE i # n
      <4>1. i \in 1..n - 1
        BY <3>2
      <4>2. QED
        BY <2>1, <2>10, <4>1
    <3>3. QED
      BY <3>1, <3>2
  <2> DEFINE p == Append(o, m)
  <2> HIDE DEF p
  <2>12. r[n].parts = <<>> /\ r[n].out = p
    BY <2>9 DEF p
  <2>13. Len(p) = n /\ \A i \in 1..n : p[i] = ToolMsg[calls[i]]
    BY <2>10, <2>11 DEF p
  <2>14. QED
    BY <2>1, <2>12, <2>13
<1> HIDE DEF T
<1>5. \A n \in 0..N : n \in T
  BY ONLY <1>2, <1>3, <1>4, Induction, Zenon
<1>6. N \in T
  BY <1>2, <1>5
<1> DEFINE o == r[N].out
<1>7. r[N] \in AccType /\ r[N].parts = <<>> /\ Len(o) = N /\ \A i \in 1..N : o[i] = ToolMsg[calls[i]]
  BY <1>1, <1>2, <1>6 DEF T
<1>8. o \in Seq(ChatType)
  BY <1>7 DEF AccType
<1>9. flushUserParts(r[N]) = o
  BY <1>7 DEF flushUserParts
<1> HIDE DEF o
<1>10. o # <<>>
  <2>1. N # 0
    OBVIOUS
  <2>2. QED
    BY <1>7, <2>1
<1>11. MessagesOf(r[N]) = o
  BY <1>9, <1>10 DEF MessagesOf
<1>12. Mapped(ToolMsg, calls) \in Seq(ChatType) /\ Len(Mapped(ToolMsg, calls)) = N
       /\ \A i \in 1..N : Mapped(ToolMsg, calls)[i] = ToolMsg[calls[i]]
  <2>1. Mapped(ToolMsg, calls) \in Seq(ChatType)
    BY ToolMsgs, QuietClosed
  <2>2. \A i \in 1..Len(calls) : Mapped(ToolMsg, calls)[i] = ToolMsg[calls[i]]
    BY ToolMsgs
  <2>3. QED
    BY <2>1, <2>2, ToolMsgs
<1> DEFINE q == Mapped(ToolMsg, calls)
<1> HIDE DEF q
<1>13. q \in Seq(ChatType) /\ Len(q) = N /\ \A i \in 1..N : q[i] = o[i]
  BY <1>7, <1>12 DEF q
<1>14. o = q
  BY <1>7, <1>8, <1>13, Everywhere
<1>15. QED
  BY <1>1, <1>11, <1>14 DEF q

ResultItem(f) == [type |-> ToolOf(f.id), id |-> f.id, text |-> f.id + 100]

LEMMA ResultsGiven ==
  ASSUME client \in Clients, NEW calls \in Seq(StatementType), calls # <<>>
  PROVE  /\ ResultsOf(calls) \in Seq(FormType(client))
         /\ Statements(client, ResultsOf(calls)) = Mapped(ResultSaid, calls)
         /\ Flat(AsChat(client), ResultsOf(calls)) = Mapped(ToolMsg, calls)
<1> DEFINE ones == [f \in StatementType |-> <<ResultSaid[f]>>]
<1>1. \A i \in DOMAIN calls : calls[i] \in StatementType
  OBVIOUS
<1>2. \A f \in StatementType : f.id \in Int /\ f.id + 100 \in Int
  BY DEF StatementType
<1>3. ResultSaid \in [StatementType -> StatementType]
  BY <1>2, StatementsTyped DEF ResultSaid
<1>4. Flat(ones, calls) = Mapped(ResultSaid, calls)
  BY <1>3, PassOfOnes
<1>5. \A f \in StatementType : ones[f] = <<Statement("user", "result", f.id, f.id + 100)>>
  BY DEF ResultSaid
<1> HIDE DEF ones
<1>6. CASE client = "chat"
  <2> DEFINE new == Mapped(ToolMsg, calls)
  <2>1. ResultsOf(calls) = Map(LAMBDA f : ToolMessage(f.id, f.id + 100), calls)
    BY <1>6, Zenon DEF ResultsOf
  <2>2. Map(LAMBDA f : ToolMessage(f.id, f.id + 100), calls) = new
    BY <1>1 DEF Map, Mapped, ToolMsg
  <2>3. new \in Seq(ChatType)
    BY ToolMsgs, QuietClosed
  <2>4. \A f \in StatementType : InChat[ToolMsg[f]] = ones[f]
    <3>1. ASSUME NEW f \in StatementType
          PROVE  InChat[ToolMsg[f]] = ones[f]
      <4> DEFINE m == ToolMessage(f.id, f.id + 100)
      <4>1. m \in ChatType /\ ChatStatements(m) = <<Statement("user", "result", f.id, f.id + 100)>>
        BY <1>2, OneResult
      <4>2. ToolMsg[f] = m
        BY DEF ToolMsg
      <4>3. QED
        BY <1>5, <4>1, <4>2 DEF InChat
    <3>2. QED
      BY <3>1
  <2>5. Flat(InChat, new) = Flat(ones, calls)
    BY <2>4, FlatMapped
  <2> HIDE DEF new
  <2>6. Statements("chat", new) = Flat(InChat, new) /\ Flat(KeepChat, new) = new
    BY <2>3, BodySays, KeepChatIs
  <2>7. QED
    BY <1>4, <1>6, <2>1, <2>2, <2>3, <2>5, <2>6, FormTypes DEF AsChat, new
<1>7. CASE client = "responses"
  <2> DEFINE k == [f \in StatementType |-> ResultItem(f)]
             new == Mapped(k, calls)
             msgs == [f \in StatementType |-> <<ToolMsg[f]>>]
  <2>1. ResultsOf(calls) = Map(LAMBDA f : [type |-> ToolOf(f.id), id |-> f.id, text |-> f.id + 100], calls)
    BY <1>7, Zenon DEF ResultsOf
  <2>2. Map(LAMBDA f : [type |-> ToolOf(f.id), id |-> f.id, text |-> f.id + 100], calls) = new
    BY <1>1 DEF Map, Mapped, ResultItem
  <2>3. ASSUME NEW f \in StatementType
        PROVE  k[f] \in ItemType /\ InItem[k[f]] = ones[f] /\ ItemToChat[k[f]] = msgs[f]
    <3> DEFINE it == ResultItem(f)
    <3>1. /\ it.type = "custom_tool_call_output" \/ it.type = "function_call_output"
          /\ it.id = f.id /\ it.text = f.id + 100
      BY DEF ResultItem, ToolOf
    <3>2. it \in ItemType
      BY <1>2 DEF ItemType, ResultItem, ToolOf
    <3>3. k[f] = it /\ msgs[f] = <<ToolMessage(f.id, f.id + 100)>>
      BY DEF ToolMsg
    <3> HIDE DEF it, k, msgs
    <3>4. ItemStatements(it) = <<Statement("user", "result", it.id, it.text)>>
      BY <3>1, ItemSays
    <3>5. convertResponsesItem(it) = <<ToolMessage(it.id, it.text)>>
      BY <3>1, ItemConverts
    <3>6. QED
      BY <1>5, <3>1, <3>2, <3>3, <3>4, <3>5 DEF InItem, ItemToChat
  <2>4. k \in [StatementType -> ItemType]
    BY <2>3
  <2>5. \A f \in StatementType : InItem[k[f]] = ones[f] /\ ItemToChat[k[f]] = msgs[f]
    BY <2>3
  <2>6. ToolMsg \in [StatementType -> ChatType]
    <3>1. \A f \in StatementType : ToolMessage(f.id, f.id + 100) \in ChatType
      BY <1>2, UserMessages
    <3>2. QED
      BY <3>1 DEF ToolMsg
  <2>7. Flat(msgs, calls) = Mapped(ToolMsg, calls)
    BY <2>6, PassOfOnes
  <2> HIDE DEF k, msgs
  <2>8. new \in Seq(ItemType)
    BY <2>4, MappedType
  <2>9. Flat(InItem, new) = Flat(ones, calls)
    BY <2>5, FlatMapped
  <2>10. Flat(ItemToChat, new) = Flat(msgs, calls)
    BY <2>5, FlatMapped
  <2> HIDE DEF new
  <2>11. Statements("responses", new) = Flat(InItem, new)
    BY <2>8, BodySays
  <2>12. ResultsOf(calls) = new
    BY <2>1, <2>2
  <2>13. QED
    BY <1>4, <1>7, <2>7, <2>8, <2>9, <2>10, <2>11, <2>12, FormTypes DEF AsChat
<1>8. CASE client = "anthropic"
  <2> DEFINE k == [f \in StatementType |-> ToolResult(f.id, f.id + 100)]
             content == Mapped(k, calls)
             U == "user"
             m == [role |-> U, content |-> content]
  <2>0. U \in Speakers
    BY DEF Speakers
  <2>1. ResultsOf(calls) = <<[role |-> U, content |-> Map(LAMBDA f : ToolResult(f.id, f.id + 100), calls)]>>
    BY <1>8, Zenon DEF ResultsOf
  <2>2. Map(LAMBDA f : ToolResult(f.id, f.id + 100), calls) = content
    BY <1>1 DEF Map, Mapped
  <2>3. ASSUME NEW f \in StatementType
        PROVE  /\ k[f] \in ResultBlocks /\ k[f] \in UserBlocks /\ k[f] \in AnyBlocks
               /\ InBlock(U)[k[f]] = ones[f] /\ k[f] = ToolResult(f.id, f.id + 100)
    <3> DEFINE b == ToolResult(f.id, f.id + 100)
    <3>1. b.type = "tool_result" /\ b.id = f.id /\ b.text = f.id + 100
      BY DEF ToolResult
    <3>2. b \in ResultBlocks
      BY <1>2 DEF ResultBlocks, ToolResult
    <3>3. k[f] = b
      OBVIOUS
    <3> HIDE DEF b, k
    <3>4. BlockStatements(U, b) = <<Statement("user", "result", b.id, b.text)>>
      BY <3>1, BlockSays
    <3>5. b \in AnyBlocks /\ b \in UserBlocks
      BY <3>2 DEF AnyBlocks, UserBlocks
    <3>6. InBlock(U)[b] = BlockStatements(U, b)
      BY <3>5 DEF InBlock
    <3>7. QED
      BY <1>5, <3>1, <3>2, <3>3, <3>4, <3>5, <3>6 DEF b
  <2>4. k \in [StatementType -> UserBlocks] /\ \A f \in StatementType : InBlock(U)[k[f]] = ones[f]
    BY <2>3
  <2>5. content \in Seq(UserBlocks)
    BY <2>4, MappedType
  <2>6. Flat(InBlock(U), content) = Flat(ones, calls)
    BY <2>4, FlatMapped
  <2>7. Len(content) = Len(calls)
    BY MappedLength
  <2>8. \A i \in 1..Len(calls) : content[i] = ToolResult(calls[i].id, calls[i].id + 100)
    <3>1. \A i \in 1..Len(calls) : content[i] = k[calls[i]] /\ calls[i] \in StatementType
      BY MappedAt
    <3> HIDE DEF content, k
    <3>2. QED
      BY <2>3, <3>1
  <2> HIDE DEF k, content
  <2>9. convertAnthropicUserMessageToOpenAI(content) = Mapped(ToolMsg, calls)
    BY <2>5, <2>7, <2>8, ResultsRead
  <2>10. m \in AnthropicType /\ m.role = U /\ m.content = content
    BY <2>5 DEF AnthropicType
  <2> HIDE DEF m
  <2>11. convertAnthropicMessageToOpenAI(m) = Mapped(ToolMsg, calls)
    BY <2>9, <2>10, MessageConverts
  <2>12. FlatOfOne(ToChat, m)
    BY <2>10, ToChatTyped, FlatOne, Zenon
  <2>13. Flat(ToChat, <<m>>) = Mapped(ToolMsg, calls)
    BY <2>10, <2>11, <2>12 DEF FlatOfOne, ToChat
  <2>14. m \in SentType
    BY <2>10, AnthropicSent
  <2>15. Statements("anthropic", <<m>>) = Mapped(ResultSaid, calls)
    BY <1>4, <2>6, <2>10, <2>14, AloneSays DEF InSent
  <2>16. ResultsOf(calls) = <<m>>
    BY <2>1, <2>2 DEF m
  <2>17. <<m>> \in Seq(AnthropicType)
    BY <2>10
  <2>18. QED
    BY <1>8, <2>13, <2>15, <2>16, <2>17, FormTypes DEF AsChat
<1>9. QED
  BY <1>6, <1>7, <1>8 DEF Clients

(* What a client adds for what its user or the system says.                 *)
LEMMA UserTextRead ==
  ASSUME NEW t \in Int
  PROVE  convertAnthropicUserMessageToOpenAI(<<TextBlock(t)>>) = <<Chat("user", <<t>>, <<>>)>>
<1> DEFINE b == TextBlock(t)
           content == <<b>>
           m == Chat("user", <<t>>, <<>>)
           empty == Chat("user", <<>>, <<>>)
<1>1. b \in UserBlocks /\ b.type = "text" /\ b.text = t
  BY DEF TextBlock, UserBlocks, TextBlocks
<1> HIDE DEF b
<1>2. content \in Seq(UserBlocks) /\ Len(content) = 1 /\ content[1] = b
  BY <1>1
<1> HIDE DEF content
<1>3. PICK r \in [0..Len(content) -> AccType] :
        ReadRun(content, r) /\ convertAnthropicUserMessageToOpenAI(content) = MessagesOf(r[Len(content)])
  BY <1>2, UserRuns
<1>4. r[0] = Unread /\ r[1] = readBlock(r[1 - 1], b)
  BY <1>2, <1>3 DEF ReadRun
<1>5. r[1] = readBlock(Unread, b)
  BY <1>4
<1>6. r[1] = [out |-> <<>>, parts |-> Append(<<>>, t)]
  BY <1>1, <1>5 DEF readBlock, Unread
<1>7. Append(<<>>, t) = <<t>>
  OBVIOUS
<1>8. r[1].out = <<>> /\ r[1].parts = <<t>>
  BY <1>6, <1>7
<1>9. flushUserParts(r[1]) = Append(<<>>, m)
  <2>1. <<t>> # <<>>
    OBVIOUS
  <2>2. QED
    BY <1>8, <2>1 DEF flushUserParts
<1> HIDE DEF m
<1>10. Append(<<>>, m) = <<m>> /\ <<m>> # <<>>
  OBVIOUS
<1>11. MessagesOf(r[1]) = <<m>>
  BY <1>9, <1>10 DEF MessagesOf
<1>12. QED
  BY <1>2, <1>3, <1>11 DEF m, content, b

LEMMA SayingGiven ==
  ASSUME client \in Clients, NEW role \in {"user", "system"}, NEW t \in Int
  PROVE  /\ Saying(role, t) \in FormType(client)
         /\ Statements(client, <<Saying(role, t)>>) = <<Statement(role, "text", 0, t)>>
         /\ Flat(AsChat(client), <<Saying(role, t)>>) \in Seq(QuietType)
<1> DEFINE one == Chat(role, <<t>>, <<>>)
<1>0. role \in Speakers
  BY DEF Speakers
<1>1. one \in ChatType /\ one \in QuietType /\ ChatStatements(one) = <<Statement(role, "text", 0, t)>>
  <2>1. one \in ChatType /\ ChatStatements(one) = <<Statement(role, "text", 0, t)>>
    BY <1>0, OneText
  <2>2. one.calls = <<>>
    BY DEF Chat
  <2>3. QED
    BY <2>1, <2>2 DEF QuietType
<1>2. CASE client = "chat"
  <2>1. Saying(role, t) = one
    BY <1>2, Zenon DEF Saying
  <2> HIDE DEF one
  <2>2. <<one>> \in Seq(ChatType) /\ <<one>> \in Seq(QuietType)
    BY <1>1
  <2>3. Flat(KeepChat, <<one>>) = <<one>>
    BY <2>2, KeepChatIs
  <2>4. Statements("chat", <<one>>) = ChatStatements(one)
    BY <1>1, AloneSays
  <2>5. QED
    BY <1>1, <1>2, <2>1, <2>2, <2>3, <2>4, FormTypes DEF AsChat
<1>3. CASE client = "responses"
  <2> DEFINE it == [type |-> "message", role |-> role, text |-> t]
  <2>1. Saying(role, t) = it
    BY <1>3, Zenon DEF Saying
  <2>2. it \in ItemType /\ it.type = "message" /\ it.role = role /\ it.text = t
    BY <1>0 DEF ItemType
  <2> HIDE DEF it
  <2>3. Statements("responses", <<it>>) = <<Statement(role, "text", 0, t)>>
    BY <2>2, AloneSays, ItemSays
  <2>4. convertResponsesItem(it) = <<one>>
    BY <2>2, ItemConverts
  <2>5. FlatOfOne(ItemToChat, it)
    BY <2>2, ItemToChatTyped, FlatOne, Zenon
  <2> HIDE DEF one
  <2>6. Flat(ItemToChat, <<it>>) = <<one>>
    BY <2>2, <2>4, <2>5 DEF FlatOfOne, ItemToChat
  <2>7. <<one>> \in Seq(QuietType)
    BY <1>1
  <2>8. QED
    BY <1>3, <2>1, <2>2, <2>3, <2>6, <2>7, FormTypes DEF AsChat
<1>4. CASE client = "anthropic"
  <2> DEFINE b == TextBlock(t)
             content == <<b>>
             m == [role |-> role, content |-> content]
  <2>1. Saying(role, t) = m
    BY <1>4, Zenon DEF Saying
  <2>2. b \in TextBlocks /\ b \in UserBlocks /\ b \in AnyBlocks /\ b.type = "text" /\ b.text = t
    BY DEF TextBlock, TextBlocks, UserBlocks, AnyBlocks
  <2> HIDE DEF b
  <2>3. content \in Seq(TextBlocks) /\ content \in Seq(UserBlocks)
    BY <2>2
  <2> HIDE DEF content
  <2>4. m \in AnthropicType /\ m.role = role /\ m.content = content
    <3>1. CASE role = "user"
      BY <2>3, <3>1 DEF AnthropicType
    <3>2. CASE role = "system"
      BY <2>3, <3>2 DEF AnthropicType
    <3>3. QED
      BY <3>1, <3>2
  <2> HIDE DEF m
  <2>5. m \in SentType
    BY <2>4, AnthropicSent
  <2>6. InSent[m] = <<Statement(role, "text", 0, t)>>
    <3>1. InBlock(role) \in [AnyBlocks -> Seq(StatementType)]
      BY <1>0, InBlockTyped
    <3>2. FlatOfOne(InBlock(role), b)
      BY <2>2, <3>1, FlatOne, Zenon
    <3>3. InBlock(role)[b] = BlockStatements(role, b)
      BY <2>2 DEF InBlock
    <3>4. BlockStatements(role, b) = <<Statement(role, "text", 0, t)>>
      BY <2>2, BlockSays
    <3>5. QED
      BY <2>4, <2>5, <3>2, <3>3, <3>4 DEF InSent, FlatOfOne, content
  <2>7. Statements("anthropic", <<m>>) = <<Statement(role, "text", 0, t)>>
    BY <2>5, <2>6, AloneSays
  <2>8. convertAnthropicMessageToOpenAI(m) \in Seq(QuietType)
    <3>1. CASE role = "user"
      <4>1. convertAnthropicMessageToOpenAI(m) = convertAnthropicUserMessageToOpenAI(content)
        BY <2>4, <3>1, MessageConverts
      <4>2. convertAnthropicUserMessageToOpenAI(content) = <<one>>
        BY <3>1, UserTextRead DEF content, b
      <4> HIDE DEF one
      <4>3. <<one>> \in Seq(QuietType)
        BY <1>1
      <4>4. QED
        BY <4>1, <4>2, <4>3
    <3>2. CASE role = "system"
      <4> DEFINE c == Chat("system", TextsOf(content), <<>>)
      <4>1. convertAnthropicMessageToOpenAI(m) = <<c>>
        BY <2>4, <3>2, MessageConverts
      <4>2. c \in ChatType
        BY <2>3, SystemKept
      <4>3. c.calls = <<>>
        BY DEF Chat
      <4> HIDE DEF c
      <4>4. c \in QuietType
        BY <4>2, <4>3 DEF QuietType
      <4>5. <<c>> \in Seq(QuietType)
        BY <4>4
      <4>6. QED
        BY <4>1, <4>5
    <3>3. QED
      BY <3>1, <3>2
  <2>9. FlatOfOne(ToChat, m)
    BY <2>4, ToChatTyped, FlatOne, Zenon
  <2>10. Flat(ToChat, <<m>>) = convertAnthropicMessageToOpenAI(m)
    BY <2>4, <2>9 DEF FlatOfOne, ToChat
  <2>11. QED
    BY <1>4, <2>1, <2>4, <2>7, <2>8, <2>10, FormTypes DEF AsChat
<1>5. QED
  BY <1>2, <1>3, <1>4 DEF Clients

(***************************************************************************)
(* An answer: what it says, the calls it asks for, what the client adds.   *)
(***************************************************************************)
SaidBy(from, answer) ==
  IF from = "chat" THEN StatementsOf("chat", answer)
  ELSE StatementsOf("anthropic", [role |-> "assistant", content |-> answer])
AskedBy(from, answer) == IF from = "chat" THEN answer.calls ELSE CallsOf(answer)
AnswerType(from) == IF from = "chat" THEN {m \in ChatType : m.role = "assistant"} ELSE Seq(AssistantBlocks)

(* A chat provider reads the calls in the last message, unless they are a   *)
(* Responses client's and more than one.                                    *)
Asks(body, calls, cl) ==
  \/ Len(calls) = 0 /\ body \in Seq(QuietType)
  \/ cl = "responses" /\ Len(calls) > 1
  \/ \E q \in Seq(QuietType), m \in ChatType :
       body = q \o <<m>> /\ Len(m.calls) = Len(calls) /\ IdsOf(m.calls) = IdsOf(calls)

LEMMA AsksAlone ==
  ASSUME NEW m \in ChatType, NEW cl
  PROVE  Asks(<<m>>, m.calls, cl)
<1>1. m.calls \in Seq(CallType)
  BY CallsCounted
<1>2. CASE Len(m.calls) = 0
  <2>1. m \in QuietType
    BY <1>1, <1>2 DEF QuietType
  <2>2. <<m>> \in Seq(QuietType)
    BY <2>1
  <2>3. QED
    BY <1>2, <2>2 DEF Asks
<1>3. CASE Len(m.calls) # 0
  <2> DEFINE a == <<m>>
  <2>1. a \in Seq(ChatType) /\ <<>> \in Seq(QuietType)
    OBVIOUS
  <2> HIDE DEF a
  <2>2. a = <<>> \o a
    BY <2>1, ConcatEmpty
  <2>3. QED
    BY <2>1, <2>2 DEF Asks, a
<1>4. QED
  BY <1>2, <1>3

LEMMA AnthropicMessage ==
  ASSUME NEW content \in Seq(AssistantBlocks)
  PROVE  LET m == [role |-> "assistant", content |-> content]
         IN /\ m \in AnthropicType /\ m \in SentType /\ m.role = "assistant" /\ m.content = content
            /\ StatementsOf("anthropic", m) = Flat(InBlock("assistant"), content)
            /\ InSent[m] = Flat(InBlock("assistant"), content)
            /\ \E c \in ChatType : Flat(ToChat, <<m>>) = <<c>> /\ c.calls = CallsOf(content)
<1> DEFINE m == [role |-> "assistant", content |-> content]
           c == Chat("assistant", TextsOf(content), CallsOf(content))
<1>1. m \in AnthropicType /\ m.role = "assistant" /\ m.content = content
  BY DEF AnthropicType
<1> HIDE DEF m
<1>2. m \in SentType
  BY <1>1, AnthropicSent
<1>3. StatementsOf("anthropic", m) = InSent[m]
  BY <1>2, BlocksSay
<1>4. InSent[m] = Flat(InBlock("assistant"), content)
  BY <1>1, <1>2 DEF InSent
<1>5. convertAnthropicMessageToOpenAI(m) = <<c>>
  BY <1>1, MessageConverts DEF convertAnthropicAssistantMessageToOpenAI
<1>6. c \in ChatType
  BY AssistantSays
<1>7. c.calls = CallsOf(content)
  BY DEF Chat
<1>8. FlatOfOne(ToChat, m)
  BY <1>1, ToChatTyped, FlatOne, Zenon
<1> HIDE DEF c
<1>9. Flat(ToChat, <<m>>) = <<c>>
  BY <1>1, <1>5, <1>8 DEF FlatOfOne, ToChat
<1>10. \E d \in ChatType : Flat(ToChat, <<m>>) = <<d>> /\ d.calls = CallsOf(content)
  BY <1>6, <1>7, <1>9
<1>11. QED
  BY <1>1, <1>2, <1>3, <1>4, <1>10 DEF m

LEMMA AnswerSays ==
  ASSUME NEW from \in {"chat", "anthropic"}, NEW answer \in AnswerType(from), NEW R,
         \A i \in 1..Len(AskedBy(from, answer)) : AskedBy(from, answer)[i].id \notin R
  PROVE  /\ SaidBy(from, answer) \in Seq(AskType)
         /\ AskedBy(from, answer) \in Seq(CallType)
         /\ Flat(Pending(R), SaidBy(from, answer)) = Flat(CalledAs, AskedBy(from, answer))
         /\ Len(SaidBy(from, answer)) >= Len(AskedBy(from, answer))
<1>1. CASE from = "chat"
  <2>1. answer \in ChatType /\ answer.role = "assistant" /\ AskedBy(from, answer) = answer.calls
    BY <1>1 DEF AnswerType, AskedBy
  <2>2. SaidBy(from, answer) = ChatStatements(answer)
    BY <1>1, FormSays DEF SaidBy
  <2>3. /\ ChatStatements(answer) \in Seq(AskType)
        /\ Flat(Pending(R), ChatStatements(answer)) = Flat(CalledAs, answer.calls)
        /\ Len(ChatStatements(answer)) >= Len(answer.calls)
    BY <2>1, MessagePending
  <2>4. answer.calls \in Seq(CallType)
    BY <2>1, CallsCounted
  <2>5. QED
    BY <2>1, <2>2, <2>3, <2>4
<1>2. CASE from = "anthropic"
  <2>1. answer \in Seq(AssistantBlocks) /\ AskedBy(from, answer) = CallsOf(answer)
    BY <1>2 DEF AnswerType, AskedBy
  <2>2. SaidBy(from, answer) = Flat(InBlock("assistant"), answer)
    BY <1>2, <2>1, AnthropicMessage DEF SaidBy
  <2>3. QED
    BY <2>1, <2>2, BlocksPending
<1>3. QED
  BY <1>1, <1>2

LEMMA BlocksForAsk ==
  ASSUME NEW texts \in Seq(Int), NEW calls \in Seq(CallType)
  PROVE  CallsOf(BlocksFor(texts, calls)) = calls
<1> DEFINE k == [t \in Int |-> TextBlock(t)]
           l == [call \in CallType |-> ToolUse(call)]
           a == Mapped(k, texts)
           b == Mapped(l, calls)
           id == [call \in CallType |-> call]
           ones == [call \in CallType |-> <<id[call]>>]
           nothing == [t \in Int |-> <<>>]
<1>1. ASSUME NEW t \in Int
      PROVE  TextBlock(t) \in AnyBlocks /\ CallIn[TextBlock(t)] = <<>>
  <2>1. TextBlock(t) \in AnyBlocks /\ TextBlock(t).type = "text"
    BY DEF TextBlock, TextBlocks, AnyBlocks
  <2>2. QED
    BY <2>1 DEF CallIn
<1>2. ASSUME NEW call \in CallType
      PROVE  ToolUse(call) \in AnyBlocks /\ CallIn[ToolUse(call)] = <<call>>
  <2>1. ToolUse(call) \in AnyBlocks /\ ToolUse(call).type = "tool_use" /\ ToolUse(call).call = call
    BY DEF ToolUse, UseBlocks, AnyBlocks
  <2>2. QED
    BY <2>1 DEF CallIn
<1>3. Map(TextBlock, texts) = a
  <2>1. \A i \in DOMAIN texts : texts[i] \in Int
    OBVIOUS
  <2>2. QED
    BY <2>1 DEF Map, Mapped
<1>4. Map(ToolUse, calls) = b
  <2>1. \A i \in DOMAIN calls : calls[i] \in CallType
    OBVIOUS
  <2>2. QED
    BY <2>1 DEF Map, Mapped
<1>5. k \in [Int -> AnyBlocks] /\ l \in [CallType -> AnyBlocks]
  BY <1>1, <1>2
<1>6. \A t \in Int : CallIn[k[t]] = nothing[t]
  BY <1>1
<1>7. \A call \in CallType : CallIn[l[call]] = ones[call]
  BY <1>2
<1>8. \A t \in Int : nothing[t] = <<>>
  OBVIOUS
<1>9. id \in [CallType -> CallType] /\ \A call \in CallType : id[call] = call
  OBVIOUS
<1> HIDE DEF id
<1>10. Flat(ones, calls) = Mapped(id, calls)
  BY <1>9, PassOfOnes
<1> HIDE DEF k, l, nothing, ones
<1>11. a \in Seq(AnyBlocks)
  BY <1>5, MappedType
<1>12. b \in Seq(AnyBlocks)
  BY <1>5, MappedType
<1>13. Flat(CallIn, a) = Flat(nothing, texts)
  BY <1>6, FlatMapped
<1>14. Flat(CallIn, b) = Flat(ones, calls)
  BY <1>7, FlatMapped
<1>15. Flat(nothing, texts) = <<>>
  BY <1>8, FlatNothing
<1>16. Mapped(id, calls) = calls
  <2>1. \A i \in DOMAIN calls : calls[i] \in CallType
    OBVIOUS
  <2>2. QED
    BY <1>9, <2>1 DEF Mapped
<1> HIDE DEF a, b
<1>17. FlatJoins(CallIn, a, b)
  BY <1>11, <1>12, CallInTyped, FlatConcat, Zenon
<1>18. <<>> \o calls = calls
  BY ConcatEmpty
<1>19. Flat(CallIn, a \o b) = calls
  BY <1>10, <1>13, <1>14, <1>15, <1>16, <1>17, <1>18 DEF FlatJoins
<1>20. BlocksFor(texts, calls) = a \o b /\ a \o b \in Seq(AnyBlocks)
  BY <1>3, <1>4, <1>11, <1>12 DEF BlocksFor
<1>21. QED
  BY <1>19, <1>20, CallsAre

LEMMA AnthropicAsks ==
  ASSUME NEW m \in ChatType, m.role = "assistant"
  PROVE  \E content \in Seq(AssistantBlocks) :
           /\ adaptOpenAIResponseToAnthropic(m) = [role |-> "assistant", content |-> content]
           /\ CallsOf(content) = m.calls
<1> DEFINE blocks == BlocksFor(m.texts, m.calls)
           b == TextBlock(0)
<1>0. "assistant" \in Speakers
  BY DEF Speakers
<1>1. m.texts \in Seq(Int) /\ m.calls \in Seq(CallType)
  BY DEF ChatType
<1>2. blocks \in Seq(TextBlocks \cup UseBlocks)
  BY <1>0, <1>1, BlocksForSay
<1>3. CallsOf(blocks) = m.calls
  BY <1>1, BlocksForAsk
<1>4. adaptOpenAIResponseToAnthropic(m)
      = [role |-> "assistant", content |-> IF blocks = <<>> THEN <<b>> ELSE blocks]
  BY DEF adaptOpenAIResponseToAnthropic, BlocksFor
<1>5. b \in TextBlocks /\ b.type = "text"
  BY DEF TextBlock, TextBlocks
<1>6. TextBlocks \cup UseBlocks \subseteq AssistantBlocks /\ AssistantBlocks \subseteq AnyBlocks
  BY DEF AssistantBlocks, AnyBlocks
<1> HIDE DEF blocks, b
<1>7. blocks \in Seq(AssistantBlocks) /\ <<b>> \in Seq(AssistantBlocks) /\ <<b>> \in Seq(AnyBlocks)
  BY <1>2, <1>5, <1>6
<1>8. CASE blocks # <<>>
  BY <1>3, <1>4, <1>7, <1>8
<1>9. CASE blocks = <<>>
  <2>1. b \in AnyBlocks /\ CallIn[b] = <<>>
    BY <1>5, <1>6 DEF CallIn
  <2>2. FlatOfOne(CallIn, b)
    BY <2>1, CallInTyped, FlatOne, Zenon
  <2> DEFINE s == <<b>>
  <2> HIDE DEF s
  <2>3. s \in Seq(AnyBlocks)
    BY <1>7 DEF s
  <2>4. CallsOf(s) = Flat(CallIn, s)
    BY <2>3, CallsAre
  <2>5. CallsOf(s) = <<>>
    BY <2>1, <2>2, <2>4 DEF FlatOfOne, s
  <2> DEFINE e == <<>>
  <2>6a. e \in Seq(AnyBlocks)
    OBVIOUS
  <2> HIDE DEF e
  <2>6. CallsOf(e) = Flat(CallIn, e)
    BY <2>6a, CallsAre
  <2>7. CallsOf(<<>>) = <<>>
    BY <2>6, FlatEmpty DEF e
  <2>8. m.calls = <<>>
    BY <1>3, <1>9, <2>7
  <2>9. QED
    BY <1>4, <1>7, <1>9, <2>5, <2>8 DEF s
<1>10. QED
  BY <1>8, <1>9

LEMMA ItemsForAsk ==
  ASSUME NEW texts \in Seq(Int), NEW calls \in Seq(CallType)
  PROVE  /\ Asks(Flat(ItemToChat, ItemsFor(texts, calls)), calls, "responses")
         /\ Len(ItemsFor(texts, calls)) >= Len(calls)
<1> DEFINE item(t) == [type |-> "message", role |-> "assistant", text |-> t]
           k == [t \in Int |-> item(t)]
           l == [call \in CallType |-> restoreResponsesCustomToolCall(call)]
           a == Mapped(k, texts)
           b == Mapped(l, calls)
           one == [t \in Int |-> Chat("assistant", <<t>>, <<>>)]
           ones == [t \in Int |-> <<one[t]>>]
<1>1. ASSUME NEW t \in Int
      PROVE  /\ item(t) \in ItemType /\ one[t] \in QuietType
             /\ ItemToChat[item(t)] = <<one[t]>>
  <2>1. item(t) \in ItemType /\ item(t).type = "message" /\ item(t).text = t /\ item(t).role = "assistant"
    BY DEF ItemType, Speakers
  <2>2. one[t] = Chat("assistant", <<t>>, <<>>) /\ "assistant" \in Speakers
    BY DEF Speakers
  <2>3. one[t] \in ChatType
    BY <2>2, OneText
  <2>4. one[t].calls = <<>>
    BY <2>2 DEF Chat
  <2> HIDE DEF item, one
  <2>5. convertResponsesItem(item(t)) = <<one[t]>>
    BY <2>1, <2>2, ItemConverts
  <2>6. QED
    BY <2>1, <2>3, <2>4, <2>5 DEF QuietType, ItemToChat
<1>2. ASSUME NEW call \in CallType
      PROVE  /\ restoreResponsesCustomToolCall(call) \in ItemType
             /\ \E m \in ChatType : /\ ItemToChat[restoreResponsesCustomToolCall(call)] = <<m>>
                                    /\ Len(m.calls) = 1 /\ m.calls[1].id = call.id
  <2> DEFINE it == restoreResponsesCustomToolCall(call)
  <2>1. PICK d \in CallType : d.id = call.id /\ convertResponsesItem(it) = <<Chat("assistant", <<>>, <<d>>)>> /\ it \in ItemType
    <3>1. CASE call.tool = "custom"
      <4> DEFINE c == [call EXCEPT !.under = FALSE]
                 d == [c EXCEPT !.json = TRUE, !.under = TRUE]
      <4>1. c \in CallType /\ c.id = call.id
        BY DEF CallType
      <4>2. it = [type |-> "custom_tool_call", call |-> c]
        BY <3>1 DEF restoreResponsesCustomToolCall
      <4> HIDE DEF c, it
      <4>3. d \in CallType /\ d.id = call.id
        BY <4>1 DEF CallType
      <4>4. it \in ItemType /\ it.type = "custom_tool_call" /\ it.call = c
        BY <4>1, <4>2 DEF ItemType
      <4>5. convertResponsesItem(it) = <<Chat("assistant", <<>>, <<d>>)>>
        BY <4>4, ItemConverts
      <4>6. QED
        BY <4>3, <4>4, <4>5
    <3>2. CASE call.tool # "custom"
      <4>1. it = [type |-> "function_call", call |-> call]
        BY <3>2 DEF restoreResponsesCustomToolCall
      <4> HIDE DEF it
      <4>2. it \in ItemType /\ it.type = "function_call" /\ it.call = call
        BY <4>1 DEF ItemType
      <4>3. convertResponsesItem(it) = <<Chat("assistant", <<>>, <<call>>)>>
        BY <4>2, ItemConverts
      <4>4. QED
        BY <4>2, <4>3
    <3>3. QED
      BY <3>1, <3>2
  <2> DEFINE m == Chat("assistant", <<>>, <<d>>)
  <2>2. m \in ChatType
    BY OneCall
  <2>3. m.calls = <<d>>
    BY DEF Chat
  <2> HIDE DEF it, m
  <2>4. ItemToChat[it] = <<m>> /\ it \in ItemType
    BY <2>1 DEF ItemToChat, m
  <2>5. Len(m.calls) = 1 /\ m.calls[1].id = call.id
    BY <2>1, <2>3
  <2>6. QED
    BY <2>2, <2>4, <2>5 DEF it
<1>3. Map(LAMBDA t : [type |-> "message", role |-> "assistant", text |-> t], texts) = a
  <2>1. \A i \in DOMAIN texts : texts[i] \in Int
    OBVIOUS
  <2>2. QED
    BY <2>1 DEF Map, Mapped
<1>4. Map(restoreResponsesCustomToolCall, calls) = b
  <2>1. \A i \in DOMAIN calls : calls[i] \in CallType
    OBVIOUS
  <2>2. QED
    BY <2>1 DEF Map, Mapped
<1>5. k \in [Int -> ItemType] /\ l \in [CallType -> ItemType] /\ one \in [Int -> QuietType]
  <2>1. \A t \in Int : k[t] = item(t)
    OBVIOUS
  <2>2. one \in [Int -> QuietType]
    <3>1. \A t \in Int : one[t] \in QuietType
      BY <1>1
    <3>2. QED
      BY <3>1
  <2>3. k \in [Int -> ItemType]
    BY <1>1
  <2>4. l \in [CallType -> ItemType]
    BY <1>2
  <2>5. QED
    BY <2>2, <2>3, <2>4
<1>6. \A t \in Int : ItemToChat[k[t]] = ones[t]
  BY <1>1
<1>7. \A call \in CallType : l[call] = restoreResponsesCustomToolCall(call)
  OBVIOUS
<1> HIDE DEF one
<1>8. Flat(ones, texts) = Mapped(one, texts)
  BY <1>5, PassOfOnes
<1> HIDE DEF k, l, ones
<1>9. a \in Seq(ItemType)
  BY <1>5, MappedType
<1>10. b \in Seq(ItemType)
  BY <1>5, MappedType
<1>11. Flat(ItemToChat, a) = Flat(ones, texts)
  BY <1>6, FlatMapped
<1>12. Mapped(one, texts) \in Seq(QuietType)
  BY <1>5, MappedType
<1>13. Len(b) = Len(calls) /\ \A i \in 1..Len(calls) : b[i] = l[calls[i]]
  BY MappedLength, MappedAt
<1> DEFINE q == Flat(ItemToChat, a)
<1>14. q \in Seq(QuietType)
  BY <1>8, <1>11, <1>12
<1> HIDE DEF a, b
<1>15. FlatJoins(ItemToChat, a, b)
  BY <1>9, <1>10, ItemToChatTyped, FlatConcat, Zenon
<1>16. ItemsFor(texts, calls) = a \o b
  BY <1>3, <1>4 DEF ItemsFor
<1>17. Flat(ItemToChat, ItemsFor(texts, calls)) = q \o Flat(ItemToChat, b)
  BY <1>15, <1>16 DEF FlatJoins
<1> HIDE DEF q
<1>18. Len(calls) \in Nat
  OBVIOUS
<1>18a. Len(ItemsFor(texts, calls)) >= Len(calls)
  <2>1. Len(a \o b) = Len(a) + Len(b) /\ Len(a) \in Nat
    BY <1>9, <1>10
  <2>2. QED
    BY <1>13, <1>16, <1>18, <2>1
<1>19. CASE Len(calls) = 0
  <2>1. b = <<>>
    BY <1>10, <1>13, <1>19
  <2>2. Flat(ItemToChat, b) = <<>>
    BY <2>1, FlatEmpty
  <2>3. q \o <<>> = q
    BY <1>14, ConcatEmpty
  <2>4. QED
    BY <1>14, <1>17, <1>18a, <1>19, <2>2, <2>3 DEF Asks
<1>20. CASE Len(calls) = 1
  <2> DEFINE c == calls[1]
             it == restoreResponsesCustomToolCall(c)
  <2>0. 1 \in 1..Len(calls)
    BY <1>20
  <2>1. c \in CallType
    BY <2>0
  <2>2. b[1] = it /\ Len(b) = 1
    BY <1>7, <1>13, <1>20, <2>0, <2>1
  <2>3. it \in ItemType
    BY <1>2, <2>1
  <2> HIDE DEF it
  <2>4. b = <<it>>
    BY <1>10, <2>2
  <2>5. FlatOfOne(ItemToChat, it)
    BY <2>3, ItemToChatTyped, FlatOne, Zenon
  <2>6. PICK m \in ChatType : ItemToChat[it] = <<m>> /\ Len(m.calls) = 1 /\ m.calls[1].id = c.id
    BY <1>2, <2>1 DEF it
  <2>7. Flat(ItemToChat, b) = <<m>>
    BY <2>4, <2>5, <2>6 DEF FlatOfOne
  <2>8. IdsOf(m.calls) = {m.calls[1].id} /\ IdsOf(calls) = {c.id}
    <3>1. \A x \in 1..1 : x = 1
      OBVIOUS
    <3>2. 1 \in 1..1
      OBVIOUS
    <3>3. IdsOf(m.calls) = {m.calls[1].id}
      BY <2>6, <3>1, <3>2 DEF IdsOf
    <3>4. IdsOf(calls) = {c.id}
      BY <1>20, <3>1, <3>2 DEF IdsOf
    <3>5. QED
      BY <3>3, <3>4
  <2>9. QED
    BY <1>14, <1>17, <1>18a, <1>20, <2>6, <2>7, <2>8 DEF Asks
<1>21. CASE Len(calls) > 1
  BY <1>18a, <1>21 DEF Asks
<1>22. Len(calls) = 0 \/ Len(calls) = 1 \/ Len(calls) > 1
  <2>1. \A n \in Nat : n = 0 \/ n = 1 \/ n > 1
    OBVIOUS
  <2>2. QED
    BY ONLY <1>18, <2>1, Zenon
<1>23. QED
  BY ONLY <1>19, <1>20, <1>21, <1>22, Zenon

LEMMA ResponsesAsks ==
  ASSUME NEW m \in ChatType, m.role = "assistant"
  PROVE  Asks(Flat(ItemToChat, adaptChatResponseToResponses(m)), m.calls, "responses")
<1> DEFINE items == ItemsFor(m.texts, m.calls)
           it == [type |-> "message", role |-> "assistant", text |-> 0]
           c == Chat("assistant", <<0>>, <<>>)
<1>1. m.texts \in Seq(Int) /\ m.calls \in Seq(CallType)
  BY DEF ChatType
<1>2. Asks(Flat(ItemToChat, items), m.calls, "responses") /\ Len(items) >= Len(m.calls)
  BY <1>1, ItemsForAsk
<1>3. adaptChatResponseToResponses(m) = IF items = <<>> THEN <<it>> ELSE items
  BY DEF adaptChatResponseToResponses, ItemsFor
<1>4. it \in ItemType /\ it.type = "message" /\ it.role = "assistant" /\ it.text = 0
  BY DEF ItemType, Speakers
<1>5. c \in ChatType /\ c.calls = <<>>
  BY OneText DEF Speakers, Chat
<1> HIDE DEF items, it, c
<1>6. CASE items # <<>>
  BY <1>2, <1>3, <1>6
<1>7. CASE items = <<>>
  <2>1. Len(m.calls) = 0
    BY <1>1, <1>2, <1>7
  <2>2. convertResponsesItem(it) = <<c>>
    BY <1>4, ItemConverts DEF c
  <2>3. FlatOfOne(ItemToChat, it)
    BY <1>4, ItemToChatTyped, FlatOne, Zenon
  <2>4. Flat(ItemToChat, <<it>>) = <<c>>
    BY <1>4, <2>2, <2>3 DEF FlatOfOne, ItemToChat
  <2>5. c \in QuietType
    BY <1>5 DEF QuietType
  <2>6. <<c>> \in Seq(QuietType)
    BY <2>5
  <2>7. QED
    BY <1>3, <1>7, <2>1, <2>4, <2>6 DEF Asks
<1>8. QED
  BY <1>6, <1>7

(* What the client adds for an answer says what the answer did, and asks.   *)
LEMMA AnswerGiven ==
  ASSUME NEW cl \in Clients, NEW from \in {"chat", "anthropic"}, cl = "responses" => from = "chat",
         NEW answer \in AnswerType(from)
  PROVE  LET new == Adapted(cl, from, answer)
         IN /\ new \in Seq(FormType(cl))
            /\ \A what \in Whats : CountedIn(what, Statements(cl, new)) = CountedIn(what, SaidBy(from, answer))
            /\ Asks(Flat(AsChat(cl), new), AskedBy(from, answer), cl)
<1> DEFINE new == Adapted(cl, from, answer)
           say == SaidBy(from, answer)
           calls == AskedBy(from, answer)
<1>1. CASE from = "chat"
  <2>1. answer \in ChatType /\ answer.role = "assistant" /\ calls = answer.calls
    BY <1>1 DEF AnswerType, AskedBy
  <2>2. say = ChatStatements(answer)
    BY <1>1, FormSays DEF SaidBy
  <2> HIDE DEF say, calls
  <2>3. CASE cl = "responses"
    <3>1. new = adaptChatResponseToResponses(answer)
      BY <2>3, Adapts
    <3> HIDE DEF new
    <3>2. /\ new \in Seq(ItemType)
          /\ \A what \in Whats : CountedIn(what, Statements("responses", new)) = CountedIn(what, say)
      BY <2>1, <2>2, <3>1, ResponsesGets
    <3>3. Asks(Flat(ItemToChat, new), calls, "responses")
      BY <2>1, <3>1, ResponsesAsks
    <3>4. QED
      BY <2>3, <3>2, <3>3, FormTypes DEF AsChat, new, say, calls
  <2>4. CASE cl = "anthropic"
    <3> DEFINE m == adaptOpenAIResponseToAnthropic(answer)
    <3>1. new = <<m>>
      BY <1>1, <2>4, Adapts
    <3>2. m \in AnthropicType /\ \A what \in Whats : CountedIn(what, InSent[m]) = CountedIn(what, say)
      BY <2>1, <2>2, AnthropicGets
    <3>3. PICK content \in Seq(AssistantBlocks) :
            m = [role |-> "assistant", content |-> content] /\ CallsOf(content) = calls
      BY <2>1, AnthropicAsks
    <3>4. PICK c \in ChatType : Flat(ToChat, <<m>>) = <<c>> /\ c.calls = calls
      BY <3>3, AnthropicMessage
    <3> HIDE DEF m, new
    <3>5. m \in SentType
      BY <3>2, AnthropicSent
    <3>6. Statements("anthropic", <<m>>) = InSent[m]
      BY <3>5, AloneSays
    <3>7. Asks(<<c>>, calls, cl)
      BY <3>4, AsksAlone
    <3>8. <<m>> \in Seq(AnthropicType)
      BY <3>2
    <3>9. QED
      BY <2>4, <3>1, <3>2, <3>4, <3>6, <3>7, <3>8, FormTypes DEF AsChat, new, say, calls
  <2>5. CASE cl = "chat"
    <3>1. new = <<answer>>
      BY <1>1, <2>5, Adapts
    <3> HIDE DEF new
    <3>2. <<answer>> \in Seq(ChatType)
      BY <2>1
    <3>3. Flat(KeepChat, <<answer>>) = <<answer>>
      BY <3>2, KeepChatIs
    <3>4. Statements("chat", <<answer>>) = say
      BY <2>1, <2>2, AloneSays
    <3>5. Asks(<<answer>>, calls, cl)
      BY <2>1, AsksAlone
    <3>6. QED
      BY <2>5, <3>1, <3>2, <3>3, <3>4, <3>5, FormTypes DEF AsChat, new, say, calls
  <2>6. QED
    BY <2>3, <2>4, <2>5 DEF Clients
<1>2. CASE from = "anthropic"
  <2>1. answer \in Seq(AssistantBlocks) /\ calls = CallsOf(answer)
    BY <1>2 DEF AnswerType, AskedBy
  <2>2. say = Flat(InBlock("assistant"), answer)
    BY <1>2, <2>1, AnthropicMessage DEF SaidBy
  <2> DEFINE m == [role |-> "assistant", content |-> answer]
             c == adaptAnthropicResponseToOpenAI(answer)
  <2> HIDE DEF say, calls
  <2>3. CASE cl = "anthropic"
    <3>1. new = <<m>>
      BY <1>2, <2>3, Adapts
    <3>2. PICK d \in ChatType : Flat(ToChat, <<m>>) = <<d>> /\ d.calls = calls
      BY <2>1, AnthropicMessage
    <3>3. m \in AnthropicType /\ m \in SentType /\ InSent[m] = say
      BY <2>1, <2>2, AnthropicMessage
    <3> HIDE DEF m, new
    <3>4. Statements("anthropic", <<m>>) = say
      BY <3>3, AloneSays
    <3>5. Asks(<<d>>, calls, cl)
      BY <3>2, AsksAlone
    <3>6. <<m>> \in Seq(AnthropicType)
      BY <3>3
    <3>7. QED
      BY <2>3, <3>1, <3>2, <3>4, <3>5, <3>6, FormTypes DEF AsChat, new, say, calls
  <2>4. CASE cl = "chat"
    <3>1. new = <<c>>
      BY <1>2, <2>4, Adapts
    <3>2. c = Chat("assistant", TextsOf(answer), CallsOf(answer))
      BY DEF adaptAnthropicResponseToOpenAI
    <3>3. c \in ChatType
      BY <2>1, <3>2, AssistantSays
    <3>4. \A what \in Whats : CountedIn(what, ChatStatements(c)) = CountedIn(what, say)
      BY <2>1, <2>2, <3>2, AssistantKept
    <3>5. c.calls = calls
      BY <2>1, <3>2 DEF Chat
    <3> HIDE DEF c, new
    <3>6. <<c>> \in Seq(ChatType)
      BY <3>3
    <3>7. Flat(KeepChat, <<c>>) = <<c>>
      BY <3>6, KeepChatIs
    <3>8. Statements("chat", <<c>>) = ChatStatements(c)
      BY <3>3, AloneSays
    <3>9. Asks(<<c>>, calls, cl)
      BY <3>3, <3>5, AsksAlone
    <3>10. QED
      BY <2>4, <3>1, <3>4, <3>6, <3>7, <3>8, <3>9, FormTypes DEF AsChat, new, say, calls
  <2>5. cl # "responses"
    BY <1>2
  <2>6. QED
    BY <2>3, <2>4, <2>5 DEF Clients
<1>3. QED
  BY <1>1, <1>2

(***************************************************************************)
(* The invariant: the history says what was said, and a chat provider      *)
(* finds every turn closed, or the last one waiting for its results.       *)
(***************************************************************************)
Numbered(s) == \A x \in ResultIds(s) \cup IdsOf(PendingOf(s)) : x <= Len(s) + 1
InParallel(s) ==
  \E i, j \in DOMAIN s : i < j /\ s[i].what = "call" /\ s[j].what = "call"
                         /\ \A k \in i..j : s[k].who = "assistant"
TurnsOf(cl, h, s) ==
  \/ cl = "responses" /\ InParallel(s)
  \/ PendingOf(s) = <<>> /\ Closed(Flat(AsChat(cl), h))
  \/ PendingOf(s) # <<>> /\ Waiting(Flat(AsChat(cl), h), PendingOf(s))
SameCounts(a, b) == \A what \in Whats : CountedIn(what, a) = CountedIn(what, b)
SaysAll(cl, h, s) == SameCounts(Statements(cl, h), s)
JoinCounts(a, b, d, e) == SameCounts(a \o d, b \o e)
Held(cl, h, s) ==
  /\ cl \in Clients /\ h \in Seq(FormType(cl)) /\ s \in Seq(StatementType)
  /\ SaysAll(cl, h, s) /\ Numbered(s) /\ TurnsOf(cl, h, s)

LEMMA ParallelStays ==
  ASSUME NEW a \in Seq(StatementType), NEW b \in Seq(StatementType), InParallel(a)
  PROVE  InParallel(a \o b)
<1> DEFINE c == a \o b
<1>1. JoinsAt(StatementType, a, b)
  BY JoinedAt, Zenon
<1>2. /\ c \in Seq(StatementType) /\ Len(a) \in Nat /\ Len(b) \in Nat /\ Len(c) = Len(a) + Len(b)
      /\ \A i \in 1..Len(a) : c[i] = a[i]
  BY <1>1 DEF JoinsAt
<1> HIDE DEF c
<1>3. PICK i \in 1..Len(a), j \in 1..Len(a) :
        i < j /\ a[i].what = "call" /\ a[j].what = "call" /\ \A k \in i..j : a[k].who = "assistant"
  BY DEF InParallel
<1>4. \A k \in i..j : k \in 1..Len(a)
  OBVIOUS
<1>5. c[i].what = "call" /\ c[j].what = "call" /\ \A k \in i..j : c[k].who = "assistant"
  BY <1>2, <1>3, <1>4
<1>6. i \in DOMAIN c /\ j \in DOMAIN c
  BY <1>2
<1>7. QED
  BY <1>3, <1>5, <1>6 DEF InParallel, c

CountsOver(what, a, b) == CountedIn(what, a \o b) = CountedIn(what, a) \o CountedIn(what, b)
LEMMA CountedOver ==
  ASSUME NEW what, NEW a \in Seq(StatementType), NEW b \in Seq(StatementType)
  PROVE  CountsOver(what, a, b)
BY CountedJoined DEF CountsOver

LEMMA CountsJoin ==
  ASSUME NEW a \in Seq(StatementType), NEW b \in Seq(StatementType),
         NEW d \in Seq(StatementType), NEW e \in Seq(StatementType),
         SameCounts(a, b), SameCounts(d, e)
  PROVE  JoinCounts(a, b, d, e)
<1>1. ASSUME NEW what \in Whats
      PROVE  CountedIn(what, a \o d) = CountedIn(what, b \o e)
  <2>1. CountsOver(what, a, d)
    BY CountedOver, Zenon
  <2>2. CountsOver(what, b, e)
    BY CountedOver, Zenon
  <2>3. CountedIn(what, a) = CountedIn(what, b) /\ CountedIn(what, d) = CountedIn(what, e)
    BY DEF SameCounts
  <2>4. QED
    BY <2>1, <2>2, <2>3 DEF CountsOver
<1>2. QED
  BY <1>1 DEF JoinCounts, SameCounts

(* The results of two passages are those of each.                           *)
ResultsJoined(a, b) == ResultIds(a \o b) = ResultIds(a) \cup ResultIds(b)
LEMMA ResultsJoin ==
  ASSUME NEW a \in Seq(StatementType), NEW b \in Seq(StatementType)
  PROVE  ResultsJoined(a, b)
BY IdsJoin DEF ResultsJoined

(* One more text, or an answer with its calls.                              *)
LEMMA SpeaksHeld ==
  ASSUME NEW cl, NEW h, NEW s, Held(cl, h, s), PendingOf(s) = <<>>,
         NEW new \in Seq(FormType(cl)), NEW say \in Seq(AskType), NEW calls \in Seq(CallType),
         SameCounts(Statements(cl, new), say),
         Flat(Pending(ResultIds(s)), say) = Flat(CalledAs, calls),
         Len(say) >= Len(calls),
         \A x \in IdsOf(calls) : x <= Len(s) + Len(calls) + 1,
         Asks(Flat(AsChat(cl), new), calls, cl),
         cl = "responses" /\ Len(calls) > 1 => InParallel(s \o say)
  PROVE  Held(cl, h \o new, s \o say)
<1> DEFINE C == Flat(AsChat(cl), h)
           D == Flat(AsChat(cl), new)
           t == s \o say
           R == ResultIds(s)
           asked == Flat(CalledAs, calls)
<1>1. /\ cl \in Clients /\ h \in Seq(FormType(cl)) /\ s \in Seq(StatementType)
      /\ SaysAll(cl, h, s) /\ Numbered(s) /\ TurnsOf(cl, h, s)
  BY DEF Held
<1>2. say \in Seq(StatementType) /\ ResultIds(say) = {}
  BY AskedOnly
<1>3. t \in Seq(StatementType)
  BY <1>1, <1>2
<1>4. h \o new \in Seq(FormType(cl))
  BY <1>1, FormJoins
<1>5. /\ Statements(cl, h) \in Seq(StatementType) /\ Statements(cl, new) \in Seq(StatementType)
      /\ Statements(cl, h \o new) = Statements(cl, h) \o Statements(cl, new)
  BY <1>1, FormJoins
<1>6. C \in Seq(ChatType) /\ D \in Seq(ChatType) /\ Flat(AsChat(cl), h \o new) = C \o D
  BY <1>1, FormJoins
<1>7. SaysAll(cl, h \o new, t)
  <2>1. SameCounts(Statements(cl, h), s)
    BY <1>1 DEF SaysAll
  <2>2. Statements(cl, h) \in Seq(StatementType)
    BY <1>5
  <2>3. Statements(cl, new) \in Seq(StatementType)
    BY <1>5
  <2>4. s \in Seq(StatementType)
    BY <1>1
  <2>5. say \in Seq(StatementType)
    BY <1>2
  <2>6. JoinCounts(Statements(cl, h), s, Statements(cl, new), say)
    BY <2>1, <2>2, <2>3, <2>4, <2>5, CountsJoin, Zenon
  <2>7. QED
    BY <1>5, <2>6 DEF SaysAll, JoinCounts
<1>8. ResultIds(t) = R
  <2>1. s \in Seq(StatementType)
    BY <1>1
  <2>2. say \in Seq(StatementType)
    BY <1>2
  <2>3. ResultsJoined(s, say)
    BY <2>1, <2>2, ResultsJoin, Zenon
  <2>4. QED
    BY <1>2, <2>3 DEF ResultsJoined
<1>9. PendingOf(t) = asked
  <2>1. Flat(Pending(R), t) = Flat(Pending(R), s) \o Flat(Pending(R), say)
    BY <1>1, <1>2, PendingJoins
  <2>2. Flat(Pending(R), s) = <<>>
    BY DEF PendingOf
  <2>3. asked \in Seq(StatementType)
    BY CalledAsTyped, FlatType
  <2>4. <<>> \o asked = asked
    BY <2>3, ConcatEmpty
  <2>5. Flat(Pending(R), t) = asked
    BY <2>1, <2>2, <2>4
  <2> HIDE DEF t, R, asked
  <2>6. QED
    BY <1>8, <2>5 DEF PendingOf
<1>10. Len(asked) = Len(calls) /\ IdsOf(asked) = IdsOf(calls) /\ Len(calls) \in Nat
  BY CalledIds
<1>10a. asked \in Seq(StatementType)
  BY CalledAsTyped, FlatType
<1>11. Len(t) = Len(s) + Len(say) /\ Len(s) \in Nat /\ Len(say) \in Nat
  BY <1>1, <1>2
<1> HIDE DEF asked, C, D, t, R
<1>12. Numbered(t)
  <2>1. ASSUME NEW x \in R
        PROVE  x <= Len(t) + 1
    <3>1. x <= Len(s) + 1
      BY <1>1 DEF Numbered, R
    <3>2. x \in Int
      <4>1. PICK i \in DOMAIN s : x = s[i].id
        BY DEF R, ResultIds
      <4>2. s[i] \in StatementType
        BY <1>1
      <4>3. QED
        BY <4>1, <4>2 DEF StatementType
    <3>3. QED
      BY <1>11, <3>1, <3>2
  <2>2. ASSUME NEW x \in IdsOf(calls)
        PROVE  x <= Len(t) + 1
    <3>1. x <= Len(s) + Len(calls) + 1
      OBVIOUS
    <3>2. PICK i \in 1..Len(calls) : x = calls[i].id
      BY DEF IdsOf
    <3>3. calls[i] \in CallType
      OBVIOUS
    <3>4. x \in Int
      BY <3>2, <3>3 DEF CallType
    <3>5. QED
      BY <1>10, <1>11, <3>1, <3>4
  <2>3. QED
    BY <1>8, <1>9, <1>10, <2>1, <2>2 DEF Numbered
<1>13. TurnsOf(cl, h \o new, t)
  <2>1. CASE cl = "responses" /\ InParallel(s)
    <3>1. InParallel(t)
      BY <1>1, <1>2, <2>1, ParallelStays DEF t
    <3>2. QED
      BY <2>1, <3>1 DEF TurnsOf
  <2>2. CASE Closed(C)
    <3>1. CASE Len(calls) = 0 /\ D \in Seq(QuietType)
      <4>1. Closed(C \o D)
        BY <1>6, <2>2, <3>1, QuietClosed, ClosedJoin
      <4>2. asked = <<>>
        BY <1>10, <1>10a, <3>1
      <4>3. QED
        BY <1>6, <1>9, <4>1, <4>2 DEF TurnsOf
    <3>2. CASE cl = "responses" /\ Len(calls) > 1
      BY <3>2 DEF TurnsOf, t
    <3>3. CASE \E q \in Seq(QuietType), m \in ChatType :
                 D = q \o <<m>> /\ Len(m.calls) = Len(calls) /\ IdsOf(m.calls) = IdsOf(calls)
      <4>1. PICK q \in Seq(QuietType), m \in ChatType :
              D = q \o <<m>> /\ Len(m.calls) = Len(calls) /\ IdsOf(m.calls) = IdsOf(calls)
        BY <3>3
      <4>2. CASE Len(calls) = 0
        <5>1. m.calls = <<>>
          BY <4>1, <4>2, CallsCounted
        <5>2. m \in QuietType
          BY <5>1 DEF QuietType
        <5>3. <<m>> \in Seq(QuietType)
          BY <5>2
        <5>4. D \in Seq(QuietType)
          BY <4>1, <5>3
        <5>5. QED
          BY <3>1, <4>2, <5>4
      <4>3. CASE Len(calls) # 0
        <5>1. Len(m.calls) = Len(asked) /\ IdsOf(m.calls) = IdsOf(asked)
          BY <1>10, <4>1
        <5>2. Waiting(C \o (q \o <<m>>), asked)
          BY <1>6, <2>2, <5>1, TurnWaits
        <5>3. asked # <<>>
          BY <1>10, <4>3
        <5>4. QED
          BY <1>6, <1>9, <4>1, <5>2, <5>3 DEF TurnsOf
      <4>4. QED
        BY <4>2, <4>3
    <3>4. QED
      BY <3>1, <3>2, <3>3 DEF Asks, D
  <2>3. QED
    BY <1>1, <2>1, <2>2 DEF TurnsOf, C
<1>14. QED
  BY <1>1, <1>3, <1>4, <1>7, <1>12, <1>13 DEF Held, t

(* The results of all the calls that wait.                                  *)
LEMMA ResultsHeld ==
  ASSUME NEW cl, NEW h, NEW s, Held(cl, h, s), PendingOf(s) # <<>>,
         NEW new \in Seq(FormType(cl)), NEW calls \in Seq(StatementType),
         Len(calls) = Len(PendingOf(s)), IdsOf(calls) = IdsOf(PendingOf(s)),
         Statements(cl, new) = Mapped(ResultSaid, calls),
         Flat(AsChat(cl), new) = Mapped(ToolMsg, calls)
  PROVE  Held(cl, h \o new, s \o Mapped(ResultSaid, calls))
<1> DEFINE C == Flat(AsChat(cl), h)
           D == Mapped(ToolMsg, calls)
           say == Mapped(ResultSaid, calls)
           t == s \o say
           R == ResultIds(t)
<1>1. /\ cl \in Clients /\ h \in Seq(FormType(cl)) /\ s \in Seq(StatementType)
      /\ SaysAll(cl, h, s) /\ Numbered(s) /\ TurnsOf(cl, h, s)
  BY DEF Held
<1>2. /\ D \in Seq(QuietType) /\ say \in Seq(StatementType) /\ Len(D) = Len(calls) /\ Len(say) = Len(calls)
      /\ AnswersOf(D) = IdsOf(calls)
      /\ \A i \in 1..Len(calls) : say[i] = ResultSaid[calls[i]]
  BY ToolMsgs
<1> HIDE DEF D, say
<1>3. t \in Seq(StatementType) /\ Len(t) = Len(s) + Len(say) /\ Len(s) \in Nat /\ Len(say) \in Nat
  <2>1. s \in Seq(StatementType)
    BY <1>1
  <2>2. say \in Seq(StatementType)
    BY <1>2
  <2>3. JoinsAt(StatementType, s, say)
    BY <2>1, <2>2, JoinedAt, Zenon
  <2>4. QED
    BY <2>3 DEF JoinsAt
<1>4. h \o new \in Seq(FormType(cl))
  BY <1>1, FormJoins
<1>5. /\ Statements(cl, h) \in Seq(StatementType) /\ Statements(cl, new) \in Seq(StatementType)
      /\ Statements(cl, h \o new) = Statements(cl, h) \o Statements(cl, new)
  BY <1>1, FormJoins
<1>6. C \in Seq(ChatType) /\ Flat(AsChat(cl), h \o new) = C \o D
  <2>1. C \in Seq(ChatType) /\ Flat(AsChat(cl), h \o new) = C \o Flat(AsChat(cl), new)
    BY <1>1, FormJoins
  <2>2. QED
    BY <2>1 DEF D
<1>7. SaysAll(cl, h \o new, t)
  <2>1. SameCounts(Statements(cl, h), s)
    BY <1>1 DEF SaysAll
  <2>2. Statements(cl, h) \in Seq(StatementType)
    BY <1>5
  <2>3. Statements(cl, new) \in Seq(StatementType)
    BY <1>5
  <2>4. s \in Seq(StatementType)
    BY <1>1
  <2>5. say \in Seq(StatementType)
    BY <1>2
  <2>6. SameCounts(Statements(cl, new), say)
    BY DEF say, SameCounts
  <2>7. JoinCounts(Statements(cl, h), s, Statements(cl, new), say)
    BY <2>1, <2>2, <2>3, <2>4, <2>5, <2>6, CountsJoin, Zenon
  <2>8. QED
    BY <1>5, <2>7 DEF SaysAll, JoinCounts
<1>8. \A i \in 1..Len(calls) : say[i].what = "result" /\ say[i].id = calls[i].id
  <2>1. \A i \in 1..Len(calls) : calls[i] \in StatementType
    OBVIOUS
  <2>2. \A f \in StatementType : ResultSaid[f].what = "result" /\ ResultSaid[f].id = f.id
    BY DEF ResultSaid, Statement
  <2>3. QED
    BY <1>2, <2>1, <2>2
<1>9. ResultIds(say) = IdsOf(calls)
  <2>1. DOMAIN say = 1..Len(calls)
    BY <1>2
  <2>2. QED
    BY <1>8, <2>1 DEF ResultIds, IdsOf
<1>10. R = ResultIds(s) \cup IdsOf(calls)
  BY <1>1, <1>2, <1>9, IdsJoin
<1>11. PendingOf(t) = <<>>
  <2>1. ASSUME NEW i \in DOMAIN s, s[i].what = "call"
        PROVE  s[i].id \in R
    <3>1. CASE s[i].id \in ResultIds(s)
      BY <1>10, <3>1
    <3>2. CASE s[i].id \notin ResultIds(s)
      <4>1. s[i].id \in IdsOf(Flat(Pending(ResultIds(s)), s))
        BY <1>1, <2>1, <3>2, PendingHolds
      <4>2. QED
        BY <1>10, <4>1 DEF PendingOf
    <3>3. QED
      BY <3>1, <3>2
  <2>2. \A i \in DOMAIN say : say[i].what # "call"
    <3>1. DOMAIN say = 1..Len(calls)
      BY <1>2
    <3>2. QED
      BY <1>8, <3>1
  <2> HIDE DEF R
  <2>3. Flat(Pending(R), s) = <<>>
    BY <1>1, <2>1, NothingPending
  <2>4. Flat(Pending(R), say) = <<>>
    BY <1>2, <2>2, NothingPending
  <2>5. Flat(Pending(R), s \o say) = Flat(Pending(R), s) \o Flat(Pending(R), say)
    BY <1>1, <1>2, PendingJoins
  <2>6. <<>> \o <<>> = <<>>
    OBVIOUS
  <2>7. Flat(Pending(R), s \o say) = <<>>
    BY <2>3, <2>4, <2>5, <2>6
  <2>8. QED
    BY <2>7 DEF PendingOf, R
<1>12. Numbered(t)
  <2>1. ASSUME NEW x \in R
        PROVE  x <= Len(t) + 1
    <3>1. x <= Len(s) + 1
      BY <1>1, <1>10 DEF Numbered
    <3>2. x \in Int
      <4>1. PICK i \in DOMAIN t : x = t[i].id
        BY DEF ResultIds
      <4>2. t[i] \in StatementType
        BY <1>3
      <4>3. QED
        BY <4>1, <4>2 DEF StatementType
    <3>3. QED
      BY <1>3, <3>1, <3>2
  <2>2. IdsOf(<<>>) = {}
    BY DEF IdsOf
  <2>3. QED
    BY <1>11, <2>1, <2>2 DEF Numbered
<1> HIDE DEF C, t, R
<1>13. TurnsOf(cl, h \o new, t)
  <2>1. CASE cl = "responses" /\ InParallel(s)
    <3>1. InParallel(t)
      BY <1>1, <1>2, <2>1, ParallelStays DEF t
    <3>2. QED
      BY <2>1, <3>1 DEF TurnsOf
  <2>2. CASE Waiting(C, PendingOf(s))
    <3>1. Closed(C \o D)
      BY <1>2, <2>2, TurnReturns
    <3>2. QED
      BY <1>6, <1>11, <3>1 DEF TurnsOf
  <2>3. QED
    BY <1>1, <2>1, <2>2 DEF TurnsOf, C
<1>14. QED
  BY <1>1, <1>3, <1>4, <1>7, <1>12, <1>13 DEF Held, t, say

(***************************************************************************)
(* The steps of a conversation.                                            *)
(***************************************************************************)
ConversationInv == Held(client, history, said)

(* What is said next to what was said: s and more of it, the client's new   *)
(* messages, and the calls it asks for.                                     *)
Speaks(cl, s, new, say, calls) ==
  /\ new \in Seq(FormType(cl)) /\ say \in Seq(AskType) /\ calls \in Seq(CallType)
  /\ SameCounts(Statements(cl, new), say)
  /\ Flat(Pending(ResultIds(s)), say) = Flat(CalledAs, calls)
  /\ Len(say) >= Len(calls)
  /\ \A x \in IdsOf(calls) : x <= Len(s) + Len(calls) + 1
  /\ Asks(Flat(AsChat(cl), new), calls, cl)
  /\ cl = "responses" /\ Len(calls) > 1 => InParallel(s \o say)
StillHeld(cl, h, new, s, say) == Held(cl, h \o new, s \o say)
NoCalls == <<>>

LEMMA SpeaksOn ==
  ASSUME NEW cl, NEW h, NEW s, NEW new, NEW say, NEW calls,
         Held(cl, h, s), PendingOf(s) = <<>>, Speaks(cl, s, new, say, calls)
  PROVE  StillHeld(cl, h, new, s, say)
<1>1. new \in Seq(FormType(cl)) /\ say \in Seq(AskType) /\ calls \in Seq(CallType)
  BY DEF Speaks
<1>2. SameCounts(Statements(cl, new), say)
  BY DEF Speaks
<1>3. Flat(Pending(ResultIds(s)), say) = Flat(CalledAs, calls)
  BY DEF Speaks
<1>4. Len(say) >= Len(calls)
  BY DEF Speaks
<1>5. \A x \in IdsOf(calls) : x <= Len(s) + Len(calls) + 1
  BY DEF Speaks
<1>6. Asks(Flat(AsChat(cl), new), calls, cl)
  BY DEF Speaks
<1>7. cl = "responses" /\ Len(calls) > 1 => InParallel(s \o say)
  BY DEF Speaks
<1>8. QED
  BY <1>1, <1>2, <1>3, <1>4, <1>5, <1>6, <1>7, SpeaksHeld DEF StillHeld

LEMMA TextSpeaks ==
  ASSUME client \in Clients, NEW role \in {"user", "system"}, NEW t \in Int, NEW s
  PROVE  Speaks(client, s, <<Saying(role, t)>>, <<Statement(role, "text", 0, t)>>, NoCalls)
<1> DEFINE f == Statement(role, "text", 0, t)
           m == Saying(role, t)
           R == ResultIds(s)
<1>1. /\ m \in FormType(client) /\ Statements(client, <<m>>) = <<f>>
      /\ Flat(AsChat(client), <<m>>) \in Seq(QuietType)
  BY SayingGiven
<1>2. f \in AskType /\ f \in StatementType /\ f.what = "text"
  <2>1. f \in StatementType
    BY StatementsTyped DEF Speakers
  <2>2. f.what = "text"
    BY DEF Statement
  <2>3. QED
    BY <2>1, <2>2 DEF AskType
<1> HIDE DEF f, m, R
<1>3. <<m>> \in Seq(FormType(client))
  BY <1>1
<1>4. <<f>> \in Seq(AskType) /\ <<f>> \in Seq(StatementType) /\ Len(<<f>>) = 1
  BY <1>2
<1>5. NoCalls \in Seq(CallType) /\ Len(NoCalls) = 0 /\ IdsOf(NoCalls) = {}
  BY DEF NoCalls, IdsOf
<1>6. SameCounts(Statements(client, <<m>>), <<f>>)
  BY <1>1 DEF SameCounts
<1>7. Flat(Pending(R), <<f>>) = Flat(CalledAs, NoCalls)
  <2>1. \A i \in DOMAIN <<f>> : <<f>>[i].what # "call"
    BY <1>2
  <2>2. Flat(Pending(R), <<f>>) = <<>>
    BY <1>4, <2>1, NothingPending
  <2>3. Flat(CalledAs, NoCalls) = <<>>
    BY FlatEmpty DEF NoCalls
  <2>4. QED
    BY <2>2, <2>3
<1>8. Asks(Flat(AsChat(client), <<m>>), NoCalls, client)
  BY <1>1, <1>5 DEF Asks
<1>9. Speaks(client, s, <<m>>, <<f>>, NoCalls)
  BY <1>3, <1>4, <1>5, <1>6, <1>7, <1>8 DEF Speaks, R
<1>10. QED
  BY <1>9 DEF f, m

(* A conversation begins with nothing, or with the system's text.           *)
LEMMA NothingHeld ==
  ASSUME NEW cl \in Clients
  PROVE  Held(cl, <<>>, <<>>) /\ PendingOf(<<>>) = <<>>
<1>1. <<>> \in Seq(FormType(cl)) /\ <<>> \in Seq(StatementType) /\ <<>> \in Seq(QuietType)
  OBVIOUS
<1>2. Statements(cl, <<>>) = <<>>
  BY FlatEmpty, <1>1, FormTyped
<1>3. PendingOf(<<>>) = <<>>
  BY FlatEmpty DEF PendingOf
<1>4. Closed(Flat(AsChat(cl), <<>>))
  BY <1>1, FlatEmpty, QuietClosed
<1>5. ResultIds(<<>>) = {} /\ IdsOf(<<>>) = {}
  BY DEF ResultIds, IdsOf
<1>6. Numbered(<<>>)
  BY <1>3, <1>5 DEF Numbered
<1>7. SaysAll(cl, <<>>, <<>>)
  BY <1>2 DEF SaysAll, SameCounts
<1>8. QED
  BY <1>1, <1>3, <1>4, <1>6, <1>7 DEF Held, TurnsOf

LEMMA ConversationBegins == BodyInit => ConversationInv
<1> SUFFICES ASSUME BodyInit
             PROVE  ConversationInv
  OBVIOUS
<1>1. client \in Clients
  BY DEF BodyInit, Clients
<1>2. Held(client, <<>>, <<>>) /\ PendingOf(<<>>) = <<>>
  BY <1>1, NothingHeld
<1>3. CASE history = <<>> /\ said = <<>>
  BY <1>2, <1>3 DEF ConversationInv
<1>4. CASE history = <<Saying("system", 1)>> /\ said = <<Statement("system", "text", 0, 1)>>
  <2> DEFINE new == <<Saying("system", 1)>>
             say == <<Statement("system", "text", 0, 1)>>
             before == <<>>
  <2>1. Speaks(client, before, new, say, NoCalls)
    BY <1>1, TextSpeaks
  <2>2. Held(client, before, before) /\ PendingOf(before) = <<>>
    BY <1>2
  <2>3. before \o new = new /\ before \o say = say
    OBVIOUS
  <2> HIDE DEF new, say, before
  <2>4. StillHeld(client, before, new, before, say)
    BY <2>1, <2>2, SpeaksOn
  <2>5. history = new /\ said = say
    BY <1>4 DEF new, say
  <2>6. QED
    BY <2>3, <2>4, <2>5 DEF StillHeld, ConversationInv
<1>5. QED
  BY <1>3, <1>4 DEF BodyInit

(* The calls that wait are those of the state.                              *)
LEMMA UnansweredIs ==
  ASSUME said \in Seq(StatementType)
  PROVE  Unanswered = PendingOf(said)
<1>1. Ids("result") = ResultIds(said)
  BY DEF Ids, ResultIds
<1>2. QED
  BY <1>1, PendingIs DEF Unanswered, Where, PendingOf

LEMMA UserSaysHeld ==
  ASSUME ConversationInv, UserSays
  PROVE  ConversationInv'
<1> DEFINE new == <<Saying("user", Next1)>>
           say == <<Statement("user", "text", 0, Next1)>>
<1>1. client \in Clients /\ history \in Seq(FormType(client)) /\ said \in Seq(StatementType)
  BY DEF ConversationInv, Held
<1>2. PendingOf(said) = <<>>
  BY <1>1, UnansweredIs DEF UserSays
<1>3. Next1 \in Int
  BY <1>1 DEF Next1
<1>4. Speaks(client, said, new, say, NoCalls)
  BY <1>1, <1>3, TextSpeaks
<1>5. history' = history \o new /\ said' = said \o say /\ client' = client
  <2>1. Append(history, Saying("user", Next1)) = history \o new
    BY <1>1
  <2>2. Append(said, Statement("user", "text", 0, Next1)) = said \o say
    BY <1>1
  <2>3. QED
    BY <2>1, <2>2 DEF UserSays
<1> HIDE DEF new, say
<1>6. StillHeld(client, history, new, said, say)
  BY <1>2, <1>4, SpeaksOn DEF ConversationInv
<1>7. QED
  BY <1>5, <1>6 DEF StillHeld, ConversationInv

(***************************************************************************)
(* The answers a provider may give: their calls are numbered behind what   *)
(* was said.                                                               *)
(***************************************************************************)
CallsNumbered(calls, n) ==
  calls \in Seq(CallType) /\ \A i \in 1..Len(calls) : calls[i].id = n + 1 + i

CalledNow(call, n) == call \in CallType /\ call.id = Len(said) + 1 + n

LEMMA CallsNow ==
  ASSUME NEW n \in Int, NEW tool \in Tools, NEW json \in BOOLEAN, Len(said) \in Nat
  PROVE  CalledNow(CallNow(n, tool, json), n)
<1>1. Next1 + n \in Int /\ Next1 + n = Len(said) + 1 + n
  BY DEF Next1
<1> DEFINE k == Next1 + n
<1>2. CallNow(n, tool, json) = [id |-> k, tool |-> tool, value |-> k, json |-> json, under |-> FALSE]
  BY DEF CallNow, ToolCall
<1> HIDE DEF k
<1>3. k \in Int
  BY <1>1 DEF k
<1>4. CallNow(n, tool, json) \in CallType /\ CallNow(n, tool, json).id = k
  BY <1>2, <1>3 DEF CallType
<1>5. QED
  BY <1>1, <1>4 DEF k, CalledNow

LEMMA TheCalls ==
  ASSUME Len(said) \in Nat, NEW t \in Tools, NEW u \in Tools, NEW j \in BOOLEAN
  PROVE  /\ CalledNow(CallNow(1, t, j), 1)
         /\ CalledNow(CallNow(1, t, TRUE), 1) /\ CalledNow(CallNow(2, u, TRUE), 2)
         /\ CalledNow(CallNow(1, "function", TRUE), 1) /\ CalledNow(CallNow(2, "function", TRUE), 2)
<1>1. 1 \in Int /\ 2 \in Int
  OBVIOUS
<1>2. TRUE \in BOOLEAN
  OBVIOUS
<1>3. "function" \in Tools
  BY DEF Tools
<1>4. QED
  BY <1>1, <1>2, <1>3, CallsNow, Zenon

LEMMA OneCallNow ==
  ASSUME NEW call \in CallType, NEW n \in Nat, call.id = n + 1 + 1
  PROVE  CallsNumbered(<<call>>, n)
<1>1. <<call>> \in Seq(CallType) /\ Len(<<call>>) = 1 /\ <<call>>[1] = call
  OBVIOUS
<1>2. QED
  BY <1>1 DEF CallsNumbered

LEMMA TwoCallsNow ==
  ASSUME NEW a \in CallType, NEW b \in CallType, NEW n \in Nat, a.id = n + 1 + 1, b.id = n + 1 + 2
  PROVE  CallsNumbered(<<a, b>>, n)
<1> DEFINE s == <<a, b>>
<1>1. s \in Seq(CallType) /\ Len(s) = 2 /\ s[1] = a /\ s[2] = b
  OBVIOUS
<1> HIDE DEF s
<1>2. \A i \in 1..Len(s) : i = 1 \/ i = 2
  BY <1>1
<1>3. \A i \in 1..Len(s) : s[i].id = n + 1 + i
  BY <1>1, <1>2
<1>4. QED
  BY <1>1, <1>3 DEF CallsNumbered, s

LEMMA MessageTyped ==
  ASSUME NEW texts \in Seq(Int), NEW calls \in Seq(CallType)
  PROVE  LET m == Chat("assistant", texts, calls)
         IN m \in ChatType /\ m.role = "assistant" /\ m.calls = calls
BY DEF Chat, ChatType, Speakers

OneCalls == {<<CallNow(1, t, j)>> : t \in Tools, j \in BOOLEAN}
CallPair(t, u) == <<CallNow(1, t, TRUE), CallNow(2, u, TRUE)>>
TwoCalls == {CallPair(t, u) : t \in Tools, u \in Tools}
NoTexts == {<<>>, <<Next1>>}
MessagesFor(T, C) == {Chat("assistant", texts, calls) : texts \in T, calls \in C}

LEMMA OneCallsNumbered ==
  ASSUME Len(said) \in Nat, NEW calls \in OneCalls
  PROVE  CallsNumbered(calls, Len(said))
<1>1. PICK t \in Tools, j \in BOOLEAN : calls = <<CallNow(1, t, j)>>
  BY DEF OneCalls
<1> DEFINE a == CallNow(1, t, j)
<1>2. CalledNow(a, 1)
  BY TheCalls
<1> HIDE DEF a
<1>3. a \in CallType /\ a.id = Len(said) + 1 + 1
  BY <1>2 DEF CalledNow
<1>4. CallsNumbered(<<a>>, Len(said))
  BY <1>3, OneCallNow
<1>5. QED
  BY <1>1, <1>4 DEF a

LEMMA TwoCallsNumbered ==
  ASSUME Len(said) \in Nat, NEW calls \in TwoCalls
  PROVE  CallsNumbered(calls, Len(said))
<1>1. PICK t \in Tools, u \in Tools : calls = CallPair(t, u)
  BY DEF TwoCalls
<1> DEFINE a == CallNow(1, t, TRUE)
           b == CallNow(2, u, TRUE)
<1>2. CalledNow(a, 1) /\ CalledNow(b, 2)
  BY TheCalls
<1> HIDE DEF a, b
<1>3. a \in CallType /\ a.id = Len(said) + 1 + 1 /\ b \in CallType /\ b.id = Len(said) + 1 + 2
  BY <1>2 DEF CalledNow
<1>4. CallsNumbered(<<a, b>>, Len(said))
  BY <1>3, TwoCallsNow
<1>5. QED
  BY <1>1, <1>4 DEF a, b, CallPair

LEMMA MessagesAre ==
  ASSUME NEW T, NEW C, NEW m \in MessagesFor(T, C)
  PROVE  \E texts \in T, calls \in C : m = Chat("assistant", texts, calls)
BY DEF MessagesFor

LEMMA ChatAnswersNumbered ==
  ASSUME Len(said) \in Nat, NEW answer \in ChatAnswers
  PROVE  answer \in AnswerType("chat") /\ CallsNumbered(AskedBy("chat", answer), Len(said))
<1>1. Next1 \in Int
  BY DEF Next1
<1>2. <<Next1>> \in Seq(Int) /\ <<>> \in Seq(Int) /\ <<>> \in Seq(CallType)
  BY <1>1
<1>3. CASE answer = Chat("assistant", <<Next1>>, <<>>)
  <2>1. answer \in ChatType /\ answer.role = "assistant" /\ answer.calls = <<>>
    BY <1>2, <1>3, MessageTyped
  <2>2. CallsNumbered(<<>>, Len(said))
    BY <1>2 DEF CallsNumbered
  <2>3. QED
    BY <2>1, <2>2 DEF AnswerType, AskedBy
<1>4. CASE answer \in MessagesFor(NoTexts, OneCalls \cup TwoCalls)
  <2>1. PICK texts \in NoTexts, calls \in OneCalls \cup TwoCalls : answer = Chat("assistant", texts, calls)
    BY <1>4, MessagesAre
  <2>2. texts \in Seq(Int)
    BY <1>2, <2>1 DEF NoTexts
  <2>3. CallsNumbered(calls, Len(said))
    <3>1. calls \in OneCalls \/ calls \in TwoCalls
      BY <2>1
    <3>2. QED
      BY <3>1, OneCallsNumbered, TwoCallsNumbered
  <2>4. calls \in Seq(CallType)
    BY <2>3 DEF CallsNumbered
  <2>5. answer \in ChatType /\ answer.role = "assistant" /\ answer.calls = calls
    BY <2>1, <2>2, <2>4, MessageTyped
  <2>6. QED
    BY <2>3, <2>5 DEF AnswerType, AskedBy
<1>5. ChatAnswers = {Chat("assistant", <<Next1>>, <<>>)} \cup MessagesFor(NoTexts, OneCalls \cup TwoCalls)
  BY DEF ChatAnswers, MessagesFor, NoTexts, OneCalls, TwoCalls, CallPair
<1>6. QED
  BY <1>3, <1>4, <1>5

(* A pass over three.                                                       *)
LEMMA PairAndThree ==
  ASSUME NEW S, NEW x \in S, NEW y \in S, NEW z \in S
  PROVE  <<x>> \o <<y>> \in Seq(S) /\ (<<x>> \o <<y>>) \o <<z>> = <<x, y, z>>
<1> DEFINE a == <<x>> \o <<y>>
           b == <<z>>
           c == <<x, y, z>>
           d == a \o b
<1>1. /\ a \in Seq(S) /\ Len(a) = 2 /\ a[1] = x /\ a[2] = y
  OBVIOUS
<1>2. b \in Seq(S) /\ Len(b) = 1 /\ b[1] = z
  OBVIOUS
<1>3. c \in Seq(S) /\ Len(c) = 3 /\ c[1] = x /\ c[2] = y /\ c[3] = z
  OBVIOUS
<1> HIDE DEF a, b, c
<1>4. JoinsAt(S, a, b)
  BY <1>1, <1>2, JoinedAt
<1>5. d \in Seq(S) /\ Len(d) = 3 /\ d[1] = x /\ d[2] = y /\ d[3] = z
  BY <1>1, <1>2, <1>4 DEF JoinsAt
<1> HIDE DEF d
<1>6. \A i \in 1..3 : i = 1 \/ i = 2 \/ i = 3
  OBVIOUS
<1>7. \A i \in 1..3 : d[i] = c[i]
  BY <1>3, <1>5, <1>6
<1>8. d = c
  BY <1>3, <1>5, <1>7, ByElements
<1>9. QED
  BY <1>1, <1>8 DEF a, b, c, d

LEMMA NothingJoins ==
  ASSUME NEW x, NEW y
  PROVE  /\ (<<>> \o <<>>) \o <<x>> = <<x>>
         /\ (<<x>> \o <<>>) \o <<y>> = <<x, y>>
<1> DEFINE S == {x, y}
           a == <<x>>
           b == <<y>>
           c == <<x, y>>
           d == a \o b
<1>1. a \in Seq(S) /\ b \in Seq(S) /\ <<>> \in Seq(S)
  OBVIOUS
<1>2. Len(a) = 1 /\ a[1] = x /\ Len(b) = 1 /\ b[1] = y
  OBVIOUS
<1>3. c \in Seq(S) /\ Len(c) = 2 /\ c[1] = x /\ c[2] = y
  OBVIOUS
<1> HIDE DEF S, a, b, c
<1>4. a \o <<>> = a /\ <<>> \o a = a /\ <<>> \o <<>> = <<>>
  BY <1>1, ConcatEmpty
<1>5. d \in Seq(S) /\ Len(d) = 2 /\ d[1] = x /\ d[2] = y
  BY <1>1, <1>2, JoinedAt DEF JoinsAt
<1> HIDE DEF d
<1>6. \A i \in 1..2 : i = 1 \/ i = 2
  OBVIOUS
<1>7. \A i \in 1..2 : d[i] = c[i]
  BY <1>3, <1>5, <1>6
<1>8. d = c
  BY <1>3, <1>5, <1>7, ByElements
<1>9. QED
  BY <1>4, <1>8 DEF a, b, c, d

OfThree(g, x, y, z) == Flat(g, <<x, y, z>>) = (g[x] \o g[y]) \o g[z]
LEMMA FlatThree ==
  ASSUME NEW S, NEW T, NEW g \in [S -> Seq(T)], NEW x \in S, NEW y \in S, NEW z \in S
  PROVE  OfThree(g, x, y, z)
<1>1. <<x>> \in Seq(S) /\ <<y>> \in Seq(S) /\ <<z>> \in Seq(S)
  OBVIOUS
<1>2. <<x>> \o <<y>> \in Seq(S) /\ (<<x>> \o <<y>>) \o <<z>> = <<x, y, z>>
  BY PairAndThree
<1>3. FlatJoins(g, <<x>>, <<y>>)
  BY <1>1, FlatConcat
<1> DEFINE a == <<x>> \o <<y>>
           b == <<z>>
<1>4. a \in Seq(S) /\ b \in Seq(S)
  BY <1>1, <1>2
<1> HIDE DEF a, b
<1>5. FlatJoins(g, a, b)
  BY <1>4, FlatConcat
<1>6. FlatOfOne(g, x) /\ FlatOfOne(g, y) /\ FlatOfOne(g, z)
  BY FlatOne
<1>7. Flat(g, a \o b) = Flat(g, a) \o Flat(g, b)
  BY <1>5 DEF FlatJoins
<1>8. Flat(g, a) = g[x] \o g[y]
  BY <1>3, <1>6 DEF FlatJoins, FlatOfOne, a
<1>9. Flat(g, b) = g[z]
  BY <1>6 DEF FlatOfOne, b
<1>10. a \o b = <<x, y, z>>
  BY <1>2 DEF a, b
<1>11. QED
  BY <1>7, <1>8, <1>9, <1>10 DEF OfThree

LEMMA BlocksMade ==
  /\ \A t \in Int : TextBlock(t) \in AssistantBlocks /\ TextBlock(t).type = "text"
  /\ \A call \in CallType :
       /\ ToolUse(call) \in AssistantBlocks /\ ToolUse(call).type = "tool_use" /\ ToolUse(call).call = call
  /\ [type |-> "thinking"] \in AssistantBlocks /\ [type |-> "thinking"].type = "thinking"
  /\ AssistantBlocks \subseteq AnyBlocks
<1>1. \A t \in Int : TextBlock(t) \in TextBlocks /\ TextBlock(t).type = "text"
  BY DEF TextBlock, TextBlocks
<1>2. \A call \in CallType :
        ToolUse(call) \in UseBlocks /\ ToolUse(call).type = "tool_use" /\ ToolUse(call).call = call
  BY DEF ToolUse, UseBlocks
<1>3. [type |-> "thinking"] \in ThinkingBlocks /\ [type |-> "thinking"].type = "thinking"
  BY DEF ThinkingBlocks
<1>4. AssistantBlocks \subseteq AnyBlocks
  BY DEF AssistantBlocks, AnyBlocks
<1>5. QED
  BY <1>1, <1>2, <1>3, <1>4 DEF AssistantBlocks

LEMMA CallsOfThree ==
  ASSUME NEW x \in AssistantBlocks, NEW y \in AssistantBlocks, NEW z \in AssistantBlocks
  PROVE  /\ <<x, y, z>> \in Seq(AssistantBlocks)
         /\ CallsOf(<<x, y, z>>) = (CallIn[x] \o CallIn[y]) \o CallIn[z]
<1>1. x \in AnyBlocks /\ y \in AnyBlocks /\ z \in AnyBlocks
  BY BlocksMade
<1>2. <<x, y, z>> \in Seq(AnyBlocks) /\ <<x, y, z>> \in Seq(AssistantBlocks)
  BY <1>1
<1>3. CallsOf(<<x, y, z>>) = Flat(CallIn, <<x, y, z>>)
  BY <1>2, CallsAre
<1>4. OfThree(CallIn, x, y, z)
  BY <1>1, CallInTyped, FlatThree, Zenon
<1>5. QED
  BY <1>2, <1>3, <1>4 DEF OfThree

LEMMA AnthropicAnswersNumbered ==
  ASSUME Len(said) \in Nat, NEW answer \in AnthropicAnswers
  PROVE  answer \in AnswerType("anthropic") /\ CallsNumbered(AskedBy("anthropic", answer), Len(said))
<1> DEFINE n == Len(said)
           text == TextBlock(Next1)
           first == CallNow(1, "function", TRUE)
           second == CallNow(2, "function", TRUE)
           thinks == [type |-> "thinking"]
<1>1. Next1 \in Int
  BY DEF Next1
<1>2. first \in CallType /\ first.id = n + 1 + 1
  BY TheCalls DEF CalledNow, Tools
<1>3. second \in CallType /\ second.id = n + 1 + 2
  BY TheCalls DEF CalledNow, Tools
<1>4. text \in AssistantBlocks /\ text.type = "text"
  BY <1>1, BlocksMade
<1> HIDE DEF text, first, second
<1>5. ToolUse(first) \in AssistantBlocks /\ ToolUse(first).type = "tool_use" /\ ToolUse(first).call = first
  BY <1>2, BlocksMade
<1>6. ToolUse(second) \in AssistantBlocks /\ ToolUse(second).type = "tool_use" /\ ToolUse(second).call = second
  BY <1>3, BlocksMade
<1>7. thinks \in AssistantBlocks /\ thinks.type = "thinking"
  BY BlocksMade
<1> HIDE DEF thinks, n
<1>8. AssistantBlocks \subseteq AnyBlocks
  BY BlocksMade
<1>9. CallIn[text] = <<>> /\ CallIn[thinks] = <<>>
  BY <1>4, <1>7, <1>8 DEF CallIn
<1>10. CallIn[ToolUse(first)] = <<first>> /\ CallIn[ToolUse(second)] = <<second>>
  BY <1>5, <1>6, <1>8 DEF CallIn
<1>11. n \in Nat
  BY DEF n
<1>12. CASE answer = <<text>>
  <2>1. answer \in Seq(AssistantBlocks) /\ answer \in Seq(AnyBlocks)
    BY <1>4, <1>8, <1>12
  <2>2. FlatOfOne(CallIn, text)
    BY <1>4, <1>8, CallInTyped, FlatOne
  <2>3. CallsOf(answer) = <<>>
    BY <1>9, <1>12, <2>1, <2>2, CallsAre DEF FlatOfOne
  <2>4. CallsNumbered(<<>>, n)
    BY DEF CallsNumbered
  <2>5. QED
    BY <2>1, <2>3, <2>4 DEF AnswerType, AskedBy, n
<1>13. CASE answer = <<thinks, text, ToolUse(first)>>
  <2>1. answer \in Seq(AssistantBlocks)
    BY <1>4, <1>5, <1>7, <1>13, CallsOfThree
  <2> DEFINE c == ToolUse(first)
  <2>1a. c \in AssistantBlocks /\ CallIn[c] = <<first>>
    BY <1>5, <1>10
  <2> HIDE DEF c
  <2>1b. CallsOf(<<thinks, text, c>>) = (CallIn[thinks] \o CallIn[text]) \o CallIn[c]
    BY <1>4, <1>7, <2>1a, CallsOfThree
  <2>2. CallsOf(answer) = (<<>> \o <<>>) \o <<first>>
    BY <1>9, <1>13, <2>1a, <2>1b DEF c
  <2>3. (<<>> \o <<>>) \o <<first>> = <<first>>
    BY NothingJoins
  <2>4. CallsNumbered(<<first>>, n)
    BY <1>2, <1>11, OneCallNow
  <2>5. QED
    BY <2>1, <2>2, <2>3, <2>4 DEF AnswerType, AskedBy, n
<1>14. CASE answer = <<ToolUse(first), text, ToolUse(second)>>
  <2>1. answer \in Seq(AssistantBlocks)
    BY <1>4, <1>5, <1>6, <1>14, CallsOfThree
  <2> DEFINE c == ToolUse(first)
             d == ToolUse(second)
  <2>1a. c \in AssistantBlocks /\ CallIn[c] = <<first>> /\ d \in AssistantBlocks /\ CallIn[d] = <<second>>
    BY <1>5, <1>6, <1>10
  <2> HIDE DEF c, d
  <2>1b. CallsOf(<<c, text, d>>) = (CallIn[c] \o CallIn[text]) \o CallIn[d]
    BY <1>4, <2>1a, CallsOfThree
  <2>2. CallsOf(answer) = (<<first>> \o <<>>) \o <<second>>
    BY <1>9, <1>14, <2>1a, <2>1b DEF c, d
  <2>3. (<<first>> \o <<>>) \o <<second>> = <<first, second>>
    BY NothingJoins
  <2>4. CallsNumbered(<<first, second>>, n)
    BY <1>2, <1>3, <1>11, TwoCallsNow
  <2>5. QED
    BY <2>1, <2>2, <2>3, <2>4 DEF AnswerType, AskedBy, n
<1>15. QED
  BY <1>12, <1>13, <1>14 DEF AnthropicAnswers, text, first, second, thinks

(* Calls that follow each other were made in parallel.                      *)
LEMMA CallsParallel ==
  ASSUME NEW a \in Seq(StatementType), NEW calls \in Seq(CallType), Len(calls) > 1
  PROVE  InParallel(a \o Flat(CalledAs, calls))
<1> DEFINE b == Flat(CalledAs, calls)
           c == a \o b
           i == Len(a) + 1
           j == Len(a) + 2
<1>1. b \in Seq(AskType) /\ Len(b) = Len(calls) /\ \A k \in 1..Len(calls) : b[k] = CallStatement(calls[k])
  BY CalledIds
<1>2. b \in Seq(StatementType)
  BY <1>1, AskedOnly
<1>3. \A call \in CallType : CallStatement(call).what = "call" /\ CallStatement(call).who = "assistant"
  BY DEF CallStatement, Statement
<1>4. Len(calls) \in Nat /\ 1 \in 1..Len(calls) /\ 2 \in 1..Len(calls)
  OBVIOUS
<1>5. calls[1] \in CallType /\ calls[2] \in CallType
  BY <1>4
<1>6. b[1].what = "call" /\ b[1].who = "assistant" /\ b[2].what = "call" /\ b[2].who = "assistant"
  BY <1>1, <1>3, <1>4, <1>5
<1> HIDE DEF b
<1>7. JoinsAt(StatementType, a, b)
  BY <1>2, JoinedAt, Zenon
<1>8. /\ c \in Seq(StatementType) /\ Len(a) \in Nat /\ Len(c) = Len(a) + Len(b)
      /\ \A k \in 1..Len(b) : c[Len(a) + k] = b[k]
  BY <1>7 DEF JoinsAt
<1> HIDE DEF c
<1>9. c[i] = b[1] /\ c[j] = b[2]
  BY <1>1, <1>4, <1>8
<1>10. i \in 1..Len(c) /\ j \in 1..Len(c) /\ i < j
  BY <1>1, <1>4, <1>8
<1>11. \A k \in i..j : k = i \/ k = j
  BY <1>8
<1>12. DOMAIN c = 1..Len(c)
  BY <1>8
<1> HIDE DEF i, j
<1>13. c[i].what = "call" /\ c[j].what = "call" /\ \A k \in i..j : c[k].who = "assistant"
  BY <1>6, <1>9, <1>11
<1>14. i \in DOMAIN c /\ j \in DOMAIN c
  BY <1>10, <1>12
<1>15. InParallel(c)
  BY <1>10, <1>13, <1>14 DEF InParallel
<1>16. QED
  BY <1>15 DEF b, c

LEMMA MessageParallel ==
  ASSUME NEW s \in Seq(StatementType), NEW m \in ChatType, m.role = "assistant", Len(m.calls) > 1
  PROVE  InParallel(s \o ChatStatements(m))
<1> DEFINE texts == Flat(SaidAs("assistant"), m.texts)
           called == Flat(CalledAs, m.calls)
<1>1. m.texts \in Seq(Int) /\ m.calls \in Seq(CallType)
  BY DEF ChatType
<1>2. ChatStatements(m) = texts \o called
  BY ChatSays
<1>3. texts \in Seq(StatementType)
  <2>1. SaidAs("assistant") \in [Int -> Seq(StatementType)]
    BY SaidAsTyped DEF Speakers
  <2>2. QED
    BY <1>1, <2>1, FlatType
<1>4. called \in Seq(StatementType)
  BY <1>1, CalledAsTyped, FlatType
<1>5. ASSUME NEW a \in Seq(StatementType), a = s \o texts
      PROVE  InParallel(a \o called)
  BY <1>1, <1>5, CallsParallel
<1> HIDE DEF texts, called
<1>6. s \o texts \in Seq(StatementType)
  BY <1>3
<1>7. InParallel((s \o texts) \o called)
  BY <1>5, <1>6
<1>8. Associates(s, texts, called)
  BY <1>3, <1>4, ConcatThree, Zenon
<1>9. QED
  BY <1>2, <1>7, <1>8 DEF Associates

(* An answer, adapted for the client.                                       *)
LEMMA AnswerSpeaks ==
  ASSUME NEW cl \in Clients, NEW from \in {"chat", "anthropic"}, cl = "responses" => from = "chat",
         NEW answer \in AnswerType(from), NEW s \in Seq(StatementType), Numbered(s),
         CallsNumbered(AskedBy(from, answer), Len(s))
  PROVE  Speaks(cl, s, Adapted(cl, from, answer), SaidBy(from, answer), AskedBy(from, answer))
<1> DEFINE new == Adapted(cl, from, answer)
           say == SaidBy(from, answer)
           calls == AskedBy(from, answer)
           R == ResultIds(s)
<1>0. Len(s) \in Nat
  OBVIOUS
<1>1. calls \in Seq(CallType) /\ \A i \in 1..Len(calls) : calls[i].id = Len(s) + 1 + i
  BY DEF CallsNumbered
<1>2. \A i \in 1..Len(calls) : calls[i].id \notin R
  <2> HIDE DEF calls
  <2>1. \A x \in R : x <= Len(s) + 1
    BY DEF Numbered, R
  <2>2. ASSUME NEW i \in 1..Len(calls)
        PROVE  calls[i].id \notin R
    <3>1. calls[i].id = Len(s) + 1 + i
      BY <1>1
    <3>2. ~(Len(s) + 1 + i <= Len(s) + 1)
      BY <1>0
    <3>3. QED
      BY <2>1, <3>1, <3>2
  <2>3. QED
    BY <2>2
<1>3. /\ say \in Seq(AskType)
      /\ Flat(Pending(R), say) = Flat(CalledAs, calls)
      /\ Len(say) >= Len(calls)
  BY <1>2, AnswerSays
<1>4. /\ new \in Seq(FormType(cl))
      /\ \A what \in Whats : CountedIn(what, Statements(cl, new)) = CountedIn(what, say)
      /\ Asks(Flat(AsChat(cl), new), calls, cl)
  BY AnswerGiven
<1>5. cl = "responses" /\ Len(calls) > 1 => InParallel(s \o say)
  <2> SUFFICES ASSUME cl = "responses", Len(calls) > 1
               PROVE  InParallel(s \o say)
    OBVIOUS
  <2>1. from = "chat"
    OBVIOUS
  <2>2. answer \in ChatType /\ answer.role = "assistant" /\ calls = answer.calls
    BY <2>1 DEF AnswerType, AskedBy
  <2>3. say = ChatStatements(answer)
    BY <2>1, FormSays DEF SaidBy
  <2> HIDE DEF say, calls
  <2>4. InParallel(s \o ChatStatements(answer))
    BY <2>2, MessageParallel
  <2>5. QED
    BY <2>3, <2>4
<1> HIDE DEF new, say, calls, R
<1>6. \A x \in IdsOf(calls) : x <= Len(s) + Len(calls) + 1
  <2>1. ASSUME NEW x \in IdsOf(calls)
        PROVE  x <= Len(s) + Len(calls) + 1
    <3>1. PICK i \in 1..Len(calls) : x = calls[i].id
      BY DEF IdsOf
    <3>2. x = Len(s) + 1 + i
      BY <1>1, <3>1
    <3>3. Len(calls) \in Nat
      BY <1>1
    <3>4. QED
      BY <1>0, <3>2, <3>3
  <2>2. QED
    BY <2>1
<1>7. SameCounts(Statements(cl, new), say)
  BY <1>4 DEF SameCounts
<1>8. Speaks(cl, s, new, say, calls)
  BY <1>1, <1>3, <1>4, <1>5, <1>6, <1>7 DEF Speaks, R
<1>9. QED
  BY <1>8 DEF new, say, calls

LEMMA AnsweredHeld ==
  ASSUME ConversationInv, Answered
  PROVE  ConversationInv'
<1>1. /\ client \in Clients /\ history \in Seq(FormType(client)) /\ said \in Seq(StatementType)
      /\ Numbered(said)
  BY DEF ConversationInv, Held
<1>2. Len(said) \in Nat
  BY <1>1
<1>3. PICK adapter \in Adapters :
        \E answer \in IF ForwardFormat(client, adapter) = "chat" THEN ChatAnswers ELSE AnthropicAnswers :
          Answer(adapter, answer)
  BY Zenon DEF Answered
<1> DEFINE from == ForwardFormat(client, adapter)
<1>4. PICK answer \in IF from = "chat" THEN ChatAnswers ELSE AnthropicAnswers : Answer(adapter, answer)
  BY <1>3, Zenon
<1>5. from \in {"chat", "anthropic"} /\ (client = "responses" => from = "chat")
  BY <1>1 DEF ForwardFormat, Adapters
<1>6. answer \in AnswerType(from) /\ CallsNumbered(AskedBy(from, answer), Len(said))
  <2>1. CASE from = "chat"
    <3>1. answer \in ChatAnswers
      BY <1>4, <2>1
    <3>2. QED
      BY <1>2, <2>1, <3>1, ChatAnswersNumbered
  <2>2. CASE from = "anthropic"
    <3>1. answer \in AnthropicAnswers
      BY <1>4, <2>2
    <3>2. QED
      BY <1>2, <2>2, <3>1, AnthropicAnswersNumbered
  <2>3. QED
    BY <1>5, <2>1, <2>2
<1> DEFINE new == Adapted(client, from, answer)
           say == SaidBy(from, answer)
<1>7. Speaks(client, said, new, say, AskedBy(from, answer))
  <2> HIDE DEF from
  <2>1. QED
    BY <1>1, <1>5, <1>6, AnswerSpeaks
<1>8. PendingOf(said) = <<>>
  BY <1>1, <1>4, UnansweredIs DEF Answer
<1>9. history' = history \o new /\ said' = said \o say /\ client' = client
  BY <1>4 DEF Answer, SaidBy
<1> HIDE DEF new, say
<1>10. StillHeld(client, history, new, said, say)
  BY <1>7, <1>8, SpeaksOn DEF ConversationInv
<1>11. QED
  BY <1>9, <1>10 DEF StillHeld, ConversationInv

(* The results come in the order of the calls, or the other way.            *)
LEMMA ReverseSame ==
  ASSUME NEW s \in Seq(StatementType)
  PROVE  Reverse(s) \in Seq(StatementType) /\ Len(Reverse(s)) = Len(s) /\ IdsOf(Reverse(s)) = IdsOf(s)
<1> DEFINE r == Reverse(s)
<1>1. Len(s) \in Nat
  OBVIOUS
<1>2. r = [i \in 1..Len(s) |-> s[(Len(s) - i) + 1]]
  BY DEF Reverse
<1>3. \A i \in 1..Len(s) : (Len(s) - i) + 1 \in 1..Len(s)
  BY <1>1
<1>4. r \in Seq(StatementType) /\ Len(r) = Len(s)
  BY <1>1, <1>2, <1>3
<1>5. \A i \in 1..Len(s) : r[i] = s[(Len(s) - i) + 1]
  BY <1>2
<1> HIDE DEF r
<1>6. ASSUME NEW x \in IdsOf(r)
      PROVE  x \in IdsOf(s)
  <2>1. PICK i \in 1..Len(s) : x = r[i].id
    BY <1>4 DEF IdsOf
  <2>2. x = s[(Len(s) - i) + 1].id
    BY <1>5, <2>1
  <2>3. QED
    BY <1>3, <2>2 DEF IdsOf
<1>7. ASSUME NEW x \in IdsOf(s)
      PROVE  x \in IdsOf(r)
  <2>1. PICK i \in 1..Len(s) : x = s[i].id
    BY DEF IdsOf
  <2>2. PICK j \in 1..Len(s) : j = (Len(s) - i) + 1
    BY <1>3
  <2>3. (Len(s) - j) + 1 = i
    BY <1>1, <2>2
  <2>4. x = r[j].id
    BY <1>5, <2>1, <2>3
  <2>5. QED
    BY <1>4, <2>4 DEF IdsOf
<1>8. IdsOf(r) = IdsOf(s)
  BY <1>6, <1>7
<1>9. QED
  BY <1>4, <1>8 DEF r

ResultsIn(cl, h, new, s, calls) == Held(cl, h \o new, s \o Mapped(ResultSaid, calls))

LEMMA ToolsReturnHeld ==
  ASSUME ConversationInv, ToolsReturn
  PROVE  ConversationInv'
<1> DEFINE p == PendingOf(said)
<1>1. client \in Clients /\ history \in Seq(FormType(client)) /\ said \in Seq(StatementType)
  BY DEF ConversationInv, Held
<1>2. Unanswered = p
  BY <1>1, UnansweredIs
<1>3. p \in Seq(StatementType)
  BY <1>1, PendingFunction, FlatType DEF PendingOf
<1>4. p # <<>>
  BY <1>2 DEF ToolsReturn
<1>5. PICK calls \in {Unanswered, Reverse(Unanswered)} :
        /\ history' = history \o ResultsOf(calls)
        /\ said' = said \o Map(LAMBDA f : Statement("user", "result", f.id, f.id + 100), calls)
  BY DEF ToolsReturn
<1>6. client' = client
  BY DEF ToolsReturn
<1> HIDE DEF p
<1>7. calls \in Seq(StatementType) /\ Len(calls) = Len(p) /\ IdsOf(calls) = IdsOf(p)
  <2>1. calls = p \/ calls = Reverse(p)
    BY <1>2, <1>5
  <2>2. QED
    BY <1>3, <2>1, ReverseSame
<1>8. calls # <<>>
  <2>1. Len(p) # 0
    BY <1>3, <1>4
  <2>2. QED
    BY <1>7, <2>1
<1>9. Map(LAMBDA f : Statement("user", "result", f.id, f.id + 100), calls) = Mapped(ResultSaid, calls)
  BY <1>7 DEF Map, Mapped, ResultSaid
<1> DEFINE new == ResultsOf(calls)
<1>10. /\ new \in Seq(FormType(client))
       /\ Statements(client, new) = Mapped(ResultSaid, calls)
       /\ Flat(AsChat(client), new) = Mapped(ToolMsg, calls)
  BY <1>1, <1>7, <1>8, ResultsGiven
<1> HIDE DEF new
<1>11. ResultsIn(client, history, new, said, calls)
  <2>1. Held(client, history, said) /\ PendingOf(said) # <<>>
    BY <1>4 DEF ConversationInv, p
  <2>2. Len(calls) = Len(PendingOf(said)) /\ IdsOf(calls) = IdsOf(PendingOf(said))
    BY <1>7 DEF p
  <2>3. Held(client, history \o new, said \o Mapped(ResultSaid, calls))
    BY <1>7, <1>10, <2>1, <2>2, ResultsHeld
  <2>4. QED
    BY <2>3 DEF ResultsIn
<1>12. QED
  BY <1>5, <1>6, <1>9, <1>11 DEF ResultsIn, ConversationInv, new

(***************************************************************************)
(* What the invariant says of every body that is sent on.                  *)
(***************************************************************************)
LEMMA SameIsCounted ==
  ASSUME NEW a \in Seq(StatementType), NEW b \in Seq(StatementType), SameCounts(a, b)
  PROVE  SameSaid(a, b)
<1>1. \A what \in Whats : Part(a, what) = CountedIn(what, a)
  BY PartIs DEF CountedIn
<1>2. \A what \in Whats : Part(b, what) = CountedIn(what, b)
  BY PartIs DEF CountedIn
<1>3. QED
  BY <1>1, <1>2 DEF SameSaid, SameCounts, Whats

LEMMA CountsFollow ==
  ASSUME NEW a, NEW b, NEW c, SameCounts(a, b), SameCounts(b, c)
  PROVE  SameCounts(a, c)
BY DEF SameCounts

(* What is sent on is a body, and never the error.                          *)
LEMMA NotFailed ==
  /\ \A body \in Seq(ChatType) : body # Failed
  /\ \A body \in Seq(SentType) : body # Failed
<1>1. Len(Failed) = 1 /\ Failed[1] = [role |-> "error"] /\ Failed[1].role = "error"
  BY DEF Failed
<1>1a. ASSUME NEW S, NEW body \in Seq(S), Len(body) = 1
       PROVE  body[1] \in S
  BY <1>1a
<1>2. ASSUME NEW body \in Seq(ChatType), body = Failed
      PROVE  FALSE
  <2>1. body[1] \in ChatType
    <3>1. Len(body) = 1
      BY <1>1, <1>2
    <3>2. QED
      BY <1>1a, <3>1
  <2>2. body[1].role \in Speakers \cup {"tool"}
    BY <2>1 DEF ChatType
  <2>3. QED
    BY <1>1, <1>2, <2>2 DEF Speakers
<1>3. ASSUME NEW body \in Seq(SentType), body = Failed
      PROVE  FALSE
  <2>1. body[1] \in SentType
    <3>1. Len(body) = 1
      BY <1>1, <1>3
    <3>2. QED
      BY <1>1a, <3>1
  <2>2. body[1].role \in Speakers
    BY <2>1 DEF SentType
  <2>3. QED
    BY <1>1, <1>3, <2>2 DEF Speakers
<1>4. QED
  BY <1>2, <1>3

(* The body in the form it is sent on, which says the same.                 *)
LEMMA ChatBodySays ==
  ASSUME NEW cl \in Clients, NEW h \in Seq(FormType(cl))
  PROVE  LET body == Flat(AsChat(cl), h)
         IN body \in Seq(ChatType) /\ SameCounts(Statements("chat", body), Statements(cl, h))
<1>1. CASE cl = "chat"
  <2>1. h \in Seq(ChatType)
    BY <1>1, FormTypes
  <2>2. Flat(AsChat(cl), h) = h
    BY <1>1, <2>1, KeepChatIs DEF AsChat
  <2>3. QED
    BY <1>1, <2>1, <2>2 DEF SameCounts
<1>2. CASE cl = "anthropic"
  <2>1. h \in Seq(AnthropicType)
    BY <1>2, FormTypes
  <2>2. convertAnthropicRequestToOpenAIChat(h) = Flat(AsChat(cl), h)
    BY <1>2, <2>1, ToChatIs DEF AsChat
  <2>3. QED
    BY <1>2, <2>1, <2>2, AnthropicKept DEF SameCounts
<1>3. CASE cl = "responses"
  <2>1. h \in Seq(ItemType)
    BY <1>3, FormTypes
  <2>2. convertResponsesInputToChatMessages(h) = Flat(AsChat(cl), h)
    BY <1>3, <2>1, ItemToChatIs DEF AsChat
  <2>3. QED
    BY <1>3, <2>1, <2>2, ItemsKept DEF SameCounts
<1>4. QED
  BY <1>1, <1>2, <1>3 DEF Clients

LEMMA TurnsAreClosed ==
  ASSUME NEW cl, NEW h, NEW s, Held(cl, h, s), ~(cl = "responses" /\ InParallel(s))
  PROVE  TurnsClosed(Flat(AsChat(cl), h))
<1>1. cl \in Clients /\ h \in Seq(FormType(cl)) /\ TurnsOf(cl, h, s)
  BY DEF Held
<1> DEFINE body == Flat(AsChat(cl), h)
<1>2. body \in Seq(ChatType)
  BY <1>1, ChatBodySays
<1>3. Closed(body) \/ Waiting(body, PendingOf(s))
  BY <1>1 DEF TurnsOf
<1> HIDE DEF body
<1>4. TurnsClosed(body)
  BY <1>2, <1>3, ClosedTurns, WaitingTurns
<1>5. QED
  BY <1>4 DEF body

(* A chat client's history for an Anthropic provider.                       *)
LEMMA ChatSentOn ==
  ASSUME NEW h \in Seq(ChatType)
  PROVE  LET body == convertOpenAIChatRequestToAnthropic(h)
         IN \/ body = Failed /\ \E m \in ToSet(h) : \E c \in ToSet(m.calls) : ~c.json
            \/ body \in Seq(SentType) /\ Statements("anthropic", body) = Flat(Heard, Statements("chat", h))
<1> DEFINE malformed == \E i \in DOMAIN h : \E j \in DOMAIN h[i].calls : ~h[i].calls[j].json
           new == Map(convertOpenAIMessageToAnthropic, h)
<1>1. CASE malformed
  <2>1. PICK i \in DOMAIN h : \E j \in DOMAIN h[i].calls : ~h[i].calls[j].json
    BY <1>1
  <2>2. PICK j \in DOMAIN h[i].calls : ~h[i].calls[j].json
    BY <2>1
  <2>3. h[i] \in ToSet(h) /\ h[i].calls[j] \in ToSet(h[i].calls)
    BY DEF ToSet
  <2>4. convertOpenAIChatRequestToAnthropic(h) = Failed
    BY <1>1 DEF convertOpenAIChatRequestToAnthropic
  <2>5. QED
    BY <2>2, <2>3, <2>4
<1>2. CASE ~malformed
  <2>1. convertOpenAIChatRequestToAnthropic(h) = new
    BY <1>2 DEF convertOpenAIChatRequestToAnthropic
  <2>2. new \in Seq(SentType) /\ Statements("anthropic", new) = Flat(Heard, Statements("chat", h))
    BY ChatKept
  <2> HIDE DEF new
  <2>3. QED
    BY <2>1, <2>2
<1>3. QED
  BY <1>1, <1>2

(* What is told a provider that is sent a body of a form.                   *)
ToldAs(cl, s, form) == IF cl = "chat" /\ form = "anthropic" THEN Flat(Heard, s) ELSE s

LEMMA ToldIs ==
  ASSUME said \in Seq(StatementType), NEW form
  PROVE  Told(form) = ToldAs(client, said, form)
<1> DEFINE k == [f \in StatementType |-> Decoded(f)]
<1>1. \A i \in DOMAIN said : said[i] \in StatementType
  OBVIOUS
<1>2. Map(Decoded, said) = Mapped(k, said)
  BY <1>1 DEF Map, Mapped
<1>3. k \in [StatementType -> StatementType] /\ Singles(StatementType, k, Heard)
  BY DecodedTyped DEF Singles, Heard
<1> HIDE DEF k
<1>4. OneEach(k, Heard, said)
  BY <1>3, HeardTyped, FlatSingles, Zenon
<1>5. QED
  BY <1>2, <1>4 DEF Told, ToldAs, OneEach

(* Every body that is sent on.                                              *)
SentOn(cl, h, s, adapter) ==
  LET body == Forward(cl, adapter, h)
      form == ForwardFormat(cl, adapter)
  IN IF body = Failed
     THEN cl = "chat" /\ \E m \in ToSet(h) : \E c \in ToSet(m.calls) : ~c.json
     ELSE /\ SameSaid(Statements(form, body), ToldAs(cl, s, form))
          /\ form = "chat" /\ ~(cl = "responses" /\ InParallel(s)) => TurnsClosed(body)
          /\ form = adapter \/ cl = "responses"

LEMMA SentAsChat ==
  ASSUME NEW cl, NEW h, NEW s, Held(cl, h, s), NEW adapter \in Adapters, ForwardFormat(cl, adapter) = "chat"
  PROVE  SentOn(cl, h, s, adapter)
<1>1. /\ cl \in Clients /\ h \in Seq(FormType(cl)) /\ s \in Seq(StatementType)
      /\ SameCounts(Statements(cl, h), s)
  BY DEF Held, SaysAll
<1> DEFINE body == Flat(AsChat(cl), h)
<1>2. adapter = "chat" \/ cl = "responses"
  BY DEF ForwardFormat
<1>3. Forward(cl, adapter, h) = body
  BY <1>1, <1>2, ChatForm DEF Adapters
<1>4. body \in Seq(ChatType) /\ SameCounts(Statements("chat", body), Statements(cl, h))
  BY <1>1, ChatBodySays
<1>5. ~(cl = "responses" /\ InParallel(s)) => TurnsClosed(body)
  BY TurnsAreClosed
<1> HIDE DEF body
<1>6. Statements("chat", body) \in Seq(StatementType)
  BY <1>4, BodySays, InChatTyped, FlatType
<1>7. SameCounts(Statements("chat", body), s)
  BY <1>1, <1>4, CountsFollow
<1>8. SameSaid(Statements("chat", body), s)
  BY <1>1, <1>6, <1>7, SameIsCounted
<1>9. body # Failed
  BY <1>4, NotFailed
<1>10. ToldAs(cl, s, "chat") = s
  BY DEF ToldAs
<1>11. QED
  BY <1>2, <1>3, <1>5, <1>8, <1>9, <1>10 DEF SentOn

LEMMA SentAsAnthropic ==
  ASSUME NEW cl, NEW h, NEW s, Held(cl, h, s), NEW adapter \in Adapters, ForwardFormat(cl, adapter) = "anthropic"
  PROVE  SentOn(cl, h, s, adapter)
<1>1. /\ cl \in Clients /\ h \in Seq(FormType(cl)) /\ s \in Seq(StatementType)
      /\ SameCounts(Statements(cl, h), s)
  BY DEF Held, SaysAll
<1>2. adapter = "anthropic" /\ (cl = "chat" \/ cl = "anthropic")
  BY <1>1 DEF ForwardFormat, Clients
<1> DEFINE body == Forward(cl, adapter, h)
<1>3. \/ body = Failed /\ cl = "chat" /\ \E m \in ToSet(h) : \E c \in ToSet(m.calls) : ~c.json
      \/ body \in Seq(SentType) /\ SameCounts(Statements("anthropic", body), ToldAs(cl, s, "anthropic"))
  <2>1. CASE cl = "chat"
    <3>1. h \in Seq(ChatType)
      BY <1>1, <2>1, FormTypes
    <3>2. body = convertOpenAIChatRequestToAnthropic(h)
      BY <1>2, <2>1, Forwards
    <3> HIDE DEF body
    <3>3. \/ body = Failed /\ \E m \in ToSet(h) : \E c \in ToSet(m.calls) : ~c.json
          \/ body \in Seq(SentType) /\ Statements("anthropic", body) = Flat(Heard, Statements("chat", h))
      BY <3>1, <3>2, ChatSentOn
    <3>4. Statements("chat", h) \in Seq(StatementType)
      BY <1>1, <2>1, FormJoins
    <3>5. SameCounts(Flat(Heard, Statements("chat", h)), Flat(Heard, s))
      BY <1>1, <2>1, <3>4, HeardCounts DEF SameCounts
    <3>6. ToldAs(cl, s, "anthropic") = Flat(Heard, s)
      BY <2>1 DEF ToldAs
    <3>7. QED
      BY <2>1, <3>3, <3>5, <3>6
  <2>2. CASE cl = "anthropic"
    <3>1. h \in Seq(AnthropicType)
      BY <1>1, <2>2, FormTypes
    <3>2. h \in Seq(SentType)
      BY <3>1, AnthropicSent
    <3>3. body = h
      BY <1>2, <2>2, Forwards
    <3> HIDE DEF body
    <3>4. ToldAs(cl, s, "anthropic") = s
      BY <2>2 DEF ToldAs
    <3>5. QED
      BY <1>1, <2>2, <3>2, <3>3, <3>4 DEF SameCounts
  <2>3. QED
    BY <1>2, <2>1, <2>2
<1>4. CASE body = Failed /\ cl = "chat" /\ \E m \in ToSet(h) : \E c \in ToSet(m.calls) : ~c.json
  BY <1>4 DEF SentOn
<1>5. CASE body \in Seq(SentType) /\ SameCounts(Statements("anthropic", body), ToldAs(cl, s, "anthropic"))
  <2> DEFINE b == body
             told == ToldAs(cl, s, "anthropic")
  <2>1. b \in Seq(SentType) /\ SameCounts(Statements("anthropic", b), told)
    BY <1>5
  <2>1a. told \in Seq(StatementType)
    BY <1>1, HeardTyped, FlatType DEF ToldAs
  <2> HIDE DEF b, told
  <2>2. Statements("anthropic", b) \in Seq(StatementType)
    BY <2>1, BodySays, InSentTyped, FlatType
  <2>4. SameSaid(Statements("anthropic", b), told)
    BY <2>1, <2>1a, <2>2, SameIsCounted
  <2>5. b # Failed
    BY <2>1, NotFailed
  <2>6. QED
    BY <1>2, <2>4, <2>5 DEF SentOn, b, told
<1>6. QED
  BY <1>3, <1>4, <1>5

LEMMA ChoicesKept ==
  \A choice \in {"", "auto", "any", "tool", "none"} :
    convertOpenAIToolChoiceToAnthropic(convertAnthropicToolChoiceToOpenAI(choice))
    = IF choice = "none" THEN "" ELSE choice
<1>1. /\ convertAnthropicToolChoiceToOpenAI("any") = "required"
      /\ \A c : c # "any" => convertAnthropicToolChoiceToOpenAI(c) = c
  BY Zenon DEF convertAnthropicToolChoiceToOpenAI
<1>2. "required" # "none" /\ "required" # ""
  OBVIOUS
<1>3. /\ convertOpenAIToolChoiceToAnthropic("required") = "any"
      /\ convertOpenAIToolChoiceToAnthropic("none") = ""
      /\ \A c : c # "required" /\ c # "none" => convertOpenAIToolChoiceToAnthropic(c) = c
  <2>1. convertOpenAIToolChoiceToAnthropic("required") = "any"
    BY ONLY <1>2, Zenon DEF convertOpenAIToolChoiceToAnthropic
  <2>2. convertOpenAIToolChoiceToAnthropic("none") = ""
    BY ONLY <1>2, Zenon DEF convertOpenAIToolChoiceToAnthropic
  <2>3. \A c : c # "required" /\ c # "none" => convertOpenAIToolChoiceToAnthropic(c) = c
    BY Zenon DEF convertOpenAIToolChoiceToAnthropic
  <2>4. QED
    BY <2>1, <2>2, <2>3
<1>4. QED
  BY <1>1, <1>3

LEMMA TokensKept ==
  \A p, c \in 0..2 :
    LET u == [prompt |-> p + c, cached |-> c, completion |-> 1]
        back == anthropicUsageToOpenAITokens(UsageToAnthropic(u))
    IN back = [u EXCEPT !.prompt = @ + c]
<1>1. ASSUME NEW p \in 0..2, NEW c \in 0..2, NEW u, u = [prompt |-> p + c, cached |-> c, completion |-> 1]
      PROVE  anthropicUsageToOpenAITokens(UsageToAnthropic(u)) = [u EXCEPT !.prompt = @ + c]
  <2>1. UsageToAnthropic(u) = [input |-> p + c, created |-> 0, read |-> c, output |-> 1]
    BY <1>1 DEF UsageToAnthropic
  <2>2. anthropicUsageToOpenAITokens(UsageToAnthropic(u))
        = [prompt |-> p + c + 0 + c, cached |-> c, completion |-> 1]
    BY <2>1 DEF anthropicUsageToOpenAITokens
  <2>3. p + c + 0 + c = p + c + c
    OBVIOUS
  <2>4. [u EXCEPT !.prompt = @ + c] = [prompt |-> p + c + c, cached |-> c, completion |-> 1]
    BY <1>1
  <2>5. QED
    BY <2>2, <2>3, <2>4
<1>2. QED
  BY <1>1

LEMMA ConversationIsKept == ConversationInv => ConversationKept
<1> SUFFICES ASSUME ConversationInv
             PROVE  ConversationKept
  OBVIOUS
<1>1. Held(client, history, said)
  BY DEF ConversationInv
<1>2. /\ client \in Clients /\ history \in Seq(FormType(client)) /\ said \in Seq(StatementType)
      /\ SameCounts(Statements(client, history), said)
  BY <1>1 DEF Held, SaysAll
<1>3. SameSaid(Statements(client, history), said)
  <2>1. Statements(client, history) \in Seq(StatementType)
    BY <1>2, FormJoins
  <2>2. QED
    BY <1>2, <2>1, SameIsCounted
<1>4. ASSUME NEW adapter \in Adapters
      PROVE  SentOn(client, history, said, adapter)
  <2>1. ForwardFormat(client, adapter) \in {"chat", "anthropic"}
    BY DEF ForwardFormat, Adapters
  <2>2. QED
    BY <1>1, <2>1, SentAsChat, SentAsAnthropic
<1>5. ParallelCalls <=> InParallel(said)
  BY DEF ParallelCalls, InParallel
<1>6. \A adapter \in Adapters :
        LET body == Forward(client, adapter, history)
            form == ForwardFormat(client, adapter)
        IN IF body = Failed
           THEN client = "chat" /\ \E m \in ToSet(history) : \E c \in ToSet(m.calls) : ~c.json
           ELSE /\ SameSaid(Statements(form, body), ToldAs(client, said, form))
                /\ form = "chat" /\ ~(client = "responses" /\ ParallelCalls) => TurnsClosed(body)
                /\ form = adapter \/ client = "responses"
  BY <1>4, <1>5, Zenon DEF SentOn
<1>6a. \A form : Told(form) = ToldAs(client, said, form)
  BY <1>2, ToldIs
<1>7. QED
  BY <1>3, <1>6, <1>6a, ChoicesKept, TokensKept, Zenon DEF ConversationKept

(* Whatever the protocols of the client and of the providers of its turns,  *)
(* and however long the conversation: whoever answers next reads every      *)
(* text, call and result the client's history holds, in order and with its  *)
(* id, a chat client's result as the value it parses to if the provider     *)
(* speaks the Anthropic protocol and the text is JSON; a chat provider finds*)
(* each turn's results right behind its calls.                              *)
THEOREM ConversationsAreKept == BodySpec => []ConversationKept
<1>1. BodyInit => ConversationInv
  BY ConversationBegins
<1>2. ConversationInv /\ [BodyNext]_bodyVars => ConversationInv'
  <2> SUFFICES ASSUME ConversationInv, [BodyNext]_bodyVars
               PROVE  ConversationInv'
    OBVIOUS
  <2>1. CASE UserSays
    BY <2>1, UserSaysHeld
  <2>2. CASE Answered
    BY <2>2, AnsweredHeld
  <2>3. CASE ToolsReturn
    BY <2>3, ToolsReturnHeld
  <2>4. CASE UNCHANGED bodyVars
    BY <2>4 DEF ConversationInv, bodyVars
  <2>5. QED
    BY <2>1, <2>2, <2>3, <2>4 DEF BodyNext
<1>3. ConversationInv => ConversationKept
  BY ConversationIsKept
<1>4. QED
  BY <1>1, <1>2, <1>3, PTL DEF BodySpec

==============================================================================
