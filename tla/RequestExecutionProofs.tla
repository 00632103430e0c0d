------------------------ MODULE RequestExecutionProofs ------------------------
(***************************************************************************)
(* Proofs about the execution of requests, for any number of requests,     *)
(* every set of providers and models, every profile and every value of the *)
(* two caps.                                                               *)
(***************************************************************************)
EXTENDS RequestExecution, CompatStreams, SequenceTheorems, FiniteSetTheorems, TLAPS

(* The inductive invariant says of every request, from where it stands, what *)
(* its client has been sent and what telemetry has heard of it.              *)
Answered == {"store", "report", "return", "ended"}
Untried == {"new", "lookup", "hit", "collect", "refuse"}
Trying == {"loop", "call", "judge", "session", "backoff", "fallback call"}
FallingBack == {"models", "fallback", "fallback call", "fallback deliver"}
Beating == {"plan", "loop", "call", "judge", "backoff", "settle", "deliver",
            "give up", "fail"}

(* The answer is out from the step that writes it on, and the event from the *)
(* step that emits it on; "refuse" alone ends without one.                    *)
Told(q, w, e) ==
  /\ q.pc = "new" => w = "nothing"
  /\ w = "answer" <=> q.pc \in Answered
  /\ q.pc \notin {"fail", "return", "ended"} => e = 0
  /\ q.pc = "fail" => e = 1
  /\ e <= 1
  /\ q.pc \in {"return", "ended"} /\ q.attempts > 0 => e = 1
  /\ q.pc \in Untried => q.attempts = 0
  /\ q.pc \in {"call", "judge", "session", "backoff"} => q.attempts > 0
  /\ q.pc = "new" => q.extra = 0
  /\ q.attempts > 0 /\ q.pc # "call" => q.provider # None

(* The two caps hold, and there is a candidate to try where one is tried. *)
Bounded(q) ==
  /\ q.attempts <= HardRetryCap
  /\ q.extra <= MaxFallbackAttempts
  /\ q.pc \in Trying => q.todo # <<>>

(* A diagnostic request stays with its provider. *)
Pinned(q) ==
  q.pc # "new" /\ Diagnostic(q.profile) =>
    /\ q.attempts <= 1 /\ q.extra = 0
    /\ q.todo \in Seq({q.profile.pinned})
    /\ q.provider \in {None, q.profile.pinned}
    /\ q.pc \notin FallingBack \cup {"hit", "store"}

(* The keep-alive session, when a retried stream can only succeed with SSE. *)
Heart(q, w) ==
  /\ q.pc \in {"new", "lookup", "collect", "plan", "loop", "call", "session", "backoff"} =>
       q.last \notin Success
  /\ q.pc = "deliver" => q.last \in Success
  /\ q.heart = "beating" =>
       /\ w = "header" /\ q.pc \in Beating /\ q.attempts > 0
       /\ q.last \in Success => q.last = "sse"

Good(q, w, e) == Told(q, w, e) /\ Bounded(q) /\ Pinned(q) /\ (SSEAfterRetry => Heart(q, w))

IInv == TypeOK /\ \A r \in Requests : Good(req[r], wire[r], events[r])

-----------------------------------------------------------------------------

LEMMA InitIInv == Init => IInv
<1> SUFFICES ASSUME Init PROVE IInv
  OBVIOUS
<1>1. New \in Request /\ New.pc = "new"
  BY DEF New, Request, Steps, Results
<1>2. TypeOK
  BY <1>1 DEF Init, TypeOK, At
<1>3. HardRetryCap \in Nat /\ MaxFallbackAttempts \in Nat
  BY ExecutionAssumption
<1>4. \A r \in Requests : req[r] = New /\ wire[r] = "nothing" /\ events[r] = 0
  BY DEF Init
<1>5. Told(New, "nothing", 0) /\ Bounded(New) /\ Pinned(New) /\ Heart(New, "nothing")
  BY <1>3 DEF New, Told, Bounded, Pinned, Heart, Answered, Untried, Trying, Success
<1>6. QED
  BY <1>2, <1>4, <1>5 DEF IInv, Good

(* A step of one request keeps the invariant when it keeps that request good. *)
LEMMA RequestMoves ==
  ASSUME IInv, NEW r \in Requests, NEW q \in Request,
         req' = [req EXCEPT ![r] = q],
         q.pc # "new" => q.profile \in Profiles[r],
         wire' \in [Requests -> {"nothing", "header", "answer"}],
         events' \in [Requests -> Nat],
         \A k \in Requests : k # r => wire'[k] = wire[k] /\ events'[k] = events[k],
         cache' \in [Keys -> Providers \cup {None}],
         Good(q, wire'[r], events'[r])
  PROVE  IInv'
<1>1. TypeOK
  BY DEF IInv
<1>2. /\ req' \in [Requests -> Request] /\ req'[r] = q
      /\ \A k \in Requests : k # r => req'[k] = req[k]
  BY <1>1 DEF TypeOK
<1>3. TypeOK'
  BY <1>1, <1>2 DEF TypeOK, At, Prof
<1>4. \A k \in Requests : Good(req'[k], wire'[k], events'[k])
  <2> SUFFICES ASSUME NEW k \in Requests PROVE Good(req'[k], wire'[k], events'[k])
    OBVIOUS
  <2>1. CASE k = r
    BY <2>1, <1>2
  <2>2. CASE k # r
    BY <2>2, <1>2 DEF IInv
  <2>3. QED
    BY <2>1, <2>2
<1>5. QED
  BY <1>3, <1>4 DEF IInv

(* The case of a step that tells the outside nothing. *)
LEMMA RequestMovesQuietly ==
  ASSUME IInv, NEW r \in Requests, NEW q \in Request,
         req' = [req EXCEPT ![r] = q],
         q.pc # "new" => q.profile \in Profiles[r],
         UNCHANGED <<wire, events, cache>>,
         Good(q, wire[r], events[r])
  PROVE  IInv'
<1>1. TypeOK
  BY DEF IInv
<1>2. /\ wire' \in [Requests -> {"nothing", "header", "answer"}]
      /\ events' \in [Requests -> Nat]
      /\ \A k \in Requests : k # r => wire'[k] = wire[k] /\ events'[k] = events[k]
      /\ cache' \in [Keys -> Providers \cup {None}]
      /\ Good(q, wire'[r], events'[r])
  BY <1>1 DEF TypeOK
<1>3. QED
  BY <1>2, RequestMoves

(* What the invariant says of one request, and of its profile. *)
LEMMA RequestFacts ==
  ASSUME IInv, NEW r \in Requests
  PROVE  /\ req[r] \in Request
         /\ wire[r] \in {"nothing", "header", "answer"} /\ events[r] \in Nat
         /\ Good(req[r], wire[r], events[r])
         /\ req[r].pc # "new" => Prof(r) \in Profiles[r] /\ Prof(r) \in Profile
  BY ExecutionAssumption DEF IInv, TypeOK, At, Prof

(* A request that only goes on to another step. *)
Same(p, q) ==
  /\ q.profile = p.profile /\ q.todo = p.todo /\ q.attempts = p.attempts
  /\ q.extra = p.extra /\ q.provider = p.provider /\ q.last = p.last
  /\ q.heart = p.heart

LEMMA GotoMoves ==
  ASSUME IInv, NEW r \in Requests, NEW step \in Steps, Goto(r, step)
  PROVE  \E q \in Request :
           req' = [req EXCEPT ![r] = q] /\ q.pc = step /\ Same(req[r], q)
<1> DEFINE q == [req[r] EXCEPT !.pc = step]
<1>1. q \in Request /\ req' = [req EXCEPT ![r] = q] /\ q.pc = step
  BY RequestFacts DEF Goto, Request
<1>2. Same(req[r], q)
  BY RequestFacts DEF Same, Request
<1>3. QED
  BY <1>1, <1>2

LEMMA GotoIInv ==
  ASSUME IInv, NEW r \in Requests, NEW step \in Steps, Goto(r, step), ~At(r, "new"),
         UNCHANGED <<wire, events, cache>>,
         \A q \in Request : q.pc = step /\ Same(req[r], q) => Good(q, wire[r], events[r])
  PROVE  IInv'
<1>1. PICK q \in Request : req' = [req EXCEPT ![r] = q] /\ q.pc = step /\ Same(req[r], q)
  BY GotoMoves
<1>2. q.profile \in Profiles[r]
  BY <1>1, RequestFacts DEF Same, At, Prof
<1>3. QED
  BY <1>1, <1>2, RequestMovesQuietly

LEMMA MaxAttemptsFacts ==
  ASSUME NEW p \in Profile
  PROVE  /\ MaxAttempts(p) \in Nat /\ MaxAttempts(p) <= HardRetryCap
         /\ Diagnostic(p) => MaxAttempts(p) = 1
  BY ExecutionAssumption DEF MaxAttempts, Profile

LEMMA OrdersFacts ==
  ASSUME NEW S, NEW T, S \subseteq T, NEW order \in Orders(S)
  PROVE  order \in Seq(T)
<1>1. PICK n \in 0..Cardinality(S) : order \in [1..n -> S]
  BY DEF Orders
<1>2. order \in [1..n -> T] /\ n \in Nat
  BY <1>1
<1>3. QED
  BY <1>2, SeqDef

(* The provider at hand is one, and for a diagnostic request the one it names. *)
LEMMA TodoFacts ==
  ASSUME NEW q \in Request, q.todo # <<>>
  PROVE  /\ Head(q.todo) \in Providers /\ Tail(q.todo) \in Seq(Providers)
         /\ q.pc # "new" /\ Diagnostic(q.profile) /\ Pinned(q) =>
              /\ Head(q.todo) = q.profile.pinned
              /\ Tail(q.todo) \in Seq({q.profile.pinned})
<1>1. q.todo \in Seq(Providers)
  BY DEF Request
<1>2. Head(q.todo) \in Providers /\ Tail(q.todo) \in Seq(Providers)
  BY <1>1, HeadTailProperties
<1>3. ASSUME q.pc # "new", Diagnostic(q.profile), Pinned(q)
      PROVE  Head(q.todo) = q.profile.pinned /\ Tail(q.todo) \in Seq({q.profile.pinned})
  <2>1. q.todo \in Seq({q.profile.pinned})
    BY <1>3 DEF Pinned
  <2>2. Head(q.todo) \in {q.profile.pinned} /\ Tail(q.todo) \in Seq({q.profile.pinned})
    BY <2>1, HeadTailProperties
  <2>3. QED
    BY <2>2
<1>4. QED
  BY <1>2, <1>3

-----------------------------------------------------------------------------
(* One lemma per action. *)

LEMMA ArriveIInv ==
  ASSUME IInv, NEW r \in Requests, Arrive(r)
  PROVE  IInv'
<1>1. PICK p \in Profiles[r], step \in {"lookup", "refuse"} :
        req' = [req EXCEPT ![r] = [New EXCEPT !.pc = step, !.profile = p]]
  BY DEF Arrive
<1> DEFINE q == [New EXCEPT !.pc = step, !.profile = p]
<1>2. p \in Profile
  BY ExecutionAssumption
<1>3. /\ q.pc = step /\ q.profile = p /\ q.todo = <<>> /\ q.attempts = 0
      /\ q.extra = 0 /\ q.provider = None /\ q.heart = "none" /\ q.last = "none"
  BY DEF New
<1>4. q \in Request
  <2>1. New \in Request
    BY EmptySeq DEF New, Request, Steps, Results
  <2>2. QED
    BY <1>2, <2>1 DEF Request, Steps
<1>5. req' = [req EXCEPT ![r] = q]
  BY <1>1
<1> HIDE DEF q
<1>6. Told(req[r], wire[r], events[r]) /\ req[r].pc = "new"
  BY RequestFacts DEF Good, Arrive, At
<1>7. Told(q, wire[r], events[r])
  BY <1>3, <1>6, RequestFacts DEF Told, Answered, Untried
<1>8. Bounded(q) /\ Heart(q, wire[r])
  <2>1. 0 <= HardRetryCap /\ 0 <= MaxFallbackAttempts
    BY ExecutionAssumption
  <2>2. Bounded(q)
    BY <2>1, <1>3 DEF Bounded, Trying
  <2>3. Heart(q, wire[r])
    BY <1>3 DEF Heart, Success
  <2>4. QED
    BY <2>2, <2>3
<1>9. Pinned(q)
  <2>1. <<>> \in Seq({p.pinned})
    BY EmptySeq
  <2>2. q.todo \in Seq({q.profile.pinned})
    BY <1>3, <2>1
  <2>3. q.attempts <= 1
    BY <1>3
  <2>4. q.pc \notin FallingBack \cup {"hit", "store"}
    BY <1>3 DEF FallingBack
  <2>5. QED
    BY <1>3, <2>2, <2>3, <2>4 DEF Pinned
<1>10. QED
  BY <1>5, <1>3, <1>4, <1>7, <1>8, <1>9, RequestMovesQuietly DEF Arrive, Good

LEMMA LookupIInv ==
  ASSUME IInv, NEW r \in Requests, Lookup(r)
  PROVE  IInv'
<1>1. PICK step \in {"hit", "collect"} :
        Goto(r, step) /\ (step = "hit" => ~Diagnostic(Prof(r)))
  BY DEF Lookup, UsesCache
<1>2. ASSUME NEW q \in Request, q.pc = step, Same(req[r], q)
      PROVE  Good(q, wire[r], events[r])
  BY <1>1, <1>2, RequestFacts DEF Lookup, At, Prof, Same, Good, Told, Bounded, Pinned,
     Heart, Answered, Untried, Trying, Beating, FallingBack
<1>3. step \in Steps
  BY DEF Steps
<1>4. QED
  BY <1>1, <1>2, <1>3, GotoIInv DEF Lookup, At

LEMMA CollectIInv ==
  ASSUME IInv, NEW r \in Requests, Collect(r)
  PROVE  IInv'
<1>1. At(r, "collect") /\ UNCHANGED <<wire, events, cache>> /\ Prof(r) \in Profile
  BY RequestFacts DEF Collect, At
<1>2. CASE Goto(r, "refuse")
  <2>1. ASSUME NEW q \in Request, q.pc = "refuse", Same(req[r], q)
        PROVE  Good(q, wire[r], events[r])
    BY <1>1, <2>1, RequestFacts DEF At, Prof, Same, Good, Told, Bounded, Pinned,
       Heart, Answered, Untried, Trying, Beating, FallingBack
  <2>2. "refuse" \in Steps
    BY DEF Steps
  <2>3. QED
    BY <1>1, <1>2, <2>1, <2>2, GotoIInv DEF At
<1>3. CASE ~Goto(r, "refuse")
  <2>1. PICK order \in Orders(Candidates(Prof(r))) :
          req' = [req EXCEPT ![r].pc = "plan", ![r].todo = order]
    BY <1>3 DEF Collect
  <2>2. Candidates(Prof(r)) \subseteq Providers
    BY <1>1, ExecutionAssumption DEF Candidates, Profile
  <2>3. order \in Seq(Providers)
    BY <2>1, <2>2, OrdersFacts
  <2>4. Diagnostic(Prof(r)) => order \in Seq({Prof(r).pinned})
    <3> SUFFICES ASSUME Diagnostic(Prof(r)) PROVE order \in Seq({Prof(r).pinned})
      OBVIOUS
    <3>1. Candidates(Prof(r)) \subseteq {Prof(r).pinned}
      BY DEF Candidates
    <3>2. QED
      BY <2>1, <3>1, OrdersFacts
  <2> DEFINE q == [req[r] EXCEPT !.pc = "plan", !.todo = order]
  <2>5. /\ q \in Request /\ req' = [req EXCEPT ![r] = q]
        /\ q.pc = "plan" /\ q.profile = req[r].profile /\ q.todo = order
        /\ q.attempts = req[r].attempts /\ q.extra = req[r].extra
        /\ q.provider = req[r].provider /\ q.last = req[r].last
        /\ q.heart = req[r].heart
    BY <2>1, <2>3, RequestFacts DEF Request, Steps
  <2> HIDE DEF q
  <2>6. Told(q, wire[r], events[r]) /\ (SSEAfterRetry => Heart(q, wire[r]))
    BY <1>1, <2>5, RequestFacts
    DEF At, Good, Told, Heart, Answered, Untried, Beating
  <2>7. Bounded(q)
    BY <2>5, RequestFacts DEF Good, Bounded, Trying
  <2>8. Pinned(q)
    BY <1>1, <2>4, <2>5, RequestFacts DEF At, Prof, Good, Pinned, FallingBack
  <2>9. QED
    BY <1>1, <2>5, <2>6, <2>7, <2>8, RequestFacts, RequestMovesQuietly DEF At, Prof, Good
<1>4. QED
  BY <1>2, <1>3

LEMMA PlanIInv ==
  ASSUME IInv, NEW r \in Requests, Plan(r)
  PROVE  IInv'
<1>1. At(r, "plan") /\ UNCHANGED <<wire, events, cache>>
  BY DEF Plan
<1>2. CASE req[r].todo = <<>>
  <2>1. Goto(r, "settle") /\ "settle" \in Steps
    BY <1>2 DEF Plan, Steps
  <2>2. ASSUME NEW q \in Request, q.pc = "settle", Same(req[r], q)
        PROVE  Good(q, wire[r], events[r])
    BY <1>1, <2>2, RequestFacts DEF At, Prof, Same, Good, Told, Bounded, Pinned,
       Heart, Answered, Untried, Trying, Beating, FallingBack
  <2>3. QED
    BY <1>1, <2>1, <2>2, GotoIInv DEF At
<1>3. CASE req[r].todo # <<>> /\ Head(req[r].todo) \in Prof(r).refusing
  <2> DEFINE q == [req[r] EXCEPT !.pc = "settle", !.last = "unsupported",
                                 !.provider = Head(req[r].todo)]
  <2>1. Head(req[r].todo) \in Providers
    BY <1>3, RequestFacts, TodoFacts
  <2>2. req' = [req EXCEPT ![r].pc = "settle", ![r].last = "unsupported",
                           ![r].provider = Head(req[r].todo)]
    BY <1>3 DEF Plan
  <2>3. /\ q \in Request /\ req' = [req EXCEPT ![r] = q]
        /\ q.pc = "settle" /\ q.profile = req[r].profile /\ q.todo = req[r].todo
        /\ q.attempts = req[r].attempts /\ q.extra = req[r].extra
        /\ q.provider = Head(req[r].todo) /\ q.last = "unsupported"
        /\ q.heart = req[r].heart
    <3>1. req[r] \in Request /\ "settle" \in Steps /\ "unsupported" \in Results
      BY RequestFacts DEF Steps, Results
    <3>2. QED
      BY <2>2, <2>1, <3>1 DEF Request
  <2> HIDE DEF q
  <2>4. Told(q, wire[r], events[r])
    BY <1>1, <2>1, <2>3, RequestFacts, ExecutionAssumption DEF At, Good, Told, Answered, Untried
  <2>5. Bounded(q) /\ (SSEAfterRetry => Heart(q, wire[r]))
    BY <1>1, <2>3, RequestFacts
    DEF At, Good, Bounded, Heart, Trying, Beating, Untried, Success
  <2>6. Pinned(q)
    BY <1>1, <1>3, <2>3, RequestFacts, TodoFacts DEF At, Good, Pinned, FallingBack
  <2>7. QED
    BY <1>1, <2>3, <2>4, <2>5, <2>6, RequestFacts, RequestMovesQuietly DEF At, Prof, Good
<1>4. CASE req[r].todo # <<>> /\ Head(req[r].todo) \notin Prof(r).refusing
  <2> DEFINE q == [req[r] EXCEPT !.pc = "loop", !.tries = 0]
  <2>1. /\ q \in Request /\ req' = [req EXCEPT ![r] = q] /\ q.pc = "loop"
        /\ Same(req[r], q)
    <3>1. req' = [req EXCEPT ![r].pc = "loop", ![r].tries = 0]
      BY <1>4 DEF Plan
    <3>2. QED
      BY <3>1, RequestFacts DEF Request, Steps, Same
  <2> HIDE DEF q
  <2>2. Good(q, wire[r], events[r])
    BY <1>1, <1>4, <2>1, RequestFacts DEF At, Prof, Same, Good, Told, Bounded, Pinned,
       Heart, Answered, Untried, Trying, Beating, FallingBack
  <2>3. QED
    BY <1>1, <2>1, <2>2, RequestFacts, RequestMovesQuietly DEF At, Prof, Same
<1>5. QED
  BY <1>2, <1>3, <1>4

LEMMA NextCandidateIInv ==
  ASSUME IInv, NEW r \in Requests, NextCandidate(r)
  PROVE  IInv'
<1>1. At(r, "loop") /\ UNCHANGED <<wire, events, cache>>
  BY DEF NextCandidate
<1> DEFINE q == [req[r] EXCEPT !.pc = "plan", !.todo = Tail(@)]
<1>2. req[r].todo # <<>>
  BY <1>1, RequestFacts DEF At, Good, Bounded, Trying
<1>3. Tail(req[r].todo) \in Seq(Providers)
  BY <1>2, RequestFacts, TodoFacts
<1>4. /\ q \in Request /\ req' = [req EXCEPT ![r] = q]
      /\ q.pc = "plan" /\ q.profile = req[r].profile /\ q.todo = Tail(req[r].todo)
      /\ q.attempts = req[r].attempts /\ q.extra = req[r].extra
      /\ q.provider = req[r].provider /\ q.last = req[r].last
      /\ q.heart = req[r].heart
  BY <1>3, RequestFacts DEF NextCandidate, Request, Steps
<1> HIDE DEF q
<1>5. Told(q, wire[r], events[r]) /\ (SSEAfterRetry => Heart(q, wire[r]))
  BY <1>1, <1>4, RequestFacts DEF At, Good, Told, Heart, Answered, Untried, Beating
<1>6. Bounded(q)
  BY <1>4, RequestFacts DEF Good, Bounded, Trying
<1>7. Pinned(q)
  BY <1>1, <1>2, <1>4, RequestFacts, TodoFacts DEF At, Good, Pinned, FallingBack
<1>8. QED
  BY <1>1, <1>4, <1>5, <1>6, <1>7, RequestFacts, RequestMovesQuietly DEF At, Prof, Good

LEMMA BudgetSpentIInv ==
  ASSUME IInv, NEW r \in Requests, BudgetSpent(r)
  PROVE  IInv'
<1>1. At(r, "loop") /\ UNCHANGED <<wire, events, cache>>
  BY DEF BudgetSpent
<1> DEFINE q == [req[r] EXCEPT !.pc = "settle", !.last = "spent"]
<1>2. /\ q \in Request /\ req' = [req EXCEPT ![r] = q]
      /\ q.pc = "settle" /\ q.profile = req[r].profile /\ q.todo = req[r].todo
      /\ q.attempts = req[r].attempts /\ q.extra = req[r].extra
      /\ q.provider = req[r].provider /\ q.last = "spent"
      /\ q.heart = req[r].heart
  <2>1. req' = [req EXCEPT ![r].pc = "settle", ![r].last = "spent"]
    BY DEF BudgetSpent
  <2>2. QED
    <3>1. req[r] \in Request /\ "settle" \in Steps /\ "spent" \in Results
      BY RequestFacts DEF Steps, Results
    <3>2. QED
      BY <2>1, <3>1 DEF Request
<1> HIDE DEF q
<1>3. Good(q, wire[r], events[r])
  BY <1>1, <1>2, RequestFacts DEF At, Good, Told, Bounded, Pinned,
     Heart, Answered, Untried, Trying, Beating, FallingBack, Success
<1>4. QED
  BY <1>1, <1>2, <1>3, RequestFacts, RequestMovesQuietly DEF At, Prof

LEMMA CapReachedIInv ==
  ASSUME IInv, NEW r \in Requests, CapReached(r)
  PROVE  IInv'
<1>1. /\ At(r, "loop") /\ UNCHANGED <<wire, events, cache>>
      /\ Goto(r, "settle") /\ "settle" \in Steps
  BY DEF CapReached, Steps
<1>2. ASSUME NEW q \in Request, q.pc = "settle", Same(req[r], q)
      PROVE  Good(q, wire[r], events[r])
  BY <1>1, <1>2, RequestFacts DEF At, Prof, Same, Good, Told, Bounded, Pinned,
     Heart, Answered, Untried, Trying, Beating, FallingBack
<1>3. QED
  BY <1>1, <1>2, GotoIInv DEF At

(* One more attempt stays below the cap, and below one for a diagnostic request. *)
LEMMA AttemptFacts ==
  ASSUME IInv, NEW r \in Requests, At(r, "loop"), MayTry(r), ~AtHardCap(r)
  PROVE  /\ req[r].attempts \in Nat /\ req[r].attempts + 1 <= HardRetryCap
         /\ Diagnostic(Prof(r)) => req[r].attempts + 1 <= 1
<1>1. req[r].attempts \in Nat /\ Prof(r) \in Profile
  BY RequestFacts DEF At, Request
<1>2. MaxAttempts(Prof(r)) = 0 \/ req[r].attempts < MaxAttempts(Prof(r))
  BY DEF MayTry
<1>3. MaxAttempts(Prof(r)) = 0 => ~(req[r].attempts >= HardRetryCap)
  BY DEF AtHardCap
<1>4. /\ MaxAttempts(Prof(r)) \in Nat /\ MaxAttempts(Prof(r)) <= HardRetryCap
      /\ Diagnostic(Prof(r)) => MaxAttempts(Prof(r)) = 1
  BY <1>1, MaxAttemptsFacts
<1>5. HardRetryCap \in Nat
  BY ExecutionAssumption
<1> HIDE DEF MaxAttempts, Prof
<1>6. QED
  BY <1>1, <1>2, <1>3, <1>4, <1>5

LEMMA AttemptIInv ==
  ASSUME IInv, NEW r \in Requests, Attempt(r)
  PROVE  IInv'
<1>1. At(r, "loop") /\ UNCHANGED <<wire, events, cache>>
  BY DEF Attempt
<1>2. /\ req[r].attempts \in Nat /\ req[r].attempts + 1 <= HardRetryCap
      /\ Diagnostic(Prof(r)) => req[r].attempts + 1 <= 1
  BY AttemptFacts DEF Attempt
<1> DEFINE q == [req[r] EXCEPT !.pc = "call", !.attempts = @ + 1]
<1>3. /\ q \in Request /\ req' = [req EXCEPT ![r] = q]
      /\ q.pc = "call" /\ q.profile = req[r].profile /\ q.todo = req[r].todo
      /\ q.attempts = req[r].attempts + 1 /\ q.extra = req[r].extra
      /\ q.provider = req[r].provider /\ q.last = req[r].last
      /\ q.heart = req[r].heart
  <2>1. req' = [req EXCEPT ![r].pc = "call", ![r].attempts = @ + 1]
    BY DEF Attempt
  <2>2. req[r].attempts + 1 \in Nat
    BY <1>2
  <2>3. QED
    BY <2>1, <2>2, RequestFacts DEF Request, Steps
<1> HIDE DEF q
<1>4. Told(q, wire[r], events[r])
  BY <1>1, <1>2, <1>3, RequestFacts DEF At, Good, Told, Answered, Untried
<1>5. Bounded(q)
  BY <1>1, <1>2, <1>3, RequestFacts DEF At, Good, Bounded, Trying
<1>6. Pinned(q)
  BY <1>1, <1>2, <1>3, RequestFacts DEF At, Prof, Good, Pinned, FallingBack
<1>7. SSEAfterRetry => Heart(q, wire[r])
  <2>1. q.attempts > 0
    BY <1>2, <1>3
  <2>2. QED
    BY <1>1, <1>3, <2>1, RequestFacts DEF At, Good, Heart, Beating, Untried
<1>8. QED
  BY <1>1, <1>3, <1>4, <1>5, <1>6, <1>7, RequestFacts, RequestMovesQuietly DEF At, Prof, Good

LEMMA CallIInv ==
  ASSUME IInv, NEW r \in Requests, Call(r)
  PROVE  IInv'
<1>1. At(r, "call") /\ UNCHANGED <<wire, events, cache>>
  BY DEF Call
<1>2. PICK result \in Outcomes(r) :
        req' = [req EXCEPT ![r].pc = "judge", ![r].last = result,
                           ![r].provider = Head(req[r].todo)]
  BY DEF Call
<1>3. /\ result \in Results
      /\ SSEAfterRetry /\ req[r].heart = "beating" /\ result \in Success => result = "sse"
  BY DEF Outcomes, Results, Success, Failure
<1> DEFINE q == [req[r] EXCEPT !.pc = "judge", !.last = result,
                               !.provider = Head(req[r].todo)]
<1>4. req[r].todo # <<>>
  BY <1>1, RequestFacts DEF At, Good, Bounded, Trying
<1>5. Head(req[r].todo) \in Providers
  BY <1>4, RequestFacts, TodoFacts
<1>6. /\ q \in Request /\ req' = [req EXCEPT ![r] = q]
      /\ q.pc = "judge" /\ q.profile = req[r].profile /\ q.todo = req[r].todo
      /\ q.attempts = req[r].attempts /\ q.extra = req[r].extra
      /\ q.provider = Head(req[r].todo) /\ q.last = result
      /\ q.heart = req[r].heart
  BY <1>2, <1>3, <1>5, RequestFacts DEF Request, Steps
<1> HIDE DEF q
<1>7. Told(q, wire[r], events[r])
  BY <1>1, <1>5, <1>6, RequestFacts, ExecutionAssumption DEF At, Good, Told, Answered, Untried
<1>8. Bounded(q)
  BY <1>1, <1>4, <1>6, RequestFacts DEF At, Good, Bounded, Trying
<1>9. Pinned(q)
  BY <1>1, <1>4, <1>6, RequestFacts, TodoFacts DEF At, Good, Pinned, FallingBack
<1>10. SSEAfterRetry => Heart(q, wire[r])
  BY <1>1, <1>3, <1>6, RequestFacts DEF At, Good, Heart, Beating, Untried
<1>11. QED
  BY <1>1, <1>6, <1>7, <1>8, <1>9, <1>10, RequestFacts, RequestMovesQuietly
     DEF At, Prof, Good

LEMMA JudgeIInv ==
  ASSUME IInv, NEW r \in Requests, Judge(r)
  PROVE  IInv'
<1>1. At(r, "judge") /\ UNCHANGED <<wire, events, cache>>
  BY DEF Judge
<1>2. PICK step \in {"settle", "session", "backoff"} :
        /\ Goto(r, step)
        /\ step # "settle" => req[r].last \notin Success
        /\ step = "session" => req[r].heart = "none"
  BY DEF Judge
<1>3. ASSUME NEW q \in Request, q.pc = step, Same(req[r], q)
      PROVE  Good(q, wire[r], events[r])
  <2>1. Told(q, wire[r], events[r]) /\ Bounded(q)
    BY <1>1, <1>3, RequestFacts DEF At, Same, Good, Told, Bounded, Answered, Untried, Trying
  <2>2. Pinned(q)
    BY <1>1, <1>3, RequestFacts DEF At, Same, Good, Pinned, FallingBack
  <2>3. SSEAfterRetry => Heart(q, wire[r])
    <3>1. CASE step = "settle"
      BY <1>1, <1>3, <3>1, RequestFacts DEF At, Same, Good, Heart, Beating
    <3>2. CASE step # "settle"
      <4>1. q.last \notin Success /\ q.pc \in {"session", "backoff"}
        BY <1>2, <1>3, <3>2 DEF Same
      <4>2. q.heart = "beating" => q.pc = "backoff"
        BY <1>1, <1>2, <1>3, <4>1 DEF At, Same
      <4>3. QED
        BY <1>1, <1>3, <4>1, <4>2, RequestFacts DEF At, Same, Good, Heart, Beating
    <3>3. QED
      BY <3>1, <3>2
  <2>4. QED
    BY <2>1, <2>2, <2>3 DEF Good
<1>4. step \in Steps
  BY DEF Steps
<1>5. QED
  BY <1>1, <1>2, <1>3, <1>4, GotoIInv DEF At

(* The header is written to this client only. *)
LEMMA SessionIInv ==
  ASSUME IInv, NEW r \in Requests, Session(r)
  PROVE  IInv'
<1>1. /\ At(r, "session") /\ wire' = [wire EXCEPT ![r] = "header"]
      /\ UNCHANGED <<events, cache>>
  BY DEF Session
<1>2. PICK heart \in {"beating", "none"} :
        req' = [req EXCEPT ![r].pc = "backoff", ![r].heart = heart]
  BY DEF Session
<1> DEFINE q == [req[r] EXCEPT !.pc = "backoff", !.heart = heart]
<1>3. /\ q \in Request /\ req' = [req EXCEPT ![r] = q]
      /\ q.pc = "backoff" /\ q.profile = req[r].profile /\ q.todo = req[r].todo
      /\ q.attempts = req[r].attempts /\ q.extra = req[r].extra
      /\ q.provider = req[r].provider /\ q.last = req[r].last
      /\ q.heart = heart
  <2>1. req[r] \in Request /\ "backoff" \in Steps /\ heart \in {"none", "beating", "stopped"}
    BY RequestFacts DEF Steps
  <2>2. QED
    BY <1>2, <2>1 DEF Request
<1> HIDE DEF q
<1>4. /\ wire' \in [Requests -> {"nothing", "header", "answer"}] /\ wire'[r] = "header"
      /\ \A k \in Requests : k # r => wire'[k] = wire[k]
  BY <1>1 DEF IInv, TypeOK
<1>5. /\ events' \in [Requests -> Nat] /\ cache' \in [Keys -> Providers \cup {None}]
      /\ events' = events
  BY <1>1 DEF IInv, TypeOK
<1>6. Told(q, "header", events[r])
  BY <1>1, <1>3, RequestFacts DEF At, Good, Told, Answered, Untried
<1>7. Bounded(q) /\ Pinned(q)
  BY <1>1, <1>3, RequestFacts DEF At, Good, Bounded, Pinned, Trying, FallingBack
<1>8. SSEAfterRetry => Heart(q, "header")
  <2>1. q.attempts > 0
    BY <1>1, <1>3, RequestFacts DEF At, Good, Told
  <2>2. QED
    BY <1>1, <1>3, <2>1, RequestFacts DEF At, Good, Heart, Beating
<1>9. Good(q, wire'[r], events'[r])
  BY <1>4, <1>5, <1>6, <1>7, <1>8 DEF Good
<1>10. QED
  BY <1>1, <1>3, <1>4, <1>5, <1>9, RequestFacts, RequestMoves DEF At, Prof

LEMMA BackoffIInv ==
  ASSUME IInv, NEW r \in Requests, Backoff(r)
  PROVE  IInv'
<1>1. At(r, "backoff") /\ UNCHANGED <<wire, events, cache>>
  BY DEF Backoff
<1>2. req' = [req EXCEPT ![r].pc = "loop", ![r].tries = @ + 1]
  BY DEF Backoff
<1> DEFINE q == [req[r] EXCEPT !.pc = "loop", !.tries = @ + 1]
<1>3. q \in Request /\ req' = [req EXCEPT ![r] = q] /\ q.pc = "loop" /\ Same(req[r], q)
  <2>1. req[r] \in Request /\ "loop" \in Steps
    BY RequestFacts DEF Steps
  <2>2. req[r].tries + 1 \in Nat
    BY <2>1 DEF Request
  <2>3. QED
    BY <1>2, <2>1, <2>2 DEF Request, Same
<1> HIDE DEF q
<1>4. Good(q, wire[r], events[r])
  BY <1>1, <1>3, RequestFacts DEF At, Prof, Same, Good, Told, Bounded, Pinned,
     Heart, Answered, Untried, Trying, Beating, FallingBack
<1>5. QED
  BY <1>1, <1>3, <1>4, RequestFacts, RequestMovesQuietly DEF At, Prof, Same

LEMMA SettleIInv ==
  ASSUME IInv, NEW r \in Requests, Settle(r)
  PROVE  IInv'
<1>1. At(r, "settle") /\ UNCHANGED <<wire, events, cache>>
  BY DEF Settle
<1>2. CASE /\ req[r].heart = "none" /\ ~Diagnostic(Prof(r))
           /\ req' = [req EXCEPT ![r].pc = "models", ![r].models = Prof(r).fallbacks]
  <2>1. req[r] \in Request /\ "models" \in Steps /\ Prof(r).fallbacks \in Seq(Models)
    BY <1>1, RequestFacts DEF At, Profile, Steps
  <2> DEFINE q == [req[r] EXCEPT !.pc = "models", !.models = Prof(r).fallbacks]
  <2>2. q \in Request /\ req' = [req EXCEPT ![r] = q] /\ q.pc = "models" /\ Same(req[r], q)
    BY <1>2, <2>1 DEF Request, Same
  <2> HIDE DEF q
  <2>3. Good(q, wire[r], events[r])
    BY <1>1, <1>2, <2>2, RequestFacts DEF At, Prof, Same, Good, Told, Bounded, Pinned,
       Heart, Answered, Untried, Trying, Beating, FallingBack
  <2>4. QED
    BY <1>1, <2>2, <2>3, RequestFacts, RequestMovesQuietly DEF At, Prof, Same
<1>3. CASE \E step \in {"deliver", "give up"} :
             Goto(r, step) /\ (step = "deliver" => req[r].last \in Success)
  <2>1. PICK step \in {"deliver", "give up"} :
          Goto(r, step) /\ (step = "deliver" => req[r].last \in Success)
    BY <1>3
  <2>2. ASSUME NEW q \in Request, q.pc = step, Same(req[r], q)
        PROVE  Good(q, wire[r], events[r])
    BY <1>1, <2>1, <2>2, RequestFacts DEF At, Prof, Same, Good, Told, Bounded, Pinned,
       Heart, Answered, Untried, Trying, Beating, FallingBack
  <2>3. step \in Steps
    BY DEF Steps
  <2>4. QED
    BY <1>1, <2>1, <2>2, <2>3, GotoIInv DEF At
<1>4. QED
  BY <1>2, <1>3 DEF Settle

LEMMA NextModelIInv ==
  ASSUME IInv, NEW r \in Requests, NextModel(r)
  PROVE  IInv'
<1>1. At(r, "models") /\ UNCHANGED <<wire, events, cache>>
  BY DEF NextModel
<1>2. CASE Goto(r, "give up")
  <2>1. ASSUME NEW q \in Request, q.pc = "give up", Same(req[r], q)
        PROVE  Good(q, wire[r], events[r])
    BY <1>1, <2>1, RequestFacts DEF At, Prof, Same, Good, Told, Bounded, Pinned,
       Heart, Answered, Untried, Trying, Beating, FallingBack
  <2>2. "give up" \in Steps
    BY DEF Steps
  <2>3. QED
    BY <1>1, <1>2, <2>1, <2>2, GotoIInv DEF At
<1>3. CASE /\ req[r].models # <<>>
           /\ \E order \in Orders(Serving[Head(req[r].models)]) :
                req' = [req EXCEPT ![r].pc = "fallback", ![r].todo = order,
                                   ![r].models = Tail(@)]
  <2>1. PICK order \in Orders(Serving[Head(req[r].models)]) :
          req' = [req EXCEPT ![r].pc = "fallback", ![r].todo = order, ![r].models = Tail(@)]
    BY <1>3
  <2>2. req[r] \in Request /\ "fallback" \in Steps
    BY RequestFacts DEF Steps
  <2>3. req[r].models \in Seq(Models)
    BY <2>2 DEF Request
  <2>4. Head(req[r].models) \in Models /\ Tail(req[r].models) \in Seq(Models)
    BY <1>3, <2>3, HeadTailProperties
  <2>5. Serving[Head(req[r].models)] \subseteq Providers
    BY <2>4, ExecutionAssumption
  <2>6. order \in Seq(Providers)
    BY <2>5, OrdersFacts
  <2> DEFINE q == [req[r] EXCEPT !.pc = "fallback", !.todo = order, !.models = Tail(@)]
  <2>7. /\ q \in Request /\ req' = [req EXCEPT ![r] = q]
        /\ q.pc = "fallback" /\ q.profile = req[r].profile
        /\ q.attempts = req[r].attempts /\ q.extra = req[r].extra
        /\ q.provider = req[r].provider /\ q.last = req[r].last
        /\ q.heart = req[r].heart
    BY <2>1, <2>2, <2>4, <2>6 DEF Request
  <2> HIDE DEF q
  <2>8. Good(q, wire[r], events[r])
    BY <1>1, <2>7, RequestFacts DEF At, Good, Told, Bounded, Pinned,
       Heart, Answered, Untried, Trying, Beating, FallingBack
  <2>9. QED
    BY <1>1, <2>7, <2>8, RequestFacts, RequestMovesQuietly DEF At, Prof
<1>4. QED
  BY <1>2, <1>3 DEF NextModel

LEMMA NextFallbackIInv ==
  ASSUME IInv, NEW r \in Requests, NextFallback(r)
  PROVE  IInv'
<1>1. At(r, "fallback") /\ UNCHANGED <<wire, events, cache>>
  BY DEF NextFallback
<1>2. CASE \E step \in {"models", "give up"} : Goto(r, step)
  <2>1. PICK step \in {"models", "give up"} : Goto(r, step)
    BY <1>2
  <2>2. ASSUME NEW q \in Request, q.pc = step, Same(req[r], q)
        PROVE  Good(q, wire[r], events[r])
    BY <1>1, <2>1, <2>2, RequestFacts DEF At, Prof, Same, Good, Told, Bounded, Pinned,
       Heart, Answered, Untried, Trying, Beating, FallingBack
  <2>3. step \in Steps
    BY DEF Steps
  <2>4. QED
    BY <1>1, <2>1, <2>2, <2>3, GotoIInv DEF At
<1>3. CASE /\ req[r].todo # <<>> /\ req[r].extra < MaxFallbackAttempts
           /\ IF Head(req[r].todo) \in Prof(r).refusing
              THEN req' = [req EXCEPT ![r].extra = @ + 1, ![r].todo = Tail(@)]
              ELSE req' = [req EXCEPT ![r].extra = @ + 1, ![r].pc = "fallback call"]
  <2>1. req[r] \in Request /\ req[r].pc = "fallback" /\ "fallback call" \in Steps
    BY <1>1, RequestFacts DEF At, Steps
  <2>2. Tail(req[r].todo) \in Seq(Providers)
    BY <1>3, <2>1, TodoFacts
  <2>3. req[r].extra + 1 \in Nat /\ req[r].extra + 1 <= MaxFallbackAttempts
    <3>1. req[r].extra \in Nat
      BY <2>1 DEF Request
    <3>2. req[r].extra < MaxFallbackAttempts /\ MaxFallbackAttempts \in Nat
      BY <1>3, ExecutionAssumption
    <3>3. QED
      BY <3>1, <3>2
  <2>4. PICK q \in Request :
          /\ req' = [req EXCEPT ![r] = q]
          /\ q.pc \in {"fallback", "fallback call"} /\ q.profile = req[r].profile
          /\ q.pc = "fallback call" => q.todo # <<>>
          /\ q.attempts = req[r].attempts /\ q.extra = req[r].extra + 1
          /\ q.provider = req[r].provider /\ q.last = req[r].last
          /\ q.heart = req[r].heart
    <3>1. CASE Head(req[r].todo) \in Prof(r).refusing
      <4> DEFINE q == [req[r] EXCEPT !.extra = @ + 1, !.todo = Tail(@)]
      <4>1. /\ q \in Request /\ req' = [req EXCEPT ![r] = q]
            /\ q.pc = "fallback" /\ q.profile = req[r].profile
            /\ q.attempts = req[r].attempts /\ q.extra = req[r].extra + 1
            /\ q.provider = req[r].provider /\ q.last = req[r].last
            /\ q.heart = req[r].heart
        BY <1>3, <2>1, <2>2, <2>3, <3>1 DEF Request
      <4> HIDE DEF q
      <4>2. QED
        BY <4>1
    <3>2. CASE Head(req[r].todo) \notin Prof(r).refusing
      <4> DEFINE q == [req[r] EXCEPT !.extra = @ + 1, !.pc = "fallback call"]
      <4>1. /\ q \in Request /\ req' = [req EXCEPT ![r] = q]
            /\ q.pc = "fallback call" /\ q.profile = req[r].profile /\ q.todo = req[r].todo
            /\ q.attempts = req[r].attempts /\ q.extra = req[r].extra + 1
            /\ q.provider = req[r].provider /\ q.last = req[r].last
            /\ q.heart = req[r].heart
        BY <1>3, <2>1, <2>3, <3>2 DEF Request
      <4> HIDE DEF q
      <4>2. QED
        BY <1>3, <4>1
    <3>3. QED
      BY <3>1, <3>2
  <2>5. Told(q, wire[r], events[r]) /\ (SSEAfterRetry => Heart(q, wire[r]))
    BY <2>1, <2>4, RequestFacts DEF Good, Told, Heart, Answered, Untried, Beating
  <2>6. Bounded(q)
    BY <2>3, <2>4, RequestFacts DEF Good, Bounded, Trying
  <2>7. Pinned(q)
    BY <2>1, <2>4, RequestFacts DEF Good, Pinned, FallingBack
  <2>8. q.profile \in Profiles[r]
    BY <2>1, <2>4, RequestFacts DEF Prof
  <2>9. QED
    BY <1>1, <2>4, <2>5, <2>6, <2>7, <2>8, RequestMovesQuietly DEF Good
<1>4. QED
  BY <1>2, <1>3 DEF NextFallback

LEMMA FallbackCallIInv ==
  ASSUME IInv, NEW r \in Requests, FallbackCall(r)
  PROVE  IInv'
<1>1. At(r, "fallback call") /\ UNCHANGED <<wire, events, cache>>
  BY DEF FallbackCall
<1>2. CASE Goto(r, "fallback deliver")
  <2>1. ASSUME NEW q \in Request, q.pc = "fallback deliver", Same(req[r], q)
        PROVE  Good(q, wire[r], events[r])
    BY <1>1, <2>1, RequestFacts DEF At, Prof, Same, Good, Told, Bounded, Pinned,
       Heart, Answered, Untried, Trying, Beating, FallingBack
  <2>2. "fallback deliver" \in Steps
    BY DEF Steps
  <2>3. QED
    BY <1>1, <1>2, <2>1, <2>2, GotoIInv DEF At
<1>3. CASE req' = [req EXCEPT ![r].pc = "fallback", ![r].todo = Tail(@)]
  <2>1. req[r] \in Request /\ "fallback" \in Steps /\ req[r].todo # <<>>
    BY <1>1, RequestFacts DEF At, Steps, Good, Bounded, Trying
  <2>2. Tail(req[r].todo) \in Seq(Providers)
    BY <2>1, TodoFacts
  <2> DEFINE q == [req[r] EXCEPT !.pc = "fallback", !.todo = Tail(@)]
  <2>3. /\ q \in Request /\ req' = [req EXCEPT ![r] = q]
        /\ q.pc = "fallback" /\ q.profile = req[r].profile
        /\ q.attempts = req[r].attempts /\ q.extra = req[r].extra
        /\ q.provider = req[r].provider /\ q.last = req[r].last
        /\ q.heart = req[r].heart
    BY <1>3, <2>1, <2>2 DEF Request
  <2> HIDE DEF q
  <2>4. Good(q, wire[r], events[r])
    BY <1>1, <2>3, RequestFacts DEF At, Good, Told, Bounded, Pinned,
       Heart, Answered, Untried, Trying, Beating, FallingBack
  <2>5. QED
    BY <1>1, <2>3, <2>4, RequestFacts, RequestMovesQuietly DEF At, Prof
<1>4. QED
  BY <1>2, <1>3 DEF FallbackCall

(* An answer is written, and the request goes on. *)
LEMMA AnswerIInv ==
  ASSUME IInv, NEW r \in Requests, ~At(r, "new"), NEW q \in Request,
         req' = [req EXCEPT ![r] = q], q.profile = req[r].profile,
         wire' = [wire EXCEPT ![r] = "answer"], UNCHANGED <<events, cache>>,
         Good(q, "answer", events[r])
  PROVE  IInv'
<1>1. /\ wire' \in [Requests -> {"nothing", "header", "answer"}] /\ wire'[r] = "answer"
      /\ \A k \in Requests : k # r => wire'[k] = wire[k]
      /\ events' \in [Requests -> Nat] /\ cache' \in [Keys -> Providers \cup {None}]
      /\ events' = events
  BY DEF IInv, TypeOK
<1>2. q.profile \in Profiles[r] /\ Good(q, wire'[r], events'[r])
  BY <1>1, RequestFacts DEF At, Prof
<1>3. QED
  BY <1>1, <1>2, RequestMoves

LEMMA HitIInv ==
  ASSUME IInv, NEW r \in Requests, Hit(r)
  PROVE  IInv'
<1>1. At(r, "hit") /\ wire' = [wire EXCEPT ![r] = "answer"] /\ UNCHANGED <<events, cache>>
  BY DEF Hit
<1>2. PICK q \in Request : req' = [req EXCEPT ![r] = q] /\ q.pc = "report" /\ Same(req[r], q)
  BY GotoMoves DEF Hit, Steps
<1>3. Good(q, "answer", events[r])
  BY <1>1, <1>2, RequestFacts DEF At, Same, Good, Told, Bounded, Pinned,
     Heart, Answered, Untried, Trying, Beating, FallingBack
<1>4. QED
  BY <1>1, <1>2, <1>3, AnswerIInv DEF At, Same

LEMMA FallbackDeliverIInv ==
  ASSUME IInv, NEW r \in Requests, FallbackDeliver(r)
  PROVE  IInv'
<1>1. /\ At(r, "fallback deliver") /\ wire' = [wire EXCEPT ![r] = "answer"]
      /\ UNCHANGED <<events, cache>>
  BY DEF FallbackDeliver
<1>2. PICK q \in Request : req' = [req EXCEPT ![r] = q] /\ q.pc = "report" /\ Same(req[r], q)
  BY GotoMoves DEF FallbackDeliver, Steps
<1>3. Good(q, "answer", events[r])
  BY <1>1, <1>2, RequestFacts DEF At, Same, Good, Told, Bounded, Pinned,
     Heart, Answered, Untried, Trying, Beating, FallingBack
<1>4. QED
  BY <1>1, <1>2, <1>3, AnswerIInv DEF At, Same

LEMMA RefuseIInv ==
  ASSUME IInv, NEW r \in Requests, Refuse(r)
  PROVE  IInv'
<1>1. At(r, "refuse") /\ wire' = [wire EXCEPT ![r] = "answer"] /\ UNCHANGED <<events, cache>>
  BY DEF Refuse
<1>2. PICK q \in Request : req' = [req EXCEPT ![r] = q] /\ q.pc = "return" /\ Same(req[r], q)
  BY GotoMoves DEF Refuse, Steps
<1>3. Good(q, "answer", events[r])
  <2>1. Told(q, "answer", events[r])
    BY <1>1, <1>2, RequestFacts DEF At, Same, Good, Told, Answered, Untried
  <2>2. Bounded(q) /\ Pinned(q)
    BY <1>1, <1>2, RequestFacts DEF At, Same, Good, Bounded, Pinned, Trying, FallingBack
  <2>3. SSEAfterRetry => Heart(q, "answer")
    BY <1>1, <1>2, RequestFacts DEF At, Same, Good, Heart, Beating
  <2>4. QED
    BY <2>1, <2>2, <2>3 DEF Good
<1>4. QED
  BY <1>1, <1>2, <1>3, AnswerIInv DEF At, Same

LEMMA DeliverIInv ==
  ASSUME IInv, NEW r \in Requests, Deliver(r)
  PROVE  IInv'
<1>1. At(r, "deliver") /\ wire' = [wire EXCEPT ![r] = "answer"] /\ UNCHANGED <<events, cache>>
  BY DEF Deliver
<1> DEFINE stops == req[r].last = "sse" /\ req[r].heart = "beating"
           stores == req[r].last = "success" /\ UsesCache(Prof(r))
           step == IF stores THEN "store" ELSE "report"
           heart == IF stops THEN "stopped" ELSE req[r].heart
           q == [req[r] EXCEPT !.pc = step, !.heart = heart]
<1>2. req' = [req EXCEPT ![r].pc = step, ![r].heart = IF stops THEN "stopped" ELSE @]
  BY DEF Deliver
<1>3. /\ req[r] \in Request /\ step \in Steps /\ heart \in {"none", "beating", "stopped"}
      /\ step \in {"store", "report"}
      /\ step = "store" => ~Diagnostic(Prof(r))
      /\ heart = "beating" => req[r].heart = "beating" /\ req[r].last # "sse"
  BY RequestFacts DEF Steps, UsesCache, Request
<1> HIDE DEF step
<1>4. /\ q \in Request /\ req' = [req EXCEPT ![r] = q]
      /\ q.pc = step /\ q.profile = req[r].profile /\ q.todo = req[r].todo
      /\ q.attempts = req[r].attempts /\ q.extra = req[r].extra
      /\ q.provider = req[r].provider /\ q.last = req[r].last
      /\ q.heart = heart
  BY <1>2, <1>3 DEF Request
<1> HIDE DEF q, heart, stops, stores
<1>5. Told(q, "answer", events[r])
  BY <1>1, <1>3, <1>4, RequestFacts DEF At, Good, Told, Answered, Untried
<1>6. Bounded(q) /\ Pinned(q)
  BY <1>1, <1>3, <1>4, RequestFacts DEF At, Prof, Good, Bounded, Pinned, Trying, FallingBack
<1>7. SSEAfterRetry => Heart(q, "answer")
  BY <1>1, <1>3, <1>4, RequestFacts DEF At, Good, Heart, Beating
<1>8. QED
  BY <1>1, <1>4, <1>5, <1>6, <1>7, AnswerIInv DEF At, Good

LEMMA FailIInv ==
  ASSUME IInv, NEW r \in Requests, Fail(r)
  PROVE  IInv'
<1>1. At(r, "fail") /\ wire' = [wire EXCEPT ![r] = "answer"] /\ UNCHANGED <<events, cache>>
  BY DEF Fail
<1> DEFINE heart == IF req[r].heart = "beating" THEN "stopped" ELSE req[r].heart
           q == [req[r] EXCEPT !.pc = "return", !.heart = heart]
<1>2. req' = [req EXCEPT ![r].pc = "return",
                         ![r].heart = IF @ = "beating" THEN "stopped" ELSE @]
  BY DEF Fail
<1>3. /\ req[r] \in Request /\ "return" \in Steps /\ heart \in {"none", "beating", "stopped"}
      /\ heart # "beating"
  BY RequestFacts DEF Steps, Request
<1>4. /\ q \in Request /\ req' = [req EXCEPT ![r] = q]
      /\ q.pc = "return" /\ q.profile = req[r].profile /\ q.todo = req[r].todo
      /\ q.attempts = req[r].attempts /\ q.extra = req[r].extra
      /\ q.provider = req[r].provider /\ q.last = req[r].last
      /\ q.heart = heart
  BY <1>2, <1>3 DEF Request
<1> HIDE DEF q, heart
<1>5. Told(q, "answer", events[r])
  BY <1>1, <1>4, RequestFacts DEF At, Good, Told, Answered, Untried
<1>6. Bounded(q) /\ Pinned(q)
  BY <1>1, <1>4, RequestFacts DEF At, Good, Bounded, Pinned, Trying, FallingBack
<1>7. SSEAfterRetry => Heart(q, "answer")
  BY <1>3, <1>4 DEF Heart
<1>8. QED
  BY <1>1, <1>4, <1>5, <1>6, <1>7, AnswerIInv DEF At, Good

(* Only the cache changes besides; a diagnostic request is not here. *)
LEMMA StoreIInv ==
  ASSUME IInv, NEW r \in Requests, Store(r)
  PROVE  IInv'
<1>1. /\ At(r, "store") /\ UNCHANGED <<wire, events>>
      /\ cache' = [cache EXCEPT ![Prof(r).key] = req[r].provider]
  BY DEF Store
<1>2. PICK q \in Request : req' = [req EXCEPT ![r] = q] /\ q.pc = "report" /\ Same(req[r], q)
  BY GotoMoves DEF Store, Steps
<1>3. Good(q, wire[r], events[r]) /\ q.profile \in Profiles[r]
  BY <1>1, <1>2, RequestFacts DEF At, Prof, Same, Good, Told, Bounded, Pinned,
     Heart, Answered, Untried, Trying, Beating, FallingBack
<1>4. req[r].provider \in Providers \cup {None}
  BY RequestFacts DEF Request
<1>5. /\ wire' \in [Requests -> {"nothing", "header", "answer"}]
      /\ events' \in [Requests -> Nat] /\ wire' = wire /\ events' = events
      /\ cache' \in [Keys -> Providers \cup {None}]
  BY <1>1, <1>4 DEF IInv, TypeOK
<1>6. QED
  BY <1>2, <1>3, <1>5, RequestMoves

LEMMA ReportIInv ==
  ASSUME IInv, NEW r \in Requests, Report(r)
  PROVE  IInv'
<1>1. /\ At(r, "report") /\ UNCHANGED <<wire, cache>>
      /\ events' = [events EXCEPT ![r] = @ + 1]
  BY DEF Report
<1>2. PICK q \in Request : req' = [req EXCEPT ![r] = q] /\ q.pc = "return" /\ Same(req[r], q)
  BY GotoMoves DEF Report, Steps
<1>3. events[r] = 0
  BY <1>1, RequestFacts DEF At, Good, Told
<1>4. /\ wire' \in [Requests -> {"nothing", "header", "answer"}] /\ wire' = wire
      /\ cache' \in [Keys -> Providers \cup {None}]
      /\ events' \in [Requests -> Nat] /\ events'[r] = 1
      /\ \A k \in Requests : k # r => events'[k] = events[k]
  BY <1>1, <1>3 DEF IInv, TypeOK
<1>5. Told(q, wire[r], 1)
  BY <1>1, <1>2, RequestFacts DEF At, Same, Good, Told, Answered, Untried
<1>6. Bounded(q) /\ Pinned(q) /\ (SSEAfterRetry => Heart(q, wire[r]))
  BY <1>1, <1>2, RequestFacts DEF At, Same, Good, Bounded, Pinned, Heart, Trying,
     FallingBack, Untried, Beating
<1>7. q.profile \in Profiles[r]
  BY <1>1, <1>2, RequestFacts DEF At, Prof, Same
<1>8. QED
  BY <1>2, <1>4, <1>5, <1>6, <1>7, RequestMoves DEF Good

LEMMA GiveUpIInv ==
  ASSUME IInv, NEW r \in Requests, GiveUp(r)
  PROVE  IInv'
<1>1. At(r, "give up") /\ UNCHANGED <<wire, cache>>
  BY DEF GiveUp
<1>2. CASE req[r].provider = None
  <2>1. Goto(r, "refuse") /\ UNCHANGED events /\ "refuse" \in Steps
    BY <1>2 DEF GiveUp, Steps
  <2>2. req[r].attempts = 0
    <3>1. ~(req[r].attempts > 0)
      BY <1>1, <1>2, RequestFacts DEF At, Good, Told
    <3>2. req[r].attempts \in Nat
      BY RequestFacts DEF Request
    <3>3. QED
      BY <3>1, <3>2
  <2>3. ASSUME NEW q \in Request, q.pc = "refuse", Same(req[r], q)
        PROVE  Good(q, wire[r], events[r])
    <3>1. Told(q, wire[r], events[r])
      BY <1>1, <2>2, <2>3, RequestFacts DEF At, Same, Good, Told, Answered, Untried
    <3>2. Bounded(q) /\ Pinned(q)
      BY <1>1, <2>3, RequestFacts DEF At, Same, Good, Bounded, Pinned, Trying, FallingBack
    <3>3. SSEAfterRetry => Heart(q, wire[r])
      <4>1. ~(q.attempts > 0)
        BY <2>2, <2>3 DEF Same
      <4>2. SSEAfterRetry => q.heart # "beating"
        BY <1>1, <2>3, <4>1, RequestFacts DEF At, Same, Good, Heart
      <4>3. QED
        BY <2>3, <4>2 DEF Heart
    <3>4. QED
      BY <3>1, <3>2, <3>3 DEF Good
  <2>4. QED
    BY <1>1, <2>1, <2>3, GotoIInv DEF At
<1>3. CASE req[r].provider # None
  <2>1. Goto(r, "fail") /\ events' = [events EXCEPT ![r] = @ + 1] /\ "fail" \in Steps
    BY <1>3 DEF GiveUp, Steps
  <2>2. PICK q \in Request : req' = [req EXCEPT ![r] = q] /\ q.pc = "fail" /\ Same(req[r], q)
    BY <2>1, GotoMoves
  <2>3. events[r] = 0
    BY <1>1, RequestFacts DEF At, Good, Told
  <2>4. /\ wire' \in [Requests -> {"nothing", "header", "answer"}] /\ wire' = wire
        /\ cache' \in [Keys -> Providers \cup {None}]
        /\ events' \in [Requests -> Nat] /\ events'[r] = 1
        /\ \A k \in Requests : k # r => events'[k] = events[k]
    <3>1. events' = [events EXCEPT ![r] = @ + 1] /\ UNCHANGED <<wire, cache>>
      BY <1>1, <2>1
    <3>2. QED
      BY <2>3, <3>1 DEF IInv, TypeOK
  <2>5. Told(q, wire[r], 1)
    <3>1. q.provider # None
      BY <1>3, <2>2 DEF Same
    <3>2. req[r].pc = "give up" /\ Told(req[r], wire[r], events[r])
      BY <1>1, RequestFacts DEF At, Good
    <3>3. wire[r] # "answer" /\ q.pc = "fail"
      BY <2>2, <3>2 DEF Told, Answered
    <3>4. QED
      BY <3>1, <3>3 DEF Told, Answered, Untried
  <2>6. Bounded(q) /\ Pinned(q)
    BY <1>1, <2>2, RequestFacts DEF At, Same, Good, Bounded, Pinned, Trying, FallingBack
  <2>7. SSEAfterRetry => Heart(q, wire[r])
    BY <1>1, <2>2, RequestFacts DEF At, Same, Good, Heart, Beating
  <2>8. q.profile \in Profiles[r]
    BY <1>1, <2>2, RequestFacts DEF At, Prof, Same
  <2>9. QED
    BY <2>2, <2>4, <2>5, <2>6, <2>7, <2>8, RequestMoves DEF Good
<1>4. QED
  BY <1>2, <1>3

LEMMA ReturnIInv ==
  ASSUME IInv, NEW r \in Requests, Return(r)
  PROVE  IInv'
<1>1. /\ At(r, "return") /\ UNCHANGED <<wire, events, cache>>
      /\ Goto(r, "ended") /\ "ended" \in Steps
  BY DEF Return, Steps
<1>2. ASSUME NEW q \in Request, q.pc = "ended", Same(req[r], q)
      PROVE  Good(q, wire[r], events[r])
  BY <1>1, <1>2, RequestFacts DEF At, Prof, Same, Good, Told, Bounded, Pinned,
     Heart, Answered, Untried, Trying, Beating, FallingBack
<1>3. QED
  BY <1>1, <1>2, GotoIInv DEF At

LEMMA DisconnectIInv ==
  ASSUME IInv, NEW r \in Requests, Disconnect(r)
  PROVE  IInv'
<1>1. req[r].pc # "new" /\ UNCHANGED <<wire, events, cache>>
  BY DEF Disconnect
<1>2. req' = [req EXCEPT ![r].gone = TRUE]
  BY DEF Disconnect
<1> DEFINE q == [req[r] EXCEPT !.gone = TRUE]
<1>3. q \in Request /\ req' = [req EXCEPT ![r] = q] /\ q.pc = req[r].pc /\ Same(req[r], q)
  BY <1>2, RequestFacts DEF Request, Same
<1> HIDE DEF q
<1>4. Told(q, wire[r], events[r]) /\ Bounded(q)
  BY <1>3, RequestFacts DEF Same, Good, Told, Bounded
<1>5. Pinned(q) /\ (SSEAfterRetry => Heart(q, wire[r]))
  BY <1>3, RequestFacts DEF Same, Good, Pinned, Heart
<1>6. QED
  BY <1>1, <1>3, <1>4, <1>5, RequestFacts, RequestMovesQuietly DEF Prof, Same, Good

LEMMA EvictIInv ==
  ASSUME IInv, NEW k \in Keys, Evict(k)
  PROVE  IInv'
<1>1. UNCHANGED <<req, wire, events>> /\ cache' \in [Keys -> Providers \cup {None}]
  BY DEF Evict, IInv, TypeOK
<1>2. QED
  BY <1>1 DEF IInv, TypeOK, At, Prof

-----------------------------------------------------------------------------

LEMMA NextIInv == IInv /\ [Next]_vars => IInv'
<1> SUFFICES ASSUME IInv, [Next]_vars PROVE IInv'
  OBVIOUS
<1>1. CASE UNCHANGED vars
  BY <1>1 DEF vars, IInv, TypeOK, At, Prof
<1>2. ASSUME NEW r \in Requests, Arrive(r) \/ Step(r) \/ Disconnect(r)
      PROVE  IInv'
  BY <1>2, ArriveIInv, LookupIInv, HitIInv, CollectIInv, PlanIInv, NextCandidateIInv,
     BudgetSpentIInv, CapReachedIInv, AttemptIInv, CallIInv, JudgeIInv, SessionIInv,
     BackoffIInv, SettleIInv, NextModelIInv, NextFallbackIInv, FallbackCallIInv,
     FallbackDeliverIInv, DeliverIInv, StoreIInv, ReportIInv, GiveUpIInv, FailIInv,
     RefuseIInv, ReturnIInv, DisconnectIInv DEF Step
<1>3. ASSUME NEW k \in Keys, Evict(k)
      PROVE  IInv'
  BY <1>3, EvictIInv
<1>4. QED
  BY <1>1, <1>2, <1>3 DEF Next

(* The invariant of all requests, whatever the providers and the cache do.    *)
THEOREM RequestInvariance == Spec => []IInv
<1>1. Init => IInv
  BY InitIInv
<1>2. IInv /\ [Next]_vars => IInv'
  BY NextIInv
<1>3. QED
  BY <1>1, <1>2, PTL DEF Spec

(* Every variable has its type. *)
THEOREM RequestTypes == Spec => []TypeOK
<1>1. IInv => TypeOK
  BY DEF IInv
<1>2. QED
  BY <1>1, RequestInvariance, PTL

(* emitTelemetry: a request that was tried upstream does not end unreported. *)
THEOREM CallsReported == Spec => []CallsAreReported
<1>1. IInv => CallsAreReported
  BY DEF IInv, Good, Told, CallsAreReported, At
<1>2. QED
  BY <1>1, RequestInvariance, PTL

(* A diagnostic request makes one attempt, at the provider it names, and does *)
(* not touch the cache or the fallback models.                                *)
THEOREM DiagnosticsIsolated == Spec => []DiagnosticIsolated
<1>1. IInv => DiagnosticIsolated
  <2> SUFFICES ASSUME IInv, NEW r \in Requests, ~At(r, "new"), Diagnostic(Prof(r))
               PROVE  /\ req[r].attempts <= 1 /\ req[r].extra = 0
                      /\ req[r].provider \in {None, Prof(r).pinned}
                      /\ ~At(r, "hit") /\ ~At(r, "store")
    BY DEF DiagnosticIsolated
  <2>1. Pinned(req[r])
    BY RequestFacts DEF Good
  <2>2. QED
    BY <2>1 DEF Pinned, At, Prof
<1>2. QED
  BY <1>1, RequestInvariance, PTL

(* The heartbeat of a session writes only while the handler does not, when a  *)
(* retried stream that succeeds is answered with SSE.                         *)
THEOREM HeartbeatsOwned == Spec => [](SSEAfterRetry => HeartbeatOwned)
<1>1. IInv => (SSEAfterRetry => HeartbeatOwned)
  BY DEF IInv, Good, Heart, Beating, HeartbeatOwned
<1>2. QED
  BY <1>1, RequestInvariance, PTL

(* The three together: what holds of a request on every path through the      *)
(* handler's loop.                                                            *)
THEOREM PathsAreSound == Spec => []PathsSound
<1>1. QED
  BY CallsReported, DiagnosticsIsolated, HeartbeatsOwned, PTL DEF PathsSound

-----------------------------------------------------------------------------
(* The request keeps the promise: every step is one of RequestPromise's or    *)
(* leaves what it speaks of alone.                                            *)

Stages == [r \in Requests |-> Stage(r)]
Calls == [r \in Requests |-> req[r].attempts + req[r].extra]

(* A step of one request, seen through the promise. *)
LEMMA OneRequest ==
  ASSUME NEW r \in Requests, \A k \in Requests : k # r => req'[k] = req[k]
  PROVE  /\ Stages' = [Stages EXCEPT ![r] = Stage(r)']
         /\ Calls' = [Calls EXCEPT ![r] = req'[r].attempts + req'[r].extra]
  BY DEF Stages, Calls, Stage, At

LEMMA OnlyOneRequest ==
  ASSUME IInv, NEW r \in Requests, Arrive(r) \/ Step(r) \/ Disconnect(r)
  PROVE  \A k \in Requests : k # r => req'[k] = req[k]
<1>1. req \in [Requests -> Request]
  BY DEF IInv, TypeOK
<1>2. ASSUME NEW q, req' = [req EXCEPT ![r] = q]
      PROVE  \A k \in Requests : k # r => req'[k] = req[k]
  BY <1>1, <1>2
<1>3. QED
  BY <1>1, <1>2 DEF Arrive, Step, Disconnect, Goto, Lookup, Hit, Collect, Plan, NextCandidate,
     BudgetSpent, CapReached, Attempt, Call, Judge, Session, Backoff, Settle, NextModel,
     NextFallback, FallbackCall, FallbackDeliver, Deliver, Store, Report, GiveUp, Fail,
     Refuse, Return

(* Most steps say nothing to the client or to telemetry and call nobody. *)
Quiet(r) ==
  \/ Lookup(r) \/ Collect(r) \/ Plan(r) \/ NextCandidate(r) \/ BudgetSpent(r)
  \/ CapReached(r) \/ Call(r) \/ Judge(r) \/ Backoff(r) \/ Settle(r) \/ NextModel(r)
  \/ FallbackCall(r) \/ Store(r) \/ Disconnect(r)

LEMMA QuietSteps ==
  ASSUME IInv, NEW r \in Requests, Quiet(r)
  PROVE  /\ UNCHANGED <<wire, events>>
         /\ req'[r].attempts = req[r].attempts /\ req'[r].extra = req[r].extra
         /\ Stage(r)' = Stage(r)
<1>1. req \in [Requests -> Request] /\ req[r] \in Request
  BY DEF IInv, TypeOK
<1>2. UNCHANGED <<wire, events>>
  BY DEF Quiet, Lookup, Collect, Plan, NextCandidate, BudgetSpent, CapReached, Call, Judge,
     Backoff, Settle, NextModel, FallbackCall, Store, Disconnect
<1>3. /\ req'[r].attempts = req[r].attempts /\ req'[r].extra = req[r].extra
      /\ req[r].pc \notin {"new", "ended"} /\ req'[r].pc \notin {"new", "ended"}
  <2>1. CASE Lookup(r)
    BY <1>1, <2>1 DEF Lookup, Goto, At, Request
  <2>2. CASE Collect(r)
    BY <1>1, <2>2 DEF Collect, Goto, At, Request
  <2>3. CASE Plan(r)
    BY <1>1, <2>3 DEF Plan, Goto, At, Request
  <2>4. CASE NextCandidate(r)
    BY <1>1, <2>4 DEF NextCandidate, At, Request
  <2>5. CASE BudgetSpent(r)
    BY <1>1, <2>5 DEF BudgetSpent, At, Request
  <2>6. CASE CapReached(r)
    BY <1>1, <2>6 DEF CapReached, Goto, At, Request
  <2>7. CASE Call(r)
    BY <1>1, <2>7 DEF Call, At, Request
  <2>8. CASE Judge(r)
    BY <1>1, <2>8 DEF Judge, Goto, At, Request
  <2>9. CASE Backoff(r)
    BY <1>1, <2>9 DEF Backoff, At, Request
  <2>10. CASE Settle(r)
    <3>1. req[r].pc = "settle"
      BY <2>10 DEF Settle, At
    <3>2. ASSUME NEW models, req' = [req EXCEPT ![r].pc = "models", ![r].models = models]
          PROVE  /\ req'[r].attempts = req[r].attempts /\ req'[r].extra = req[r].extra
                 /\ req'[r].pc = "models"
      BY <1>1, <3>2 DEF Request
    <3>3. CASE Goto(r, "deliver") \/ Goto(r, "give up")
      BY <1>1, <3>1, <3>3 DEF Goto, Request
    <3>4. QED
      BY <2>10, <3>1, <3>2, <3>3 DEF Settle
  <2>11. CASE NextModel(r)
    <3>1. req[r].pc = "models"
      BY <2>11 DEF NextModel, At
    <3>2. CASE Goto(r, "give up")
      BY <1>1, <3>1, <3>2 DEF Goto, Request
    <3>3. ASSUME NEW order, req' = [req EXCEPT ![r].pc = "fallback", ![r].todo = order,
                                               ![r].models = Tail(@)]
          PROVE  /\ req'[r].attempts = req[r].attempts /\ req'[r].extra = req[r].extra
                 /\ req'[r].pc = "fallback"
      BY <1>1, <3>3 DEF Request
    <3>4. QED
      BY <2>11, <3>1, <3>2, <3>3 DEF NextModel
  <2>12. CASE FallbackCall(r)
    <3>1. req[r].pc = "fallback call"
      BY <2>12 DEF FallbackCall, At
    <3>2. CASE Goto(r, "fallback deliver")
      BY <1>1, <3>1, <3>2 DEF Goto, Request
    <3>3. CASE req' = [req EXCEPT ![r].pc = "fallback", ![r].todo = Tail(@)]
      BY <1>1, <3>1, <3>3 DEF Request
    <3>4. QED
      BY <2>12, <3>2, <3>3 DEF FallbackCall
  <2>13. CASE Store(r)
    BY <1>1, <2>13 DEF Store, Goto, At, Request
  <2>14. CASE Disconnect(r)
    BY <1>1, <2>14 DEF Disconnect, Request
  <2>15. QED
    BY <2>1, <2>2, <2>3, <2>4, <2>5, <2>6, <2>7, <2>8, <2>9, <2>10, <2>11, <2>12,
       <2>13, <2>14 DEF Quiet
<1>4. QED
  BY <1>2, <1>3 DEF Stage, At

(* The steps that the client, telemetry or upstream notices. *)
LEMMA LoudSteps ==
  ASSUME IInv, NEW r \in Requests
  PROVE  /\ Arrive(r) => Promise!Begin(r)
         /\ Session(r) => Promise!KeepAlive(r) \/ UNCHANGED Promise!vars
         /\ Attempt(r) => Promise!TryUpstream(r)
         /\ NextFallback(r) => Promise!TryUpstream(r) \/ UNCHANGED Promise!vars
         /\ Hit(r) \/ FallbackDeliver(r) \/ Deliver(r) \/ Fail(r) \/ Refuse(r) =>
              Promise!Answer(r)
         /\ Report(r) => Promise!Emit(r)
         /\ GiveUp(r) => Promise!Emit(r) \/ UNCHANGED Promise!vars
         /\ Return(r) => Promise!End(r)
<1> DEFINE p == req[r]
           q == req'[r]
<1>1. /\ req \in [Requests -> Request] /\ p \in Request
      /\ wire \in [Requests -> {"nothing", "header", "answer"}]
      /\ events \in [Requests -> Nat]
  BY DEF IInv, TypeOK
<1>2. Told(p, wire[r], events[r]) /\ Bounded(p)
  BY DEF IInv, Good
<1>3. ASSUME Arrive(r) \/ Step(r)
      PROVE  /\ Stages' = [Stages EXCEPT ![r] = Stage(r)']
             /\ Calls' = [Calls EXCEPT ![r] = q.attempts + q.extra]
  BY <1>3, OnlyOneRequest, OneRequest
<1>4. ASSUME q.attempts = p.attempts, q.extra = p.extra, Arrive(r) \/ Step(r)
      PROVE  Calls' = Calls
  BY <1>3, <1>4 DEF Calls
<1>5. ASSUME Stage(r)' = Stage(r), Arrive(r) \/ Step(r)
      PROVE  Stages' = Stages
  BY <1>3, <1>5 DEF Stages
<1>6. Stages[r] = Stage(r) /\ Calls[r] = p.attempts + p.extra
  BY DEF Stages, Calls
<1>7. /\ p.pc \notin {"new", "ended"} => Stage(r) = "open"
      /\ q.pc \notin {"new", "ended"} => Stage(r)' = "open"
  BY DEF Stage, At
<1>8. ASSUME Arrive(r) PROVE Promise!Begin(r)
  <2>1. /\ p.pc = "new" /\ q.pc \in {"lookup", "refuse"}
        /\ q.attempts = 0 /\ q.extra = 0 /\ UNCHANGED <<wire, events>>
    BY <1>1, <1>8 DEF Arrive, At, New
  <2>2. p.attempts = 0 /\ p.extra = 0
    BY <1>2, <2>1 DEF Told, Untried
  <2>3. Stage(r) = "new" /\ Stage(r)' = "open"
    BY <2>1 DEF Stage, At
  <2>4. QED
    BY <1>3, <1>4, <1>6, <1>8, <2>1, <2>2, <2>3 DEF Promise!Begin, Stages, Calls
<1>9. ASSUME Session(r) PROVE Promise!KeepAlive(r) \/ UNCHANGED Promise!vars
  <2>1. /\ p.pc = "session" /\ q.pc = "backoff" /\ q.attempts = p.attempts /\ q.extra = p.extra
        /\ wire' = [wire EXCEPT ![r] = "header"] /\ UNCHANGED events
    BY <1>1, <1>9 DEF Session, At, Request
  <2>2. Stage(r) = "open" /\ Stages' = Stages /\ Calls' = Calls
    BY <1>4, <1>5, <1>7, <1>9, <2>1 DEF Step
  <2>3. wire[r] \in {"nothing", "header"}
    BY <1>1, <1>2, <2>1 DEF Told, Answered
  <2>4. CASE wire[r] = "nothing"
    BY <1>6, <2>1, <2>2, <2>4 DEF Promise!KeepAlive, Stages, Calls
  <2>5. CASE wire[r] = "header"
    <3>1. wire' = wire
      BY <1>1, <2>1, <2>5
    <3>2. QED
      BY <2>1, <2>2, <3>1 DEF Promise!vars, Stages, Calls
  <2>6. QED
    BY <2>3, <2>4, <2>5
<1>10. p.attempts \in Nat /\ p.extra \in Nat /\ p.attempts <= HardRetryCap
       /\ p.extra <= MaxFallbackAttempts /\ HardRetryCap \in Nat /\ MaxFallbackAttempts \in Nat
  BY <1>1, <1>2, ExecutionAssumption DEF Bounded, Request
<1>11. ASSUME NEW step, Goto(r, step)
       PROVE  q.pc = step /\ q.attempts = p.attempts /\ q.extra = p.extra
  BY <1>1, <1>11 DEF Goto, Request
<1>12. ASSUME Attempt(r) PROVE Promise!TryUpstream(r)
  <2>1. /\ p.pc = "loop" /\ q.pc = "call" /\ q.attempts = p.attempts + 1
        /\ q.extra = p.extra /\ UNCHANGED <<wire, events>>
    BY <1>1, <1>12 DEF Attempt, At, Request
  <2>2. Stage(r) = "open" /\ Stages' = Stages
    BY <1>5, <1>7, <1>12, <2>1 DEF Step
  <2>3. p.attempts + 1 <= HardRetryCap
    BY <1>12, AttemptFacts DEF Attempt
  <2>4. Calls[r] < HardRetryCap + MaxFallbackAttempts
    BY <1>6, <1>10, <2>3
  <2>5. Calls' = [Calls EXCEPT ![r] = @ + 1]
    <3>1. q.attempts + q.extra = Calls[r] + 1
      BY <1>6, <1>10, <2>1
    <3>2. QED
      BY <1>3, <1>12, <3>1 DEF Step, Calls
  <2>6. wire[r] # "answer"
    BY <1>2, <2>1 DEF Told, Answered
  <2>7. QED
    BY <1>6, <2>1, <2>2, <2>4, <2>5, <2>6 DEF Promise!TryUpstream, Stages, Calls
<1>13. ASSUME NextFallback(r) PROVE Promise!TryUpstream(r) \/ UNCHANGED Promise!vars
  <2>1. p.pc = "fallback" /\ UNCHANGED <<wire, events>>
    BY <1>13 DEF NextFallback, At
  <2>2. CASE \E step \in {"models", "give up"} : Goto(r, step)
    <3>1. q.pc \in {"models", "give up"} /\ q.attempts = p.attempts /\ q.extra = p.extra
      BY <1>11, <2>2
    <3>2. Stages' = Stages /\ Calls' = Calls
      BY <1>4, <1>5, <1>7, <1>13, <2>1, <3>1 DEF Step
    <3>3. QED
      BY <2>1, <3>2 DEF Promise!vars, Stages, Calls
  <2>3. CASE /\ p.extra < MaxFallbackAttempts
             /\ \/ req' = [req EXCEPT ![r].extra = @ + 1, ![r].todo = Tail(@)]
                \/ req' = [req EXCEPT ![r].extra = @ + 1, ![r].pc = "fallback call"]
    <3>1. /\ q.pc \in {"fallback", "fallback call"} /\ q.attempts = p.attempts
          /\ q.extra = p.extra + 1
      <4>1. CASE req' = [req EXCEPT ![r].extra = @ + 1, ![r].todo = Tail(@)]
        BY <1>1, <2>1, <4>1 DEF Request
      <4>2. CASE req' = [req EXCEPT ![r].extra = @ + 1, ![r].pc = "fallback call"]
        BY <1>1, <2>1, <4>2 DEF Request
      <4>3. QED
        BY <2>3, <4>1, <4>2
    <3>2. Stage(r) = "open" /\ Stages' = Stages
      BY <1>5, <1>7, <1>13, <2>1, <3>1 DEF Step
    <3>3. Calls[r] < HardRetryCap + MaxFallbackAttempts
      <4>1. p.extra < MaxFallbackAttempts
        BY <2>3
      <4>2. QED
        BY <1>6, <1>10, <4>1
    <3>4. Calls' = [Calls EXCEPT ![r] = @ + 1]
      <4>1. q.attempts = p.attempts /\ q.extra = p.extra + 1
        BY <3>1
      <4>2. q.attempts + q.extra = Calls[r] + 1
        BY <1>6, <1>10, <4>1
      <4>3. QED
        BY <1>3, <1>13, <4>2 DEF Step, Calls
    <3>5. wire[r] # "answer"
      BY <1>2, <2>1 DEF Told, Answered
    <3>6. QED
      BY <1>6, <2>1, <3>2, <3>3, <3>4, <3>5 DEF Promise!TryUpstream, Stages, Calls
  <2>4. QED
    BY <1>13, <2>2, <2>3 DEF NextFallback
<1>14. ASSUME Hit(r) \/ FallbackDeliver(r) \/ Deliver(r) \/ Fail(r) \/ Refuse(r)
       PROVE  Promise!Answer(r)
  <2>1. /\ p.pc \in {"hit", "fallback deliver", "deliver", "fail", "refuse"}
        /\ wire' = [wire EXCEPT ![r] = "answer"] /\ UNCHANGED events
    BY <1>14 DEF Hit, FallbackDeliver, Deliver, Fail, Refuse, At
  <2>2. q.pc \in {"report", "store", "return"} /\ q.attempts = p.attempts /\ q.extra = p.extra
    <3>1. ASSUME NEW step, NEW heart, req' = [req EXCEPT ![r].pc = step, ![r].heart = heart]
          PROVE  q.pc = step /\ q.attempts = p.attempts /\ q.extra = p.extra
      BY <1>1, <3>1 DEF Request
    <3>2. CASE Deliver(r)
      <4> DEFINE step == IF p.last = "success" /\ UsesCache(Prof(r)) THEN "store" ELSE "report"
      <4>1. \E heart : req' = [req EXCEPT ![r].pc = step, ![r].heart = heart]
        BY <3>2 DEF Deliver
      <4>2. step \in {"store", "report"}
        OBVIOUS
      <4> HIDE DEF step
      <4>3. QED
        BY <3>1, <4>1, <4>2
    <3>3. CASE Fail(r)
      <4>1. \E heart : req' = [req EXCEPT ![r].pc = "return", ![r].heart = heart]
        BY <3>3 DEF Fail
      <4>2. QED
        BY <3>1, <4>1
    <3>4. CASE Hit(r) \/ FallbackDeliver(r) \/ Refuse(r)
      BY <1>11, <3>4 DEF Hit, FallbackDeliver, Refuse
    <3>5. QED
      BY <1>14, <3>2, <3>3, <3>4
  <2>3. Stage(r) = "open" /\ Stages' = Stages /\ Calls' = Calls
    BY <1>4, <1>5, <1>7, <1>14, <2>1, <2>2 DEF Step
  <2>4. wire[r] # "answer"
    BY <1>2, <2>1 DEF Told, Answered
  <2>5. QED
    BY <1>6, <2>1, <2>3, <2>4 DEF Promise!Answer, Stages, Calls
<1>15. ASSUME Report(r) \/ (GiveUp(r) /\ p.provider # None) PROVE Promise!Emit(r)
  <2>1. /\ p.pc \in {"report", "give up"} /\ UNCHANGED wire
        /\ events' = [events EXCEPT ![r] = @ + 1]
        /\ Goto(r, "return") \/ Goto(r, "fail")
    BY <1>15 DEF Report, GiveUp, At
  <2>2. q.pc \in {"return", "fail"} /\ q.attempts = p.attempts /\ q.extra = p.extra
    BY <1>11, <2>1
  <2>3. Stage(r) = "open" /\ Stages' = Stages /\ Calls' = Calls
    BY <1>4, <1>5, <1>7, <1>15, <2>1, <2>2 DEF Step
  <2>4. events[r] = 0
    BY <1>2, <2>1 DEF Told
  <2>5. events' = [events EXCEPT ![r] = 1]
    <3>1. events[r] + 1 = 1
      BY <2>4
    <3>2. QED
      BY <2>1, <3>1
  <2>6. QED
    BY <1>6, <2>1, <2>3, <2>4, <2>5 DEF Promise!Emit, Stages, Calls
<1>16. ASSUME GiveUp(r), p.provider = None PROVE UNCHANGED Promise!vars
  <2>1. /\ p.pc = "give up" /\ UNCHANGED <<wire, events>> /\ Goto(r, "refuse")
    BY <1>16 DEF GiveUp, At
  <2>2. q.pc = "refuse" /\ q.attempts = p.attempts /\ q.extra = p.extra
    BY <1>1, <2>1 DEF Goto, Request
  <2>3. Stages' = Stages /\ Calls' = Calls
    BY <1>4, <1>5, <1>7, <1>16, <2>1, <2>2 DEF Step
  <2>4. QED
    BY <2>1, <2>3 DEF Promise!vars, Stages, Calls
<1>17. ASSUME Return(r) PROVE Promise!End(r)
  <2>1. p.pc = "return" /\ UNCHANGED <<wire, events>> /\ Goto(r, "ended")
    BY <1>17 DEF Return, At
  <2>2. q.pc = "ended" /\ q.attempts = p.attempts /\ q.extra = p.extra
    BY <1>1, <2>1 DEF Goto, Request
  <2>3. Stage(r) = "open" /\ Stage(r)' = "ended"
    BY <2>1, <2>2 DEF Stage, At
  <2>4. Calls' = Calls /\ Stages' = [Stages EXCEPT ![r] = "ended"]
    BY <1>3, <1>4, <1>17, <2>2, <2>3 DEF Step
  <2>5. wire[r] = "answer"
    BY <1>2, <2>1 DEF Told, Answered
  <2>6. QED
    BY <1>6, <2>1, <2>3, <2>4, <2>5 DEF Promise!End, Stages, Calls
<1>18. QED
  BY <1>8, <1>9, <1>12, <1>13, <1>14, <1>15, <1>16, <1>17

(* handleChatOrMessages keeps the promise, for every policy, every order of   *)
(* the providers and every result of forwardToUpstream.                       *)
THEOREM RequestsKeepPromise == Spec => ImplementsPromise
<1>1. Init => Promise!Init
  <2> SUFFICES ASSUME Init PROVE Promise!Init
    OBVIOUS
  <2>1. \A r \in Requests : Stage(r) = "new" /\ req[r].attempts + req[r].extra = 0
    BY DEF Init, New, Stage, At
  <2>2. QED
    BY <2>1 DEF Init, Promise!Init
<1>2. IInv /\ [Next]_vars => [Promise!Next]_Promise!vars
  <2> SUFFICES ASSUME IInv, [Next]_vars PROVE [Promise!Next]_Promise!vars
    OBVIOUS
  <2>1. CASE UNCHANGED vars
    BY <2>1 DEF vars, Promise!vars, Stage, At
  <2>2. CASE \E k \in Keys : Evict(k)
    BY <2>2 DEF Evict, Promise!vars, Stage, At
  <2>3. ASSUME NEW r \in Requests, Quiet(r) PROVE UNCHANGED Promise!vars
    <3>1. Stages' = [Stages EXCEPT ![r] = Stage(r)]
      BY <2>3, OnlyOneRequest, OneRequest, QuietSteps DEF Quiet, Step
    <3>2. Calls' = [Calls EXCEPT ![r] = req[r].attempts + req[r].extra]
      BY <2>3, OnlyOneRequest, OneRequest, QuietSteps DEF Quiet, Step
    <3>3. Stages' = Stages /\ Calls' = Calls
      BY <3>1, <3>2 DEF Stages, Calls
    <3>4. QED
      BY <2>3, <3>3, QuietSteps DEF Promise!vars, Stages, Calls
  <2>4. ASSUME NEW r \in Requests, Arrive(r) \/ Step(r) \/ Disconnect(r)
        PROVE  [Promise!Next]_Promise!vars
    BY <2>3, <2>4, LoudSteps DEF Step, Quiet, Promise!Next
  <2>5. QED
    BY <2>1, <2>2, <2>4 DEF Next
<1>3. QED
  BY <1>1, <1>2, RequestInvariance, PTL DEF Spec, ImplementsPromise, Promise!Spec

(***************************************************************************)
(* The bridges of a provider's stream.  What they need of numbers first,    *)
(* then of joining and flattening sequences.                               *)
(***************************************************************************)

LEMMA LeastNumber ==
  ASSUME NEW S, S \subseteq Nat, S # {}
  PROVE  \E n \in S : \A m \in S : n <= m
<1> DEFINE N == Nat
           R == OpToRel(<, Nat)
<1>0. \A m, n \in Nat : <<m, n>> \in R <=> m < n
  BY Zenon DEF OpToRel
<1>1. S \subseteq N /\ IsWellFoundedOn(R, N)
  BY NatLessThanWellFounded, Zenon
<1> HIDE DEF N, R
<1>2. \E n \in S : \A m \in S : ~ (<<m, n>> \in R)
  BY ONLY <1>1, S # {}, WFMin, SMT
<1>3. PICK n \in S : \A m \in S : ~ (<<m, n>> \in R)
  BY <1>2, Zenon
<1>4. n \in Nat
  BY Zenon
<1>5. ASSUME NEW m \in S
      PROVE  n <= m
  <2>1. m \in Nat /\ ~(m < n)
    BY <1>0, <1>3, <1>4, Zenon
  <2>2. QED
    BY ONLY <1>4, <2>1, SMT
<1>6. QED
  BY <1>5, Zenon

(* Induction up to a bound, for a set of numbers: the first one missing     *)
(* would have one before it that is not.                                    *)
LEMMA Induction ==
  ASSUME NEW N \in Nat, NEW T, 0 \in T, \A n \in 1..N : n - 1 \in T => n \in T
  PROVE  \A n \in 0..N : n \in T
<1> DEFINE S == {n \in 0..N : n \notin T}
<1>1. SUFFICES ASSUME S # {} PROVE FALSE
  OBVIOUS
<1>2. S \subseteq Nat
  OBVIOUS
<1> HIDE DEF S
<1>3. PICK n \in S : \A m \in S : n <= m
  BY <1>1, <1>2, LeastNumber
<1> USE DEF S
<1>4. n \in 1..N /\ n - 1 \in 0..N /\ ~(n <= n - 1)
  OBVIOUS
<1>5. n - 1 \notin S
  BY <1>3, <1>4
<1>6. QED
  BY <1>4, <1>5

(* A set of numbers with a bound has a largest one.                         *)
LEMMA LargestNumber ==
  ASSUME NEW S, S # {}, NEW N \in Nat, S \subseteq 0..N
  PROVE  \E n \in S : \A m \in S : n >= m
<1> DEFINE U == {u \in Nat : \A m \in S : m <= u}
<1>1. U \subseteq Nat /\ U # {}
  <2>1. N \in U
    OBVIOUS
  <2>2. QED
    BY <2>1
<1> HIDE DEF U
<1>2. PICK u \in U : \A v \in U : u <= v
  BY <1>1, LeastNumber
<1> USE DEF U
<1>3. u \in S
  <2>1. SUFFICES ASSUME u \notin S PROVE FALSE
    OBVIOUS
  <2>2. PICK m \in S : TRUE
    OBVIOUS
  <2>3. u \in Nat /\ u - 1 \in Nat /\ \A l \in S : l <= u - 1
    BY <2>1, <2>2
  <2>4. u - 1 \in U
    BY <2>3
  <2>5. QED
    BY <1>2, <2>3, <2>4
<1>4. QED
  BY <1>3

(* A recursion over 1..N with its values in S is one some function solves.  *)
Solvable(S, N, base, step) ==
  \E f \in [0..N -> S] : f[0] = base /\ \A n \in 1..N : f[n] = step[<<f[n - 1], n>>]

LEMMA Recursion ==
  ASSUME NEW S, NEW N \in Nat, NEW base \in S, NEW step \in [S \X (1..N) -> S]
  PROVE  Solvable(S, N, base, step)
<1> DEFINE Solves(f, m) == f[0] = base /\ \A n \in 1..m : f[n] = step[<<f[n - 1], n>>]
           T == {m \in 0..N : \E f \in [0..m -> S] : Solves(f, m)}
<1>1. 0 \in T
  <2> DEFINE f == [n \in 0..0 |-> base]
  <2>1. f \in [0..0 -> S] /\ Solves(f, 0)
    OBVIOUS
  <2> HIDE DEF f
  <2>2. QED
    BY <2>1
<1>2. ASSUME NEW n \in 1..N, n - 1 \in T
      PROVE  n \in T
  <2>1. PICK f \in [0..(n - 1) -> S] : Solves(f, n - 1)
    BY <1>2
  <2> DEFINE last == step[<<f[n - 1], n>>]
             g == [m \in 0..n |-> IF m = n THEN last ELSE f[m]]
  <2>2. last \in S
    <3>1. f[n - 1] \in S
      OBVIOUS
    <3>2. QED
      BY <3>1
  <2> HIDE DEF last
  <2>3. g \in [0..n -> S]
    BY <2>2
  <2>4. g[0] = base
    BY <2>1
  <2>5. ASSUME NEW m \in 1..n
        PROVE  g[m] = step[<<g[m - 1], m>>]
    <3>1. CASE m = n
      <4>1. g[m] = last /\ g[m - 1] = f[n - 1]
        BY <3>1
      <4>2. QED
        BY <3>1, <4>1 DEF last
    <3>2. CASE m # n
      <4>1. m \in 1..(n - 1) /\ g[m] = f[m] /\ g[m - 1] = f[m - 1]
        BY <3>2
      <4>2. QED
        BY <2>1, <4>1
    <3>3. QED
      BY <3>1, <3>2
  <2> HIDE DEF g
  <2>6. QED
    BY <2>3, <2>4, <2>5
<1> HIDE DEF T
<1>3. \A n \in 0..N : n \in T
  BY ONLY N \in Nat, <1>1, <1>2, Induction, Zenon
<1>4. N \in T
  BY <1>3
<1>5. QED
  BY <1>4 DEF T, Solvable



(***************************************************************************)
(* FlattenSeq, of the community modules, is the last value of a recursion. *)
(***************************************************************************)

LEMMA ConcatEmpty ==
  ASSUME NEW S, NEW a \in Seq(S)
  PROVE  <<>> \o a = a /\ a \o <<>> = a
OBVIOUS

LEMMA ConcatIs ==
  ASSUME NEW S, NEW a \in Seq(S), NEW b \in Seq(S)
  PROVE  a \o b = [i \in 1..Len(a) + Len(b) |-> IF i <= Len(a) THEN a[i] ELSE b[i - Len(a)]]
<1> DEFINE l == a \o b
           m == Len(a)
           n == Len(b)
           r == [i \in 1..m + n |-> IF i <= m THEN a[i] ELSE b[i - m]]
<1>1. m \in Nat /\ n \in Nat /\ l \in Seq(S) /\ Len(l) = m + n
  OBVIOUS
<1>2. ASSUME NEW i \in 1..m + n
      PROVE  l[i] = IF i <= m THEN a[i] ELSE b[i - m]
  <2>1. CASE i <= m
    BY <2>1
  <2>2. CASE ~(i <= m)
    BY <2>2
  <2>3. QED
    BY <2>1, <2>2
<1> HIDE DEF l, m, n
<1>3. l = [i \in 1..m + n |-> l[i]]
  <2>1. l \in [1..m + n -> S]
    BY <1>1
  <2>2. QED
    BY <2>1
<1>4. l = r
  BY <1>2, <1>3
<1>5. QED
  BY <1>4 DEF l, m, n

Associates(a, b, c) == (a \o b) \o c = a \o (b \o c)
LEMMA ConcatThree ==
  ASSUME NEW S, NEW a \in Seq(S), NEW b \in Seq(S), NEW c \in Seq(S)
  PROVE  Associates(a, b, c)
<1> DEFINE l == (a \o b) \o c
           r == a \o (b \o c)
<1>1. Len(l) = Len(a) + Len(b) + Len(c) /\ Len(r) = Len(a) + Len(b) + Len(c) /\ l \in Seq(S) /\ r \in Seq(S)
  OBVIOUS
<1>2. ASSUME NEW i \in 1..Len(a) + Len(b) + Len(c)
      PROVE  l[i] = r[i]
  <2>1. CASE i <= Len(a)
    BY <2>1
  <2>2. CASE i > Len(a) /\ i <= Len(a) + Len(b)
    BY <2>2
  <2>3. CASE i > Len(a) + Len(b)
    BY <2>3
  <2>4. QED
    BY <2>1, <2>2, <2>3
<1> HIDE DEF l, r
<1>3. l = r
  BY <1>1, <1>2
<1>4. QED
  BY <1>3 DEF l, r, Associates

FlatSteps(p, f, N) == \A n \in 1..N : f[n] = f[n - 1] \o p[n]
FlatRun(p, f) == f[0] = <<>> /\ FlatSteps(p, f, Len(p))

(* Two runs that make the same steps are the same.                          *)
LEMMA FlatRunsAgree ==
  ASSUME NEW N \in Nat, NEW f, NEW g, NEW p, f[0] = g[0], FlatSteps(p, f, N), FlatSteps(p, g, N)
  PROVE  f[N] = g[N]
<1> DEFINE T == {n \in 0..N : f[n] = g[n]}
<1>1. 0 \in T
  OBVIOUS
<1>2. ASSUME NEW n \in 1..N, n - 1 \in T
      PROVE  n \in T
  <2>1. f[n - 1] = g[n - 1] /\ n \in 0..N
    BY <1>2
  <2>2. f[n] = f[n - 1] \o p[n] /\ g[n] = g[n - 1] \o p[n]
    BY DEF FlatSteps
  <2>3. QED
    BY <2>1, <2>2
<1> HIDE DEF T
<1>3. \A n \in 0..N : n \in T
  BY ONLY N \in Nat, <1>1, <1>2, Induction, Zenon
<1>4. N \in T
  BY <1>3
<1>5. QED
  BY <1>4 DEF T

LEMMA FlattenRuns ==
  ASSUME NEW S, NEW p \in Seq(Seq(S))
  PROVE  \E f \in [0..Len(p) -> Seq(S)] : FlatRun(p, f) /\ FlattenSeq(p) = f[Len(p)]
<1> DEFINE N == Len(p)
           Q == Seq(S)
           step == [a \in Q \X (1..N) |-> a[1] \o p[a[2]]]
<1>1. N \in Nat /\ <<>> \in Q /\ \A n \in 1..N : p[n] \in Q
  OBVIOUS
<1>2. \A a, b \in Q : a \o b \in Q
  OBVIOUS
<1> HIDE DEF Q, N
<1>3. step \in [Q \X (1..N) -> Q] /\ \A a \in Q, n \in 1..N : step[<<a, n>>] = a \o p[n]
  BY <1>1, <1>2
<1> HIDE DEF step
<1>4. PICK f \in [0..N -> Q] : f[0] = <<>> /\ \A n \in 1..N : f[n] = step[<<f[n - 1], n>>]
  <2> DEFINE base == <<>>
  <2>1. base \in Q
    BY <1>1
  <2> HIDE DEF base
  <2>2. Solvable(Q, N, base, step)
    BY ONLY <1>1, <1>3, <2>1, Recursion
  <2>3. QED
    BY ONLY <2>2, Zenon DEF base, Solvable
<1>5. ASSUME NEW n \in 1..N
      PROVE  n - 1 \in 0..N /\ f[n - 1] \in Q /\ f[n] = f[n - 1] \o p[n] /\ p[n] \in Q
  <2>1. n - 1 \in 0..N
    BY <1>1
  <2>2. QED
    BY <1>1, <1>3, <1>4, <2>1
<1>6. FlatRun(p, f)
  BY <1>4, <1>5 DEF FlatRun, FlatSteps, N
<1>7. CASE N = 0
  <2>1. FlattenSeq(p) = <<>>
    BY <1>7 DEF FlattenSeq, N
  <2>2. QED
    BY <1>4, <1>6, <1>7, <2>1 DEF N, Q
<1>8. CASE N # 0
  <2> DEFINE Solves(h) == h = [i \in 1..N |-> IF i = 1 THEN p[i] ELSE h[i - 1] \o p[i]]
             flat == CHOOSE h : Solves(h)
             g == [i \in 1..N |-> f[i]]
  <2>1. FlattenSeq(p) = flat[N]
    BY <1>8 DEF FlattenSeq, N
  <2>2. Solves(g)
    <3>1. ASSUME NEW i \in 1..N
          PROVE  g[i] = IF i = 1 THEN p[i] ELSE g[i - 1] \o p[i]
      <4>1. CASE i = 1
        <5>0. 1 - 1 = 0 /\ 1 \in 1..N
          BY <4>1
        <5>1. f[1] = f[0] \o p[1] /\ f[0] = <<>> /\ p[1] \in Q
          BY <1>4, <1>5, <5>0
        <5>2. f[1] = p[1]
          BY <5>1, ConcatEmpty DEF Q
        <5>3. QED
          BY <4>1, <5>2
      <4>2. CASE i # 1
        <5>1. i - 1 \in 1..N
          BY <1>1, <4>2
        <5>2. QED
          BY <1>5, <4>2, <5>1
      <4>3. QED
        BY <4>1, <4>2
    <3>2. QED
      BY <3>1
  <2> HIDE DEF Solves, g
  <2>3. Solves(flat)
    BY <2>2
  <2> HIDE DEF flat
  <2> DEFINE h == [i \in 0..N |-> IF i = 0 THEN <<>> ELSE flat[i]]
  <2>4. h[0] = f[0]
    BY <1>1, <1>4
  <2>5. ASSUME NEW n \in 1..N
        PROVE  h[n] = h[n - 1] \o p[n] /\ f[n] = f[n - 1] \o p[n]
    <3>1. flat[n] = IF n = 1 THEN p[n] ELSE flat[n - 1] \o p[n]
      BY <2>3 DEF Solves
    <3>2. h[n] = flat[n]
      BY <1>1
    <3>3. CASE n = 1
      <4>1. h[n - 1] = <<>> /\ p[n] \in Seq(S)
        BY <1>5, <1>1, <3>3 DEF Q
      <4>2. <<>> \o p[n] = p[n]
        BY <4>1, ConcatEmpty
      <4>3. QED
        BY <1>5, <3>1, <3>2, <3>3, <4>1, <4>2
    <3>4. CASE n # 1
      <4>1. n - 1 \in 1..N /\ n - 1 # 0 /\ n - 1 \in 0..N
        BY <1>1, <3>4
      <4>2. h[n - 1] = flat[n - 1]
        BY <4>1
      <4>3. QED
        BY <1>5, <3>1, <3>2, <3>4, <4>2
    <3>5. QED
      BY <3>3, <3>4
  <2> HIDE DEF h
  <2>6. h[N] = f[N]
    <3>1. FlatSteps(p, h, N) /\ FlatSteps(p, f, N)
      BY <2>5 DEF FlatSteps
    <3>2. QED
      BY ONLY <1>1, <2>4, <3>1, FlatRunsAgree, Zenon
  <2>7. h[N] = flat[N]
    BY <1>1, <1>8 DEF h
  <2>8. QED
    BY <1>6, <2>1, <2>6, <2>7 DEF N, Q
<1>9. QED
  BY <1>7, <1>8

LEMMA FlattenType ==
  ASSUME NEW S, NEW p \in Seq(Seq(S))
  PROVE  FlattenSeq(p) \in Seq(S)
<1>1. PICK f \in [0..Len(p) -> Seq(S)] : FlattenSeq(p) = f[Len(p)]
  BY FlattenRuns, Zenon
<1>2. Len(p) \in 0..Len(p)
  OBVIOUS
<1>3. QED
  BY <1>1, <1>2

LEMMA FlattenConcat ==
  ASSUME NEW S, NEW p \in Seq(Seq(S)), NEW q \in Seq(Seq(S))
  PROVE  FlattenSeq(p \o q) = FlattenSeq(p) \o FlattenSeq(q)
<1> DEFINE N == Len(p)
           M == Len(q)
           r == p \o q
<1>1. /\ N \in Nat /\ M \in Nat /\ r \in Seq(Seq(S)) /\ Len(r) = N + M
      /\ \A n \in 1..N : r[n] = p[n]
      /\ \A n \in 1..M : r[N + n] = q[n] /\ q[n] \in Seq(S)
  OBVIOUS
<1>2. PICK f \in [0..N -> Seq(S)] : FlatRun(p, f) /\ FlattenSeq(p) = f[N]
  BY FlattenRuns, Zenon
<1>3. PICK g \in [0..M -> Seq(S)] : FlatRun(q, g) /\ FlattenSeq(q) = g[M]
  BY FlattenRuns, Zenon
<1>4. PICK h \in [0..Len(r) -> Seq(S)] : FlatRun(r, h) /\ FlattenSeq(r) = h[Len(r)]
  BY <1>1, FlattenRuns, Zenon
<1> HIDE DEF r
<1>5. h[N] = f[N]
  <2>1. h[0] = f[0]
    BY <1>2, <1>4 DEF FlatRun
  <2>2. ASSUME NEW n \in 1..N
        PROVE  h[n] = h[n - 1] \o p[n] /\ f[n] = f[n - 1] \o p[n]
    <3>1. n \in 1..Len(r)
      BY <1>1
    <3>2. QED
      BY <1>1, <1>2, <1>4, <3>1 DEF FlatRun, FlatSteps
  <2>3. N \in Nat /\ FlatSteps(p, h, N) /\ FlatSteps(p, f, N)
    BY <1>1, <2>2 DEF FlatSteps
  <2> HIDE DEF N
  <2>4. QED
    BY ONLY <2>1, <2>3, FlatRunsAgree, Zenon
<1> DEFINE T == {n \in 0..M : h[N + n] = h[N] \o g[n]}
<1>6. 0 \in T
  <2>1. g[0] = <<>> /\ h[N] \in Seq(S) /\ N + 0 = N
    BY <1>1, <1>3, <1>4 DEF FlatRun
  <2>2. h[N] \o g[0] = h[N]
    BY <2>1
  <2>3. QED
    BY <1>1, <2>1, <2>2
<1>7. ASSUME NEW n \in 1..M, n - 1 \in T
      PROVE  n \in T
  <2>1. N + n \in 1..Len(r) /\ (N + n) - 1 = N + (n - 1) /\ n - 1 \in 0..M /\ N \in 0..Len(r)
    BY <1>1
  <2>2. h[N + n] = h[N + (n - 1)] \o r[N + n]
    BY <1>4, <2>1 DEF FlatRun, FlatSteps
  <2>3. g[n] = g[n - 1] \o q[n]
    BY <1>3 DEF FlatRun, FlatSteps
  <2>4. h[N] \in Seq(S) /\ g[n - 1] \in Seq(S) /\ q[n] \in Seq(S)
    BY <1>1, <1>3, <1>4, <2>1
  <2>5. (h[N] \o g[n - 1]) \o q[n] = h[N] \o (g[n - 1] \o q[n])
    <3> DEFINE a == h[N]
               b == g[n - 1]
               c == q[n]
    <3>1. a \in Seq(S) /\ b \in Seq(S) /\ c \in Seq(S)
      BY <2>4
    <3> HIDE DEF a, b, c
    <3>2. Associates(a, b, c)
      BY ONLY <3>1, ConcatThree, Zenon
    <3>3. QED
      BY <3>2 DEF a, b, c, Associates
  <2>6. h[N + (n - 1)] = h[N] \o g[n - 1]
    BY <1>7
  <2>7. r[N + n] = q[n] /\ n \in 0..M
    <3> HIDE DEF N, M, r
    <3>1. r[N + n] = q[n]
      BY ONLY <1>1, n \in 1..M, Zenon
    <3>2. n \in 0..M
      BY ONLY <1>1, n \in 1..M, SMT
    <3>3. QED
      BY <3>1, <3>2
  <2>8. QED
    BY <2>2, <2>3, <2>5, <2>6, <2>7
<1> HIDE DEF T
<1>8. \A n \in 0..M : n \in T
  BY ONLY <1>1, <1>6, <1>7, Induction, Zenon
<1>9. M \in T
  BY <1>1, <1>8
<1>10. QED
  BY <1>1, <1>2, <1>3, <1>4, <1>5, <1>9 DEF T, r

(* Of parts of which one at most is not empty, that one is left.            *)
LEMMA FlattenOne ==
  ASSUME NEW S, NEW p \in Seq(Seq(S)), NEW k \in 1..Len(p), \A n \in 1..Len(p) : n # k => p[n] = <<>>
  PROVE  FlattenSeq(p) = p[k]
<1> DEFINE N == Len(p)
<1>1. N \in Nat /\ p[k] \in Seq(S)
  OBVIOUS
<1>2. PICK f \in [0..N -> Seq(S)] : FlatRun(p, f) /\ FlattenSeq(p) = f[N]
  BY FlattenRuns, Zenon
<1> HIDE DEF N
<1> DEFINE T == {n \in 0..N : f[n] = IF n < k THEN <<>> ELSE p[k]}
<1>3. 0 \in T
  BY <1>1, <1>2 DEF FlatRun, N
<1>4. ASSUME NEW n \in 1..N, n - 1 \in T
      PROVE  n \in T
  <2>1. f[n] = f[n - 1] \o p[n] /\ n - 1 \in 0..N /\ n \in 0..N
    <3>1. n - 1 \in 0..N /\ n \in 0..N
      BY <1>1
    <3>2. QED
      BY <1>2, <3>1 DEF FlatRun, FlatSteps, N
  <2>2. f[n - 1] = IF n - 1 < k THEN <<>> ELSE p[k]
    BY <1>4
  <2>3. CASE n < k
    <3>1. p[n] = <<>> /\ n - 1 < k
      BY <2>3 DEF N
    <3>2. f[n] = <<>> \o <<>>
      BY <2>1, <2>2, <3>1
    <3>3. QED
      BY <2>1, <2>3, <3>2
  <2>4. CASE n = k
    <3>1. n - 1 < k /\ ~(n < k)
      BY <2>4
    <3>2. f[n] = <<>> \o p[k]
      BY <2>1, <2>2, <2>4, <3>1
    <3>3. QED
      BY <1>1, <2>1, <3>1, <3>2
  <2>5. CASE n > k
    <3>1. p[n] = <<>> /\ ~(n - 1 < k) /\ ~(n < k)
      BY <2>5 DEF N
    <3>2. f[n] = p[k] \o <<>>
      BY <2>1, <2>2, <3>1
    <3>3. QED
      BY <1>1, <2>1, <3>1, <3>2
  <2>6. QED
    BY <2>3, <2>4, <2>5 DEF N
<1> HIDE DEF T
<1>5. \A n \in 0..N : n \in T
  BY ONLY <1>1, <1>3, <1>4, Induction, Zenon
<1>6. N \in T
  BY <1>1, <1>5
<1>7. ~(N < k)
  BY <1>1 DEF N
<1>8. QED
  BY <1>2, <1>6, <1>7 DEF T

LEMMA FlattenNone ==
  ASSUME NEW S, NEW p \in Seq(Seq(S)), \A n \in 1..Len(p) : p[n] = <<>>
  PROVE  FlattenSeq(p) = <<>>
<1>1. CASE Len(p) = 0
  BY <1>1 DEF FlattenSeq
<1>2. CASE Len(p) # 0
  <2>1. 1 \in 1..Len(p)
    BY <1>2
  <2>2. QED
    BY <2>1, FlattenOne
<1>3. QED
  BY <1>1, <1>2

(* InOrder is a finite set of numbers, each once, as a sequence.             *)
LEMMA OrderedOnce ==
  ASSUME NEW S, S \subseteq Nat, IsFiniteSet(S)
  PROVE  /\ InOrder(S) \in Seq(S)
         /\ \A i \in S : \E n \in 1..Len(InOrder(S)) :
              InOrder(S)[n] = i /\ \A m \in 1..Len(InOrder(S)) : InOrder(S)[m] = i => m = n
<1> DEFINE C == Cardinality(S)
           Below(i) == {j \in S : j < i}
           rank == [i \in S |-> Cardinality(Below(i)) + 1]
           order == InOrder(S)
<1>1. C \in Nat
  BY FS_CardinalityType
<1>2. ASSUME NEW i \in S
      PROVE  IsFiniteSet(Below(i)) /\ Cardinality(Below(i)) \in Nat
  BY FS_Subset, FS_CardinalityType
<1>3. ASSUME NEW i \in S, NEW j \in S, i < j
      PROVE  Cardinality(Below(i)) < Cardinality(Below(j))
  <2>1. Below(i) \subseteq Below(j) /\ i \in Below(j) /\ i \notin Below(i)
    <3>1. i \in Nat /\ j \in Nat /\ \A k \in S : k \in Nat
      OBVIOUS
    <3>2. ASSUME NEW k \in S, k < i
          PROVE  k < j
      BY <1>3, <3>1, <3>2
    <3>3. Below(i) \subseteq Below(j)
      BY <3>2
    <3>4. i \in Below(j)
      BY <1>3
    <3>5. i \notin Below(i)
      BY <3>1
    <3>6. QED
      BY <3>3, <3>4, <3>5
  <2> HIDE DEF Below
  <2>2. Cardinality(Below(i)) <= Cardinality(Below(j)) /\ Cardinality(Below(i)) # Cardinality(Below(j))
    BY <1>2, <2>1, FS_Subset
  <2>3. QED
    BY <1>2, <2>2
<1>4. ASSUME NEW i \in S
      PROVE  rank[i] \in 1..C
  <2>1. Below(i) \in SUBSET S /\ i \notin Below(i)
    OBVIOUS
  <2> HIDE DEF Below
  <2>2. Cardinality(Below(i)) <= C /\ (C = Cardinality(Below(i)) => S = Below(i))
    BY <2>1, FS_Subset
  <2>3. Cardinality(Below(i)) < C
    BY <1>1, <1>2, <2>1, <2>2
  <2>4. QED
    BY <1>1, <1>2, <2>3
<1>5. rank \in Injection(S, 1..C)
  <2>1. rank \in [S -> 1..C]
    BY <1>4
  <2>2. ASSUME NEW i \in S, NEW j \in S, rank[i] = rank[j]
        PROVE  i = j
    <3>1. i \in Nat /\ j \in Nat /\ Cardinality(Below(i)) \in Nat /\ Cardinality(Below(j)) \in Nat
      BY <1>2
    <3>2. Cardinality(Below(i)) = Cardinality(Below(j))
      <4> HIDE DEF Below
      <4>1. Cardinality(Below(i)) + 1 = Cardinality(Below(j)) + 1
        BY <2>2
      <4>2. QED
        BY <3>1, <4>1
    <3> HIDE DEF Below
    <3>3. ~(i < j) /\ ~(j < i)
      BY <1>3, <3>1, <3>2
    <3>4. QED
      BY <3>1, <3>3
  <2> HIDE DEF rank
  <2>3. QED
    BY <2>1, <2>2 DEF Injection, IsInjective
<1>6. rank \in Surjection(S, 1..C)
  <2>1. IsFiniteSet(1..C) /\ Cardinality(1..C) = C
    <3>1. IsFiniteSet(1..C) /\ Cardinality(1..C) = IF 1 > C THEN 0 ELSE C - 1 + 1
      BY <1>1, FS_Interval
    <3>2. QED
      BY <1>1, <3>1
  <2> HIDE DEF rank
  <2>2. QED
    BY <1>5, <2>1, FS_Injection
<1>7. ASSUME NEW n \in 1..C
      PROVE  order[n] \in S /\ rank[order[n]] = n
  <2>1. PICK i \in S : rank[i] = n
    BY <1>6 DEF Surjection
  <2>2. Cardinality(Below(i)) = n - 1
    <3>1. Cardinality(Below(i)) \in Nat
      BY <1>2
    <3> HIDE DEF Below
    <3>2. Cardinality(Below(i)) + 1 = n
      BY <2>1
    <3>3. QED
      BY <3>1, <3>2
  <2>3. order[n] = CHOOSE j \in S : Cardinality(Below(j)) = n - 1
    BY DEF InOrder
  <2> HIDE DEF Below, order
  <2>4. order[n] \in S /\ Cardinality(Below(order[n])) = n - 1
    BY <2>2, <2>3
  <2>5. QED
    BY <2>4
<1>8. order = [n \in 1..C |-> order[n]] /\ DOMAIN order = 1..C
  <2>1. order = [n \in 1..C |-> CHOOSE i \in S : Cardinality(Below(i)) = n - 1]
    BY DEF InOrder
  <2> HIDE DEF order, Below, C
  <2>2. DOMAIN order = 1..C
    BY <2>1
  <2>3. QED
    BY <2>1, <2>2
<1>9. order \in Seq(S) /\ Len(order) = C
  <2>1. \A n \in 1..C : order[n] \in S
    BY <1>7
  <2> HIDE DEF order, C
  <2>2. order \in [1..C -> S]
    BY <1>8, <2>1
  <2>3. QED
    BY <1>1, <2>2
<1>10. ASSUME NEW i \in S
       PROVE  \E n \in 1..Len(order) : order[n] = i /\ \A m \in 1..Len(order) : order[m] = i => m = n
  <2>1. rank[i] \in 1..C
    BY <1>4
  <2>2. order[rank[i]] = i
    <3>1. order[rank[i]] \in S /\ rank[order[rank[i]]] = rank[i]
      BY <1>7, <2>1
    <3> HIDE DEF rank, order
    <3>2. QED
      BY <1>5, <3>1 DEF Injection, IsInjective
  <2>3. ASSUME NEW m \in 1..C, order[m] = i
        PROVE  m = rank[i]
    BY <1>7, <2>3
  <2> HIDE DEF rank, order
  <2>4. QED
    BY <1>9, <2>1, <2>2, <2>3
<1>11. QED
  BY <1>9, <1>10

(***************************************************************************)
(* What a bridge writes, mark by mark.                                     *)
(***************************************************************************)

EndReasons == Reasons \cup {"max_tokens", "tool_use", "end_turn", "completed"}
Mark ==
  [out : {"start", "error", "stop"}]
    \cup [out : {"open"}, item : Items, place : Nat]
    \cup [out : {"delta"}, item : Items, piece : Nat]
    \cup [out : {"whole"}, item : Items, pieces : Seq(Nat)]
    \cup [out : {"close"}, items : SUBSET Items]
    \cup [out : {"usage"}, usage : Nat]
    \cup [out : {"end"}, reason : EndReasons]
    \cup [out : {"end"}, reason : EndReasons, usage : Nat]
    \cup [out : {"end"}, reason : EndReasons, usage : Nat, items : SUBSET Items, content : [Items -> Seq(Nat)]]

Marks(W, k) == {i \in DOMAIN W : W[i].out = k}
Said(W, k) == {W[i] : i \in Marks(W, k)}
Content(W) == Marks(W, "open") \cup Marks(W, "delta") \cup Marks(W, "whole")
Filling(W) == Marks(W, "delta") \cup Marks(W, "whole")

(* The parts of StreamSound, of any sequence of marks.                      *)
Announced(W) == \A i \in Content(W) : \E j \in Marks(W, "start") : j < i
NotClosed(W) == \A i \in Content(W) : \A j \in Marks(W, "close") : j < i => W[i].item \notin W[j].items
Within(b, W) ==
  \A i \in Filling(W) : \/ \E j \in Marks(W, "open") : j < i /\ W[j].item = W[i].item
                        \/ b = "openai" /\ W[i].item = Text
TextLate(W) == \E i, j \in Marks(W, "open") : i < j /\ W[j].item = Text
Distinct(b, W) ==
  \A i, j \in Marks(W, "open") :
    i < j => /\ W[i].item # W[j].item
             /\ W[i].place # W[j].place \/ (b = "responses" /\ TextLate(W))
StopsLast(W) == \A i \in Marks(W, "stop") : i = Len(W)

Sound(b, W) == Announced(W) /\ NotClosed(W) /\ Within(b, W) /\ Distinct(b, W) /\ StopsLast(W)

LEMMA SoundIs == Sound(bridge, written) <=> StreamSound
BY DEF Sound, StreamSound, Announced, NotClosed, Within, Distinct, StopsLast, Content, Filling, Marks, Wrote,
       TextLate, TextAfterTool

(* What may be written after W.                                             *)
Follows(b, W, D) ==
  /\ Said(W, "stop") = {} /\ StopsLast(D)
  /\ \A n \in Content(D) : /\ Said(W, "start") # {}
                           /\ \A m \in Said(W, "close") : D[n].item \notin m.items
                           /\ Marks(D, "close") = {}
  /\ \A n \in Filling(D) : \/ \E m \in Said(W, "open") : m.item = D[n].item
                           \/ b = "openai" /\ D[n].item = Text
  /\ \A n \in Marks(D, "open") :
       /\ Len(D) = 1
       /\ \A m \in Said(W, "open") :
            /\ m.item # D[n].item
            /\ m.place # D[n].place \/ (b = "responses" /\ (D[n].item = Text \/ TextLate(W)))

LEMMA Joined ==
  ASSUME NEW W \in Seq(Mark), NEW D \in Seq(Mark)
  PROVE  /\ W \o D \in Seq(Mark) /\ Len(W \o D) = Len(W) + Len(D) /\ Len(W) \in Nat /\ Len(D) \in Nat
         /\ \A i \in DOMAIN W : i \in DOMAIN (W \o D) /\ (W \o D)[i] = W[i] /\ i \in Nat /\ i <= Len(W)
         /\ \A n \in DOMAIN D : /\ Len(W) + n \in DOMAIN (W \o D) /\ (W \o D)[Len(W) + n] = D[n]
                                /\ n \in Nat /\ n > 0 /\ n <= Len(D)
         /\ \A i \in DOMAIN (W \o D) : i \in DOMAIN W \/ \E n \in DOMAIN D : i = Len(W) + n
<1>1. W \o D \in Seq(Mark) /\ Len(W \o D) = Len(W) + Len(D) /\ Len(W) \in Nat /\ Len(D) \in Nat
  OBVIOUS
<1>2. \A i \in DOMAIN W : i \in DOMAIN (W \o D) /\ (W \o D)[i] = W[i] /\ i \in Nat /\ i <= Len(W)
  OBVIOUS
<1>3. \A n \in DOMAIN D : /\ Len(W) + n \in DOMAIN (W \o D) /\ (W \o D)[Len(W) + n] = D[n]
                          /\ n \in Nat /\ n > 0 /\ n <= Len(D)
  OBVIOUS
<1>4. ASSUME NEW i \in DOMAIN (W \o D), i \notin DOMAIN W
      PROVE  \E n \in DOMAIN D : i = Len(W) + n
  <2>1. i \in 1..Len(W) + Len(D) /\ i \notin 1..Len(W)
    BY <1>1, <1>4
  <2>2. i - Len(W) \in 1..Len(D) /\ i = Len(W) + (i - Len(W))
    BY <1>1, <2>1
  <2>3. DOMAIN D = 1..Len(D)
    OBVIOUS
  <2>4. QED
    BY <2>2, <2>3
<1>5. QED
  BY <1>1, <1>2, <1>3, <1>4

LEMMA MarksJoined ==
  ASSUME NEW W \in Seq(Mark), NEW D \in Seq(Mark), NEW k
  PROVE  /\ \A i \in Marks(W, k) : i \in Marks(W \o D, k)
         /\ \A n \in Marks(D, k) : Len(W) + n \in Marks(W \o D, k)
         /\ \A i \in Marks(W \o D, k) : i \in Marks(W, k) \/ \E n \in Marks(D, k) : i = Len(W) + n
<1> DEFINE V == W \o D
           L == Len(W)
<1>1. /\ \A i \in DOMAIN W : i \in DOMAIN V /\ V[i] = W[i]
      /\ \A n \in DOMAIN D : L + n \in DOMAIN V /\ V[L + n] = D[n]
      /\ \A i \in DOMAIN V : i \in DOMAIN W \/ \E n \in DOMAIN D : i = L + n
  BY Joined
<1> HIDE DEF V, L
<1>2. /\ \A i \in Marks(W, k) : i \in Marks(V, k)
      /\ \A n \in Marks(D, k) : L + n \in Marks(V, k)
      /\ \A i \in Marks(V, k) : i \in Marks(W, k) \/ \E n \in Marks(D, k) : i = L + n
  BY <1>1 DEF Marks
<1>3. QED
  BY <1>2 DEF V, L

LEMMA SoundJoined ==
  ASSUME NEW W \in Seq(Mark), NEW D \in Seq(Mark), NEW b, Sound(b, W), Follows(b, W, D)
  PROVE  Sound(b, W \o D)
<1> DEFINE V == W \o D
           L == Len(W)
<1>1. /\ L \in Nat /\ Len(D) \in Nat /\ Len(V) = L + Len(D)
      /\ \A i \in DOMAIN W : V[i] = W[i] /\ i \in Nat /\ i <= L
      /\ \A n \in DOMAIN D : V[L + n] = D[n] /\ n \in Nat /\ n > 0 /\ n <= Len(D)
  BY Joined
<1>2. ASSUME NEW k
      PROVE  /\ \A i \in Marks(W, k) : i \in Marks(V, k) /\ V[i] = W[i] /\ i \in Nat /\ i <= L
             /\ \A n \in Marks(D, k) : L + n \in Marks(V, k) /\ V[L + n] = D[n] /\ n \in Nat /\ n > 0 /\ n <= Len(D)
             /\ \A i \in Marks(V, k) : i \in Marks(W, k) \/ \E n \in Marks(D, k) : i = L + n
  <2>1. Marks(W, k) \subseteq DOMAIN W /\ Marks(D, k) \subseteq DOMAIN D
    BY DEF Marks
  <2>2. /\ \A i \in Marks(W, k) : i \in Marks(V, k)
        /\ \A n \in Marks(D, k) : L + n \in Marks(V, k)
        /\ \A i \in Marks(V, k) : i \in Marks(W, k) \/ \E n \in Marks(D, k) : i = L + n
    BY MarksJoined
  <2> HIDE DEF V, L
  <2>3. QED
    BY <1>1, <2>1, <2>2
<1> HIDE DEF V, L
<1>3. \A i \in Content(V) : i \in Content(W) \/ \E n \in Content(D) : i = L + n
  BY <1>2 DEF Content
<1>4. \A i \in Filling(V) : i \in Filling(W) \/ \E n \in Filling(D) : i = L + n
  BY <1>2 DEF Filling
<1>5. \A i \in Content(W) : V[i] = W[i] /\ i \in Nat /\ i <= L
  BY <1>2 DEF Content
<1>6. \A n \in Content(D) : V[L + n] = D[n] /\ n \in Nat /\ n > 0
  BY <1>2 DEF Content
<1>7. Filling(W) \subseteq Content(W) /\ Filling(D) \subseteq Content(D)
  BY DEF Filling, Content
<1>8. Announced(V)
  <2>1. ASSUME NEW i \in Content(W)
        PROVE  \E j \in Marks(V, "start") : j < i
    <3>1. PICK j \in Marks(W, "start") : j < i
      BY DEF Sound, Announced
    <3>2. QED
      BY <1>2, <3>1
  <2>2. ASSUME NEW n \in Content(D)
        PROVE  \E j \in Marks(V, "start") : j < L + n
    <3>1. PICK j \in Marks(W, "start") : TRUE
      BY DEF Follows, Said
    <3>2. j \in Marks(V, "start") /\ j \in Nat /\ j <= L /\ n \in Nat /\ n > 0
      BY <1>2, <1>6
    <3>3. QED
      BY <1>1, <3>2
  <2>3. QED
    BY <1>3, <2>1, <2>2 DEF Announced
<1>9. NotClosed(V)
  <2>1. ASSUME NEW i \in Content(V), NEW j \in Marks(V, "close"), j < i
        PROVE  V[i].item \notin V[j].items
    <3>1. CASE i \in Content(W) /\ j \in Marks(W, "close")
      <4>1. V[i] = W[i] /\ V[j] = W[j]
        BY <1>2, <1>5, <3>1
      <4>2. QED
        BY <2>1, <3>1, <4>1 DEF Sound, NotClosed
    <3>2. CASE i \in Content(W) /\ \E n \in Marks(D, "close") : j = L + n
      <4>1. i \in Nat /\ i <= L
        BY <1>5, <3>2
      <4>2. PICK n \in Marks(D, "close") : j = L + n
        BY <3>2
      <4>3. n \in Nat /\ n > 0
        BY <1>2
      <4>4. QED
        BY <1>1, <2>1, <4>1, <4>2, <4>3
    <3>3. CASE j \in Marks(W, "close") /\ \E n \in Content(D) : i = L + n
      <4>1. PICK n \in Content(D) : i = L + n
        BY <3>3
      <4>2. V[i] = D[n] /\ V[j] = W[j]
        BY <1>2, <1>6, <3>3, <4>1
      <4>3. QED
        BY <3>3, <4>2 DEF Follows, Said
    <3>4. CASE (\E n \in Content(D) : i = L + n) /\ \E n \in Marks(D, "close") : j = L + n
      BY <3>4 DEF Follows, Said
    <3>5. QED
      BY <1>2, <1>3, <3>1, <3>2, <3>3, <3>4
  <2>2. QED
    BY <2>1 DEF NotClosed
<1>10. Within(b, V)
  <2>1. ASSUME NEW i \in Filling(W)
        PROVE  \/ \E j \in Marks(V, "open") : j < i /\ V[j].item = V[i].item
               \/ b = "openai" /\ V[i].item = Text
    <3>1. V[i] = W[i]
      BY <1>5, <1>7
    <3>2. \/ \E j \in Marks(W, "open") : j < i /\ W[j].item = W[i].item
          \/ b = "openai" /\ W[i].item = Text
      BY DEF Sound, Within
    <3>3. QED
      BY <1>2, <3>1, <3>2
  <2>2. ASSUME NEW n \in Filling(D)
        PROVE  \/ \E j \in Marks(V, "open") : j < L + n /\ V[j].item = V[L + n].item
               \/ b = "openai" /\ V[L + n].item = Text
    <3>1. V[L + n] = D[n] /\ n \in Nat /\ n > 0
      BY <1>6, <1>7
    <3>2. \/ \E j \in Marks(W, "open") : W[j].item = D[n].item
          \/ b = "openai" /\ D[n].item = Text
      BY DEF Follows, Said
    <3>3. CASE b = "openai" /\ D[n].item = Text
      BY <3>1, <3>3
    <3>4. CASE \E j \in Marks(W, "open") : W[j].item = D[n].item
      <4>1. PICK j \in Marks(W, "open") : W[j].item = D[n].item
        BY <3>4
      <4>2. j \in Marks(V, "open") /\ V[j] = W[j] /\ j \in Nat /\ j <= L
        BY <1>2
      <4>3. j < L + n
        BY <1>1, <3>1, <4>2
      <4>4. QED
        BY <3>1, <4>1, <4>2, <4>3
    <3>5. QED
      BY <3>2, <3>3, <3>4
  <2>3. QED
    BY <1>4, <2>1, <2>2 DEF Within
<1>11. TextLate(W) => TextLate(V)
  BY <1>2 DEF TextLate
<1>12. Distinct(b, V)
  <2>1. ASSUME NEW i \in Marks(V, "open"), NEW j \in Marks(V, "open"), i < j
        PROVE  /\ V[i].item # V[j].item
               /\ V[i].place # V[j].place \/ (b = "responses" /\ TextLate(V))
    <3>1. CASE i \in Marks(W, "open") /\ j \in Marks(W, "open")
      <4>1. V[i] = W[i] /\ V[j] = W[j]
        BY <1>2, <3>1
      <4>2. W[i].item # W[j].item /\ (W[i].place # W[j].place \/ (b = "responses" /\ TextLate(W)))
        BY <2>1, <3>1 DEF Sound, Distinct
      <4>3. QED
        BY <1>11, <4>1, <4>2
    <3>2. CASE i \in Marks(W, "open") /\ \E n \in Marks(D, "open") : j = L + n
      <4>1. PICK n \in Marks(D, "open") : j = L + n
        BY <3>2
      <4>2. V[i] = W[i] /\ V[j] = D[n]
        BY <1>2, <3>2, <4>1
      <4>3. /\ W[i].item # D[n].item
            /\ W[i].place # D[n].place \/ (b = "responses" /\ (D[n].item = Text \/ TextLate(W)))
        BY <3>2 DEF Follows, Said
      <4>4. D[n].item = Text => TextLate(V)
        BY <2>1, <4>2 DEF TextLate
      <4>5. QED
        BY <1>11, <4>2, <4>3, <4>4
    <3>3. CASE (\E n \in Marks(D, "open") : i = L + n) /\ j \in Marks(W, "open")
      <4>1. PICK n \in Marks(D, "open") : i = L + n
        BY <3>3
      <4>2. n \in Nat /\ n > 0 /\ j \in Nat /\ j <= L
        BY <1>2, <3>3
      <4>3. QED
        BY <1>1, <2>1, <4>1, <4>2
    <3>4. CASE (\E n \in Marks(D, "open") : i = L + n) /\ \E n \in Marks(D, "open") : j = L + n
      <4>1. PICK n \in Marks(D, "open") : i = L + n
        BY <3>4
      <4>2. PICK m \in Marks(D, "open") : j = L + m
        BY <3>4
      <4>3. Len(D) = 1 /\ n \in Nat /\ m \in Nat /\ n > 0 /\ m > 0 /\ n <= Len(D) /\ m <= Len(D)
        BY <1>2 DEF Follows, Said
      <4>4. QED
        BY <1>1, <2>1, <4>1, <4>2, <4>3
    <3>5. QED
      BY <1>2, <3>1, <3>2, <3>3, <3>4
  <2>2. QED
    BY <2>1 DEF Distinct
<1>13. StopsLast(V)
  <2>1. ASSUME NEW i \in Marks(V, "stop")
        PROVE  i = Len(V)
    <3>1. PICK n \in Marks(D, "stop") : i = L + n
      BY <1>2 DEF Follows, Said
    <3>2. n = Len(D)
      BY DEF Follows, Said, StopsLast
    <3>3. QED
      BY <1>1, <3>1, <3>2
  <2>2. QED
    BY <2>1 DEF StopsLast
<1>14. QED
  BY <1>8, <1>9, <1>10, <1>12, <1>13 DEF Sound, V

(***************************************************************************)
(* The invariant, of any bridge b that has read R, has the state s and     *)
(* wrote W; o is how the stream ended.                                     *)
(***************************************************************************)

Event ==
  [kind : {"start", "error", "done"}] \cup [kind : {"text"}, piece : Nat]
    \cup [kind : {"tool"}, index : Indexes, piece : Nat]
    \cup [kind : {"usage"}, tokens : Nat] \cup [kind : {"finish"}, reason : Reasons]

BridgeState ==
  [started : BOOLEAN, ended : BOOLEAN, place : UNION {[D -> Nat] : D \in SUBSET Items}, usage : Nat,
   closed : SUBSET Items, kept : [Items -> Seq(Nat)]]

Bridges == {"anthropic", "openai", "responses"}

KindsOf(R) == {R[i].kind : i \in DOMAIN R}
GivenOf(R, item) == FlattenSeq([i \in DOMAIN R |-> GivenIn(R[i], item)])
LastIn(R, kind, n) == {i \in DOMAIN R : R[i].kind = kind /\ i < n}
UsageIn(R, n) == LET u == LastIn(R, "usage", n) IN IF u = {} THEN 0 ELSE R[Max(u)].tokens
MarkAt(R, kind) == LET f == LastIn(R, kind, Len(R) + 1) IN IF f = {} THEN Len(R) + 1 ELSE Max(f)
LatestUsage(R) == UsageIn(R, Len(R) + 1)

BridgeTypes(b, R, s, W) ==
  /\ b \in Bridges /\ R \in Seq(Event) /\ s \in BridgeState /\ W \in Seq(Mark)
  /\ IsFiniteSet(DOMAIN s.place)

(* A bridge is done when it wrote its last mark; what the provider may      *)
(* still send then makes it write nothing.                                  *)
Phases(b, R, s, W, o) ==
  /\ s.started => Said(W, "start") # {}
  /\ b = "openai" /\ R # <<>> => Said(W, "start") # {} \/ "error" \in KindsOf(R)
  /\ s.ended <=> Said(W, "stop") # {}
  /\ o = "eof" \/ "done" \in KindsOf(R) => s.ended
  /\ b # "responses" /\ "error" \in KindsOf(R) => s.ended
  /\ b = "anthropic" /\ "finish" \in KindsOf(R) => s.ended /\ s.started
  /\ s.ended => \/ o = "eof" \/ "done" \in KindsOf(R)
                \/ b # "responses" /\ "error" \in KindsOf(R)
                \/ b = "anthropic" /\ "finish" \in KindsOf(R)
  /\ Said(W, "close") # {} => \/ b = "anthropic" /\ s.ended
                              \/ b = "responses" /\ "finish" \in KindsOf(R)
  /\ b = "responses" /\ "finish" \notin KindsOf(R) => s.closed = {}

Opens(W, place) ==
  /\ \A m \in Said(W, "open") : m.item \in DOMAIN place /\ m.place = place[m.item]
  /\ \A x \in DOMAIN place : \E m \in Said(W, "open") : m.item = x

Placing(b, s, W) ==
  /\ Opens(W, s.place)
  /\ b # "responses" => \A x \in DOMAIN s.place : s.place[x] < Cardinality(DOMAIN s.place)
  /\ b = "responses" /\ ~TextLate(W) =>
       \A x \in DOMAIN s.place :
         s.place[x] = IF x = Text THEN 0 ELSE x + IF Text \in DOMAIN s.place THEN 1 ELSE 0

(* The bridge holds back, or has told, all that it was given.               *)
HeldBack(b, R, item) == b = "responses" /\ item \in Custom /\ "finish" \notin KindsOf(R)
Telling(b, R, s, W) ==
  \A item \in Items :
    /\ Pieces(W, item) = IF HeldBack(b, R, item) THEN <<>> ELSE GivenOf(R, item)
    /\ b = "responses" => /\ s.kept[item] = GivenOf(R, item)
                          /\ s.kept[item] # <<>> => item \in DOMAIN s.place

Ledger(b, R, s, W) ==
  /\ s.usage <= Len(R) /\ s.usage = LatestUsage(R)
  /\ b # "openai" /\ Said(W, "end") # {} => s.ended
  /\ Said(W, "usage") # {} => s.ended
  /\ b = "anthropic" =>
       /\ s.ended => \A x \in DOMAIN s.place : \E m \in Said(W, "close") : x \in m.items
       /\ \A m \in Said(W, "end") : m.usage = UsageIn(R, MarkAt(R, "finish"))
  /\ b = "responses" =>
       \A m \in Said(W, "end") :
         m.usage = LatestUsage(R) /\ \A item \in Items : m.content[item] = GivenOf(R, item)
  /\ b = "openai" /\ s.ended =>
       IF Said(W, "usage") = {} THEN UsageIn(R, MarkAt(R, "error")) = 0
       ELSE \A m \in Said(W, "usage") : m.usage = UsageIn(R, MarkAt(R, "error"))

BridgeInv(b, R, s, W, o) ==
  /\ BridgeTypes(b, R, s, W) /\ Sound(b, W)
  /\ Phases(b, R, s, W, o) /\ Placing(b, s, W) /\ Telling(b, R, s, W) /\ Ledger(b, R, s, W)

(***************************************************************************)
(* What one more event changes.                                            *)
(***************************************************************************)

LEMMA MaxIs ==
  ASSUME NEW N \in Nat, NEW S, S \subseteq 0..N, S # {}
  PROVE  Max(S) \in S /\ \A y \in S : Max(S) >= y
<1>1. \E n \in S : \A m \in S : n >= m
  BY LargestNumber
<1>2. QED
  BY <1>1 DEF Max

LEMMA EventRead ==
  ASSUME NEW R \in Seq(Event), NEW e \in Event
  PROVE  /\ Append(R, e) \in Seq(Event) /\ Len(Append(R, e)) = Len(R) + 1 /\ Len(R) \in Nat
         /\ DOMAIN R = 1..Len(R) /\ DOMAIN Append(R, e) = 1..Len(R) + 1
         /\ Append(R, e)[Len(R) + 1] = e /\ \A i \in 1..Len(R) : Append(R, e)[i] = R[i]
OBVIOUS

LEMMA KindsRead ==
  ASSUME NEW R \in Seq(Event), NEW e \in Event
  PROVE  KindsOf(Append(R, e)) = KindsOf(R) \cup {e.kind}
<1> DEFINE Q == Append(R, e)
           L == Len(R)
<1>1. /\ L \in Nat /\ DOMAIN R = 1..L /\ DOMAIN Q = 1..L + 1 /\ Q[L + 1] = e
      /\ \A i \in 1..L : Q[i] = R[i]
  BY EventRead
<1> HIDE DEF Q, L
<1>2. L + 1 \in 1..L + 1 /\ 1..L + 1 = 1..L \cup {L + 1}
  BY <1>1
<1>3. KindsOf(Q) = KindsOf(R) \cup {e.kind}
  BY <1>1, <1>2 DEF KindsOf
<1>4. QED
  BY <1>3 DEF Q

LEMMA LastRead ==
  ASSUME NEW R \in Seq(Event), NEW e \in Event, NEW kind
  PROVE  /\ \A n \in 1..Len(R) + 1 : LastIn(Append(R, e), kind, n) = LastIn(R, kind, n)
         /\ LastIn(Append(R, e), kind, Len(R) + 2)
              = LastIn(R, kind, Len(R) + 1) \cup (IF e.kind = kind THEN {Len(R) + 1} ELSE {})
         /\ \A n \in Nat : LastIn(R, kind, n) \subseteq 1..Len(R)
         /\ LastIn(R, kind, Len(R) + 1) = {} <=> kind \notin KindsOf(R)
<1> DEFINE Q == Append(R, e)
           L == Len(R)
<1>1. /\ L \in Nat /\ DOMAIN R = 1..L /\ DOMAIN Q = 1..L + 1 /\ Q[L + 1] = e
      /\ \A i \in 1..L : Q[i] = R[i]
  BY EventRead
<1> HIDE DEF Q, L
<1>2. ASSUME NEW n \in 1..L + 1
      PROVE  LastIn(Q, kind, n) = LastIn(R, kind, n)
  <2>1. \A i \in 1..L + 1 : i < n => i \in 1..L
    BY <1>1
  <2>2. \A i \in 1..L : i \in 1..L + 1
    BY <1>1
  <2>3. QED
    BY <1>1, <2>1, <2>2 DEF LastIn
<1>3. LastIn(Q, kind, L + 2) = LastIn(R, kind, L + 1) \cup (IF e.kind = kind THEN {L + 1} ELSE {})
  <2>1. \A i \in 1..L + 1 : (i \in 1..L \/ i = L + 1) /\ i < L + 2
    BY <1>1
  <2>2. \A i \in 1..L : i \in 1..L + 1 /\ i < L + 1 /\ i # L + 1
    BY <1>1
  <2>3. L + 1 \in 1..L + 1
    BY <1>1
  <2>4. QED
    BY <1>1, <2>1, <2>2, <2>3 DEF LastIn
<1>4. \A n \in Nat : LastIn(R, kind, n) \subseteq 1..L
  BY <1>1 DEF LastIn
<1>5. LastIn(R, kind, L + 1) = {} <=> kind \notin KindsOf(R)
  <2>1. \A i \in 1..L : i < L + 1
    BY <1>1
  <2>2. QED
    BY <1>1, <2>1 DEF LastIn, KindsOf
<1>6. QED
  BY <1>2, <1>3, <1>4, <1>5 DEF Q, L

LEMMA UsageRead ==
  ASSUME NEW R \in Seq(Event), NEW e \in Event
  PROVE  /\ \A n \in 1..Len(R) + 1 : UsageIn(Append(R, e), n) = UsageIn(R, n)
         /\ LatestUsage(Append(R, e)) = IF e.kind = "usage" THEN e.tokens ELSE LatestUsage(R)
<1> DEFINE Q == Append(R, e)
           L == Len(R)
<1>1. /\ L \in Nat /\ Len(Q) = L + 1 /\ Q[L + 1] = e
      /\ \A i \in 1..L : Q[i] = R[i]
  BY EventRead
<1>2. /\ \A n \in 1..L + 1 : LastIn(Q, "usage", n) = LastIn(R, "usage", n)
      /\ LastIn(Q, "usage", L + 2)
           = LastIn(R, "usage", L + 1) \cup (IF e.kind = "usage" THEN {L + 1} ELSE {})
      /\ \A n \in Nat : LastIn(R, "usage", n) \subseteq 1..L
  BY LastRead
<1> HIDE DEF Q, L
<1>3. ASSUME NEW n \in Nat, LastIn(R, "usage", n) # {}
      PROVE  Max(LastIn(R, "usage", n)) \in 1..L
  <2>1. LastIn(R, "usage", n) \subseteq 1..L /\ 1..L \subseteq 0..L
    BY <1>1, <1>2
  <2>2. Max(LastIn(R, "usage", n)) \in LastIn(R, "usage", n)
    BY <1>1, <1>3, <2>1, MaxIs
  <2>3. QED
    BY <2>1, <2>2
<1>4. ASSUME NEW n \in 1..L + 1
      PROVE  UsageIn(Q, n) = UsageIn(R, n)
  <2>1. LastIn(Q, "usage", n) = LastIn(R, "usage", n) /\ n \in Nat
    BY <1>1, <1>2
  <2>2. CASE LastIn(R, "usage", n) = {}
    BY <2>1, <2>2 DEF UsageIn
  <2>3. CASE LastIn(R, "usage", n) # {}
    <3>1. Q[Max(LastIn(R, "usage", n))] = R[Max(LastIn(R, "usage", n))]
      BY <1>1, <1>3, <2>1, <2>3
    <3>2. QED
      BY <2>1, <2>3, <3>1 DEF UsageIn
  <2>4. QED
    BY <2>2, <2>3
<1>5. LatestUsage(Q) = IF e.kind = "usage" THEN e.tokens ELSE LatestUsage(R)
  <2>1. LatestUsage(Q) = UsageIn(Q, L + 2) /\ LatestUsage(R) = UsageIn(R, L + 1) /\ L + 1 \in Nat
    <3>1. (L + 1) + 1 = L + 2 /\ L + 1 \in Nat
      BY <1>1
    <3>2. QED
      BY <1>1, <3>1 DEF LatestUsage, L
  <2>2. CASE e.kind = "usage"
    <3> DEFINE S == LastIn(Q, "usage", L + 2)
    <3>1. L + 1 \in S /\ S \subseteq 1..L + 1
      BY <1>1, <1>2, <2>1, <2>2
    <3> HIDE DEF S
    <3>2. S \subseteq 0..L + 1 /\ S # {} /\ L + 1 \in Nat
      BY <1>1, <3>1
    <3>3. Max(S) \in S /\ Max(S) >= L + 1
      BY <3>1, <3>2, MaxIs
    <3>4. Max(S) = L + 1
      <4>1. Max(S) \in 1..L + 1 /\ Max(S) >= L + 1
        BY <3>1, <3>3
      <4>2. QED
        BY ONLY <1>1, <4>1
    <3>5. QED
      BY <1>1, <2>1, <2>2, <3>2, <3>4 DEF UsageIn, S
  <2>3. CASE e.kind # "usage"
    <3>1. LastIn(Q, "usage", L + 2) = LastIn(R, "usage", L + 1)
      BY <1>2, <2>3
    <3>2. CASE LastIn(R, "usage", L + 1) = {}
      BY <2>1, <2>3, <3>1, <3>2 DEF UsageIn
    <3>3. CASE LastIn(R, "usage", L + 1) # {}
      <4>1. Q[Max(LastIn(R, "usage", L + 1))] = R[Max(LastIn(R, "usage", L + 1))]
        BY <1>1, <1>3, <2>1, <3>3
      <4>2. QED
        BY <2>1, <2>3, <3>1, <3>3, <4>1 DEF UsageIn
    <3>4. QED
      BY <3>2, <3>3
  <2>4. QED
    BY <2>2, <2>3
<1>6. QED
  BY <1>4, <1>5 DEF Q, L

(* The usage that was told before the first event of a kind.                *)
LEMMA UsageAtRead ==
  ASSUME NEW R \in Seq(Event), NEW e \in Event, NEW kind
  PROVE  /\ kind \in KindsOf(R) /\ e.kind # kind =>
              UsageIn(Append(R, e), MarkAt(Append(R, e), kind)) = UsageIn(R, MarkAt(R, kind))
         /\ kind \notin KindsOf(R) /\ e.kind = kind =>
              UsageIn(Append(R, e), MarkAt(Append(R, e), kind)) = LatestUsage(R)
         /\ kind \notin KindsOf(R) => UsageIn(R, MarkAt(R, kind)) = LatestUsage(R)
<1> DEFINE Q == Append(R, e)
           L == Len(R)
<1>1. L \in Nat /\ Len(Q) = L + 1 /\ (L + 1) + 1 = L + 2
  BY EventRead
<1>2. /\ LastIn(Q, kind, L + 2) = LastIn(R, kind, L + 1) \cup (IF e.kind = kind THEN {L + 1} ELSE {})
      /\ LastIn(R, kind, L + 1) \subseteq 1..L
      /\ LastIn(R, kind, L + 1) = {} <=> kind \notin KindsOf(R)
  BY <1>1, LastRead
<1>3. \A n \in 1..L + 1 : UsageIn(Q, n) = UsageIn(R, n)
  BY UsageRead
<1>4. /\ MarkAt(R, kind) = IF LastIn(R, kind, L + 1) = {} THEN L + 1 ELSE Max(LastIn(R, kind, L + 1))
      /\ MarkAt(Q, kind) = IF LastIn(Q, kind, L + 2) = {} THEN L + 2 ELSE Max(LastIn(Q, kind, L + 2))
      /\ LatestUsage(R) = UsageIn(R, L + 1)
  BY <1>1 DEF MarkAt, LatestUsage
<1> HIDE DEF Q, L
<1>5. CASE kind \in KindsOf(R) /\ e.kind # kind
  <2>1. MarkAt(Q, kind) = MarkAt(R, kind)
    BY <1>2, <1>4, <1>5
  <2>2. MarkAt(R, kind) \in 1..L
    <3>1. LastIn(R, kind, L + 1) \subseteq 0..L /\ LastIn(R, kind, L + 1) # {}
      BY <1>1, <1>2, <1>5
    <3>2. Max(LastIn(R, kind, L + 1)) \in LastIn(R, kind, L + 1)
      BY <1>1, <3>1, MaxIs
    <3>3. QED
      BY <1>2, <1>4, <1>5, <3>2
  <2>3. MarkAt(R, kind) \in 1..L + 1
    BY <1>1, <2>2
  <2>4. QED
    BY <1>3, <1>5, <2>1, <2>3 DEF Q
<1>6. CASE kind \notin KindsOf(R)
  <2>1. LastIn(R, kind, L + 1) = {}
    BY <1>2, <1>6
  <2>2. UsageIn(R, MarkAt(R, kind)) = LatestUsage(R)
    BY <1>4, <2>1
  <2>3. CASE e.kind = kind
    <3>1. LastIn(Q, kind, L + 2) = {L + 1}
      BY <1>2, <2>1, <2>3
    <3>2. Max({L + 1}) = L + 1
      <4>1. {L + 1} \subseteq 0..L + 1 /\ L + 1 \in Nat /\ {L + 1} # {}
        BY <1>1
      <4>2. Max({L + 1}) \in {L + 1}
        BY <4>1, MaxIs
      <4>3. QED
        BY <4>2
    <3>3. MarkAt(Q, kind) = L + 1 /\ L + 1 \in 1..L + 1
      <4>1. {L + 1} # {} /\ L + 1 \in 1..L + 1
        BY <1>1
      <4>2. QED
        BY <1>4, <3>1, <3>2, <4>1
    <3>4. QED
      BY <1>3, <1>4, <1>6, <2>2, <3>3 DEF Q
  <2>4. QED
    BY <1>6, <2>2, <2>3
<1>7. QED
  BY <1>5, <1>6

LEMMA GivenParts ==
  ASSUME NEW e \in Event, NEW item
  PROVE  GivenIn(e, item) \in Seq(Nat)
BY DEF GivenIn, Event

LEMMA GivenRead ==
  ASSUME NEW R \in Seq(Event), NEW e \in Event, NEW item
  PROVE  /\ GivenOf(Append(R, e), item) = GivenOf(R, item) \o GivenIn(e, item)
         /\ GivenOf(R, item) \in Seq(Nat)
<1> DEFINE Q == Append(R, e)
           L == Len(R)
           p == [i \in DOMAIN R |-> GivenIn(R[i], item)]
           q == <<GivenIn(e, item)>>
           r == [i \in DOMAIN Q |-> GivenIn(Q[i], item)]
<1>1. /\ L \in Nat /\ DOMAIN R = 1..L /\ DOMAIN Q = 1..L + 1 /\ Q[L + 1] = e
      /\ \A i \in 1..L : Q[i] = R[i] /\ R[i] \in Event
  BY EventRead
<1>2. \A i \in 1..L : GivenIn(R[i], item) \in Seq(Nat)
  BY <1>1, GivenParts
<1>3. GivenIn(e, item) \in Seq(Nat)
  BY GivenParts
<1> HIDE DEF Q, L
<1>4. p \in Seq(Seq(Nat)) /\ Len(p) = L /\ q \in Seq(Seq(Nat)) /\ Len(q) = 1 /\ q[1] = GivenIn(e, item)
  BY <1>1, <1>2, <1>3
<1>5. r = p \o q
  <2> DEFINE pq == p \o q
  <2>1. pq = [i \in 1..L + 1 |-> IF i <= L THEN p[i] ELSE q[i - L]]
    <3> HIDE DEF p, q
    <3>1. pq = [i \in 1..Len(p) + Len(q) |-> IF i <= Len(p) THEN p[i] ELSE q[i - Len(p)]]
      BY <1>4, ConcatIs
    <3>2. QED
      BY <1>4, <3>1
  <2>2. ASSUME NEW i \in 1..L + 1
        PROVE  (IF i <= L THEN p[i] ELSE q[i - L]) = GivenIn(Q[i], item)
    <3>1. CASE i <= L
      BY <1>1, <3>1
    <3>2. CASE i = L + 1
      <4>1. i - L = 1 /\ ~(i <= L)
        BY <1>1, <3>2
      <4>2. QED
        BY <1>1, <1>4, <3>2, <4>1
    <3>3. QED
      BY <1>1, <3>1, <3>2
  <2> HIDE DEF p, q
  <2>3. QED
    BY <1>1, <2>1, <2>2
<1>6. FlattenSeq(p \o q) = FlattenSeq(p) \o FlattenSeq(q)
  <2> HIDE DEF p, q
  <2>1. QED
    BY <1>4, FlattenConcat
<1>7. FlattenSeq(q) = q[1]
  <2>1. 1 \in 1..Len(q) /\ \A n \in 1..Len(q) : n # 1 => q[n] = <<>>
    BY <1>4
  <2> HIDE DEF q
  <2>2. QED
    BY <1>4, <2>1, FlattenOne
<1>8. FlattenSeq(p) \in Seq(Nat)
  <2> HIDE DEF p
  <2>1. QED
    BY <1>4, FlattenType
<1>9. GivenOf(Q, item) = FlattenSeq(r) /\ GivenOf(R, item) = FlattenSeq(p)
  BY DEF GivenOf
<1> HIDE DEF p, q, r
<1>10. QED
  BY <1>4, <1>5, <1>6, <1>7, <1>8, <1>9 DEF Q

(***************************************************************************)
(* The pieces that marks carry.                                            *)
(***************************************************************************)

PartsOf(a, part) == FlattenSeq([i \in DOMAIN a |-> part[a[i]]])

LEMMA PartsJoined ==
  ASSUME NEW S, NEW a \in Seq(S), NEW b \in Seq(S), NEW T, NEW part \in [S -> Seq(T)]
  PROVE  PartsOf(a \o b, part) = PartsOf(a, part) \o PartsOf(b, part) /\ PartsOf(a, part) \in Seq(T)
<1> DEFINE m == Len(a)
           n == Len(b)
           c == a \o b
           p == [i \in DOMAIN a |-> part[a[i]]]
           q == [i \in DOMAIN b |-> part[b[i]]]
           r == [i \in DOMAIN c |-> part[c[i]]]
<1>1. /\ m \in Nat /\ n \in Nat /\ DOMAIN a = 1..m /\ DOMAIN b = 1..n
      /\ \A i \in 1..m : a[i] \in S
      /\ \A i \in 1..n : b[i] \in S
  OBVIOUS
<1>2. c \in Seq(S) /\ DOMAIN c = 1..m + n
  OBVIOUS
<1>3. c = [i \in 1..m + n |-> IF i <= m THEN a[i] ELSE b[i - m]]
  BY ConcatIs
<1> HIDE DEF m, n, c
<1>4. p \in Seq(Seq(T)) /\ Len(p) = m /\ q \in Seq(Seq(T)) /\ Len(q) = n
  BY <1>1
<1>5. r = p \o q
  <2> DEFINE pq == p \o q
  <2>1. pq = [i \in 1..m + n |-> IF i <= m THEN p[i] ELSE q[i - m]]
    <3> HIDE DEF p, q
    <3>1. pq = [i \in 1..Len(p) + Len(q) |-> IF i <= Len(p) THEN p[i] ELSE q[i - Len(p)]]
      BY <1>4, ConcatIs
    <3>2. QED
      BY <1>4, <3>1
  <2>2. ASSUME NEW i \in 1..m + n
        PROVE  (IF i <= m THEN p[i] ELSE q[i - m]) = part[c[i]]
    <3>1. CASE i <= m
      BY <1>1, <1>3, <3>1
    <3>2. CASE ~(i <= m)
      <4>1. i - m \in 1..n
        BY <1>1, <3>2
      <4>2. QED
        BY <1>1, <1>3, <3>2, <4>1
    <3>3. QED
      BY <3>1, <3>2
  <2> HIDE DEF p, q
  <2>3. r = [i \in 1..m + n |-> part[c[i]]]
    BY <1>2
  <2> HIDE DEF r
  <2>4. QED
    BY <2>1, <2>2, <2>3
<1> HIDE DEF p, q
<1>6. FlattenSeq(p \o q) = FlattenSeq(p) \o FlattenSeq(q)
  BY <1>4, FlattenConcat
<1>7. FlattenSeq(p) \in Seq(T)
  BY <1>4, FlattenType
<1> HIDE DEF r
<1>8. QED
  BY <1>5, <1>6, <1>7 DEF p, q, r, c, PartsOf

LEMMA PieceParts ==
  ASSUME NEW m \in Mark, NEW item
  PROVE  PiecesIn(m, item) \in Seq(Nat)
BY DEF PiecesIn, Mark

LEMMA PiecesJoined ==
  ASSUME NEW W \in Seq(Mark), NEW D \in Seq(Mark), NEW item
  PROVE  Pieces(W \o D, item) = Pieces(W, item) \o Pieces(D, item) /\ Pieces(W, item) \in Seq(Nat)
<1> DEFINE part == [m \in Mark |-> PiecesIn(m, item)]
<1>1. part \in [Mark -> Seq(Nat)]
  BY PieceParts
<1>2. ASSUME NEW V \in Seq(Mark)
      PROVE  Pieces(V, item) = PartsOf(V, part)
  <2>1. \A i \in DOMAIN V : V[i] \in Mark
    OBVIOUS
  <2>2. [i \in DOMAIN V |-> PiecesIn(V[i], item)] = [i \in DOMAIN V |-> part[V[i]]]
    BY <2>1
  <2> HIDE DEF part
  <2>3. QED
    BY <2>2 DEF Pieces, PartsOf
<1> HIDE DEF part
<1>3. W \o D \in Seq(Mark)
  OBVIOUS
<1>4. PartsOf(W \o D, part) = PartsOf(W, part) \o PartsOf(D, part) /\ PartsOf(W, part) \in Seq(Nat)
  BY <1>1, PartsJoined
<1>5. QED
  BY <1>2, <1>3, <1>4

(* One mark at most is about the item.                                      *)
LEMMA PiecesOne ==
  ASSUME NEW D \in Seq(Mark), NEW item
  PROVE  /\ (\A i \in Filling(D) : D[i].item # item) => Pieces(D, item) = <<>>
         /\ \A k \in DOMAIN D : (\A i \in Filling(D) : i # k => D[i].item # item)
              => Pieces(D, item) = PiecesIn(D[k], item)
<1> DEFINE p == [i \in DOMAIN D |-> PiecesIn(D[i], item)]
           n == Len(D)
<1>1. n \in Nat /\ DOMAIN D = 1..n /\ \A i \in 1..n : D[i] \in Mark
  OBVIOUS
<1> HIDE DEF n
<1>2. p \in Seq(Seq(Nat)) /\ Len(p) = n
  BY <1>1, PieceParts
<1>3. \A i \in 1..n : p[i] = PiecesIn(D[i], item)
  BY <1>1
<1>4. ASSUME NEW i \in 1..n, i \in Filling(D) => D[i].item # item
      PROVE  PiecesIn(D[i], item) = <<>>
  BY <1>1, <1>4 DEF PiecesIn, Filling, Marks
<1>5. Pieces(D, item) = FlattenSeq(p)
  BY DEF Pieces
<1> HIDE DEF p
<1>6. ASSUME \A i \in Filling(D) : D[i].item # item
      PROVE  Pieces(D, item) = <<>>
  <2>1. \A i \in 1..Len(p) : p[i] = <<>>
    BY <1>2, <1>3, <1>4, <1>6
  <2>2. QED
    BY <1>2, <1>5, <2>1, FlattenNone
<1>7. ASSUME NEW k \in DOMAIN D, \A i \in Filling(D) : i # k => D[i].item # item
      PROVE  Pieces(D, item) = PiecesIn(D[k], item)
  <2>1. \A i \in 1..Len(p) : i # k => p[i] = <<>>
    BY <1>2, <1>3, <1>4, <1>7
  <2>2. k \in 1..Len(p)
    BY <1>1, <1>2
  <2>3. FlattenSeq(p) = p[k]
    BY <1>2, <2>1, <2>2, FlattenOne
  <2>4. QED
    BY <1>1, <1>3, <1>5, <2>3
<1>8. QED
  BY <1>6, <1>7

LEMMA SaidJoined ==
  ASSUME NEW W \in Seq(Mark), NEW D \in Seq(Mark), NEW k
  PROVE  /\ Said(W \o D, k) = Said(W, k) \cup Said(D, k)
         /\ \A m \in Said(W, k) : m \in Mark /\ m.out = k
<1> DEFINE V == W \o D
           L == Len(W)
<1>1. /\ \A i \in DOMAIN W : V[i] = W[i]
      /\ \A n \in DOMAIN D : V[L + n] = D[n]
  BY Joined
<1>2. /\ \A i \in Marks(W, k) : i \in Marks(V, k)
      /\ \A n \in Marks(D, k) : L + n \in Marks(V, k)
      /\ \A i \in Marks(V, k) : i \in Marks(W, k) \/ \E n \in Marks(D, k) : i = L + n
  BY MarksJoined
<1> HIDE DEF V, L
<1>3. Marks(W, k) \subseteq DOMAIN W /\ Marks(D, k) \subseteq DOMAIN D
  BY DEF Marks
<1>4. \A m \in Said(V, k) : m \in Said(W, k) \/ m \in Said(D, k)
  BY <1>1, <1>2, <1>3 DEF Said
<1>5. \A m \in Said(W, k) : m \in Said(V, k)
  BY <1>1, <1>2, <1>3 DEF Said
<1>6. \A m \in Said(D, k) : m \in Said(V, k)
  BY <1>1, <1>2, <1>3 DEF Said
<1>7. Said(V, k) = Said(W, k) \cup Said(D, k)
  BY <1>4, <1>5, <1>6
<1>8. \A m \in Said(W, k) : m \in Mark /\ m.out = k
  BY <1>3 DEF Said, Marks
<1>9. QED
  BY <1>7, <1>8 DEF V

LEMMA SaidShort ==
  ASSUME NEW k
  PROVE  /\ Said(<<>>, k) = {}
         /\ \A m : Said(<<m>>, k) = {x \in {m} : x.out = k}
         /\ \A l, m : Said(<<l, m>>, k) = {x \in {l, m} : x.out = k}
         /\ \A l, m, n : Said(<<l, m, n>>, k) = {x \in {l, m, n} : x.out = k}
BY DEF Said, Marks

LEMMA TextLateJoined ==
  ASSUME NEW W \in Seq(Mark), NEW D \in Seq(Mark)
  PROVE  /\ TextLate(W) => TextLate(W \o D)
         /\ Said(W, "open") # {} /\ (\E m \in Said(D, "open") : m.item = Text) => TextLate(W \o D)
<1> DEFINE V == W \o D
           L == Len(W)
<1>1. /\ L \in Nat
      /\ \A i \in DOMAIN W : V[i] = W[i] /\ i \in Nat /\ i <= L
      /\ \A n \in DOMAIN D : V[L + n] = D[n] /\ n \in Nat /\ n > 0
  BY Joined
<1>2. /\ \A i \in Marks(W, "open") : i \in Marks(V, "open")
      /\ \A n \in Marks(D, "open") : L + n \in Marks(V, "open")
  BY MarksJoined
<1> HIDE DEF V, L
<1>3. Marks(W, "open") \subseteq DOMAIN W /\ Marks(D, "open") \subseteq DOMAIN D
  BY DEF Marks
<1>4. TextLate(W) => TextLate(V)
  BY <1>1, <1>2, <1>3 DEF TextLate
<1>5. ASSUME Said(W, "open") # {}, \E m \in Said(D, "open") : m.item = Text
      PROVE  TextLate(V)
  <2>1. PICK i \in Marks(W, "open") : TRUE
    BY <1>5 DEF Said
  <2>2. PICK n \in Marks(D, "open") : D[n].item = Text
    BY <1>5 DEF Said
  <2>3. i < L + n /\ V[L + n].item = Text
    BY <1>1, <1>3, <2>1, <2>2
  <2>4. QED
    BY <1>2, <2>1, <2>2, <2>3 DEF TextLate
<1>6. QED
  BY <1>4, <1>5 DEF V

(* One mark that may be written after W.                                    *)
Fits(b, W, m) ==
  /\ m \in Mark /\ Said(W, "stop") = {}
  /\ m.out \in {"open", "delta", "whole"} =>
       Said(W, "start") # {} /\ \A c \in Said(W, "close") : m.item \notin c.items
  /\ m.out \in {"delta", "whole"} =>
       (\E o \in Said(W, "open") : o.item = m.item) \/ (b = "openai" /\ m.item = Text)
  /\ m.out = "open" =>
       \A o \in Said(W, "open") : /\ o.item # m.item
                                  /\ o.place # m.place \/ (b = "responses" /\ (m.item = Text \/ TextLate(W)))

LEMMA SoundOne ==
  ASSUME NEW b, NEW W \in Seq(Mark), NEW m, Sound(b, W), Fits(b, W, m)
  PROVE  Sound(b, W \o <<m>>) /\ W \o <<m>> \in Seq(Mark)
<1> DEFINE D == <<m>>
<1>1. D \in Seq(Mark) /\ Len(D) = 1 /\ DOMAIN D = {1} /\ D[1] = m
  BY DEF Fits
<1> HIDE DEF D
<1>2. \A k : Marks(D, k) = IF m.out = k THEN {1} ELSE {}
  BY <1>1 DEF Marks
<1>3. Content(D) = (IF m.out \in {"open", "delta", "whole"} THEN {1} ELSE {})
  BY <1>2 DEF Content
<1>4. Filling(D) = (IF m.out \in {"delta", "whole"} THEN {1} ELSE {})
  BY <1>2 DEF Filling
<1>5. Follows(b, W, D)
  <2>1. Said(W, "stop") = {} /\ StopsLast(D)
    BY <1>1, <1>2 DEF Fits, StopsLast
  <2>2. \A n \in Content(D) : /\ Said(W, "start") # {}
                              /\ \A c \in Said(W, "close") : D[n].item \notin c.items
                              /\ Marks(D, "close") = {}
    BY <1>1, <1>2, <1>3 DEF Fits
  <2>3. \A n \in Filling(D) : \/ \E o \in Said(W, "open") : o.item = D[n].item
                              \/ b = "openai" /\ D[n].item = Text
    BY <1>1, <1>4 DEF Fits
  <2>4. \A n \in Marks(D, "open") :
           /\ Len(D) = 1
           /\ \A o \in Said(W, "open") :
                /\ o.item # D[n].item
                /\ o.place # D[n].place \/ (b = "responses" /\ (D[n].item = Text \/ TextLate(W)))
    BY <1>1, <1>2 DEF Fits
  <2>5. QED
    BY <2>1, <2>2, <2>3, <2>4 DEF Follows
<1>6. Sound(b, W \o D) /\ W \o D \in Seq(Mark)
  BY <1>1, <1>5, SoundJoined
<1>7. QED
  BY <1>6 DEF D

(* Marks without content may end the stream.                                *)
LEMMA SoundEnd ==
  ASSUME NEW b, NEW W \in Seq(Mark), NEW D \in Seq(Mark), Sound(b, W), Said(W, "stop") = {},
         Content(D) = {}, StopsLast(D)
  PROVE  Sound(b, W \o D)
<1>1. Filling(D) = {} /\ Marks(D, "open") = {}
  BY DEF Content, Filling
<1>2. Follows(b, W, D)
  BY <1>1 DEF Follows
<1>3. QED
  BY <1>2, SoundJoined

(***************************************************************************)
(* What a step writes, part by part.                                       *)
(***************************************************************************)

Grows(W, V, ks) ==
  /\ V \in Seq(Mark) /\ \A k : k \notin ks => Said(V, k) = Said(W, k)
  /\ \A k : Said(W, k) \subseteq Said(V, k)
  /\ TextLate(W) => TextLate(V)

LEMMA GrowsBy ==
  ASSUME NEW W \in Seq(Mark), NEW D \in Seq(Mark), NEW ks, \A k : k \notin ks => Said(D, k) = {}
  PROVE  Grows(W, W \o D, ks)
<1>1. W \o D \in Seq(Mark)
  OBVIOUS
<1>2. \A k : Said(W \o D, k) = Said(W, k) \cup Said(D, k)
  BY SaidJoined
<1>3. TextLate(W) => TextLate(W \o D)
  BY TextLateJoined
<1> DEFINE V == W \o D
<1> HIDE DEF V
<1>4. QED
  BY <1>1, <1>2, <1>3 DEF Grows, V

LEMMA GrowsOn ==
  ASSUME NEW W, NEW V, NEW U, NEW ks, NEW ls, Grows(W, V, ks), Grows(V, U, ls)
  PROVE  Grows(W, U, ks \cup ls)
BY DEF Grows

LEMMA SayNothing ==
  ASSUME NEW W \in Seq(Mark)
  PROVE  /\ W \o <<>> = W /\ Grows(W, W, {})
         /\ \A item : Pieces(W, item) \in Seq(Nat)
<1>1. W \o <<>> = W
  OBVIOUS
<1>2. \A item : Pieces(W, item) \in Seq(Nat)
  BY PiecesJoined
<1>3. QED
  BY <1>1, <1>2 DEF Grows

LEMMA PiecesSame ==
  ASSUME NEW W \in Seq(Mark), NEW D \in Seq(Mark), Said(D, "delta") = {}, Said(D, "whole") = {}
  PROVE  \A item : Pieces(W \o D, item) = Pieces(W, item)
<1>1. Filling(D) = {}
  <2>1. \A k : Said(D, k) = {} => Marks(D, k) = {}
    BY DEF Said
  <2>2. Marks(D, "delta") = {} /\ Marks(D, "whole") = {}
    BY <2>1
  <2>3. QED
    BY <2>2 DEF Filling
<1>2. ASSUME NEW item
      PROVE  Pieces(W \o D, item) = Pieces(W, item)
  <2>1. Pieces(D, item) = <<>>
    BY <1>1, PiecesOne
  <2>2. Pieces(W \o D, item) = Pieces(W, item) \o Pieces(D, item) /\ Pieces(W, item) \in Seq(Nat)
    BY PiecesJoined
  <2>3. QED
    BY <2>1, <2>2
<1>3. QED
  BY <1>2

LEMMA AnnounceStep ==
  ASSUME NEW b, NEW W \in Seq(Mark), NEW s, s.started \in BOOLEAN,
         Sound(b, W), Said(W, "stop") = {}, s.started => Said(W, "start") # {}
  PROVE  /\ Sound(b, W \o Announce(s)) /\ Said(W \o Announce(s), "start") # {}
         /\ Grows(W, W \o Announce(s), {"start"}) /\ Announce(s) \in Seq(Mark)
         /\ \A item : Pieces(W \o Announce(s), item) = Pieces(W, item)
<1> DEFINE start == [out |-> "start"]
           D == <<start>>
<1>1. start \in Mark /\ start.out = "start"
  BY DEF Mark
<1>2. CASE s.started
  <2>1. Announce(s) = <<>> /\ W \o <<>> = W
    BY <1>2 DEF Announce
  <2>2. Grows(W, W, {"start"})
    BY DEF Grows
  <2>3. QED
    BY <1>2, <2>1, <2>2
<1>3. CASE ~s.started
  <2>1. Announce(s) = D
    BY <1>3 DEF Announce
  <2> HIDE DEF start
  <2>2. D \in Seq(Mark) /\ \A k : Said(D, k) = {x \in {start} : x.out = k}
    BY <1>1, SaidShort
  <2>3. Fits(b, W, start)
    BY <1>1 DEF Fits
  <2>4. Sound(b, W \o D)
    BY <2>3, SoundOne
  <2>5. start \in Said(D, "start") /\ \A k : k \notin {"start"} => Said(D, k) = {}
    BY <1>1, <2>2
  <2> HIDE DEF D
  <2>6. Grows(W, W \o D, {"start"})
    BY <2>2, <2>5, GrowsBy
  <2>7. Said(W \o D, "start") # {}
    BY <2>2, <2>5, SaidJoined
  <2>8. ASSUME NEW item
        PROVE  Pieces(W \o D, item) = Pieces(W, item)
    <3>1. Said(D, "delta") = {} /\ Said(D, "whole") = {}
      BY <2>5
    <3>2. QED
      BY <2>2, <3>1, PiecesSame
  <2>9. QED
    BY <2>1, <2>2, <2>4, <2>6, <2>7, <2>8
<1>4. QED
  BY <1>2, <1>3

Opening(b, W, s, item, p) ==
  /\ Sound(b, W \o Open(s, item, p)) /\ Grows(W, W \o Open(s, item, p), {"open"})
  /\ Open(s, item, p) \in Seq(Mark)
  /\ Opens(W \o Open(s, item, p), Placed(s, item, p))
  /\ item = Text /\ item \notin DOMAIN s.place /\ DOMAIN s.place # {} => TextLate(W \o Open(s, item, p))
  /\ \A x : Pieces(W \o Open(s, item, p), x) = Pieces(W, x)

LEMMA OpenStep ==
  ASSUME NEW b, NEW W \in Seq(Mark), NEW s \in BridgeState, NEW item \in Items, NEW p \in Nat,
         Sound(b, W), Said(W, "stop") = {}, Said(W, "start") # {}, Said(W, "close") = {}, Opens(W, s.place),
         item \notin DOMAIN s.place => \A x \in DOMAIN s.place :
           s.place[x] # p \/ (b = "responses" /\ (item = Text \/ TextLate(W)))
  PROVE  Opening(b, W, s, item, p)
<1> DEFINE open == [out |-> "open", item |-> item, place |-> p]
           D == <<open>>
<1>1. open \in Mark /\ open.out = "open" /\ open.item = item /\ open.place = p
  BY DEF Mark
<1>2. CASE item \in DOMAIN s.place
  <2>1. Open(s, item, p) = <<>> /\ W \o <<>> = W /\ Placed(s, item, p) = s.place
    BY <1>2 DEF Open, Placed
  <2>2. Grows(W, W, {"open"})
    BY DEF Grows
  <2>3. QED
    BY <1>2, <2>1, <2>2 DEF Opening
<1>3. CASE item \notin DOMAIN s.place
  <2>1. Open(s, item, p) = D
    BY <1>3 DEF Open
  <2> HIDE DEF open
  <2>2. D \in Seq(Mark) /\ \A k : Said(D, k) = {x \in {open} : x.out = k}
    BY <1>1, SaidShort
  <2>3. Fits(b, W, open)
    <3>1. ASSUME NEW o \in Said(W, "open")
          PROVE  /\ o.item # open.item
                 /\ o.place # open.place \/ (b = "responses" /\ (open.item = Text \/ TextLate(W)))
      BY <1>1, <1>3 DEF Opens
    <3>2. QED
      BY <1>1, <3>1 DEF Fits
  <2>4. Sound(b, W \o D)
    BY <2>3, SoundOne
  <2>5. Said(D, "open") = {open} /\ \A k : k \notin {"open"} => Said(D, k) = {}
    BY <1>1, <2>2
  <2> HIDE DEF D
  <2>6. Grows(W, W \o D, {"open"})
    BY <2>2, <2>5, GrowsBy
  <2>7. Said(W \o D, "open") = Said(W, "open") \cup {open}
    BY <2>2, <2>5, SaidJoined
  <2>8. ASSUME NEW x
        PROVE  Pieces(W \o D, x) = Pieces(W, x)
    <3>1. Said(D, "delta") = {} /\ Said(D, "whole") = {}
      BY <2>5
    <3>2. QED
      BY <2>2, <3>1, PiecesSame
  <2>9. Opens(W \o D, Placed(s, item, p))
    <3> DEFINE next == Placed(s, item, p)
    <3>1. next = [i \in DOMAIN s.place \cup {item} |-> IF i = item THEN p ELSE s.place[i]]
      BY <1>3 DEF Placed
    <3> HIDE DEF next
    <3>2. ASSUME NEW o \in Said(W, "open")
          PROVE  o.item \in DOMAIN next /\ o.place = next[o.item]
      BY <1>3, <3>1 DEF Opens
    <3>3. open.item \in DOMAIN next /\ open.place = next[open.item]
      BY <1>1, <3>1
    <3>4. ASSUME NEW x \in DOMAIN next
          PROVE  \E o \in Said(W, "open") \cup {open} : o.item = x
      BY <1>1, <3>1 DEF Opens
    <3>5. QED
      BY <2>7, <3>2, <3>3, <3>4 DEF Opens, next
  <2>10. item = Text /\ DOMAIN s.place # {} => TextLate(W \o D)
    <3>1. DOMAIN s.place # {} => Said(W, "open") # {}
      BY DEF Opens
    <3>2. item = Text => \E m \in Said(D, "open") : m.item = Text
      BY <1>1, <2>5
    <3>3. QED
      BY <2>2, <3>1, <3>2, TextLateJoined
  <2>11. QED
    BY <2>1, <2>2, <2>4, <2>6, <2>8, <2>9, <2>10 DEF Opening
<1>4. QED
  BY <1>2, <1>3

Delivering(b, W, item, piece) ==
  /\ Sound(b, W \o Delta(item, piece)) /\ Grows(W, W \o Delta(item, piece), {"delta"})
  /\ Delta(item, piece) \in Seq(Mark)
  /\ \A x : Pieces(W \o Delta(item, piece), x)
              = Pieces(W, x) \o (IF x = item /\ piece # 0 THEN <<piece>> ELSE <<>>)

LEMMA DeltaStep ==
  ASSUME NEW b, NEW W \in Seq(Mark), NEW item \in Items, NEW piece \in Nat,
         Sound(b, W), Said(W, "stop") = {}, Said(W, "start") # {}, Said(W, "close") = {},
         (\E o \in Said(W, "open") : o.item = item) \/ (b = "openai" /\ item = Text)
  PROVE  Delivering(b, W, item, piece)
<1> DEFINE delta == [out |-> "delta", item |-> item, piece |-> piece]
           D == <<delta>>
<1>1. delta \in Mark /\ delta.out = "delta" /\ delta.item = item /\ delta.piece = piece
  BY DEF Mark
<1>2. CASE piece = 0
  <2>1. Delta(item, piece) = <<>> /\ W \o <<>> = W
    BY <1>2 DEF Delta
  <2>2. Grows(W, W, {"delta"}) /\ \A x : Pieces(W, x) \in Seq(Nat)
    BY SayNothing DEF Grows
  <2>3. ASSUME NEW x
        PROVE  Pieces(W, x) = Pieces(W, x) \o <<>>
    BY <2>2
  <2>4. QED
    <3>1. W \o Delta(item, piece) = W /\ Delta(item, piece) \in Seq(Mark)
      BY <2>1
    <3>3. ASSUME NEW x
          PROVE  Pieces(W \o Delta(item, piece), x)
                   = Pieces(W, x) \o (IF x = item /\ piece # 0 THEN <<piece>> ELSE <<>>)
      <4>1. (IF x = item /\ piece # 0 THEN <<piece>> ELSE <<>>) = <<>>
        BY <1>2
      <4>2. QED
        BY <2>3, <3>1, <4>1
    <3>4. QED
      BY <2>2, <3>1, <3>3 DEF Delivering
<1>3. CASE piece # 0
  <2>1. Delta(item, piece) = D
    BY <1>3 DEF Delta
  <2> HIDE DEF delta
  <2>2. D \in Seq(Mark) /\ DOMAIN D = {1} /\ D[1] = delta /\ \A k : Said(D, k) = {x \in {delta} : x.out = k}
    BY <1>1, SaidShort
  <2>3. Fits(b, W, delta)
    BY <1>1 DEF Fits
  <2>4. Sound(b, W \o D)
    BY <2>3, SoundOne
  <2>5. Said(D, "delta") = {delta} /\ \A k : k \notin {"delta"} => Said(D, k) = {}
    BY <1>1, <2>2
  <2> HIDE DEF D
  <2>6. Grows(W, W \o D, {"delta"})
    BY <2>2, <2>5, GrowsBy
  <2>7. ASSUME NEW x
        PROVE  Pieces(W \o D, x) = Pieces(W, x) \o (IF x = item /\ piece # 0 THEN <<piece>> ELSE <<>>)
    <3>1. Filling(D) \subseteq {1}
      BY <2>2 DEF Filling, Marks
    <3>2. Pieces(D, x) = PiecesIn(delta, x)
      <4>1. \A i \in Filling(D) : i # 1 => D[i].item # x
        BY <3>1
      <4>2. QED
        BY <2>2, <4>1, PiecesOne
    <3>3. PiecesIn(delta, x) = IF x = item THEN <<piece>> ELSE <<>>
      BY <1>1 DEF PiecesIn
    <3>4. D \in Seq(Mark)
      BY <2>2
    <3>5. Pieces(W \o D, x) = Pieces(W, x) \o Pieces(D, x)
      BY <3>4, PiecesJoined
    <3>6. QED
      BY <1>3, <3>2, <3>3, <3>5
  <2>8. QED
    BY <2>1, <2>2, <2>4, <2>6, <2>7 DEF Delivering
<1>4. QED
  BY <1>2, <1>3

MaySendIn(b, R, e) ==
  /\ "done" \notin KindsOf(R)
  /\ "finish" \in KindsOf(R) => e.kind \in {"usage", "done"}
  /\ "error" \in KindsOf(R) => e.kind = "done"
  /\ b = "openai" /\ R = <<>> => e.kind \in {"start", "error"}

Ready(b, R, s, W, e) ==
  /\ BridgeInv(b, R, s, W, "no") /\ e \in Event /\ MaySendIn(b, R, e)
  /\ e.kind = "usage" => e.tokens = Len(R) + 1

LEMMA AfterRead ==
  ASSUME NEW b, NEW R, NEW s, NEW W, NEW e, Ready(b, R, s, W, e)
  PROVE  /\ Append(R, e) \in Seq(Event) /\ KindsOf(Append(R, e)) = KindsOf(R) \cup {e.kind}
         /\ Merged(s, e) = LatestUsage(Append(R, e)) /\ Merged(s, e) <= Len(Append(R, e)) /\ Merged(s, e) \in Nat
         /\ Merged(s, e) = IF e.kind = "usage" THEN e.tokens ELSE s.usage
         /\ \A item : GivenOf(Append(R, e), item) = GivenOf(R, item) \o GivenIn(e, item)
         /\ e.kind \notin {"text", "tool"} => \A item : GivenOf(Append(R, e), item) = GivenOf(R, item)
<1>1. R \in Seq(Event) /\ e \in Event /\ s.usage \in Nat /\ s.usage <= Len(R) /\ s.usage = LatestUsage(R)
  BY DEF Ready, BridgeInv, BridgeTypes, BridgeState, Ledger
<1>2. Append(R, e) \in Seq(Event) /\ Len(Append(R, e)) = Len(R) + 1 /\ Len(R) \in Nat
  BY <1>1, EventRead
<1>3. KindsOf(Append(R, e)) = KindsOf(R) \cup {e.kind}
  BY <1>1, KindsRead
<1>4. LatestUsage(Append(R, e)) = IF e.kind = "usage" THEN e.tokens ELSE LatestUsage(R)
  BY <1>1, UsageRead
<1>5. Merged(s, e) = IF e.kind = "usage" THEN e.tokens ELSE s.usage
  BY <1>1, <1>2 DEF Merged, Ready
<1>6. Merged(s, e) = LatestUsage(Append(R, e)) /\ Merged(s, e) \in Nat /\ Merged(s, e) <= Len(Append(R, e))
  BY <1>1, <1>2, <1>4, <1>5 DEF Ready
<1>7. ASSUME NEW item
      PROVE  /\ GivenOf(Append(R, e), item) = GivenOf(R, item) \o GivenIn(e, item)
             /\ GivenOf(R, item) \in Seq(Nat)
  BY <1>1, GivenRead
<1>8. ASSUME e.kind \notin {"text", "tool"}, NEW item
      PROVE  GivenOf(Append(R, e), item) = GivenOf(R, item)
  <2>1. GivenIn(e, item) = <<>>
    BY <1>8 DEF GivenIn
  <2>2. GivenOf(R, item) \in Seq(Nat)
    BY <1>7
  <2>3. GivenOf(Append(R, e), item) = GivenOf(R, item) \o <<>>
    BY <1>7, <2>1
  <2>4. QED
    BY <2>2, <2>3
<1>9. QED
  BY <1>2, <1>3, <1>5, <1>6, <1>7, <1>8

(* Only usage and the end may still come when a bridge wrote its last mark.  *)
LEMMA Live ==
  ASSUME NEW b, NEW R, NEW s, NEW W, NEW e, Ready(b, R, s, W, e), e.kind \notin {"usage", "done"}
  PROVE  /\ ~s.ended /\ Said(W, "stop") = {} /\ Said(W, "close") = {}
         /\ KindsOf(R) \cap {"done", "finish", "error"} = {}
         /\ Said(W, "usage") = {}
         /\ b # "openai" => Said(W, "end") = {}
         /\ b = "responses" => s.closed = {}
<1>1. "done" \notin KindsOf(R) /\ "finish" \notin KindsOf(R) /\ "error" \notin KindsOf(R)
  BY DEF Ready, MaySendIn
<1>2. Phases(b, R, s, W, "no") /\ Ledger(b, R, s, W) /\ s.ended \in BOOLEAN
  BY DEF Ready, BridgeInv, BridgeTypes, BridgeState
<1>3. ~s.ended
  BY <1>1, <1>2 DEF Phases
<1>4. QED
  BY <1>1, <1>2, <1>3 DEF Phases, Ledger

PlaceOf(b, s, item) ==
  IF b # "responses" THEN Cardinality(DOMAIN s.place)
  ELSE IF item = Text THEN 0 ELSE ensureToolCallPlace(s, item)

LEMMA PlacedIs ==
  ASSUME StreamAssumption, NEW b, NEW s \in BridgeState, NEW item \in Items, IsFiniteSet(DOMAIN s.place)
  PROVE  /\ Placed(s, item, PlaceOf(b, s, item)) \in UNION {[D -> Nat] : D \in SUBSET Items}
         /\ IsFiniteSet(DOMAIN Placed(s, item, PlaceOf(b, s, item)))
         /\ DOMAIN Placed(s, item, PlaceOf(b, s, item)) = DOMAIN s.place \cup {item}
         /\ PlaceOf(b, s, item) \in Nat
         /\ DOMAIN s.place \subseteq Items /\ \A x \in DOMAIN s.place : s.place[x] \in Nat
         /\ b # "responses" /\ item \notin DOMAIN s.place =>
              Cardinality(DOMAIN s.place \cup {item}) = Cardinality(DOMAIN s.place) + 1
<1> DEFINE p == PlaceOf(b, s, item)
           E == DOMAIN s.place \cup {item}
<1>1. PICK C \in SUBSET Items : s.place \in [C -> Nat]
  BY DEF BridgeState
<1>2. DOMAIN s.place = C /\ \A x \in DOMAIN s.place : s.place[x] \in Nat
  BY <1>1
<1>3. item # Text => item \in Nat
  BY DEF Items, StreamAssumption
<1>4. Cardinality(DOMAIN s.place) \in Nat
  BY FS_CardinalityType
<1>5. p \in Nat
  <2>1. item # Text => ensureToolCallPlace(s, item) \in Nat
    BY <1>3 DEF ensureToolCallPlace
  <2>2. QED
    BY <1>4, <2>1 DEF PlaceOf
<1> HIDE DEF p
<1>6. IsFiniteSet(E) /\ (item \notin DOMAIN s.place => Cardinality(E) = Cardinality(DOMAIN s.place) + 1)
  BY FS_AddElement
<1>7. CASE item \in DOMAIN s.place
  <2>1. Placed(s, item, p) = s.place /\ E = DOMAIN s.place
    BY <1>7 DEF Placed
  <2>2. QED
    BY <1>1, <1>2, <1>5, <1>7, <2>1 DEF p
<1>8. CASE item \notin DOMAIN s.place
  <2>1. Placed(s, item, p) = [i \in E |-> IF i = item THEN p ELSE s.place[i]]
    BY <1>8 DEF Placed
  <2>2. E \in SUBSET Items
    BY <1>2
  <2> HIDE DEF E
  <2>3. \A i \in E : (IF i = item THEN p ELSE s.place[i]) \in Nat
    BY <1>2, <1>5 DEF E
  <2>4. Placed(s, item, p) \in [E -> Nat] /\ DOMAIN Placed(s, item, p) = E
    BY <2>1, <2>3
  <2>5. QED
    BY <1>2, <1>5, <1>6, <2>2, <2>4 DEF E, p
<1>9. QED
  BY <1>7, <1>8

(* An item's place is another than those already given.                      *)
LEMMA PlaceFree ==
  ASSUME StreamAssumption, NEW b \in Bridges, NEW s \in BridgeState, NEW W \in Seq(Mark), NEW item \in Items,
         IsFiniteSet(DOMAIN s.place), Placing(b, s, W), item \notin DOMAIN s.place
  PROVE  \A x \in DOMAIN s.place :
           s.place[x] # PlaceOf(b, s, item) \/ (b = "responses" /\ (item = Text \/ TextLate(W)))
<1> SUFFICES ASSUME NEW x \in DOMAIN s.place, ~(b = "responses" /\ (item = Text \/ TextLate(W)))
             PROVE  s.place[x] # PlaceOf(b, s, item)
  OBVIOUS
<1>1. DOMAIN s.place \subseteq Items /\ s.place[x] \in Nat
  BY PlacedIs
<1>2. CASE b # "responses"
  <2>1. s.place[x] < Cardinality(DOMAIN s.place) /\ Cardinality(DOMAIN s.place) \in Nat
    BY <1>2, FS_CardinalityType DEF Placing
  <2>2. QED
    BY <1>1, <1>2, <2>1 DEF PlaceOf
<1>3. CASE b = "responses" /\ item # Text /\ ~TextLate(W)
  <2>1. item \in Nat /\ (x # Text => x \in Nat) /\ x # item
    BY <1>1, <1>3 DEF Items, StreamAssumption
  <2>2. s.place[x] = IF x = Text THEN 0 ELSE x + IF Text \in DOMAIN s.place THEN 1 ELSE 0
    BY <1>3 DEF Placing
  <2>3. PlaceOf(b, s, item) = (IF Text \in DOMAIN s.place THEN 1 ELSE 0) + item
    BY <1>3 DEF PlaceOf, ensureToolCallPlace
  <2>4. QED
    BY <2>1, <2>2, <2>3
<1>4. QED
  BY <1>2, <1>3

LEMMA PlacingStep ==
  ASSUME StreamAssumption, NEW b \in Bridges, NEW s \in BridgeState, NEW W \in Seq(Mark), NEW item \in Items,
         IsFiniteSet(DOMAIN s.place), Placing(b, s, W), NEW V, NEW t,
         t.place = Placed(s, item, PlaceOf(b, s, item)), Opens(V, t.place), TextLate(W) => TextLate(V),
         item = Text /\ item \notin DOMAIN s.place /\ DOMAIN s.place # {} => TextLate(V)
  PROVE  Placing(b, t, V)
<1>1. CASE item \in DOMAIN s.place
  <2>1. t.place = s.place
    BY <1>1 DEF Placed
  <2>2. QED
    BY <2>1 DEF Placing
<1>2. CASE item \notin DOMAIN s.place
  <2> DEFINE p == PlaceOf(b, s, item)
             C == DOMAIN s.place
  <2>1. t.place = [i \in C \cup {item} |-> IF i = item THEN p ELSE s.place[i]]
    BY <1>2 DEF Placed
  <2>2. DOMAIN t.place = C \cup {item} /\ t.place[item] = p /\ \A x \in C : t.place[x] = s.place[x]
    BY <1>2, <2>1
  <2>3. p \in Nat /\ C \subseteq Items /\ \A x \in C : s.place[x] \in Nat
    BY PlacedIs
  <2>4. ASSUME b # "responses", NEW x \in DOMAIN t.place
        PROVE  t.place[x] < Cardinality(DOMAIN t.place)
    <3>1. Cardinality(C \cup {item}) = Cardinality(C) + 1 /\ p = Cardinality(C)
      BY <1>2, <2>4, PlacedIs DEF PlaceOf
    <3>2. \A y \in C : s.place[y] < Cardinality(C)
      BY <2>4 DEF Placing
    <3> HIDE DEF C, p
    <3>3. CASE x = item
      BY <2>2, <2>3, <3>1, <3>3
    <3>4. CASE x \in C
      BY <2>2, <2>3, <3>1, <3>2, <3>4
    <3>5. QED
      BY <2>2, <2>4, <3>3, <3>4
  <2>5. ASSUME b = "responses", ~TextLate(V), NEW x \in DOMAIN t.place
        PROVE  t.place[x] = IF x = Text THEN 0 ELSE x + IF Text \in DOMAIN t.place THEN 1 ELSE 0
    <3>1. \A y \in C : s.place[y] = IF y = Text THEN 0 ELSE y + IF Text \in C THEN 1 ELSE 0
      BY <2>5 DEF Placing
    <3>2. item = Text => C = {}
      BY <1>2, <2>5
    <3>3. p = IF item = Text THEN 0 ELSE (IF Text \in C THEN 1 ELSE 0) + item
      BY <2>5 DEF PlaceOf, ensureToolCallPlace
    <3>4. item # Text => item \in Nat
      BY DEF Items, StreamAssumption
    <3> HIDE DEF C, p
    <3>5. CASE x = item
      BY <2>2, <3>2, <3>3, <3>4, <3>5
    <3>6. CASE x \in C
      BY <2>2, <3>1, <3>2, <3>6
    <3>7. QED
      BY <2>2, <2>5, <3>5, <3>6
  <2>6. QED
    BY <2>4, <2>5 DEF Placing
<1>3. QED
  BY <1>1, <1>2

StepByStep(a, b, c, d) == a \o (b \o c \o d) = ((a \o b) \o c) \o d
LEMMA ConcatFour ==
  ASSUME NEW S, NEW a \in Seq(S), NEW b \in Seq(S), NEW c \in Seq(S), NEW d \in Seq(S)
  PROVE  StepByStep(a, b, c, d)
<1>1. a \o b \in Seq(S) /\ b \o c \in Seq(S) /\ (b \o c) \o d \in Seq(S)
  OBVIOUS
<1>2. Associates(a, b, c) /\ Associates(a, b \o c, d)
  BY <1>1, ConcatThree
<1>3. QED
  BY <1>2 DEF Associates, StepByStep

(* A piece of text or of a tool call, for an item that is opened.            *)
Fills(b, s, e, t, D) ==
  LET item == ItemOf(e)
  IN /\ t \in BridgeState /\ ~t.ended /\ t.closed = s.closed /\ t.usage = s.usage
     /\ t.started => s.started \/ b # "openai"
     /\ t.place = Placed(s, item, PlaceOf(b, s, item))
     /\ b = "responses" => t.kept = Kept(s, item, e.piece)
     /\ D = (IF b = "openai" THEN <<>> ELSE Announce(s)) \o Open(s, item, PlaceOf(b, s, item))
              \o (IF b = "responses" /\ item \in Custom THEN <<>> ELSE Delta(item, e.piece))

LEMMA EventItem ==
  ASSUME NEW e \in Event, e.kind \in {"text", "tool"}
  PROVE  ItemOf(e) \in Items /\ e.piece \in Nat
BY DEF Event, ItemOf, Items

LEMMA GivenPiece ==
  ASSUME NEW e, e.kind \in {"text", "tool"}, NEW x
  PROVE  GivenIn(e, x) = IF x = ItemOf(e) /\ e.piece # 0 THEN <<e.piece>> ELSE <<>>
BY DEF GivenIn

Filled(b, W, e, t, V) ==
  /\ Sound(b, V) /\ Grows(W, V, {"start", "open", "delta"})
  /\ Said(V, "start") # {} /\ Opens(V, t.place) /\ Placing(b, t, V)
  /\ \A x : Pieces(V, x) = Pieces(W, x)
              \o (IF b = "responses" /\ x \in Custom THEN <<>> ELSE GivenIn(e, x))

LEMMA FillsSays ==
  ASSUME StreamAssumption, NEW b, NEW R, NEW s, NEW W, NEW e, NEW t, NEW D,
         Ready(b, R, s, W, e), e.kind \in {"text", "tool"}, Fills(b, s, e, t, D)
  PROVE  Filled(b, W, e, t, W \o D)
<1> DEFINE item == ItemOf(e)
           p == PlaceOf(b, s, item)
           A == IF b = "openai" THEN <<>> ELSE Announce(s)
           O == Open(s, item, p)
           P == IF b = "responses" /\ item \in Custom THEN <<>> ELSE Delta(item, e.piece)
           W1 == W \o A
           W2 == W1 \o O
           V == W2 \o P
<1>1. /\ b \in Bridges /\ R \in Seq(Event) /\ s \in BridgeState /\ W \in Seq(Mark) /\ IsFiniteSet(DOMAIN s.place)
      /\ Sound(b, W) /\ Phases(b, R, s, W, "no") /\ Placing(b, s, W) /\ e \in Event /\ MaySendIn(b, R, e)
      /\ s.started \in BOOLEAN
  BY DEF Ready, BridgeInv, BridgeTypes, BridgeState
<1>2. /\ Said(W, "stop") = {} /\ Said(W, "close") = {} /\ "error" \notin KindsOf(R)
  BY Live
<1>3. item \in Items /\ e.piece \in Nat
  BY <1>1, EventItem
<1> HIDE DEF item
<1>4. p \in Nat /\ item \in DOMAIN Placed(s, item, p)
  <2> HIDE DEF p
  <2>1. PlaceOf(b, s, item) \in Nat
    BY <1>1, <1>3, PlacedIs
  <2>2. DOMAIN Placed(s, item, PlaceOf(b, s, item)) = DOMAIN s.place \cup {item}
    BY DEF Placed
  <2>3. QED
    BY <2>1, <2>2 DEF p
<1> HIDE DEF p
<1>5. /\ Sound(b, W1) /\ Grows(W, W1, {"start"}) /\ Said(W1, "start") # {} /\ A \in Seq(Mark) /\ W1 \in Seq(Mark)
      /\ \A x : Pieces(W1, x) = Pieces(W, x)
  <2>1. CASE b = "openai"
    <3>1. A = <<>> /\ W1 = W
      BY <1>1, <2>1
    <3>2. R # <<>>
      BY <1>1, <2>1 DEF MaySendIn
    <3>3. Said(W, "start") # {}
      BY <1>1, <1>2, <2>1, <3>2 DEF Phases
    <3>4. Grows(W, W, {"start"})
      BY <1>1 DEF Grows
    <3> HIDE DEF A, W1
    <3>5. QED
      BY <1>1, <3>1, <3>3, <3>4
  <2>2. CASE b # "openai"
    <3>1. A = Announce(s)
      BY <2>2
    <3>2. s.started => Said(W, "start") # {}
      BY <1>1 DEF Phases
    <3> HIDE DEF A
    <3>3. QED
      BY <1>1, <1>2, <3>1, <3>2, AnnounceStep DEF Grows
  <2>3. QED
    BY <2>1, <2>2
<1> HIDE DEF A, W1
<1>6. Said(W1, "stop") = {} /\ Said(W1, "close") = {} /\ Said(W1, "open") = Said(W, "open")
      /\ (TextLate(W) => TextLate(W1))
  BY <1>2, <1>5 DEF Grows
<1>7. Opens(W1, s.place)
  BY <1>1, <1>6 DEF Placing, Opens
<1>8. item \notin DOMAIN s.place => \A x \in DOMAIN s.place :
        s.place[x] # p \/ (b = "responses" /\ (item = Text \/ TextLate(W1)))
  BY <1>1, <1>3, <1>6, PlaceFree DEF p
<1>9. /\ Sound(b, W2) /\ Grows(W1, W2, {"open"}) /\ O \in Seq(Mark) /\ Opens(W2, Placed(s, item, p))
      /\ item = Text /\ item \notin DOMAIN s.place /\ DOMAIN s.place # {} => TextLate(W2)
      /\ \A x : Pieces(W2, x) = Pieces(W1, x)
  <2> HIDE DEF O, W2
  <2>1. Opening(b, W1, s, item, p)
    BY <1>1, <1>3, <1>4, <1>5, <1>6, <1>7, <1>8, OpenStep
  <2>2. QED
    BY <2>1 DEF Opening, O, W2
<1> HIDE DEF O, W2
<1>10. /\ Said(W2, "stop") = {} /\ Said(W2, "close") = {} /\ Said(W2, "start") # {} /\ W2 \in Seq(Mark)
  BY <1>5, <1>6, <1>9 DEF Grows
<1>11. \E o \in Said(W2, "open") : o.item = item
  BY <1>4, <1>9 DEF Opens
<1>12. /\ Sound(b, V) /\ Grows(W2, V, {"delta"}) /\ P \in Seq(Mark)
       /\ \A x : Pieces(V, x) = Pieces(W2, x)
                   \o (IF b = "responses" /\ x \in Custom THEN <<>> ELSE GivenIn(e, x))
  <2>1. \A x : Pieces(W2, x) \in Seq(Nat)
    BY <1>10, SayNothing
  <2>2. \A x : GivenIn(e, x) = IF x = item /\ e.piece # 0 THEN <<e.piece>> ELSE <<>>
    BY GivenPiece DEF item
  <2>3. \A x : Pieces(W2, x) = Pieces(W2, x) \o <<>>
    BY <2>1
  <2>4. CASE b = "responses" /\ item \in Custom
    <3>1. P = <<>> /\ V = W2
      BY <1>10, <2>4
    <3>2. Grows(W2, W2, {"delta"})
      BY <1>10 DEF Grows
    <3>3. \A x : (IF b = "responses" /\ x \in Custom THEN <<>> ELSE GivenIn(e, x)) = <<>>
      BY <2>2, <2>4
    <3> HIDE DEF P, V
    <3>4. ASSUME NEW x
          PROVE  Pieces(V, x) = Pieces(W2, x)
                   \o (IF b = "responses" /\ x \in Custom THEN <<>> ELSE GivenIn(e, x))
      BY <2>3, <3>1, <3>3
    <3>5. P \in Seq(Mark) /\ Sound(b, V) /\ Grows(W2, V, {"delta"})
      BY <1>9, <3>1, <3>2
    <3>6. QED
      BY <3>4, <3>5
  <2>5. CASE ~(b = "responses" /\ item \in Custom)
    <3>1. P = Delta(item, e.piece)
      BY <2>5
    <3> DEFINE piece == e.piece
    <3>2. \A x : (IF b = "responses" /\ x \in Custom THEN <<>> ELSE GivenIn(e, x))
                   = IF x = item /\ piece # 0 THEN <<piece>> ELSE <<>>
      BY <2>2, <2>5
    <3> HIDE DEF P, V, piece
    <3>3. piece \in Nat
      BY <1>3 DEF piece
    <3>4. Delivering(b, W2, item, piece)
      BY ONLY <1>3, <1>9, <1>10, <1>11, <3>3, DeltaStep, Zenon
    <3>5. V = W2 \o Delta(item, piece) /\ P = Delta(item, piece)
      BY <3>1 DEF V, piece
    <3>6. /\ Sound(b, V) /\ Grows(W2, V, {"delta"}) /\ P \in Seq(Mark)
          /\ \A x : Pieces(V, x) = Pieces(W2, x) \o (IF x = item /\ piece # 0 THEN <<piece>> ELSE <<>>)
      BY <3>4, <3>5 DEF Delivering
    <3>7. ASSUME NEW x
          PROVE  Pieces(V, x) = Pieces(W2, x)
                   \o (IF b = "responses" /\ x \in Custom THEN <<>> ELSE GivenIn(e, x))
      <4> DEFINE given == IF b = "responses" /\ x \in Custom THEN <<>> ELSE GivenIn(e, x)
                 said == IF x = item /\ piece # 0 THEN <<piece>> ELSE <<>>
      <4>1. given = said
        BY <3>2
      <4>2. Pieces(V, x) = Pieces(W2, x) \o said
        BY ONLY <3>6, Zenon
      <4> HIDE DEF given, said
      <4>3. Pieces(V, x) = Pieces(W2, x) \o given
        BY ONLY <4>1, <4>2
      <4>4. QED
        BY ONLY <4>3 DEF given
    <3>8. QED
      BY <3>6, <3>7
  <2>6. QED
    BY <2>4, <2>5
<1> HIDE DEF P, V
<1>13. V = W \o D
  <2>1. D = A \o O \o P
    BY DEF Fills, A, O, P, item, p
  <2>2. V = ((W \o A) \o O) \o P
    BY DEF V, W2, W1
  <2>3. W \in Seq(Mark) /\ A \in Seq(Mark) /\ O \in Seq(Mark) /\ P \in Seq(Mark)
    BY <1>1, <1>5, <1>9, <1>12
  <2>4. StepByStep(W, A, O, P)
    BY ONLY <2>3, ConcatFour, Zenon
  <2>5. QED
    BY <2>1, <2>2, <2>4 DEF StepByStep
<1>14. Grows(W, V, {"start", "open", "delta"})
  BY <1>5, <1>9, <1>12 DEF Grows
<1>15. t.place = Placed(s, item, p)
  BY DEF Fills, item, p
<1>16. Said(V, "start") # {} /\ Opens(V, t.place)
  BY <1>5, <1>9, <1>12, <1>15 DEF Grows, Opens
<1>17. Placing(b, t, V)
  <2>1. (TextLate(W) => TextLate(V)) /\ (item = Text /\ item \notin DOMAIN s.place /\ DOMAIN s.place # {} => TextLate(V))
    BY <1>9, <1>12, <1>14 DEF Grows
  <2>2. QED
    BY <1>1, <1>3, <1>15, <1>16, <2>1, PlacingStep DEF p
<1>18. \A x : Pieces(V, x) = Pieces(W, x) \o (IF b = "responses" /\ x \in Custom THEN <<>> ELSE GivenIn(e, x))
  BY <1>5, <1>9, <1>12
<1>19. QED
  BY <1>12, <1>13, <1>14, <1>16, <1>17, <1>18 DEF Filled

LEMMA TextSays ==
  ASSUME NEW b, NEW R, NEW s, NEW W, NEW e, NEW t,
         Ready(b, R, s, W, e), e.kind = "text", b = "openai", t.place = s.place
  PROVE  Filled(b, W, e, t, W \o Delta(Text, e.piece))
<1>1. /\ R \in Seq(Event) /\ s \in BridgeState /\ W \in Seq(Mark) /\ Sound(b, W) /\ Phases(b, R, s, W, "no")
      /\ Placing(b, s, W) /\ e \in Event /\ MaySendIn(b, R, e)
  BY DEF Ready, BridgeInv, BridgeTypes
<1>2. Said(W, "stop") = {} /\ Said(W, "close") = {} /\ "error" \notin KindsOf(R)
  BY Live
<1>3. Text \in Items /\ e.piece \in Nat /\ ItemOf(e) = Text
  BY <1>1 DEF Event, Items, ItemOf
<1>4. Said(W, "start") # {}
  <2>1. R # <<>>
    BY <1>1 DEF MaySendIn
  <2>2. QED
    BY <1>1, <1>2, <2>1 DEF Phases
<1>5. Delivering(b, W, Text, e.piece)
  BY <1>1, <1>2, <1>3, <1>4, DeltaStep
<1> DEFINE V == W \o Delta(Text, e.piece)
           piece == e.piece
<1>6. /\ Sound(b, V) /\ Grows(W, V, {"delta"})
      /\ \A x : Pieces(V, x) = Pieces(W, x) \o (IF x = Text /\ piece # 0 THEN <<piece>> ELSE <<>>)
  BY <1>5 DEF Delivering
<1>7. \A x : GivenIn(e, x) = IF x = Text /\ piece # 0 THEN <<piece>> ELSE <<>>
  BY <1>3, GivenPiece
<1> HIDE DEF V, piece
<1>8. ASSUME NEW x
      PROVE  Pieces(V, x) = Pieces(W, x) \o (IF b = "responses" /\ x \in Custom THEN <<>> ELSE GivenIn(e, x))
  <2> DEFINE given == IF b = "responses" /\ x \in Custom THEN <<>> ELSE GivenIn(e, x)
             said == IF x = Text /\ piece # 0 THEN <<piece>> ELSE <<>>
  <2>1. given = said
    BY <1>7
  <2>2. Pieces(V, x) = Pieces(W, x) \o said
    BY ONLY <1>6, Zenon
  <2> HIDE DEF given, said
  <2>3. Pieces(V, x) = Pieces(W, x) \o given
    BY ONLY <2>1, <2>2
  <2>4. QED
    BY ONLY <2>3 DEF given
<1>9. Grows(W, V, {"start", "open", "delta"}) /\ Said(V, "start") # {}
  BY <1>4, <1>6 DEF Grows
<1>10. Opens(V, t.place) /\ Placing(b, t, V)
  BY <1>1, <1>6 DEF Grows, Placing, Opens
<1>11. QED
  BY <1>6, <1>8, <1>9, <1>10 DEF Filled, V

LEMMA FilledKeeps ==
  ASSUME NEW b, NEW R, NEW s, NEW W, NEW e, NEW t \in BridgeState, NEW V,
         Ready(b, R, s, W, e), e.kind \in {"text", "tool"}, Filled(b, W, e, t, V),
         ~t.ended, t.closed = s.closed, t.usage = s.usage, IsFiniteSet(DOMAIN t.place),
         b = "responses" => /\ t.kept = Kept(s, ItemOf(e), e.piece)
                            /\ DOMAIN t.place = DOMAIN s.place \cup {ItemOf(e)}
  PROVE  BridgeInv(b, Append(R, e), t, V, "no")
<1> DEFINE Q == Append(R, e)
<1>1. /\ b \in Bridges /\ R \in Seq(Event) /\ s \in BridgeState /\ W \in Seq(Mark) /\ Sound(b, W)
      /\ Telling(b, R, s, W) /\ e \in Event
  BY DEF Ready, BridgeInv, BridgeTypes
<1>2. /\ ~s.ended /\ Said(W, "stop") = {} /\ Said(W, "close") = {} /\ Said(W, "usage") = {}
      /\ b # "openai" => Said(W, "end") = {}
      /\ b = "responses" => s.closed = {}
      /\ "finish" \notin KindsOf(R) /\ "error" \notin KindsOf(R) /\ "done" \notin KindsOf(R)
  BY Live
<1>3. /\ Q \in Seq(Event) /\ KindsOf(Q) = KindsOf(R) \cup {e.kind}
      /\ s.usage = LatestUsage(Q) /\ s.usage <= Len(Q)
      /\ \A x : GivenOf(Q, x) = GivenOf(R, x) \o GivenIn(e, x)
  BY AfterRead
<1>4. "finish" \notin KindsOf(Q) /\ "error" \notin KindsOf(Q) /\ "done" \notin KindsOf(Q)
  BY <1>2, <1>3
<1>5. /\ Sound(b, V) /\ V \in Seq(Mark) /\ Placing(b, t, V) /\ Said(V, "start") # {}
      /\ Said(V, "stop") = {} /\ Said(V, "close") = {} /\ Said(V, "usage") = {}
      /\ b # "openai" => Said(V, "end") = {}
  BY <1>2 DEF Filled, Grows
<1> HIDE DEF Q
<1>6. BridgeTypes(b, Q, t, V)
  BY <1>1, <1>3, <1>5 DEF BridgeTypes
<1>7. Phases(b, Q, t, V, "no")
  BY <1>2, <1>4, <1>5 DEF Phases
<1>8. Ledger(b, Q, t, V)
  BY <1>3, <1>5 DEF Ledger
<1>9. Telling(b, Q, t, V)
  <2> SUFFICES ASSUME NEW x \in Items
               PROVE  /\ Pieces(V, x) = IF HeldBack(b, Q, x) THEN <<>> ELSE GivenOf(Q, x)
                      /\ b = "responses" => /\ t.kept[x] = GivenOf(Q, x)
                                            /\ t.kept[x] # <<>> => x \in DOMAIN t.place
    BY DEF Telling
  <2> DEFINE r == GivenOf(R, x)
             q == GivenOf(Q, x)
             g == GivenIn(e, x)
  <2>1. q = r \o g /\ r \in Seq(Nat) /\ g \in Seq(Nat)
    BY <1>1, <1>3, GivenRead, GivenParts
  <2>2. Pieces(V, x) = Pieces(W, x) \o (IF b = "responses" /\ x \in Custom THEN <<>> ELSE g)
    BY Zenon DEF Filled
  <2>3. Pieces(W, x) = IF HeldBack(b, R, x) THEN <<>> ELSE r
    BY <1>1 DEF Telling
  <2>4. (HeldBack(b, R, x) <=> b = "responses" /\ x \in Custom) /\ (HeldBack(b, Q, x) <=> b = "responses" /\ x \in Custom)
    BY <1>2, <1>4 DEF HeldBack
  <2>5. g = IF x = ItemOf(e) /\ e.piece # 0 THEN <<e.piece>> ELSE <<>>
    BY GivenPiece
  <2> HIDE DEF r, q, g
  <2>6. Pieces(V, x) = IF HeldBack(b, Q, x) THEN <<>> ELSE q
    <3>1. CASE b = "responses" /\ x \in Custom
      <4>1. Pieces(W, x) = <<>> /\ Pieces(V, x) = Pieces(W, x) \o <<>>
        BY <2>2, <2>3, <2>4, <3>1
      <4>2. QED
        BY <2>4, <3>1, <4>1
    <3>2. CASE ~(b = "responses" /\ x \in Custom)
      <4>1. Pieces(W, x) = r /\ Pieces(V, x) = Pieces(W, x) \o g
        BY <2>2, <2>3, <2>4, <3>2
      <4>2. QED
        BY <2>1, <2>4, <3>2, <4>1
    <3>3. QED
      BY <3>1, <3>2
  <2>7. ASSUME b = "responses"
        PROVE  t.kept[x] = q /\ (t.kept[x] # <<>> => x \in DOMAIN t.place)
    <3>1. s.kept[x] = r /\ (s.kept[x] # <<>> => x \in DOMAIN s.place)
      BY <1>1, <2>7 DEF Telling, r
    <3>2. s.kept \in [Items -> Seq(Nat)]
      BY <1>1 DEF BridgeState
    <3>3. t.kept = [s.kept EXCEPT ![ItemOf(e)] = s.kept[ItemOf(e)] \o IF e.piece = 0 THEN <<>> ELSE <<e.piece>>]
      BY <2>7 DEF Kept
    <3>4. CASE x = ItemOf(e)
      <4>1. t.kept[x] = r \o IF e.piece = 0 THEN <<>> ELSE <<e.piece>>
        BY <3>1, <3>2, <3>3, <3>4
      <4>2. (IF e.piece = 0 THEN <<>> ELSE <<e.piece>>) = g
        BY <2>5, <3>4
      <4>3. x \in DOMAIN t.place
        BY <2>7, <3>4
      <4>4. t.kept[x] = r \o g
        BY <4>1, <4>2
      <4>5. QED
        BY <2>1, <4>3, <4>4
    <3>5. CASE x # ItemOf(e)
      <4>1. t.kept[x] = s.kept[x] /\ g = <<>>
        BY <2>5, <3>2, <3>3, <3>5
      <4>2. q = r
        BY <2>1, <4>1
      <4>3. QED
        BY <2>7, <3>1, <4>1, <4>2
    <3>6. QED
      BY <3>4, <3>5
  <2>8. QED
    BY <2>6, <2>7 DEF q
<1>10. QED
  BY <1>5, <1>6, <1>7, <1>8, <1>9 DEF BridgeInv, Q

(* A step that tells the client nothing of an item.                          *)
Unfilled(b, W, V) ==
  /\ Sound(b, V) /\ Grows(W, V, {"start", "end"}) /\ Said(V, "start") # {}
  /\ b # "openai" => Said(V, "end") = Said(W, "end")
  /\ \A x : Pieces(V, x) = Pieces(W, x)

LEMMA EndedThen ==
  ASSUME NEW b, NEW R, NEW s, NEW W, NEW e, Ready(b, R, s, W, e), s.ended, e.kind # "done"
  PROVE  b = "anthropic" /\ e.kind = "usage" /\ s.started /\ "finish" \in KindsOf(R)
<1>1. "done" \notin KindsOf(R) /\ "error" \notin KindsOf(R)
      /\ ("finish" \in KindsOf(R) => e.kind \in {"usage", "done"})
  BY DEF Ready, MaySendIn
<1>2. Phases(b, R, s, W, "no")
  BY DEF Ready, BridgeInv
<1>3. b = "anthropic" /\ "finish" \in KindsOf(R)
  BY <1>1, <1>2 DEF Phases
<1>4. QED
  BY <1>1, <1>2, <1>3 DEF Phases

LEMMA UnfilledAnnounces ==
  ASSUME NEW b, NEW R, NEW s, NEW W, NEW e, Ready(b, R, s, W, e), b # "openai", e.kind # "done"
  PROVE  Unfilled(b, W, W \o Announce(s))
<1>1. /\ W \in Seq(Mark) /\ Sound(b, W) /\ Phases(b, R, s, W, "no") /\ s.started \in BOOLEAN
      /\ s.ended \in BOOLEAN
  BY DEF Ready, BridgeInv, BridgeTypes, BridgeState
<1>2. s.started => Said(W, "start") # {}
  BY <1>1 DEF Phases
<1>3. CASE s.ended
  <2>1. s.started
    BY <1>3, EndedThen
  <2>2. Announce(s) = <<>> /\ W \o <<>> = W
    BY <1>1, <2>1 DEF Announce
  <2>3. Grows(W, W, {"start", "end"})
    BY <1>1 DEF Grows
  <2>4. QED
    BY <1>1, <1>2, <2>1, <2>2, <2>3 DEF Unfilled
<1>4. CASE ~s.ended
  <2>1. Said(W, "stop") = {}
    BY <1>1, <1>4 DEF Phases
  <2> DEFINE V == W \o Announce(s)
  <2>2. /\ Sound(b, V) /\ Said(V, "start") # {} /\ Grows(W, V, {"start"})
        /\ \A item : Pieces(V, item) = Pieces(W, item)
    BY <1>1, <1>2, <2>1, AnnounceStep
  <2> HIDE DEF V
  <2>3. Grows(W, V, {"start", "end"}) /\ Said(V, "end") = Said(W, "end")
    BY <2>2 DEF Grows
  <2>4. Unfilled(b, W, V)
    BY <2>2, <2>3 DEF Unfilled
  <2>5. QED
    BY <2>4 DEF V
<1>5. QED
  BY <1>1, <1>3, <1>4

LEMMA UnfilledOpenAI ==
  ASSUME NEW R, NEW s, NEW W, NEW e, Ready("openai", R, s, W, e), e.kind \in {"start", "usage", "finish"}, NEW D,
         e.kind = "start" => D = <<[out |-> "start"]>>, e.kind = "usage" => D = <<>>,
         e.kind = "finish" => D = <<[out |-> "end", reason |-> e.reason]>>
  PROVE  Unfilled("openai", W, W \o D)
<1>1. /\ W \in Seq(Mark) /\ Sound("openai", W) /\ Phases("openai", R, s, W, "no") /\ e \in Event
      /\ MaySendIn("openai", R, e) /\ s.ended \in BOOLEAN
  BY DEF Ready, BridgeInv, BridgeTypes, BridgeState
<1>2. ~s.ended /\ Said(W, "stop") = {}
  <2>1. ~s.ended
    BY EndedThen, <1>1
  <2>2. QED
    BY <1>1, <2>1 DEF Phases
<1>3. e.kind # "start" => Said(W, "start") # {}
  <2>1. e.kind # "start" => R # <<>> /\ "error" \notin KindsOf(R)
    BY <1>1 DEF MaySendIn
  <2>2. QED
    BY <1>1, <2>1 DEF Phases
<1>4. CASE e.kind = "usage"
  <2>1. W \o D = W
    BY <1>1, <1>4
  <2>2. Grows(W, W, {"start", "end"})
    BY <1>1 DEF Grows
  <2>3. QED
    BY <1>1, <1>3, <1>4, <2>1, <2>2 DEF Unfilled
<1>5. ASSUME NEW m \in Mark, m.out \in {"start", "end"}, D = <<m>>, m.out = "end" => Said(W, "start") # {}
      PROVE  Unfilled("openai", W, W \o D)
  <2>1. Fits("openai", W, m)
    BY <1>2, <1>5 DEF Fits
  <2>2. Sound("openai", W \o D)
    BY <1>1, <1>5, <2>1, SoundOne
  <2>3. D \in Seq(Mark) /\ \A k : Said(D, k) = {x \in {m} : x.out = k}
    BY <1>5, SaidShort
  <2> DEFINE V == W \o D
  <2>4. Grows(W, V, {"start", "end"})
    <3>1. \A k : k \notin {"start", "end"} => Said(D, k) = {}
      BY <1>5, <2>3
    <3>2. D \in Seq(Mark)
      BY <2>3
    <3>3. QED
      BY <1>1, <3>1, <3>2, GrowsBy
  <2>5. \A x : Pieces(V, x) = Pieces(W, x)
    <3>1. Said(D, "delta") = {} /\ Said(D, "whole") = {}
      BY <1>5, <2>3
    <3>2. D \in Seq(Mark)
      BY <2>3
    <3>3. QED
      BY <1>1, <3>1, <3>2, PiecesSame
  <2>6. Said(V, "start") # {}
    <3>1. Said(W, "start") # {} \/ Said(D, "start") # {}
      BY <1>5, <2>3
    <3>2. D \in Seq(Mark)
      BY <2>3
    <3>3. Said(V, "start") = Said(W, "start") \cup Said(D, "start")
      BY <1>1, <3>2, SaidJoined
    <3>4. QED
      BY <3>1, <3>3
  <2> HIDE DEF V
  <2>7. Unfilled("openai", W, V)
    BY <2>2, <2>4, <2>5, <2>6 DEF Unfilled, V
  <2>8. QED
    BY <2>7 DEF V
<1>6. CASE e.kind = "start"
  <2>1. [out |-> "start"] \in Mark
    BY DEF Mark
  <2>2. QED
    BY <1>5, <1>6, <2>1
<1>7. CASE e.kind = "finish"
  <2>1. e.reason \in Reasons
    BY <1>1, <1>7 DEF Event
  <2>2. [out |-> "end", reason |-> e.reason] \in Mark
    BY <2>1 DEF Mark, EndReasons
  <2>3. QED
    BY <1>3, <1>5, <1>7, <2>2
<1>8. QED
  BY <1>4, <1>6, <1>7

LEMMA UnfilledKeeps ==
  ASSUME NEW b, NEW R, NEW s, NEW W, NEW e, NEW t \in BridgeState, NEW V, Ready(b, R, s, W, e),
         e.kind \in {"start", "usage", "error", "finish"}, Unfilled(b, W, V),
         e.kind = "error" => b = "responses", e.kind = "finish" => b = "openai",
         t.ended = s.ended, t.place = s.place, t.closed = s.closed, t.kept = s.kept, t.usage = Merged(s, e),
         s.started => t.started
  PROVE  BridgeInv(b, Append(R, e), t, V, "no")
<1> DEFINE Q == Append(R, e)
<1>1. /\ b \in Bridges /\ R \in Seq(Event) /\ s \in BridgeState /\ W \in Seq(Mark) /\ Sound(b, W) /\ e \in Event
      /\ IsFiniteSet(DOMAIN s.place) /\ Phases(b, R, s, W, "no") /\ Placing(b, s, W) /\ Telling(b, R, s, W)
      /\ Ledger(b, R, s, W) /\ s.ended \in BOOLEAN
  BY DEF Ready, BridgeInv, BridgeTypes, BridgeState
<1>2. /\ Q \in Seq(Event) /\ KindsOf(Q) = KindsOf(R) \cup {e.kind}
      /\ t.usage = LatestUsage(Q) /\ t.usage <= Len(Q)
      /\ \A x : GivenOf(Q, x) = GivenOf(R, x)
  BY AfterRead
<1>3. s.ended => b = "anthropic" /\ e.kind = "usage" /\ s.started /\ "finish" \in KindsOf(R)
  BY EndedThen
<1>4. /\ Sound(b, V) /\ V \in Seq(Mark) /\ Said(V, "start") # {}
      /\ Said(V, "stop") = Said(W, "stop") /\ Said(V, "close") = Said(W, "close")
      /\ Said(V, "open") = Said(W, "open") /\ Said(V, "usage") = Said(W, "usage")
      /\ (TextLate(W) => TextLate(V))
      /\ (b # "openai" => Said(V, "end") = Said(W, "end"))
      /\ \A x : Pieces(V, x) = Pieces(W, x)
  BY DEF Unfilled, Grows
<1>5. "finish" \in KindsOf(R) =>
        UsageIn(Q, MarkAt(Q, "finish")) = UsageIn(R, MarkAt(R, "finish")) \/ e.kind = "finish"
  BY <1>1, UsageAtRead
<1> HIDE DEF Q
<1>6. BridgeTypes(b, Q, t, V)
  BY <1>1, <1>2, <1>4 DEF BridgeTypes
<1>7. Phases(b, Q, t, V, "no")
  <2>1. "done" \notin KindsOf(R)
    BY DEF Ready, MaySendIn
  <2>2. ("finish" \in KindsOf(Q) <=> "finish" \in KindsOf(R) \/ e.kind = "finish")
        /\ ("error" \in KindsOf(Q) <=> "error" \in KindsOf(R) \/ e.kind = "error")
        /\ "done" \notin KindsOf(Q)
    BY <1>2, <2>1
  <2>3. Phases(b, R, s, W, "no")
    BY <1>1
  <2>4. QED
    BY <1>3, <1>4, <2>2, <2>3 DEF Phases
<1>8. Placing(b, t, V)
  BY <1>1, <1>4 DEF Placing, Opens
<1>9. Telling(b, Q, t, V)
  <2>1. \A x : HeldBack(b, Q, x) <=> HeldBack(b, R, x)
    BY <1>2 DEF HeldBack
  <2>2. QED
    BY <1>1, <1>2, <1>4, <2>1 DEF Telling
<1>10. Ledger(b, Q, t, V)
  <2>1. b # "openai" /\ Said(V, "end") # {} => t.ended
    BY <1>1, <1>4 DEF Ledger
  <2>2. Said(V, "usage") # {} => t.ended
    BY <1>1, <1>4 DEF Ledger
  <2>3. ASSUME b = "anthropic"
        PROVE  /\ t.ended => \A x \in DOMAIN t.place : \E m \in Said(V, "close") : x \in m.items
               /\ \A m \in Said(V, "end") : m.usage = UsageIn(Q, MarkAt(Q, "finish"))
    <3>1. /\ s.ended => \A x \in DOMAIN s.place : \E m \in Said(W, "close") : x \in m.items
          /\ \A m \in Said(W, "end") : m.usage = UsageIn(R, MarkAt(R, "finish"))
          /\ Said(W, "end") # {} => s.ended
      BY <1>1, <2>3 DEF Ledger
    <3>2. Said(W, "end") # {} => UsageIn(Q, MarkAt(Q, "finish")) = UsageIn(R, MarkAt(R, "finish"))
      BY <1>3, <1>5, <3>1
    <3>3. QED
      BY <1>4, <2>3, <3>1, <3>2
  <2>4. b # "anthropic" => ~t.ended
    BY <1>3
  <2>5. QED
    BY <1>2, <2>1, <2>2, <2>3, <2>4 DEF Ledger
<1>11. QED
  BY <1>4, <1>6, <1>7, <1>8, <1>9, <1>10 DEF BridgeInv, Q

(* The last marks, after an announcement or an error, and nothing of an item. *)
Led(b, W, V) ==
  Sound(b, V) /\ Grows(W, V, {"start", "error"}) /\ \A x : Pieces(V, x) = Pieces(W, x)

LEMMA LedBy ==
  ASSUME NEW b, NEW W \in Seq(Mark), Sound(b, W), Said(W, "stop") = {}
  PROVE  /\ Led(b, W, W) /\ Led(b, W, W \o <<[out |-> "error"]>>) /\ <<[out |-> "error"]>> \in Seq(Mark)
         /\ \A s : s.started \in BOOLEAN /\ (s.started => Said(W, "start") # {}) =>
              /\ Led(b, W, W \o Announce(s)) /\ Said(W \o Announce(s), "start") # {}
              /\ Announce(s) \in Seq(Mark)
<1>1. Led(b, W, W)
  BY DEF Led, Grows
<1>2. ASSUME NEW s, s.started \in BOOLEAN, s.started => Said(W, "start") # {}
      PROVE  Led(b, W, W \o Announce(s)) /\ Said(W \o Announce(s), "start") # {} /\ Announce(s) \in Seq(Mark)
  <2> DEFINE V == W \o Announce(s)
  <2>1. /\ Sound(b, V) /\ Said(V, "start") # {} /\ Grows(W, V, {"start"}) /\ Announce(s) \in Seq(Mark)
        /\ \A item : Pieces(V, item) = Pieces(W, item)
    BY <1>2, AnnounceStep
  <2> HIDE DEF V
  <2>2. Led(b, W, V)
    BY <2>1 DEF Led, Grows
  <2>3. QED
    BY <2>1, <2>2 DEF V
<1>3. Led(b, W, W \o <<[out |-> "error"]>>) /\ <<[out |-> "error"]>> \in Seq(Mark)
  <2> DEFINE m == [out |-> "error"]
             D == <<m>>
             V == W \o D
  <2>1. m \in Mark /\ m.out = "error"
    BY DEF Mark
  <2> HIDE DEF m
  <2>2. D \in Seq(Mark) /\ \A k : Said(D, k) = {x \in {m} : x.out = k}
    BY <2>1, SaidShort
  <2>3. Fits(b, W, m)
    BY <2>1 DEF Fits
  <2>4. Sound(b, V)
    BY <2>3, SoundOne
  <2>5. Said(D, "delta") = {} /\ Said(D, "whole") = {} /\ \A k : k \notin {"start", "error"} => Said(D, k) = {}
    BY <2>1, <2>2
  <2>6. D \in Seq(Mark)
    BY <2>2
  <2> HIDE DEF D
  <2>7. Grows(W, V, {"start", "error"})
    BY <2>5, <2>6, GrowsBy
  <2>8. \A x : Pieces(V, x) = Pieces(W, x)
    BY <2>5, <2>6, PiecesSame
  <2> HIDE DEF V
  <2>9. Led(b, W, V)
    BY <2>4, <2>7, <2>8 DEF Led
  <2>10. QED
    BY <2>6, <2>9 DEF V, D, m
<1>4. QED
  BY <1>1, <1>2, <1>3

(* What is told at the end of a stream.                                      *)
LastMarks(b, s, F) ==
  /\ F \in Seq(Mark) /\ Content(F) = {} /\ StopsLast(F) /\ Said(F, "stop") # {}
  /\ Said(F, "start") = {} /\ Said(F, "error") = {}
  /\ b = "anthropic" => /\ \E m \in Said(F, "close") : m.items = DOMAIN s.place
                        /\ \A m \in Said(F, "end") : m.usage = s.usage
  /\ b # "anthropic" => Said(F, "close") = {}
  /\ b = "openai" => /\ Said(F, "usage") = {} => s.usage = 0
                     /\ \A m \in Said(F, "usage") : m.usage = s.usage
  /\ b = "responses" => \A m \in Said(F, "end") : m.usage = s.usage /\ m.content = s.kept

Closes(b, s, W, V) ==
  /\ Sound(b, V) /\ Grows(W, V, {"start", "error", "close", "end", "usage", "stop"}) /\ Said(V, "stop") # {}
  /\ \A x : Pieces(V, x) = Pieces(W, x)
  /\ b = "anthropic" => /\ \E m \in Said(V, "close") : m.items = DOMAIN s.place
                        /\ \A m \in Said(V, "end") : m.usage = s.usage
  /\ b # "anthropic" => Said(V, "close") = Said(W, "close")
  /\ b = "openai" => /\ Said(V, "usage") = {} => s.usage = 0
                     /\ \A m \in Said(V, "usage") : m.usage = s.usage
  /\ b = "responses" => \A m \in Said(V, "end") : m.usage = s.usage /\ m.content = s.kept

LEMMA ClosesBy ==
  ASSUME NEW b, NEW s, NEW W, NEW U, NEW F, Led(b, W, U), LastMarks(b, s, F), Said(W, "stop") = {},
         b # "openai" => Said(W, "end") = {}, Said(W, "usage") = {}
  PROVE  Closes(b, s, W, U \o F)
<1> DEFINE V == U \o F
<1>1. U \in Seq(Mark) /\ F \in Seq(Mark) /\ Sound(b, U) /\ Said(U, "stop") = {}
      /\ (b # "openai" => Said(U, "end") = {}) /\ Said(U, "usage") = {} /\ Said(U, "close") = Said(W, "close")
  BY DEF Led, Grows, LastMarks
<1>2. Sound(b, V)
  BY <1>1, SoundEnd DEF LastMarks
<1>3. Said(F, "delta") = {} /\ Said(F, "whole") = {} /\ Said(F, "open") = {}
  <2>1. \A k : Marks(F, k) = {} => Said(F, k) = {}
    BY DEF Said
  <2>2. Marks(F, "delta") = {} /\ Marks(F, "whole") = {} /\ Marks(F, "open") = {}
    BY DEF LastMarks, Content
  <2>3. QED
    BY <2>1, <2>2
<1>4. \A x : Pieces(V, x) = Pieces(U, x)
  BY <1>1, <1>3, PiecesSame
<1>5. \A k : Said(V, k) = Said(U, k) \cup Said(F, k)
  BY <1>1, SaidJoined
<1>6. (TextLate(U) => TextLate(V)) /\ V \in Seq(Mark)
  BY <1>1, TextLateJoined
<1> HIDE DEF V
<1>7. \A k : Said(F, k) # {} => k \in {"start", "error", "close", "end", "usage", "stop"}
  <2>1. \A k : \A m \in Said(F, k) : m \in Mark /\ m.out = k
    BY <1>1, SaidJoined
  <2>2. \A m \in Mark : m.out \in {"start", "error", "stop", "open", "delta", "whole", "close", "usage", "end"}
    BY DEF Mark
  <2>3. QED
    BY <1>3, <2>1, <2>2
<1>8. Grows(W, V, {"start", "error", "close", "end", "usage", "stop"})
  <2>1. /\ \A k : k \notin {"start", "error"} => Said(U, k) = Said(W, k)
        /\ \A k : Said(W, k) \subseteq Said(U, k)
        /\ TextLate(W) => TextLate(U)
    BY DEF Grows, Led
  <2>2. \A k : k \notin {"start", "error", "close", "end", "usage", "stop"} => Said(V, k) = Said(W, k)
    <3>1. ASSUME NEW k, k \notin {"start", "error", "close", "end", "usage", "stop"}
          PROVE  Said(V, k) = Said(W, k)
      <4>1. Said(V, k) = Said(U, k) \cup Said(F, k)
        BY <1>5
      <4>2. Said(F, k) = {} /\ Said(U, k) = Said(W, k)
        BY <1>7, <2>1, <3>1
      <4>3. QED
        BY <4>1, <4>2
    <3>2. QED
      BY <3>1
  <2>3. \A k : Said(W, k) \subseteq Said(V, k)
    BY <1>5, <2>1
  <2>4. QED
    BY <1>6, <2>1, <2>2, <2>3 DEF Grows
<1>9. Said(V, "stop") # {}
  BY <1>5 DEF LastMarks
<1>10. \A x : Pieces(V, x) = Pieces(W, x)
  BY <1>4 DEF Led
<1>11. /\ Said(V, "close") = Said(W, "close") \cup Said(F, "close") /\ Said(V, "usage") = Said(F, "usage")
       /\ b # "openai" => Said(V, "end") = Said(F, "end")
  BY <1>1, <1>5
<1>12. Closes(b, s, W, V)
  BY <1>2, <1>8, <1>9, <1>10, <1>11 DEF Closes, LastMarks
<1>13. QED
  BY <1>12 DEF V

LEMMA PairIs ==
  ASSUME NEW l, NEW m
  PROVE  <<l>> \o <<m>> = <<l, m>>
<1> DEFINE S == {l, m}
           x == <<l>> \o <<m>>
<1>1. <<l>> \in Seq(S) /\ <<m>> \in Seq(S)
  OBVIOUS
<1>2. x \in Seq(S) /\ Len(x) = 2 /\ x[1] = l /\ x[2] = m
  BY <1>1
<1> HIDE DEF x
<1>3. x = <<l, m>>
  BY <1>2
<1>4. QED
  BY <1>3 DEF x

LEMMA LastMarksAre ==
  ASSUME NEW s \in BridgeState, ~s.ended
  PROVE  /\ \A reason \in EndReasons : LastMarks("anthropic", s, finalizeAnthropic(s, reason))
         /\ LastMarks("openai", s, emitDone(s))
         /\ LastMarks("responses", s, buildFinalResponse(s))
<1>1. s.usage \in Nat /\ DOMAIN s.place \in SUBSET Items /\ s.kept \in [Items -> Seq(Nat)]
  <2>1. PICK C \in SUBSET Items : s.place \in [C -> Nat]
    BY DEF BridgeState
  <2>2. QED
    BY <2>1 DEF BridgeState
<1> DEFINE stop == [out |-> "stop"]
<1>2. stop \in Mark /\ stop.out = "stop"
  BY DEF Mark
<1> HIDE DEF stop
<1>3. ASSUME NEW F, \A k \in {"open", "delta", "whole"} : Said(F, k) = {}
      PROVE  Content(F) = {}
  <2>1. \A k : Said(F, k) = {} => Marks(F, k) = {}
    BY DEF Said
  <2>2. QED
    BY <1>3, <2>1 DEF Content
<1>4. ASSUME NEW reason \in EndReasons
      PROVE  LastMarks("anthropic", s, finalizeAnthropic(s, reason))
  <2> DEFINE close == [out |-> "close", items |-> DOMAIN s.place]
             end == [out |-> "end", reason |-> reason, usage |-> s.usage]
             F == <<close, end, stop>>
  <2>1. close \in Mark /\ close.out = "close" /\ close.items = DOMAIN s.place
    BY <1>1 DEF Mark
  <2>2. end \in Mark /\ end.out = "end" /\ end.usage = s.usage
    BY <1>1 DEF Mark
  <2>3. finalizeAnthropic(s, reason) = F
    BY DEF finalizeAnthropic, stop
  <2> HIDE DEF close, end
  <2>4. F \in Seq(Mark) /\ Len(F) = 3 /\ DOMAIN F = 1..3 /\ F[1] = close /\ F[2] = end /\ F[3] = stop
    BY <1>2, <2>1, <2>2
  <2>5. \A k : Said(F, k) = {x \in {close, end, stop} : x.out = k}
    BY SaidShort
  <2> HIDE DEF F
  <2>6. StopsLast(F)
    BY <1>2, <2>1, <2>2, <2>4 DEF StopsLast, Marks
  <2>7. Said(F, "stop") = {stop} /\ Said(F, "close") = {close} /\ Said(F, "end") = {end}
        /\ Said(F, "start") = {} /\ Said(F, "error") = {}
    BY <1>2, <2>1, <2>2, <2>5
  <2>8. Content(F) = {}
    BY <1>2, <1>3, <2>1, <2>2, <2>5
  <2>9. LastMarks("anthropic", s, F)
    BY <2>1, <2>2, <2>4, <2>6, <2>7, <2>8 DEF LastMarks
  <2>10. QED
    BY <2>3, <2>9
<1>5. LastMarks("openai", s, emitDone(s))
  <2> DEFINE usage == [out |-> "usage", usage |-> s.usage]
             F == emitDone(s)
  <2>1. usage \in Mark /\ usage.out = "usage" /\ usage.usage = s.usage
    BY <1>1 DEF Mark
  <2>2. F = IF s.usage = 0 THEN <<stop>> ELSE <<usage, stop>>
    <3>1. F = (IF s.usage = 0 THEN <<>> ELSE <<usage>>) \o <<stop>>
      BY DEF emitDone, stop
    <3> HIDE DEF F, usage
    <3>2. CASE s.usage = 0
      BY <3>1, <3>2
    <3>3. CASE s.usage # 0
      <4>1. F = <<usage>> \o <<stop>>
        BY <3>1, <3>3
      <4>2. <<usage>> \o <<stop>> = <<usage, stop>>
        BY PairIs
      <4>3. QED
        BY <3>3, <4>1, <4>2
    <3>4. QED
      BY <3>2, <3>3
  <2> HIDE DEF F, usage
  <2>3. CASE s.usage = 0
    <3>1. F = <<stop>> /\ F \in Seq(Mark) /\ Len(F) = 1 /\ DOMAIN F = 1..1 /\ F[1] = stop
      BY <1>2, <2>2, <2>3
    <3>2. \A k : Said(F, k) = {x \in {stop} : x.out = k}
      BY <3>1, SaidShort
    <3>3. StopsLast(F)
      BY <3>1 DEF StopsLast, Marks
    <3>4. Said(F, "stop") = {stop} /\ Said(F, "close") = {} /\ Said(F, "usage") = {}
          /\ Said(F, "start") = {} /\ Said(F, "error") = {}
      BY <1>2, <3>2
    <3>5. Content(F) = {}
      BY <1>2, <1>3, <3>2
    <3>6. QED
      BY <2>3, <3>1, <3>3, <3>4, <3>5 DEF LastMarks, F
  <2>4. CASE s.usage # 0
    <3>1. F = <<usage, stop>> /\ F \in Seq(Mark) /\ Len(F) = 2 /\ DOMAIN F = 1..2 /\ F[1] = usage /\ F[2] = stop
      BY <1>2, <2>1, <2>2, <2>4
    <3>2. \A k : Said(F, k) = {x \in {usage, stop} : x.out = k}
      BY <3>1, SaidShort
    <3>3. StopsLast(F)
      BY <1>2, <2>1, <3>1 DEF StopsLast, Marks
    <3>4. Said(F, "stop") = {stop} /\ Said(F, "close") = {} /\ Said(F, "usage") = {usage}
          /\ Said(F, "start") = {} /\ Said(F, "error") = {}
      BY <1>2, <2>1, <3>2
    <3>5. Content(F) = {}
      BY <1>2, <1>3, <2>1, <3>2
    <3>6. QED
      BY <2>1, <3>1, <3>3, <3>4, <3>5 DEF LastMarks, F
  <2>5. QED
    BY <2>3, <2>4 DEF F
<1>6. LastMarks("responses", s, buildFinalResponse(s))
  <2> DEFINE end == [out |-> "end", reason |-> "completed", usage |-> s.usage,
                     items |-> DOMAIN s.place, content |-> s.kept]
             F == <<end, stop>>
  <2>1. end \in Mark /\ end.out = "end" /\ end.usage = s.usage /\ end.content = s.kept
    <3>1. "completed" \in EndReasons
      BY DEF EndReasons
    <3>2. QED
      BY <1>1, <3>1 DEF Mark
  <2>2. buildFinalResponse(s) = F
    BY DEF buildFinalResponse, stop
  <2> HIDE DEF end
  <2>3. F \in Seq(Mark) /\ Len(F) = 2 /\ DOMAIN F = 1..2 /\ F[1] = end /\ F[2] = stop
    BY <1>2, <2>1
  <2>4. \A k : Said(F, k) = {x \in {end, stop} : x.out = k}
    BY SaidShort
  <2> HIDE DEF F
  <2>5. StopsLast(F)
    BY <1>2, <2>1, <2>3 DEF StopsLast, Marks
  <2>6. Said(F, "stop") = {stop} /\ Said(F, "close") = {} /\ Said(F, "end") = {end}
        /\ Said(F, "start") = {} /\ Said(F, "error") = {}
    BY <1>2, <2>1, <2>4
  <2>7. Content(F) = {}
    BY <1>2, <1>3, <2>1, <2>4
  <2>8. LastMarks("responses", s, F)
    BY <2>1, <2>3, <2>5, <2>6, <2>7 DEF LastMarks
  <2>9. QED
    BY <2>2, <2>8
<1>7. QED
  BY <1>4, <1>5, <1>6

(* The read events when the bridge writes its last marks.                    *)
Over(b, R, s, t, Q, o) ==
  /\ Q \in Seq(Event) /\ KindsOf(R) \subseteq KindsOf(Q)
  /\ b = "responses" => ("finish" \in KindsOf(Q) <=> "finish" \in KindsOf(R))
  /\ \A x : GivenOf(Q, x) = GivenOf(R, x)
  /\ LatestUsage(Q) = s.usage /\ s.usage <= Len(Q)
  /\ b = "anthropic" => UsageIn(Q, MarkAt(Q, "finish")) = s.usage
  /\ b = "openai" => UsageIn(Q, MarkAt(Q, "error")) = s.usage
  /\ \/ o = "eof" \/ "done" \in KindsOf(Q)
     \/ b # "responses" /\ "error" \in KindsOf(Q)
     \/ b = "anthropic" /\ "finish" \in KindsOf(Q)
  /\ b = "anthropic" /\ "finish" \in KindsOf(Q) => t.started
  /\ b = "openai" /\ Q # <<>> => R # <<>> \/ "error" \in KindsOf(Q)

LEMMA EndKeeps ==
  ASSUME NEW b, NEW R, NEW s, NEW W, NEW t \in BridgeState, NEW V, NEW Q, NEW o,
         BridgeInv(b, R, s, W, "no"), ~s.ended, Over(b, R, s, t, Q, o), Closes(b, s, W, V),
         t.ended, t.place = s.place, t.closed = s.closed, t.kept = s.kept, t.usage = s.usage,
         t.started => Said(V, "start") # {}
  PROVE  BridgeInv(b, Q, t, V, o)
<1>1. /\ b \in Bridges /\ s \in BridgeState /\ W \in Seq(Mark) /\ IsFiniteSet(DOMAIN s.place)
      /\ Phases(b, R, s, W, "no") /\ Placing(b, s, W) /\ Telling(b, R, s, W) /\ Ledger(b, R, s, W)
  BY DEF BridgeInv, BridgeTypes
<1>2. /\ V \in Seq(Mark) /\ Sound(b, V) /\ Said(V, "stop") # {} /\ Said(V, "open") = Said(W, "open")
      /\ Said(W, "start") \subseteq Said(V, "start") /\ (TextLate(W) => TextLate(V))
      /\ \A x : Pieces(V, x) = Pieces(W, x)
  BY DEF Closes, Grows
<1>3. BridgeTypes(b, Q, t, V)
  BY <1>1, <1>2 DEF BridgeTypes, Over
<1>4. Phases(b, Q, t, V, o)
  <2>1. b = "openai" /\ Q # <<>> => Said(V, "start") # {} \/ "error" \in KindsOf(Q)
    BY <1>1, <1>2 DEF Phases, Over
  <2>2. Said(V, "close") # {} => \/ b = "anthropic" /\ t.ended
                                 \/ b = "responses" /\ "finish" \in KindsOf(Q)
    <3>1. b # "anthropic" => Said(V, "close") = Said(W, "close")
      BY DEF Closes
    <3>2. Said(W, "close") # {} => b = "responses" /\ "finish" \in KindsOf(R)
      BY <1>1 DEF Phases
    <3>3. b = "responses" => ("finish" \in KindsOf(Q) <=> "finish" \in KindsOf(R))
      BY DEF Over
    <3>4. QED
      BY <3>1, <3>2, <3>3
  <2>3. b = "responses" /\ "finish" \notin KindsOf(Q) => t.closed = {}
    BY <1>1 DEF Phases, Over
  <2>4. /\ \/ o = "eof" \/ "done" \in KindsOf(Q)
           \/ b # "responses" /\ "error" \in KindsOf(Q)
           \/ b = "anthropic" /\ "finish" \in KindsOf(Q)
        /\ b = "anthropic" /\ "finish" \in KindsOf(Q) => t.started
    BY DEF Over
  <2>5. QED
    BY <1>2, <2>1, <2>2, <2>3, <2>4 DEF Phases
<1>5. Placing(b, t, V)
  BY <1>1, <1>2 DEF Placing, Opens
<1>6. Telling(b, Q, t, V)
  <2>1. \A x : HeldBack(b, Q, x) <=> HeldBack(b, R, x)
    BY DEF HeldBack, Over
  <2>2. \A x : GivenOf(Q, x) = GivenOf(R, x)
    BY DEF Over
  <2>3. QED
    BY <1>1, <1>2, <2>1, <2>2 DEF Telling
<1>7. Ledger(b, Q, t, V)
  <2>1. t.usage <= Len(Q) /\ t.usage = LatestUsage(Q)
    BY DEF Over
  <2>2. ASSUME b = "anthropic"
        PROVE  /\ \A x \in DOMAIN t.place : \E m \in Said(V, "close") : x \in m.items
               /\ \A m \in Said(V, "end") : m.usage = UsageIn(Q, MarkAt(Q, "finish"))
    BY <2>2 DEF Closes, Over
  <2>3. ASSUME b = "responses", NEW m \in Said(V, "end")
        PROVE  m.usage = LatestUsage(Q) /\ \A item \in Items : m.content[item] = GivenOf(Q, item)
    <3>1. m.usage = s.usage /\ m.content = s.kept
      BY <2>3 DEF Closes
    <3>2. \A item \in Items : s.kept[item] = GivenOf(Q, item)
      BY <1>1, <2>3 DEF Telling, Over
    <3>3. QED
      BY <2>1, <3>1, <3>2
  <2>4. ASSUME b = "openai"
        PROVE  IF Said(V, "usage") = {} THEN UsageIn(Q, MarkAt(Q, "error")) = 0
               ELSE \A m \in Said(V, "usage") : m.usage = UsageIn(Q, MarkAt(Q, "error"))
    BY <2>4 DEF Closes, Over
  <2>5. QED
    BY <2>1, <2>2, <2>3, <2>4 DEF Ledger
<1>8. QED
  BY <1>2, <1>3, <1>4, <1>5, <1>6, <1>7 DEF BridgeInv

(* Nothing more is said by a bridge that is done.                            *)
Later(R, Q) ==
  /\ Q \in Seq(Event) /\ KindsOf(R) \subseteq KindsOf(Q) /\ KindsOf(Q) \subseteq KindsOf(R) \cup {"done"}
  /\ \A x : GivenOf(Q, x) = GivenOf(R, x)
  /\ LatestUsage(Q) = LatestUsage(R) /\ \A n \in Nat : n <= Len(R) => n <= Len(Q)
  /\ UsageIn(Q, MarkAt(Q, "finish")) = UsageIn(R, MarkAt(R, "finish"))
  /\ UsageIn(Q, MarkAt(Q, "error")) = UsageIn(R, MarkAt(R, "error"))
  /\ "finish" \notin KindsOf(R) => UsageIn(Q, MarkAt(Q, "finish")) = LatestUsage(R)
  /\ "error" \notin KindsOf(R) => UsageIn(Q, MarkAt(Q, "error")) = LatestUsage(R)

LEMMA LaterBy ==
  ASSUME NEW R \in Seq(Event)
  PROVE  /\ Later(R, R)
         /\ \A e \in Event : e.kind = "done" => Later(R, Append(R, e))
<1>1. [kind |-> "done"] \in Event
  BY DEF Event
<1>2. ASSUME NEW e \in Event, e.kind = "done", NEW kind \in {"finish", "error"}
      PROVE  /\ UsageIn(Append(R, e), MarkAt(Append(R, e), kind)) = UsageIn(R, MarkAt(R, kind))
             /\ kind \notin KindsOf(R) => UsageIn(R, MarkAt(R, kind)) = LatestUsage(R)
  <2> DEFINE Q == Append(R, e)
  <2>1. Q \in Seq(Event) /\ KindsOf(Q) = KindsOf(R) \cup {"done"} /\ LatestUsage(Q) = LatestUsage(R)
    BY <1>2, EventRead, KindsRead, UsageRead
  <2>2. /\ kind \in KindsOf(R) => UsageIn(Q, MarkAt(Q, kind)) = UsageIn(R, MarkAt(R, kind))
        /\ kind \notin KindsOf(R) => UsageIn(R, MarkAt(R, kind)) = LatestUsage(R)
    BY <1>2, UsageAtRead
  <2> HIDE DEF Q
  <2>3. kind \notin KindsOf(R) => kind \notin KindsOf(Q)
    BY <1>2, <2>1
  <2>4. kind \notin KindsOf(Q) => UsageIn(Q, MarkAt(Q, kind)) = LatestUsage(Q)
    BY <2>1, <1>1, UsageAtRead
  <2>5. QED
    BY <2>1, <2>2, <2>3, <2>4 DEF Q
<1>3. ASSUME NEW e \in Event, e.kind = "done"
      PROVE  Later(R, Append(R, e))
  <2> DEFINE Q == Append(R, e)
  <2>1. /\ Q \in Seq(Event) /\ KindsOf(Q) = KindsOf(R) \cup {"done"} /\ LatestUsage(Q) = LatestUsage(R)
        /\ Len(Q) = Len(R) + 1 /\ Len(R) \in Nat
    BY <1>3, EventRead, KindsRead, UsageRead
  <2>2. ASSUME NEW x
        PROVE  GivenOf(Q, x) = GivenOf(R, x)
    <3>1. GivenIn(e, x) = <<>>
      BY <1>3 DEF GivenIn
    <3>2. GivenOf(Q, x) = GivenOf(R, x) \o <<>> /\ GivenOf(R, x) \in Seq(Nat)
      BY <3>1, GivenRead
    <3>3. QED
      BY <3>2
  <2>3. /\ UsageIn(Q, MarkAt(Q, "finish")) = UsageIn(R, MarkAt(R, "finish"))
        /\ UsageIn(Q, MarkAt(Q, "error")) = UsageIn(R, MarkAt(R, "error"))
        /\ "finish" \notin KindsOf(R) => UsageIn(R, MarkAt(R, "finish")) = LatestUsage(R)
        /\ "error" \notin KindsOf(R) => UsageIn(R, MarkAt(R, "error")) = LatestUsage(R)
    BY <1>2, <1>3
  <2> HIDE DEF Q
  <2>4. Later(R, Q)
    BY <2>1, <2>2, <2>3 DEF Later
  <2>5. QED
    BY <2>4 DEF Q
<1>4. Later(R, R)
  <2>1. /\ "finish" \notin KindsOf(R) => UsageIn(R, MarkAt(R, "finish")) = LatestUsage(R)
        /\ "error" \notin KindsOf(R) => UsageIn(R, MarkAt(R, "error")) = LatestUsage(R)
    BY <1>1, UsageAtRead
  <2>2. QED
    BY <2>1 DEF Later
<1>5. QED
  BY <1>3, <1>4

LEMMA SilentKeeps ==
  ASSUME NEW b, NEW R, NEW s, NEW W, NEW t \in BridgeState, NEW Q, NEW o,
         BridgeInv(b, R, s, W, "no"), s.ended, Later(R, Q), t.ended, t.started = s.started,
         t.place = s.place, t.closed = s.closed, t.kept = s.kept, t.usage = s.usage
  PROVE  BridgeInv(b, Q, t, W, o)
<1>1. /\ b \in Bridges /\ R \in Seq(Event) /\ s \in BridgeState /\ W \in Seq(Mark) /\ IsFiniteSet(DOMAIN s.place)
      /\ Sound(b, W) /\ Phases(b, R, s, W, "no") /\ Placing(b, s, W) /\ Telling(b, R, s, W) /\ Ledger(b, R, s, W)
  BY DEF BridgeInv, BridgeTypes
<1>2. \A k \in {"finish", "error"} : k \in KindsOf(Q) <=> k \in KindsOf(R)
  BY DEF Later
<1>3. BridgeTypes(b, Q, t, W)
  BY <1>1 DEF BridgeTypes, Later
<1>4. Phases(b, Q, t, W, o)
  <2>1. s.started => Said(W, "start") # {}
    BY <1>1 DEF Phases
  <2>2. b = "openai" /\ Q # <<>> => Said(W, "start") # {} \/ "error" \in KindsOf(Q)
    <3>1. b = "openai" => "done" \in KindsOf(R) \/ "error" \in KindsOf(R)
      BY <1>1 DEF Phases
    <3>2. KindsOf(R) # {} => R # <<>>
      BY DEF KindsOf
    <3>3. QED
      BY <1>1, <1>2, <3>1, <3>2 DEF Phases
  <2>3. /\ \/ o = "eof" \/ "done" \in KindsOf(Q)
           \/ b # "responses" /\ "error" \in KindsOf(Q)
           \/ b = "anthropic" /\ "finish" \in KindsOf(Q)
        /\ b = "anthropic" /\ "finish" \in KindsOf(Q) => t.started
    BY <1>1, <1>2 DEF Phases, Later
  <2>4. Said(W, "stop") # {}
    BY <1>1 DEF Phases
  <2>5. Said(W, "close") # {} => \/ b = "anthropic" /\ t.ended
                                 \/ b = "responses" /\ "finish" \in KindsOf(Q)
    BY <1>1, <1>2 DEF Phases
  <2>6. b = "responses" /\ "finish" \notin KindsOf(Q) => t.closed = {}
    BY <1>1, <1>2 DEF Phases
  <2>7. QED
    BY <2>1, <2>2, <2>3, <2>4, <2>5, <2>6 DEF Phases
<1>5. Placing(b, t, W)
  BY <1>1 DEF Placing, Opens
<1>6. Telling(b, Q, t, W)
  <2>1. \A x : HeldBack(b, Q, x) <=> HeldBack(b, R, x)
    BY <1>2 DEF HeldBack
  <2>2. \A x : GivenOf(Q, x) = GivenOf(R, x)
    BY DEF Later
  <2>3. QED
    BY <1>1, <2>1, <2>2 DEF Telling
<1>7. Ledger(b, Q, t, W)
  <2>1. t.usage <= Len(Q) /\ t.usage = LatestUsage(Q)
    BY <1>1 DEF Ledger, Later, BridgeState
  <2>2. \A x : GivenOf(Q, x) = GivenOf(R, x)
    BY DEF Later
  <2>3. /\ UsageIn(Q, MarkAt(Q, "finish")) = UsageIn(R, MarkAt(R, "finish"))
        /\ UsageIn(Q, MarkAt(Q, "error")) = UsageIn(R, MarkAt(R, "error"))
        /\ LatestUsage(Q) = LatestUsage(R)
    BY DEF Later
  <2>4. QED
    BY <1>1, <2>1, <2>2, <2>3 DEF Ledger
<1>8. QED
  BY <1>1, <1>3, <1>4, <1>5, <1>6, <1>7 DEF BridgeInv

(* A finish of the Responses bridge: what was held back, then the closing.    *)
Wholes(s, S) ==
  [n \in DOMAIN InOrder(S) |-> [out |-> "whole", item |-> InOrder(S)[n], pieces |-> s.kept[InOrder(S)[n]]]]

LEMMA WholesAre ==
  ASSUME NEW s \in BridgeState, NEW S, S \subseteq Nat, S \subseteq Items, IsFiniteSet(S)
  PROVE  /\ Wholes(s, S) \in Seq(Mark) /\ \A k : k # "whole" => Said(Wholes(s, S), k) = {}
         /\ \A n \in DOMAIN Wholes(s, S) : Wholes(s, S)[n].item \in S
         /\ \A x : Pieces(Wholes(s, S), x) = IF x \in S THEN s.kept[x] ELSE <<>>
<1> DEFINE order == InOrder(S)
           D == Wholes(s, S)
           N == Len(order)
<1>1. /\ order \in Seq(S)
      /\ \A i \in S : \E n \in 1..N : order[n] = i /\ \A m \in 1..N : order[m] = i => m = n
  BY OrderedOnce
<1>2. /\ N \in Nat /\ DOMAIN order = 1..N /\ \A n \in 1..N : order[n] \in S
  <2> HIDE DEF order
  <2>1. QED
    BY <1>1
<1>3. D = [n \in DOMAIN order |-> [out |-> "whole", item |-> order[n], pieces |-> s.kept[order[n]]]]
  BY DEF Wholes
<1>4. s.kept \in [Items -> Seq(Nat)]
  BY DEF BridgeState
<1> HIDE DEF order, D, N
<1>5. \A n \in 1..N : /\ D[n] \in Mark /\ D[n].out = "whole" /\ D[n].item = order[n]
                      /\ D[n].pieces = s.kept[order[n]]
  <2> SUFFICES ASSUME NEW n \in 1..N
               PROVE  /\ D[n] \in Mark /\ D[n].out = "whole" /\ D[n].item = order[n]
                      /\ D[n].pieces = s.kept[order[n]]
    OBVIOUS
  <2>1. D[n] = [out |-> "whole", item |-> order[n], pieces |-> s.kept[order[n]]]
    BY <1>2, <1>3
  <2>2. order[n] \in Items /\ s.kept[order[n]] \in Seq(Nat)
    BY <1>2, <1>4
  <2>3. QED
    BY <2>1, <2>2 DEF Mark
<1>6. D \in Seq(Mark) /\ DOMAIN D = 1..N
  <2>1. DOMAIN D = 1..N
    BY <1>2, <1>3
  <2>2. D \in [1..N -> Mark]
    BY <1>2, <1>3, <1>5
  <2>3. QED
    BY <1>2, <2>1, <2>2
<1>7. \A k : k # "whole" => Said(D, k) = {}
  BY <1>5, <1>6 DEF Said, Marks
<1>8. \A n \in DOMAIN D : D[n].item \in S
  BY <1>2, <1>5, <1>6
<1>9. ASSUME NEW x \in S
      PROVE  Pieces(D, x) = s.kept[x]
  <2>1. PICK n \in 1..N : order[n] = x /\ \A m \in 1..N : order[m] = x => m = n
    BY <1>1
  <2>2. Filling(D) \subseteq DOMAIN D
    BY DEF Filling, Marks
  <2>3. \A m \in Filling(D) : m # n => D[m].item # x
    BY <1>5, <1>6, <2>1, <2>2
  <2>4. n \in DOMAIN D
    BY <1>6
  <2>5. Pieces(D, x) = PiecesIn(D[n], x)
    BY <1>6, <2>3, <2>4, PiecesOne
  <2>6. D[n].out = "whole" /\ D[n].item = x /\ D[n].pieces = s.kept[x]
    BY <1>5, <2>1
  <2>7. QED
    BY <2>5, <2>6 DEF PiecesIn
<1>10. ASSUME NEW x, x \notin S
       PROVE  Pieces(D, x) = <<>>
  <2>1. Filling(D) \subseteq DOMAIN D
    BY DEF Filling, Marks
  <2>2. \A m \in Filling(D) : D[m].item # x
    BY <1>8, <1>10, <2>1
  <2>3. QED
    BY <1>6, <2>2, PiecesOne
<1>11. QED
  BY <1>6, <1>7, <1>8, <1>9, <1>10 DEF D

LEMMA WholesSound ==
  ASSUME NEW b, NEW U \in Seq(Mark), NEW D \in Seq(Mark), NEW S, NEW place,
         Sound(b, U), Said(U, "stop") = {}, Said(U, "start") # {}, Said(U, "close") = {}, Opens(U, place),
         S \subseteq DOMAIN place, \A k : k # "whole" => Said(D, k) = {},
         \A n \in DOMAIN D : D[n].item \in S
  PROVE  Sound(b, U \o D) /\ Grows(U, U \o D, {"whole"})
<1>1. \A k : k # "whole" => Marks(D, k) = {}
  <2>1. \A k : Said(D, k) = {} => Marks(D, k) = {}
    BY DEF Said
  <2>2. QED
    BY <2>1
<1>2. Content(D) \subseteq DOMAIN D /\ Filling(D) \subseteq DOMAIN D
  BY DEF Content, Filling, Marks
<1>3. \A n \in Filling(D) : \E m \in Said(U, "open") : m.item = D[n].item
  BY <1>2 DEF Opens
<1>4. StopsLast(D)
  BY <1>1 DEF StopsLast
<1>5. Marks(D, "open") = {} /\ Marks(D, "close") = {}
  BY <1>1
<1>6. Follows(b, U, D)
  BY <1>3, <1>4, <1>5 DEF Follows
<1>7. Sound(b, U \o D)
  BY <1>6, SoundJoined
<1>8. \A k : k \notin {"whole"} => Said(D, k) = {}
  OBVIOUS
<1>9. Grows(U, U \o D, {"whole"})
  BY <1>8, GrowsBy
<1>10. QED
  BY <1>7, <1>9

LEMMA CloseStep ==
  ASSUME NEW b, NEW U \in Seq(Mark), NEW items \in SUBSET Items, Sound(b, U), Said(U, "stop") = {}
  PROVE  /\ Sound(b, U \o <<[out |-> "close", items |-> items]>>)
         /\ Grows(U, U \o <<[out |-> "close", items |-> items]>>, {"close"})
         /\ <<[out |-> "close", items |-> items]>> \in Seq(Mark)
         /\ \A x : Pieces(U \o <<[out |-> "close", items |-> items]>>, x) = Pieces(U, x)
<1> DEFINE m == [out |-> "close", items |-> items]
           D == <<m>>
           V == U \o D
<1>1. m \in Mark /\ m.out = "close"
  BY DEF Mark
<1> HIDE DEF m
<1>2. D \in Seq(Mark) /\ \A k : Said(D, k) = {x \in {m} : x.out = k}
  BY <1>1, SaidShort
<1>3. Fits(b, U, m)
  BY <1>1 DEF Fits
<1>4. Sound(b, V)
  BY <1>3, SoundOne
<1>5. Said(D, "delta") = {} /\ Said(D, "whole") = {} /\ \A k : k \notin {"close"} => Said(D, k) = {}
  BY <1>1, <1>2
<1>6. D \in Seq(Mark)
  BY <1>2
<1> HIDE DEF D
<1>7. Grows(U, V, {"close"})
  BY <1>5, <1>6, GrowsBy
<1>8. \A x : Pieces(V, x) = Pieces(U, x)
  BY <1>5, <1>6, PiecesSame
<1>9. QED
  BY <1>4, <1>6, <1>7, <1>8 DEF D, V, m

Finished(b, s, W, V) ==
  /\ Sound(b, V) /\ Grows(W, V, {"start", "whole", "close"}) /\ Said(V, "start") # {}
  /\ \A x : Pieces(V, x) = Pieces(W, x) \o
       (IF x \in DOMAIN s.place \cap Custom /\ s.kept[x] # <<>> THEN s.kept[x] ELSE <<>>)

LEMMA FinishSays ==
  ASSUME StreamAssumption, NEW R, NEW s, NEW W, NEW e, Ready("responses", R, s, W, e), e.kind = "finish"
  PROVE  Finished("responses", s, W, W \o (Announce(s) \o finalizeToolCallEvents(s)))
<1> DEFINE b == "responses"
           S == {i \in DOMAIN s.place \cap Custom : s.kept[i] # <<>>}
           A == Announce(s)
           D == Wholes(s, S)
           C == <<[out |-> "close", items |-> DOMAIN s.place]>>
           U == W \o A
           U2 == U \o D
           V == U2 \o C
<1>1. /\ s \in BridgeState /\ W \in Seq(Mark) /\ IsFiniteSet(DOMAIN s.place) /\ s.started \in BOOLEAN
      /\ Sound(b, W) /\ Phases(b, R, s, W, "no") /\ Placing(b, s, W)
  BY DEF Ready, BridgeInv, BridgeTypes, BridgeState
<1>2. ~s.ended /\ Said(W, "stop") = {} /\ Said(W, "close") = {} /\ s.closed = {}
  BY Live
<1>3. s.started => Said(W, "start") # {}
  BY <1>1 DEF Phases
<1>4. DOMAIN s.place \in SUBSET Items
  <2>1. PICK P \in SUBSET Items : s.place \in [P -> Nat]
    BY <1>1 DEF BridgeState
  <2>2. QED
    BY <2>1
<1>5. S \subseteq Nat /\ S \subseteq Items /\ S \subseteq DOMAIN s.place /\ IsFiniteSet(S)
  <2>1. S \subseteq DOMAIN s.place /\ S \subseteq Custom
    OBVIOUS
  <2> HIDE DEF S
  <2>2. IsFiniteSet(S)
    BY <1>1, <2>1, FS_Subset
  <2>3. QED
    BY <1>4, <2>1, <2>2 DEF StreamAssumption
<1>6. finalizeToolCallEvents(s) = D \o C
  <2>1. DOMAIN s.place \ s.closed = DOMAIN s.place
    BY <1>2
  <2> HIDE DEF S
  <2>2. QED
    BY <2>1 DEF finalizeToolCallEvents, Wholes, S
<1> HIDE DEF S
<1>7. /\ Sound(b, U) /\ Said(U, "start") # {} /\ Grows(W, U, {"start"}) /\ A \in Seq(Mark)
      /\ \A x : Pieces(U, x) = Pieces(W, x)
  BY <1>1, <1>2, <1>3, AnnounceStep
<1> HIDE DEF A, U
<1>8. U \in Seq(Mark) /\ Said(U, "stop") = {} /\ Said(U, "close") = {} /\ Opens(U, s.place)
  BY <1>1, <1>2, <1>7 DEF Grows, Placing, Opens
<1>9. /\ D \in Seq(Mark) /\ \A k : k # "whole" => Said(D, k) = {}
      /\ \A n \in DOMAIN D : D[n].item \in S
      /\ \A x : Pieces(D, x) = IF x \in S THEN s.kept[x] ELSE <<>>
  BY <1>1, <1>5, WholesAre
<1> HIDE DEF D
<1>10. Sound(b, U2) /\ Grows(U, U2, {"whole"})
  BY <1>5, <1>7, <1>8, <1>9, WholesSound
<1>11. \A x : Pieces(U2, x) = Pieces(U, x) \o (IF x \in S THEN s.kept[x] ELSE <<>>)
  <2>1. D \in Seq(Mark)
    BY <1>9
  <2>2. \A x : Pieces(U2, x) = Pieces(U, x) \o Pieces(D, x)
    BY <1>8, <2>1, PiecesJoined
  <2>3. \A x : Pieces(D, x) = IF x \in S THEN s.kept[x] ELSE <<>>
    BY <1>9
  <2> HIDE DEF U2
  <2>4. QED
    BY <2>2, <2>3
<1> HIDE DEF U2
<1>12. U2 \in Seq(Mark) /\ Said(U2, "stop") = {}
  BY <1>8, <1>10 DEF Grows
<1>13. /\ Sound(b, V) /\ Grows(U2, V, {"close"}) /\ C \in Seq(Mark)
       /\ \A x : Pieces(V, x) = Pieces(U2, x)
  BY <1>4, <1>10, <1>12, CloseStep
<1> HIDE DEF C, V
<1>14. V = W \o (A \o finalizeToolCallEvents(s))
  <2>1. D \in Seq(Mark)
    BY <1>9
  <2>2. W \in Seq(Mark) /\ A \in Seq(Mark) /\ D \in Seq(Mark) /\ C \in Seq(Mark) /\ A \o D \in Seq(Mark)
    BY <1>1, <1>7, <1>13, <2>1
  <2>3. StepByStep(W, A, D, C) /\ Associates(A, D, C)
    BY ONLY <2>2, ConcatFour, ConcatThree, Zenon
  <2>4. V = ((W \o A) \o D) \o C
    BY DEF V, U2, U
  <2>5. QED
    BY <1>6, <2>3, <2>4 DEF StepByStep, Associates
<1>15. Grows(W, V, {"start", "whole", "close"}) /\ Said(V, "start") # {}
  BY <1>7, <1>10, <1>13 DEF Grows
<1>16. ASSUME NEW x
       PROVE  Pieces(V, x) = Pieces(W, x) \o
                (IF x \in DOMAIN s.place \cap Custom /\ s.kept[x] # <<>> THEN s.kept[x] ELSE <<>>)
  <2>1. Pieces(V, x) = Pieces(W, x) \o (IF x \in S THEN s.kept[x] ELSE <<>>)
    BY <1>7, <1>11, <1>13
  <2>2. x \in S <=> x \in DOMAIN s.place \cap Custom /\ s.kept[x] # <<>>
    BY DEF S
  <2>3. QED
    BY <2>1, <2>2
<1>17. Finished(b, s, W, V)
  BY <1>13, <1>15, <1>16 DEF Finished
<1>18. QED
  BY <1>14, <1>17 DEF A

LEMMA FinishKeeps ==
  ASSUME NEW R, NEW s, NEW W, NEW e, NEW t \in BridgeState, NEW V, Ready("responses", R, s, W, e),
         e.kind = "finish", Finished("responses", s, W, V), ~t.ended, t.place = s.place, t.kept = s.kept,
         t.usage = s.usage
  PROVE  BridgeInv("responses", Append(R, e), t, V, "no")
<1> DEFINE Q == Append(R, e)
           b == "responses"
<1>1. /\ R \in Seq(Event) /\ s \in BridgeState /\ W \in Seq(Mark) /\ Sound(b, W) /\ e \in Event
      /\ IsFiniteSet(DOMAIN s.place) /\ Phases(b, R, s, W, "no") /\ Placing(b, s, W) /\ Telling(b, R, s, W)
  BY DEF Ready, BridgeInv, BridgeTypes, BridgeState
<1>2. /\ Q \in Seq(Event) /\ KindsOf(Q) = KindsOf(R) \cup {"finish"}
      /\ s.usage = LatestUsage(Q) /\ s.usage <= Len(Q)
      /\ \A x : GivenOf(Q, x) = GivenOf(R, x)
  BY AfterRead
<1>3. ~s.ended /\ Said(W, "stop") = {} /\ Said(W, "end") = {} /\ Said(W, "usage") = {}
      /\ "finish" \notin KindsOf(R) /\ "done" \notin KindsOf(R)
  BY Live
<1>4. /\ Sound(b, V) /\ V \in Seq(Mark) /\ Said(V, "start") # {} /\ Said(V, "open") = Said(W, "open")
      /\ Said(V, "stop") = {} /\ Said(V, "end") = {} /\ Said(V, "usage") = {} /\ (TextLate(W) => TextLate(V))
  BY <1>3 DEF Finished, Grows
<1> HIDE DEF Q
<1>5. BridgeTypes(b, Q, t, V)
  BY <1>1, <1>2, <1>4 DEF BridgeTypes, Bridges
<1>6. Phases(b, Q, t, V, "no")
  BY <1>2, <1>3, <1>4 DEF Phases
<1>7. Placing(b, t, V)
  BY <1>1, <1>4 DEF Placing, Opens
<1>8. Telling(b, Q, t, V)
  <2> SUFFICES ASSUME NEW x \in Items
               PROVE  /\ Pieces(V, x) = IF HeldBack(b, Q, x) THEN <<>> ELSE GivenOf(Q, x)
                      /\ t.kept[x] = GivenOf(Q, x) /\ (t.kept[x] # <<>> => x \in DOMAIN t.place)
    BY DEF Telling
  <2> DEFINE r == GivenOf(R, x)
             told == IF x \in DOMAIN s.place \cap Custom /\ s.kept[x] # <<>> THEN s.kept[x] ELSE <<>>
  <2>1. GivenOf(Q, x) = r /\ r \in Seq(Nat)
    BY <1>1, <1>2, GivenRead
  <2>2. s.kept[x] = r /\ (s.kept[x] # <<>> => x \in DOMAIN s.place)
    BY <1>1 DEF Telling
  <2>3. Pieces(W, x) = IF x \in Custom THEN <<>> ELSE r
    BY <1>1, <1>3 DEF Telling, HeldBack
  <2>4. ~HeldBack(b, Q, x)
    BY <1>2 DEF HeldBack
  <2>5. Pieces(V, x) = Pieces(W, x) \o told
    BY DEF Finished
  <2>6. told = IF x \in Custom THEN r ELSE <<>>
    BY <2>2
  <2> HIDE DEF r, told
  <2>7. Pieces(V, x) = r
    <3>1. CASE x \in Custom
      <4>1. Pieces(V, x) = <<>> \o r
        BY <2>3, <2>5, <2>6, <3>1
      <4>2. QED
        BY <2>1, <4>1
    <3>2. CASE x \notin Custom
      <4>1. Pieces(V, x) = r \o <<>>
        BY <2>3, <2>5, <2>6, <3>2
      <4>2. QED
        BY <2>1, <4>1
    <3>3. QED
      BY <3>1, <3>2
  <2>8. QED
    BY <2>1, <2>2, <2>4, <2>7
<1>9. Ledger(b, Q, t, V)
  BY <1>2, <1>4 DEF Ledger
<1>10. QED
  BY <1>4, <1>5, <1>6, <1>7, <1>8, <1>9 DEF BridgeInv, Q

(***************************************************************************)
(* One event, bridge by bridge.                                            *)
(***************************************************************************)

LEMMA Begun ==
  ASSUME NEW s \in BridgeState, NEW u \in Nat, NEW t, t = [s EXCEPT !.started = TRUE, !.usage = u]
  PROVE  /\ t \in BridgeState /\ t.started /\ t.usage = u /\ t.ended = s.ended /\ t.place = s.place
         /\ t.closed = s.closed /\ t.kept = s.kept
BY DEF BridgeState

LEMMA Counted ==
  ASSUME NEW s \in BridgeState, NEW u \in Nat, NEW t, t = [s EXCEPT !.usage = u]
  PROVE  /\ t \in BridgeState /\ t.started = s.started /\ t.usage = u /\ t.ended = s.ended /\ t.place = s.place
         /\ t.closed = s.closed /\ t.kept = s.kept
BY DEF BridgeState

LEMMA Ended ==
  ASSUME NEW s \in BridgeState, NEW t, t = [s EXCEPT !.ended = TRUE]
  PROVE  /\ t \in BridgeState /\ t.started = s.started /\ t.usage = s.usage /\ t.ended /\ t.place = s.place
         /\ t.closed = s.closed /\ t.kept = s.kept
BY DEF BridgeState

LEMMA Put ==
  ASSUME NEW s \in BridgeState, NEW place \in UNION {[D -> Nat] : D \in SUBSET Items}, NEW t,
         t = [s EXCEPT !.place = place]
  PROVE  /\ t \in BridgeState /\ t.started = s.started /\ t.usage = s.usage /\ t.ended = s.ended /\ t.place = place
         /\ t.closed = s.closed /\ t.kept = s.kept
BY DEF BridgeState

(* The end of the events, or of what the bridge tells.                       *)
LEMMA DoneKeeps ==
  ASSUME NEW b, NEW R, NEW s, NEW W, NEW t, BridgeInv(b, R, s, W, "no"), t = [s EXCEPT !.ended = TRUE], NEW F,
         s.ended => F = <<>>, ~s.ended => LastMarks(b, s, F), NEW Q, NEW o, Later(R, Q),
         b = "openai" => R # <<>> \/ Q = R, o = "eof" \/ "done" \in KindsOf(Q)
  PROVE  BridgeInv(b, Q, t, W \o F, o)
<1>1. /\ b \in Bridges /\ R \in Seq(Event) /\ s \in BridgeState /\ W \in Seq(Mark) /\ Sound(b, W)
      /\ Phases(b, R, s, W, "no") /\ Ledger(b, R, s, W) /\ s.ended \in BOOLEAN /\ s.usage \in Nat
  BY DEF BridgeInv, BridgeTypes, BridgeState
<1>2. /\ t \in BridgeState /\ t.started = s.started /\ t.usage = s.usage /\ t.ended /\ t.place = s.place
      /\ t.closed = s.closed /\ t.kept = s.kept
  BY <1>1, Ended
<1>3. CASE s.ended
  <2>1. W \o F = W
    BY <1>1, <1>3
  <2>2. BridgeInv(b, Q, t, W, o)
    BY <1>2, <1>3, SilentKeeps
  <2>3. QED
    BY <2>1, <2>2
<1>4. CASE ~s.ended
  <2>1. Said(W, "stop") = {} /\ Said(W, "usage") = {} /\ (b # "openai" => Said(W, "end") = {})
    BY <1>1, <1>4 DEF Phases, Ledger
  <2>2. Led(b, W, W)
    BY <1>1, <2>1, LedBy
  <2>3. Closes(b, s, W, W \o F)
    BY <1>4, <2>1, <2>2, ClosesBy
  <2>4. (b = "anthropic" => "finish" \notin KindsOf(R)) /\ (b # "responses" => "error" \notin KindsOf(R))
    BY <1>1, <1>4 DEF Phases
  <2>5. Over(b, R, s, t, Q, o)
    <3>1. s.usage = LatestUsage(R) /\ s.usage <= Len(R)
      BY <1>1 DEF Ledger
    <3>2. (b = "anthropic" => "finish" \notin KindsOf(Q)) /\ (b # "responses" => "error" \notin KindsOf(Q))
      BY <2>4 DEF Later
    <3>3. ("finish" \in KindsOf(Q) <=> "finish" \in KindsOf(R)) /\ KindsOf(R) \subseteq KindsOf(Q)
      BY DEF Later
    <3>4. LatestUsage(Q) = s.usage /\ s.usage <= Len(Q) /\ Q \in Seq(Event) /\ \A x : GivenOf(Q, x) = GivenOf(R, x)
      BY <1>1, <3>1 DEF Later
    <3>5. (b = "anthropic" => UsageIn(Q, MarkAt(Q, "finish")) = s.usage)
          /\ (b = "openai" => UsageIn(Q, MarkAt(Q, "error")) = s.usage)
      BY <2>4, <3>1 DEF Later
    <3>6. QED
      BY <3>2, <3>3, <3>4, <3>5 DEF Over
  <2>6. s.started => Said(W \o F, "start") # {}
    <3>1. s.started => Said(W, "start") # {}
      BY <1>1 DEF Phases
    <3>2. Said(W, "start") \subseteq Said(W \o F, "start")
      BY <2>3 DEF Closes, Grows
    <3>3. QED
      BY <3>1, <3>2
  <2> DEFINE V == W \o F
  <2> HIDE DEF V
  <2>7. Closes(b, s, W, V) /\ (t.started => Said(V, "start") # {})
    BY <1>2, <2>3, <2>6 DEF V
  <2>8. BridgeInv(b, Q, t, V, o)
    BY <1>2, <1>4, <2>5, <2>7, EndKeeps
  <2>9. QED
    BY <2>8 DEF V
<1>5. QED
  BY <1>1, <1>3, <1>4

LEMMA ErrorKeeps ==
  ASSUME NEW b, b # "responses", NEW R, NEW s, NEW W, NEW e, Ready(b, R, s, W, e), e.kind = "error",
         NEW t, t = [s EXCEPT !.ended = TRUE], NEW F, LastMarks(b, s, F)
  PROVE  BridgeInv(b, Append(R, e), t, W \o (<<[out |-> "error"]>> \o F), "no")
<1> DEFINE E == <<[out |-> "error"]>>
           U == W \o E
           V == U \o F
           Q == Append(R, e)
<1>1. /\ b \in Bridges /\ R \in Seq(Event) /\ s \in BridgeState /\ W \in Seq(Mark) /\ Sound(b, W) /\ e \in Event
      /\ Phases(b, R, s, W, "no") /\ BridgeInv(b, R, s, W, "no")
  BY DEF Ready, BridgeInv, BridgeTypes, BridgeState
<1>2. /\ t \in BridgeState /\ t.started = s.started /\ t.usage = s.usage /\ t.ended /\ t.place = s.place
      /\ t.closed = s.closed /\ t.kept = s.kept
  BY <1>1, Ended
<1>3. /\ ~s.ended /\ Said(W, "stop") = {} /\ Said(W, "usage") = {} /\ (b # "openai" => Said(W, "end") = {})
      /\ "finish" \notin KindsOf(R) /\ "error" \notin KindsOf(R)
  BY Live
<1>4. Led(b, W, U) /\ E \in Seq(Mark)
  BY <1>1, <1>3, LedBy
<1>5. /\ Q \in Seq(Event) /\ KindsOf(Q) = KindsOf(R) \cup {"error"}
      /\ s.usage = LatestUsage(Q) /\ s.usage <= Len(Q)
      /\ \A x : GivenOf(Q, x) = GivenOf(R, x)
  BY AfterRead
<1>6. /\ "finish" \notin KindsOf(Q) /\ UsageIn(Q, MarkAt(Q, "error")) = LatestUsage(R) /\ s.usage = LatestUsage(R)
      /\ UsageIn(Q, MarkAt(Q, "finish")) = LatestUsage(Q)
  <2>1. UsageIn(Q, MarkAt(Q, "error")) = LatestUsage(R)
    BY <1>1, <1>3, UsageAtRead
  <2>2. s.usage = LatestUsage(R)
    BY <1>1 DEF BridgeInv, Ledger
  <2> HIDE DEF Q
  <2>3. "finish" \notin KindsOf(Q)
    BY <1>3, <1>5
  <2>4. UsageIn(Q, MarkAt(Q, "finish")) = LatestUsage(Q)
    BY <1>1, <1>5, <2>3, UsageAtRead
  <2>5. QED
    BY <2>1, <2>2, <2>3, <2>4
<1> HIDE DEF E, U, Q
<1>7. Closes(b, s, W, V)
  BY <1>3, <1>4, ClosesBy
<1>8. Over(b, R, s, t, Q, "no")
  BY <1>1, <1>3, <1>5, <1>6 DEF Over
<1>9. s.started => Said(V, "start") # {}
  <2>1. s.started => Said(W, "start") # {}
    BY <1>1 DEF Phases
  <2>2. Said(W, "start") \subseteq Said(V, "start")
    BY <1>7 DEF Closes, Grows
  <2>3. QED
    BY <2>1, <2>2
<1>10. BridgeInv(b, Q, t, V, "no")
  <2> HIDE DEF V
  <2>1. t.started => Said(V, "start") # {}
    BY <1>2, <1>9
  <2>2. QED
    BY <1>1, <1>2, <1>3, <1>7, <1>8, <2>1, EndKeeps
<1>11. V = W \o (E \o F)
  <2>1. W \in Seq(Mark) /\ E \in Seq(Mark) /\ F \in Seq(Mark)
    BY <1>1, <1>4 DEF LastMarks
  <2>2. Associates(W, E, F)
    BY ONLY <2>1, ConcatThree, Zenon
  <2>3. QED
    BY <2>2 DEF Associates, V, U
<1>12. QED
  BY <1>10, <1>11 DEF Q, E

LEMMA FinishEnds ==
  ASSUME NEW R, NEW s, NEW W, NEW e, Ready("anthropic", R, s, W, e), e.kind = "finish",
         NEW t \in BridgeState, t.started, t.ended, t.usage = s.usage, t.place = s.place, t.closed = s.closed,
         t.kept = s.kept, NEW F, LastMarks("anthropic", s, F)
  PROVE  BridgeInv("anthropic", Append(R, e), t, W \o (Announce(s) \o F), "no")
<1> DEFINE b == "anthropic"
           A == Announce(s)
           U == W \o A
           V == U \o F
           Q == Append(R, e)
<1>1. /\ R \in Seq(Event) /\ s \in BridgeState /\ W \in Seq(Mark) /\ Sound(b, W) /\ e \in Event
      /\ Phases(b, R, s, W, "no") /\ BridgeInv(b, R, s, W, "no") /\ s.started \in BOOLEAN
  BY DEF Ready, BridgeInv, BridgeTypes, BridgeState
<1>2. /\ ~s.ended /\ Said(W, "stop") = {} /\ Said(W, "usage") = {} /\ Said(W, "end") = {}
      /\ "finish" \notin KindsOf(R)
  BY Live
<1>3. s.started => Said(W, "start") # {}
  BY <1>1 DEF Phases
<1>4. Led(b, W, U) /\ Said(U, "start") # {} /\ A \in Seq(Mark)
  BY <1>1, <1>2, <1>3, LedBy
<1>5. /\ Q \in Seq(Event) /\ KindsOf(Q) = KindsOf(R) \cup {"finish"}
      /\ s.usage = LatestUsage(Q) /\ s.usage <= Len(Q)
      /\ \A x : GivenOf(Q, x) = GivenOf(R, x)
  BY AfterRead
<1>6. UsageIn(Q, MarkAt(Q, "finish")) = LatestUsage(R) /\ s.usage = LatestUsage(R)
  <2>1. UsageIn(Q, MarkAt(Q, "finish")) = LatestUsage(R)
    BY <1>1, <1>2, UsageAtRead
  <2>2. s.usage = LatestUsage(R)
    BY <1>1 DEF BridgeInv, Ledger
  <2>3. QED
    BY <2>1, <2>2
<1> HIDE DEF A, U, Q
<1>7. Closes(b, s, W, V)
  BY <1>2, <1>4, ClosesBy
<1>8. Over(b, R, s, t, Q, "no")
  BY <1>5, <1>6 DEF Over
<1>9. Said(V, "start") # {}
  <2>1. U \in Seq(Mark) /\ F \in Seq(Mark)
    BY <1>4 DEF Led, Grows, LastMarks
  <2>2. Said(V, "start") = Said(U, "start") \cup Said(F, "start")
    BY <2>1, SaidJoined
  <2>3. QED
    BY <1>4, <2>2
<1>10. BridgeInv(b, Q, t, V, "no")
  <2> HIDE DEF V
  <2>1. QED
    BY <1>1, <1>2, <1>7, <1>8, <1>9, EndKeeps
<1>11. V = W \o (A \o F)
  <2>1. W \in Seq(Mark) /\ A \in Seq(Mark) /\ F \in Seq(Mark)
    BY <1>1, <1>4 DEF LastMarks
  <2>2. Associates(W, A, F)
    BY ONLY <2>1, ConcatThree, Zenon
  <2>3. QED
    BY <2>2 DEF Associates, V, U
<1>12. QED
  BY <1>10, <1>11 DEF Q, A

LEMMA MarksOf ==
  ASSUME NEW s, NEW item \in Items, NEW p \in Nat, NEW piece \in Nat
  PROVE  Announce(s) \in Seq(Mark) /\ Open(s, item, p) \in Seq(Mark) /\ Delta(item, piece) \in Seq(Mark)
<1>1. \A m \in Mark : <<m>> \in Seq(Mark)
  OBVIOUS
<1>2. <<>> \in Seq(Mark)
  OBVIOUS
<1>3. [out |-> "start"] \in Mark /\ [out |-> "open", item |-> item, place |-> p] \in Mark
      /\ [out |-> "delta", item |-> item, piece |-> piece] \in Mark
  BY DEF Mark
<1>4. QED
  BY <1>1, <1>2, <1>3 DEF Announce, Open, Delta

LEMMA AnthropicReads ==
  ASSUME StreamAssumption, NEW R, NEW s, NEW W, NEW e, Ready("anthropic", R, s, W, e)
  PROVE  BridgeInv("anthropic", Append(R, e), ToAnthropic(s, e).s, W \o ToAnthropic(s, e).out, "no")
<1> DEFINE b == "anthropic"
           u == Merged(s, e)
           t == [s EXCEPT !.started = TRUE, !.usage = u]
           ended == [s EXCEPT !.ended = TRUE]
           Result(next, out) == ToAnthropic(s, e) = [s |-> next, out |-> out]
<1>0. ASSUME NEW next, NEW out, Result(next, out), BridgeInv(b, Append(R, e), next, W \o out, "no")
      PROVE  BridgeInv(b, Append(R, e), ToAnthropic(s, e).s, W \o ToAnthropic(s, e).out, "no")
  BY <1>0
<1>1. /\ R \in Seq(Event) /\ s \in BridgeState /\ W \in Seq(Mark) /\ e \in Event /\ IsFiniteSet(DOMAIN s.place)
      /\ BridgeInv(b, R, s, W, "no") /\ Phases(b, R, s, W, "no")
  BY DEF Ready, BridgeInv, BridgeTypes
<1>2. u \in Nat /\ (e.kind # "usage" => u = s.usage)
  BY AfterRead
<1>3. /\ t \in BridgeState /\ t.started /\ t.usage = u /\ t.ended = s.ended /\ t.place = s.place
      /\ t.closed = s.closed /\ t.kept = s.kept
  <2> HIDE DEF u
  <2>1. QED
    BY <1>1, <1>2 DEF BridgeState
<1>4. e.kind \in {"start", "error", "done", "text", "tool", "usage", "finish"}
  BY <1>1 DEF Event
<1>5. CASE e.kind \in {"start", "usage"}
  <2>1. e.kind # "done" /\ e.kind # "error"
    BY <1>5
  <2>2. Result(t, Announce(s))
    BY ONLY <1>5, <2>1, Zenon DEF ToAnthropic
  <2> HIDE DEF t, u, Result
  <2>3. Unfilled(b, W, W \o Announce(s))
    BY <2>1, UnfilledAnnounces
  <2>4. BridgeInv(b, Append(R, e), t, W \o Announce(s), "no")
    <3> DEFINE V == W \o Announce(s)
    <3> HIDE DEF V
    <3>1. Unfilled(b, W, V) /\ t.usage = Merged(s, e) /\ b # "openai" /\ b # "responses"
      BY <1>3, <2>3 DEF V, u
    <3>2. BridgeInv(b, Append(R, e), t, V, "no")
      BY <1>3, <1>5, <2>1, <3>1, UnfilledKeeps
    <3>3. QED
      BY <3>2 DEF V
  <2>5. QED
    BY <1>0, <2>2, <2>4
<1>6. CASE e.kind = "done"
  <2>1. Result(ended, finalizeAnthropic(s, "end_turn"))
    BY ONLY <1>6, Zenon DEF ToAnthropic
  <2> HIDE DEF Result, ended, t, u
  <2>2. Later(R, Append(R, e)) /\ "done" \in KindsOf(Append(R, e))
    BY <1>1, <1>6, LaterBy, AfterRead
  <2>3. /\ s.ended => finalizeAnthropic(s, "end_turn") = <<>>
        /\ ~s.ended => LastMarks(b, s, finalizeAnthropic(s, "end_turn"))
    <3>1. "end_turn" \in EndReasons
      BY DEF EndReasons
    <3>2. QED
      BY <1>1, <3>1, LastMarksAre DEF finalizeAnthropic
  <2>4. ended = [s EXCEPT !.ended = TRUE]
    BY DEF ended
  <2>5. BridgeInv(b, Append(R, e), ended, W \o finalizeAnthropic(s, "end_turn"), "no")
    BY <1>1, <2>2, <2>3, <2>4, DoneKeeps
  <2>6. QED
    BY <1>0, <2>1, <2>5
<1>7. CASE e.kind = "error"
  <2>1. e.kind # "done"
    BY <1>7
  <2>2. Result(ended, <<[out |-> "error"]>> \o finalizeAnthropic(s, "end_turn"))
    BY ONLY <1>7, <2>1, Zenon DEF ToAnthropic
  <2> HIDE DEF Result, ended, t, u
  <2>3. LastMarks(b, s, finalizeAnthropic(s, "end_turn"))
    <3>1. "end_turn" \in EndReasons
      BY DEF EndReasons
    <3>2. ~s.ended
      BY <1>7, Live
    <3>3. QED
      BY <1>1, <3>1, <3>2, LastMarksAre
  <2>4. ended = [s EXCEPT !.ended = TRUE]
    BY DEF ended
  <2>5. BridgeInv(b, Append(R, e), ended, W \o (<<[out |-> "error"]>> \o finalizeAnthropic(s, "end_turn")), "no")
    BY <1>7, <2>3, <2>4, ErrorKeeps
  <2>6. QED
    BY <1>0, <2>2, <2>5
<1>8. CASE e.kind \in {"text", "tool"}
  <2> DEFINE item == ItemOf(e)
             next == [t EXCEPT !.place = Placed(s, ItemOf(e), Cardinality(DOMAIN s.place))]
             D == Announce(s) \o BlockEvents(s, e)
  <2>1. e.kind # "done" /\ e.kind # "error" /\ e.kind \notin {"start", "usage"}
    BY <1>8
  <2>2. Result(next, D)
    BY ONLY <1>8, <2>1, Zenon DEF ToAnthropic
  <2> HIDE DEF Result, t, u, ended
  <2>3. item \in Items
    BY <1>1, <1>8, EventItem
  <2>4. PlaceOf(b, s, item) = Cardinality(DOMAIN s.place)
    BY DEF PlaceOf
  <2>5. Placed(s, item, PlaceOf(b, s, item)) \in UNION {[P -> Nat] : P \in SUBSET Items}
        /\ IsFiniteSet(DOMAIN Placed(s, item, PlaceOf(b, s, item)))
    BY <1>1, <2>3, PlacedIs
  <2>6. /\ next \in BridgeState /\ next.started = t.started /\ next.usage = t.usage /\ next.ended = t.ended
        /\ next.place = Placed(s, item, PlaceOf(b, s, item)) /\ next.closed = t.closed /\ next.kept = t.kept
    <3> DEFINE place == Placed(s, item, PlaceOf(b, s, item))
    <3>1. next = [t EXCEPT !.place = place]
      BY <2>4
    <3>2. place \in UNION {[P -> Nat] : P \in SUBSET Items}
      BY <2>5
    <3>5. t \in BridgeState
      BY <1>3
    <3> HIDE DEF next, place
    <3>3. /\ next \in BridgeState /\ next.started = t.started /\ next.usage = t.usage /\ next.ended = t.ended
          /\ next.place = place /\ next.closed = t.closed /\ next.kept = t.kept
      BY ONLY <3>1, <3>2, <3>5 DEF BridgeState
    <3>4. QED
      BY <3>3 DEF place
  <2>7. D = Announce(s) \o (Open(s, item, PlaceOf(b, s, item)) \o Delta(item, e.piece))
    BY <2>4 DEF BlockEvents
  <2>8. ~s.ended
    BY <1>8, Live
  <2> HIDE DEF next, D, item
  <2>9. Fills(b, s, e, next, Announce(s) \o Open(s, item, PlaceOf(b, s, item)) \o Delta(item, e.piece))
    BY <1>2, <1>3, <1>8, <2>6, <2>8 DEF Fills, item
  <2>10. Announce(s) \o Open(s, item, PlaceOf(b, s, item)) \o Delta(item, e.piece) = D
    <3> DEFINE x == Announce(s)
               y == Open(s, item, PlaceOf(b, s, item))
               z == Delta(item, e.piece)
    <3>1. x \in Seq(Mark) /\ y \in Seq(Mark) /\ z \in Seq(Mark)
      <4>1. e.piece \in Nat /\ PlaceOf(b, s, item) \in Nat
        BY <1>1, <1>8, <2>3, EventItem, PlacedIs
      <4>2. QED
        BY <2>3, <4>1, MarksOf
    <3> HIDE DEF x, y, z
    <3>2. Associates(x, y, z)
      BY ONLY <3>1, ConcatThree, Zenon
    <3>3. QED
      BY <2>7, <3>2 DEF Associates, x, y, z
  <2>11. Fills(b, s, e, next, D)
    BY <2>9, <2>10
  <2>12. Filled(b, W, e, next, W \o D)
    BY <1>8, <2>11, FillsSays
  <2>13. BridgeInv(b, Append(R, e), next, W \o D, "no")
    <3> DEFINE V == W \o D
    <3> HIDE DEF V
    <3>1. Filled(b, W, e, next, V) /\ ~next.ended /\ next.closed = s.closed /\ next.usage = s.usage
          /\ IsFiniteSet(DOMAIN next.place) /\ b # "responses"
      BY <1>2, <1>3, <1>8, <2>5, <2>6, <2>8, <2>12 DEF V
    <3>2. BridgeInv(b, Append(R, e), next, V, "no")
      BY <1>8, <2>6, <3>1, FilledKeeps
    <3>3. QED
      BY <3>2 DEF V
  <2>14. QED
    BY <1>0, <2>2, <2>13
<1>9. CASE e.kind = "finish"
  <2> DEFINE final == [t EXCEPT !.ended = TRUE]
             reason == mapOpenAIFinishReasonToAnthropic(e.reason)
             F == finalizeAnthropic(t, reason)
  <2>1. e.kind # "done" /\ e.kind # "error" /\ e.kind \notin {"start", "usage"} /\ e.kind \notin {"text", "tool"}
    BY <1>9
  <2>2. Result(final, Announce(s) \o F)
    BY ONLY <1>9, <2>1, Zenon DEF ToAnthropic
  <2> HIDE DEF Result, t, u, ended
  <2>3. /\ final \in BridgeState /\ final.started = t.started /\ final.usage = t.usage /\ final.ended
        /\ final.place = t.place /\ final.closed = t.closed /\ final.kept = t.kept
    BY <1>3, Ended
  <2>4. reason \in EndReasons
    <3>1. \/ reason = "max_tokens"
          \/ reason = "tool_use"
          \/ reason = "end_turn"
      BY Zenon DEF mapOpenAIFinishReasonToAnthropic
    <3>2. QED
      BY <3>1 DEF EndReasons
  <2>5. ~s.ended
    BY <1>9, Live
  <2> HIDE DEF reason
  <2>6. LastMarks(b, s, F)
    <3>1. ~t.ended
      BY <1>3, <2>5
    <3>2. LastMarks(b, t, F)
      BY <1>3, <2>4, <3>1, LastMarksAre
    <3>3. t.place = s.place /\ t.usage = s.usage /\ t.kept = s.kept
      BY <1>2, <1>3, <1>9
    <3> HIDE DEF F
    <3>4. QED
      BY <3>2, <3>3 DEF LastMarks
  <2> HIDE DEF final, F
  <2>7. BridgeInv(b, Append(R, e), final, W \o (Announce(s) \o F), "no")
    <3>1. final.started /\ final.usage = s.usage /\ final.place = s.place /\ final.closed = s.closed
          /\ final.kept = s.kept
      BY <1>2, <1>3, <1>9, <2>3
    <3>2. QED
      BY <1>9, <2>3, <2>6, <3>1, FinishEnds
  <2>8. QED
    BY <1>0, <2>2, <2>7
<1>10. QED
  BY <1>4, <1>5, <1>6, <1>7, <1>8, <1>9

LEMMA OpenAIReads ==
  ASSUME StreamAssumption, NEW R, NEW s, NEW W, NEW e, Ready("openai", R, s, W, e)
  PROVE  BridgeInv("openai", Append(R, e), ToOpenAI(s, e).s, W \o ToOpenAI(s, e).out, "no")
<1> DEFINE b == "openai"
           u == Merged(s, e)
           t == [s EXCEPT !.usage = u]
           ended == [s EXCEPT !.ended = TRUE]
           Result(next, out) == ToOpenAI(s, e) = [s |-> next, out |-> out]
<1>0. ASSUME NEW next, NEW out, Result(next, out), BridgeInv(b, Append(R, e), next, W \o out, "no")
      PROVE  BridgeInv(b, Append(R, e), ToOpenAI(s, e).s, W \o ToOpenAI(s, e).out, "no")
  BY <1>0
<1>1. /\ R \in Seq(Event) /\ s \in BridgeState /\ W \in Seq(Mark) /\ e \in Event /\ IsFiniteSet(DOMAIN s.place)
      /\ BridgeInv(b, R, s, W, "no") /\ Phases(b, R, s, W, "no")
  BY DEF Ready, BridgeInv, BridgeTypes
<1>2. u \in Nat /\ (e.kind # "usage" => u = s.usage)
  BY AfterRead
<1>3. /\ t \in BridgeState /\ t.started = s.started /\ t.usage = u /\ t.ended = s.ended /\ t.place = s.place
      /\ t.closed = s.closed /\ t.kept = s.kept
  <2> HIDE DEF u
  <2>1. QED
    BY <1>1, <1>2 DEF BridgeState
<1>4. e.kind \in {"start", "error", "done", "text", "tool", "usage", "finish"}
  BY <1>1 DEF Event
<1>5. ASSUME NEW D, Unfilled(b, W, W \o D), e.kind \in {"start", "usage", "finish"}
      PROVE  BridgeInv(b, Append(R, e), t, W \o D, "no")
  <2> DEFINE V == W \o D
  <2> HIDE DEF V, t
  <2>1. Unfilled(b, W, V) /\ t.usage = Merged(s, e) /\ e.kind # "error" /\ b # "responses"
    BY <1>3, <1>5 DEF V, u
  <2>2. BridgeInv(b, Append(R, e), t, V, "no")
    BY <1>3, <1>5, <2>1, UnfilledKeeps
  <2>3. QED
    BY <2>2 DEF V
<1>6. CASE e.kind = "start"
  <2> DEFINE D == <<[out |-> "start"]>>
  <2>1. Result(t, D)
    BY ONLY <1>6, Zenon DEF ToOpenAI
  <2> HIDE DEF Result, t
  <2>2. Unfilled(b, W, W \o D)
    BY <1>6, UnfilledOpenAI
  <2> HIDE DEF D
  <2>3. QED
    BY <1>0, <1>5, <1>6, <2>1, <2>2
<1>7. CASE e.kind = "usage"
  <2> DEFINE D == <<>>
  <2>1. Result(t, D)
    BY ONLY <1>7, Zenon DEF ToOpenAI
  <2> HIDE DEF Result, t
  <2>2. Unfilled(b, W, W \o D)
    BY <1>7, UnfilledOpenAI
  <2> HIDE DEF D
  <2>3. QED
    BY <1>0, <1>5, <1>7, <2>1, <2>2
<1>8. CASE e.kind = "finish"
  <2> DEFINE D == <<[out |-> "end", reason |-> e.reason]>>
  <2>1. Result(t, D)
    BY ONLY <1>8, Zenon DEF ToOpenAI
  <2> HIDE DEF Result, t
  <2>2. Unfilled(b, W, W \o D)
    BY <1>8, UnfilledOpenAI
  <2> HIDE DEF D
  <2>3. QED
    BY <1>0, <1>5, <1>8, <2>1, <2>2
<1>9. CASE e.kind = "text"
  <2> DEFINE D == Delta(Text, e.piece)
  <2>1. Result(t, D)
    BY ONLY <1>9, Zenon DEF ToOpenAI
  <2> HIDE DEF Result, t, u
  <2>2. Filled(b, W, e, t, W \o D)
    BY <1>3, <1>9, TextSays
  <2>3. ~s.ended
    BY <1>9, Live
  <2> DEFINE V == W \o D
  <2> HIDE DEF V, D
  <2>4. Filled(b, W, e, t, V) /\ ~t.ended /\ t.closed = s.closed /\ t.usage = s.usage
        /\ IsFiniteSet(DOMAIN t.place) /\ b # "responses"
    BY <1>1, <1>2, <1>3, <1>9, <2>2, <2>3 DEF V
  <2>5. BridgeInv(b, Append(R, e), t, V, "no")
    BY <1>3, <1>9, <2>4, FilledKeeps
  <2>6. QED
    BY <1>0, <2>1, <2>5 DEF V
<1>10. CASE e.kind = "tool"
  <2> DEFINE next == [t EXCEPT !.place = Placed(s, e.index, Cardinality(DOMAIN s.place))]
             p == PlaceOf(b, s, e.index)
             D == Open(s, e.index, Cardinality(DOMAIN s.place)) \o Delta(e.index, e.piece)
  <2>1. Result(next, D)
    BY ONLY <1>10, Zenon DEF ToOpenAI
  <2> HIDE DEF Result, t, u
  <2>2. ItemOf(e) = e.index /\ e.index \in Items /\ e.piece \in Nat
    BY <1>1, <1>10, EventItem DEF ItemOf
  <2>3. p = Cardinality(DOMAIN s.place)
    BY DEF PlaceOf
  <2>4. Placed(s, e.index, p) \in UNION {[P -> Nat] : P \in SUBSET Items}
        /\ IsFiniteSet(DOMAIN Placed(s, e.index, p)) /\ p \in Nat
    BY <1>1, <2>2, PlacedIs
  <2>5. /\ next \in BridgeState /\ next.started = t.started /\ next.usage = t.usage /\ next.ended = t.ended
        /\ next.place = Placed(s, e.index, p) /\ next.closed = t.closed /\ next.kept = t.kept
    <3> DEFINE place == Placed(s, e.index, p)
    <3>1. next = [t EXCEPT !.place = place]
      BY <2>3
    <3>2. place \in UNION {[P -> Nat] : P \in SUBSET Items}
      BY <2>4
    <3>3. t \in BridgeState
      BY <1>3
    <3> HIDE DEF next, place
    <3>4. /\ next \in BridgeState /\ next.started = t.started /\ next.usage = t.usage /\ next.ended = t.ended
          /\ next.place = place /\ next.closed = t.closed /\ next.kept = t.kept
      BY ONLY <3>1, <3>2, <3>3 DEF BridgeState
    <3>5. QED
      BY <3>4 DEF place
  <2>6. D = Open(s, e.index, p) \o Delta(e.index, e.piece)
    BY <2>3
  <2>7. ~s.ended
    BY <1>10, Live
  <2>8. D = <<>> \o Open(s, e.index, p) \o Delta(e.index, e.piece)
    <3>1. Open(s, e.index, p) \in Seq(Mark)
      BY <2>2, <2>4, MarksOf
    <3>2. \A x \in Seq(Mark) : <<>> \o x = x
      OBVIOUS
    <3>3. QED
      BY <2>6, <3>1, <3>2
  <2> HIDE DEF next, D, p
  <2>9. Fills(b, s, e, next, D)
    BY <1>2, <1>3, <1>10, <2>2, <2>5, <2>7, <2>8 DEF Fills, p
  <2>10. Filled(b, W, e, next, W \o D)
    BY <1>10, <2>9, FillsSays
  <2>11. BridgeInv(b, Append(R, e), next, W \o D, "no")
    <3> DEFINE V == W \o D
    <3> HIDE DEF V
    <3>1. Filled(b, W, e, next, V) /\ ~next.ended /\ next.closed = s.closed /\ next.usage = s.usage
          /\ IsFiniteSet(DOMAIN next.place) /\ b # "responses"
      BY <1>2, <1>3, <1>10, <2>4, <2>5, <2>7, <2>10 DEF V
    <3>2. BridgeInv(b, Append(R, e), next, V, "no")
      BY <1>10, <2>5, <3>1, FilledKeeps
    <3>3. QED
      BY <3>2 DEF V
  <2>12. QED
    BY <1>0, <2>1, <2>11
<1>11. CASE e.kind = "done"
  <2>1. Result(ended, emitDone(s))
    BY ONLY <1>11, Zenon DEF ToOpenAI
  <2> HIDE DEF Result, ended, t, u
  <2>2. Later(R, Append(R, e)) /\ "done" \in KindsOf(Append(R, e))
    BY <1>1, <1>11, LaterBy, AfterRead
  <2>3. /\ s.ended => emitDone(s) = <<>>
        /\ ~s.ended => LastMarks(b, s, emitDone(s))
    BY <1>1, LastMarksAre DEF emitDone
  <2>4. ended = [s EXCEPT !.ended = TRUE]
    BY DEF ended
  <2>5. R # <<>>
    BY <1>11 DEF Ready, MaySendIn
  <2>6. BridgeInv(b, Append(R, e), ended, W \o emitDone(s), "no")
    BY <1>1, <2>2, <2>3, <2>4, <2>5, DoneKeeps
  <2>7. QED
    BY <1>0, <2>1, <2>6
<1>12. CASE e.kind = "error"
  <2>1. Result(ended, <<[out |-> "error"]>> \o emitDone(s))
    BY ONLY <1>12, Zenon DEF ToOpenAI
  <2> HIDE DEF Result, ended, t, u
  <2>2. LastMarks(b, s, emitDone(s))
    <3>1. ~s.ended
      BY <1>12, Live
    <3>2. QED
      BY <1>1, <3>1, LastMarksAre
  <2>3. ended = [s EXCEPT !.ended = TRUE]
    BY DEF ended
  <2>4. BridgeInv(b, Append(R, e), ended, W \o (<<[out |-> "error"]>> \o emitDone(s)), "no")
    BY <1>12, <2>2, <2>3, ErrorKeeps
  <2>5. QED
    BY <1>0, <2>1, <2>4
<1>13. QED
  BY <1>4, <1>6, <1>7, <1>8, <1>9, <1>10, <1>11, <1>12

LEMMA ResponsesReads ==
  ASSUME StreamAssumption, NEW R, NEW s, NEW W, NEW e, Ready("responses", R, s, W, e)
  PROVE  BridgeInv("responses", Append(R, e), ToResponses(s, e).s, W \o ToResponses(s, e).out, "no")
<1> DEFINE b == "responses"
           u == IF e.kind = "usage" THEN e.tokens ELSE s.usage
           t == [s EXCEPT !.started = TRUE, !.usage = u]
           ended == [s EXCEPT !.ended = TRUE]
           Result(next, out) == ToResponses(s, e) = [s |-> next, out |-> out]
<1>0. ASSUME NEW next, NEW out, Result(next, out), BridgeInv(b, Append(R, e), next, W \o out, "no")
      PROVE  BridgeInv(b, Append(R, e), ToResponses(s, e).s, W \o ToResponses(s, e).out, "no")
  BY <1>0
<1>1. /\ R \in Seq(Event) /\ s \in BridgeState /\ W \in Seq(Mark) /\ e \in Event /\ IsFiniteSet(DOMAIN s.place)
      /\ BridgeInv(b, R, s, W, "no") /\ Phases(b, R, s, W, "no")
  BY DEF Ready, BridgeInv, BridgeTypes
<1>2. u = Merged(s, e) /\ u \in Nat /\ (e.kind # "usage" => u = s.usage)
  BY AfterRead
<1>3. /\ t \in BridgeState /\ t.started /\ t.usage = u /\ t.ended = s.ended /\ t.place = s.place
      /\ t.closed = s.closed /\ t.kept = s.kept
  <2>1. u \in Nat
    BY <1>2
  <2> HIDE DEF u
  <2>2. QED
    BY <1>1, <2>1 DEF BridgeState
<1>4. e.kind \in {"start", "error", "done", "text", "tool", "usage", "finish"}
  BY <1>1 DEF Event
<1>5. CASE e.kind \in {"start", "usage", "error"}
  <2>1. e.kind # "done"
    BY <1>5
  <2>2. Result(t, Announce(s))
    BY ONLY <1>5, <2>1, Zenon DEF ToResponses
  <2> HIDE DEF t, u, Result
  <2>3. Unfilled(b, W, W \o Announce(s))
    BY <2>1, UnfilledAnnounces
  <2> DEFINE V == W \o Announce(s)
  <2> HIDE DEF V
  <2>4. Unfilled(b, W, V) /\ t.usage = Merged(s, e) /\ b # "openai"
    BY <1>2, <1>3, <2>3 DEF V
  <2>5. BridgeInv(b, Append(R, e), t, V, "no")
    BY <1>3, <1>5, <2>1, <2>4, UnfilledKeeps
  <2>6. QED
    BY <1>0, <2>2, <2>5 DEF V
<1>6. CASE e.kind = "done"
  <2>1. Result(ended, buildFinalResponse(s))
    BY ONLY <1>6, Zenon DEF ToResponses
  <2> HIDE DEF Result, ended, t, u
  <2>2. Later(R, Append(R, e)) /\ "done" \in KindsOf(Append(R, e))
    BY <1>1, <1>6, LaterBy, AfterRead
  <2>3. /\ s.ended => buildFinalResponse(s) = <<>>
        /\ ~s.ended => LastMarks(b, s, buildFinalResponse(s))
    BY <1>1, LastMarksAre DEF buildFinalResponse
  <2>4. ended = [s EXCEPT !.ended = TRUE]
    BY DEF ended
  <2>5. BridgeInv(b, Append(R, e), ended, W \o buildFinalResponse(s), "no")
    BY <1>1, <2>2, <2>3, <2>4, DoneKeeps
  <2>6. QED
    BY <1>0, <2>1, <2>5
<1>7. CASE e.kind \in {"text", "tool"}
  <2> DEFINE item == ItemOf(e)
             to == IF e.kind = "text" THEN 0 ELSE ensureToolCallPlace(s, e.index)
             p == PlaceOf(b, s, item)
             next == [t EXCEPT !.place = Placed(s, ItemOf(e), to), !.kept = Kept(s, ItemOf(e), e.piece)]
             x == Announce(s)
             y == Open(s, item, p)
             z == IF item \in Custom THEN <<>> ELSE Delta(item, e.piece)
             D == Announce(s) \o Open(s, ItemOf(e), to)
                    \o (IF ItemOf(e) \in Custom THEN <<>> ELSE Delta(ItemOf(e), e.piece))
  <2>1. e.kind # "done" /\ e.kind \notin {"start", "usage", "error"}
    BY <1>7
  <2>2. Result(next, D)
    BY ONLY <1>7, <2>1, Zenon DEF ToResponses
  <2> HIDE DEF Result, t, u, ended
  <2>3. item \in Items /\ e.piece \in Nat
    BY <1>1, <1>7, EventItem
  <2>4. p = to
    <3>1. CASE e.kind = "text"
      BY <3>1 DEF PlaceOf, ItemOf
    <3>2. CASE e.kind = "tool"
      <4>1. item = e.index /\ item \in Nat
        BY <1>1, <3>2 DEF ItemOf, Event, StreamAssumption
      <4>2. item # Text
        BY <4>1 DEF Text
      <4>3. QED
        BY <3>2, <4>1, <4>2 DEF PlaceOf
    <3>3. QED
      BY <1>7, <3>1, <3>2
  <2>5. /\ Placed(s, item, p) \in UNION {[P -> Nat] : P \in SUBSET Items}
        /\ IsFiniteSet(DOMAIN Placed(s, item, p)) /\ p \in Nat
        /\ DOMAIN Placed(s, item, p) = DOMAIN s.place \cup {item}
    <3>1. s \in BridgeState
      BY <1>1
    <3>2. item \in Items
      BY <2>3
    <3>3. IsFiniteSet(DOMAIN s.place)
      BY <1>1
    <3> HIDE DEF item, D, next, x, y, z, to, b
    <3>4. Placed(s, item, PlaceOf(b, s, item)) \in UNION {[P -> Nat] : P \in SUBSET Items}
      BY <3>1, <3>2, <3>3, PlacedIs
    <3>5. IsFiniteSet(DOMAIN Placed(s, item, PlaceOf(b, s, item)))
      BY <3>1, <3>2, <3>3, PlacedIs
    <3>6. PlaceOf(b, s, item) \in Nat
      BY <3>1, <3>2, <3>3, PlacedIs
    <3>7. DOMAIN Placed(s, item, PlaceOf(b, s, item)) = DOMAIN s.place \cup {item}
      BY DEF Placed
    <3>8. QED
      BY <3>4, <3>5, <3>6, <3>7
  <2>6. Kept(s, item, e.piece) \in [Items -> Seq(Nat)]
    <3> DEFINE new == IF e.piece = 0 THEN <<>> ELSE <<e.piece>>
    <3>1. s.kept \in [Items -> Seq(Nat)]
      BY <1>1 DEF BridgeState
    <3>2. s.kept[item] \in Seq(Nat) /\ new \in Seq(Nat)
      BY <2>3, <3>1
    <3>3. s.kept[item] \o new \in Seq(Nat)
      <4> HIDE DEF new
      <4>1. QED
        BY <3>2
    <3>4. Kept(s, item, e.piece) = [s.kept EXCEPT ![item] = s.kept[item] \o new]
      BY DEF Kept
    <3> HIDE DEF item, new
    <3>5. QED
      BY <3>1, <3>3, <3>4
  <2>7. /\ next \in BridgeState /\ next.started = t.started /\ next.usage = t.usage /\ next.ended = t.ended
        /\ next.place = Placed(s, item, p) /\ next.closed = t.closed /\ next.kept = Kept(s, item, e.piece)
    <3> DEFINE place == Placed(s, item, p)
               kept == Kept(s, item, e.piece)
    <3>1. next = [t EXCEPT !.place = place, !.kept = kept]
      BY <2>4
    <3>2. place \in UNION {[P -> Nat] : P \in SUBSET Items} /\ kept \in [Items -> Seq(Nat)]
      BY <2>5, <2>6
    <3>3. t \in BridgeState
      BY <1>3
    <3> HIDE DEF next, place, kept
    <3>4. /\ next \in BridgeState /\ next.started = t.started /\ next.usage = t.usage /\ next.ended = t.ended
          /\ next.place = place /\ next.closed = t.closed /\ next.kept = kept
      BY ONLY <3>1, <3>2, <3>3 DEF BridgeState
    <3>5. QED
      BY <3>4 DEF place, kept
  <2>8. D = x \o y \o z
    BY <2>4
  <2>9. ~s.ended
    BY <1>7, Live
  <2> HIDE DEF next, D
  <2>10. Fills(b, s, e, next, D)
    BY <1>2, <1>3, <1>7, <2>7, <2>8, <2>9 DEF Fills
  <2> HIDE DEF item, p, x, y, z, to
  <2>11. Filled(b, W, e, next, W \o D)
    BY <1>7, <2>10, FillsSays
  <2>12. BridgeInv(b, Append(R, e), next, W \o D, "no")
    <3> DEFINE V == W \o D
    <3> HIDE DEF V
    <3>1. Filled(b, W, e, next, V) /\ ~next.ended /\ next.closed = s.closed /\ next.usage = s.usage
          /\ IsFiniteSet(DOMAIN next.place)
      BY <1>2, <1>3, <1>7, <2>5, <2>7, <2>9, <2>11 DEF V
    <3>2. next.kept = Kept(s, ItemOf(e), e.piece) /\ DOMAIN next.place = DOMAIN s.place \cup {ItemOf(e)}
      BY <2>5, <2>7 DEF item
    <3>3. BridgeInv(b, Append(R, e), next, V, "no")
      BY <1>7, <2>7, <3>1, <3>2, FilledKeeps
    <3>4. QED
      BY <3>3 DEF V
  <2>13. QED
    BY <1>0, <2>2, <2>12
<1>8. CASE e.kind = "finish"
  <2> DEFINE next == [t EXCEPT !.closed = DOMAIN s.place]
             D == Announce(s) \o finalizeToolCallEvents(s)
  <2>1. e.kind # "done" /\ e.kind \notin {"start", "usage", "error"} /\ e.kind \notin {"text", "tool"}
    BY <1>8
  <2>2. Result(next, D)
    BY ONLY <1>8, <2>1, Zenon DEF ToResponses
  <2> HIDE DEF Result, t, u, ended
  <2>3. DOMAIN s.place \in SUBSET Items
    BY <1>1 DEF BridgeState
  <2>4. /\ next \in BridgeState /\ next.started = t.started /\ next.usage = t.usage /\ next.ended = t.ended
        /\ next.place = t.place /\ next.kept = t.kept
    <3> DEFINE closed == DOMAIN s.place
    <3>1. next = [t EXCEPT !.closed = closed] /\ closed \in SUBSET Items
      BY <2>3
    <3>2. t \in BridgeState
      BY <1>3
    <3> HIDE DEF next, closed
    <3>3. QED
      BY ONLY <3>1, <3>2 DEF BridgeState
  <2>5. ~s.ended
    BY <1>8, Live
  <2> HIDE DEF next
  <2>6. Finished(b, s, W, W \o D)
    BY <1>8, FinishSays
  <2> HIDE DEF D
  <2>7. BridgeInv(b, Append(R, e), next, W \o D, "no")
    <3> DEFINE V == W \o D
    <3> HIDE DEF V
    <3>1. Finished(b, s, W, V) /\ ~next.ended /\ next.place = s.place /\ next.kept = s.kept /\ next.usage = s.usage
      BY <1>2, <1>3, <1>8, <2>4, <2>5, <2>6 DEF V
    <3>2. BridgeInv(b, Append(R, e), next, V, "no")
      BY <1>8, <2>4, <3>1, FinishKeeps
    <3>3. QED
      BY <3>2 DEF V
  <2>8. QED
    BY <1>0, <2>2, <2>7
<1>9. QED
  BY <1>4, <1>5, <1>6, <1>7, <1>8

(***************************************************************************)
(* The loop of a bridge.                                                   *)
(***************************************************************************)

StreamInv == BridgeInv(bridge, read, state, written, over) /\ over \in {"no", "eof", "broken"}

LEMMA NothingRead ==
  /\ KindsOf(<<>>) = {} /\ LatestUsage(<<>>) = 0
  /\ \A kind : UsageIn(<<>>, MarkAt(<<>>, kind)) = 0
  /\ \A item : GivenOf(<<>>, item) = <<>> /\ Pieces(<<>>, item) = <<>>
<1>1. DOMAIN <<>> = {} /\ Len(<<>>) = 0
  OBVIOUS
<1>2. KindsOf(<<>>) = {}
  BY <1>1 DEF KindsOf
<1>3. \A kind, n : LastIn(<<>>, kind, n) = {}
  BY <1>1 DEF LastIn
<1>4. \A n : UsageIn(<<>>, n) = 0
  BY <1>3 DEF UsageIn
<1>5. ASSUME NEW item
      PROVE  GivenOf(<<>>, item) = <<>> /\ Pieces(<<>>, item) = <<>>
  <2>1. <<>> \in Seq(Event) /\ <<>> \in Seq(Mark)
    OBVIOUS
  <2> DEFINE p == [i \in DOMAIN <<>> |-> GivenIn((<<>>)[i], item)]
  <2>2. p = <<>>
    BY <1>1
  <2>3. p \in Seq(Seq(Nat)) /\ \A n \in 1..Len(p) : p[n] = <<>>
    BY <2>2
  <2>4. GivenOf(<<>>, item) = FlattenSeq(p)
    BY DEF GivenOf
  <2> HIDE DEF p
  <2>5. FlattenSeq(p) = <<>>
    BY <2>3, FlattenNone
  <2>6. Pieces(<<>>, item) = <<>>
    <3>1. Filling(<<>>) = {}
      BY <1>1 DEF Filling, Marks
    <3>2. \A i \in Filling(<<>>) : (<<>>)[i].item # item
      BY <3>1
    <3>3. QED
      BY <2>1, <3>2, PiecesOne
  <2>7. QED
    BY <2>4, <2>5, <2>6
<1>6. QED
  BY <1>2, <1>4, <1>5 DEF LatestUsage

LEMMA FreshIs ==
  /\ Fresh \in BridgeState /\ ~Fresh.started /\ ~Fresh.ended /\ DOMAIN Fresh.place = {} /\ Fresh.usage = 0
  /\ Fresh.closed = {} /\ \A item \in Items : Fresh.kept[item] = <<>>
<1>1. <<>> \in [{} -> Nat] /\ {} \in SUBSET Items /\ DOMAIN <<>> = {}
  OBVIOUS
<1>2. <<>> \in UNION {[D -> Nat] : D \in SUBSET Items}
  BY <1>1
<1>3. [i \in Items |-> <<>>] \in [Items -> Seq(Nat)]
  OBVIOUS
<1>4. QED
  BY <1>1, <1>2, <1>3 DEF Fresh, BridgeState

LEMMA StreamsInitially ==
  ASSUME StreamInit
  PROVE  StreamInv
<1> DEFINE w == <<>>
<1>1. /\ bridge \in Bridges /\ read = <<>> /\ state = Fresh /\ written = <<>> /\ over = "no"
  BY DEF StreamInit, Bridges
<1>2. \A k : Said(<<>>, k) = {} /\ Marks(<<>>, k) = {}
  BY DEF Said, Marks
<1>3. BridgeTypes(bridge, read, state, written)
  <2>1. IsFiniteSet(DOMAIN Fresh.place)
    BY FreshIs, FS_EmptySet
  <2>2. QED
    BY <1>1, <2>1, FreshIs DEF BridgeTypes
<1>4. Sound(bridge, written)
  BY <1>1, <1>2 DEF Sound, Announced, NotClosed, Within, Distinct, StopsLast, Content, Filling
<1>5. Phases(bridge, read, state, written, over)
  BY <1>1, <1>2, FreshIs, NothingRead DEF Phases
<1>6. Placing(bridge, state, written)
  BY <1>1, <1>2, FreshIs DEF Placing, Opens
<1>7. Telling(bridge, read, state, written)
  BY <1>1, FreshIs, NothingRead DEF Telling
<1>8. Ledger(bridge, read, state, written)
  BY <1>1, <1>2, FreshIs, NothingRead DEF Ledger
<1>9. QED
  BY <1>1, <1>3, <1>4, <1>5, <1>6, <1>7, <1>8 DEF StreamInv, BridgeInv

LEMMA ReadKeeps ==
  ASSUME StreamAssumption, StreamInv, over = "no", NEW e \in EventsNow, MaySend(e)
  PROVE  BridgeInv(bridge, Append(read, e), handleEvent(state, e).s, written \o handleEvent(state, e).out, "no")
<1>1. BridgeInv(bridge, read, state, written, "no") /\ bridge \in Bridges /\ read \in Seq(Event)
  BY DEF StreamInv, BridgeInv, BridgeTypes
<1>2. e \in Event /\ (e.kind = "usage" => e.tokens = Len(read) + 1)
  BY <1>1 DEF EventsNow, Event
<1>3. MaySendIn(bridge, read, e)
  BY DEF MaySend, MaySendIn, Kinds, KindsOf
<1>4. Ready(bridge, read, state, written, e)
  BY <1>1, <1>2, <1>3 DEF Ready
<1>5. CASE bridge = "anthropic"
  <2>1. handleEvent(state, e) = ToAnthropic(state, e)
    BY ONLY <1>5, Zenon DEF handleEvent
  <2>2. BridgeInv("anthropic", Append(read, e), ToAnthropic(state, e).s, written \o ToAnthropic(state, e).out, "no")
    BY <1>4, <1>5, AnthropicReads
  <2>3. QED
    BY <1>5, <2>1, <2>2
<1>6. CASE bridge = "openai"
  <2>1. bridge # "anthropic"
    BY <1>6
  <2>2. handleEvent(state, e) = ToOpenAI(state, e)
    BY ONLY <1>6, <2>1, Zenon DEF handleEvent
  <2>3. BridgeInv("openai", Append(read, e), ToOpenAI(state, e).s, written \o ToOpenAI(state, e).out, "no")
    BY <1>4, <1>6, OpenAIReads
  <2>4. QED
    BY <1>6, <2>2, <2>3
<1>7. CASE bridge = "responses"
  <2>1. bridge # "anthropic" /\ bridge # "openai"
    BY <1>7
  <2>2. handleEvent(state, e) = ToResponses(state, e)
    BY ONLY <1>7, <2>1, Zenon DEF handleEvent
  <2>3. BridgeInv("responses", Append(read, e), ToResponses(state, e).s, written \o ToResponses(state, e).out, "no")
    BY <1>4, <1>7, ResponsesReads
  <2>4. QED
    BY <1>7, <2>2, <2>3
<1>8. QED
  BY <1>1, <1>5, <1>6, <1>7 DEF Bridges

(* What a bridge tells when there is nothing more to read.                  *)
LastOfAll ==
  CASE bridge = "anthropic" -> finalizeAnthropic(state, "end_turn")
    [] bridge = "openai"    -> emitDone(state)
    [] bridge = "responses" -> buildFinalResponse(state)

LEMMA EndIsKept ==
  ASSUME StreamInv, over = "no"
  PROVE  BridgeInv(bridge, read, [state EXCEPT !.ended = TRUE], written \o LastOfAll, "eof")
<1>1. BridgeInv(bridge, read, state, written, "no") /\ bridge \in Bridges /\ read \in Seq(Event)
      /\ state \in BridgeState
  BY DEF StreamInv, BridgeInv, BridgeTypes
<1>2. /\ state.ended => LastOfAll = <<>>
      /\ ~state.ended => LastMarks(bridge, state, LastOfAll)
  <2>1. CASE bridge = "anthropic"
    <3>1. LastOfAll = finalizeAnthropic(state, "end_turn")
      BY ONLY <2>1, Zenon DEF LastOfAll
    <3>2. "end_turn" \in EndReasons
      BY DEF EndReasons
    <3>3. state.ended => LastOfAll = <<>>
      BY <3>1 DEF finalizeAnthropic
    <3>4. ~state.ended => LastMarks("anthropic", state, finalizeAnthropic(state, "end_turn"))
      BY <1>1, <3>2, LastMarksAre
    <3>5. QED
      BY <2>1, <3>1, <3>3, <3>4
  <2>2. CASE bridge = "openai"
    <3>1. bridge # "anthropic"
      BY <2>2
    <3>2. LastOfAll = emitDone(state)
      BY ONLY <2>2, <3>1, Zenon DEF LastOfAll
    <3>3. state.ended => LastOfAll = <<>>
      BY <3>2 DEF emitDone
    <3>4. ~state.ended => LastMarks("openai", state, emitDone(state))
      BY <1>1, LastMarksAre
    <3>5. QED
      BY <2>2, <3>2, <3>3, <3>4
  <2>3. CASE bridge = "responses"
    <3>1. bridge # "anthropic" /\ bridge # "openai"
      BY <2>3
    <3>2. LastOfAll = buildFinalResponse(state)
      BY ONLY <2>3, <3>1, Zenon DEF LastOfAll
    <3>3. state.ended => LastOfAll = <<>>
      BY <3>2 DEF buildFinalResponse
    <3>4. ~state.ended => LastMarks("responses", state, buildFinalResponse(state))
      BY <1>1, LastMarksAre
    <3>5. QED
      BY <2>3, <3>2, <3>3, <3>4
  <2>4. QED
    BY <1>1, <2>1, <2>2, <2>3 DEF Bridges
<1>3. Later(read, read)
  BY <1>1, LaterBy
<1> DEFINE t == [state EXCEPT !.ended = TRUE]
<1>4. t = [state EXCEPT !.ended = TRUE]
  OBVIOUS
<1> HIDE DEF t
<1>5. BridgeInv(bridge, read, t, written \o LastOfAll, "eof")
  BY <1>1, <1>2, <1>3, <1>4, DoneKeeps
<1>6. QED
  BY <1>5 DEF t

LEMMA StreamInvKept ==
  ASSUME StreamAssumption, StreamInv, StreamNext \/ UNCHANGED streamVars
  PROVE  StreamInv'
<1>1. CASE ReadEvent
  <2>1. PICK e \in EventsNow :
          /\ MaySend(e) /\ read' = Append(read, e) /\ state' = handleEvent(state, e).s
          /\ written' = written \o handleEvent(state, e).out
    BY <1>1 DEF ReadEvent
  <2>2. over = "no" /\ over' = "no" /\ bridge' = bridge
    BY <1>1 DEF ReadEvent
  <2>3. BridgeInv(bridge, Append(read, e), handleEvent(state, e).s, written \o handleEvent(state, e).out, "no")
    BY <2>1, <2>2, ReadKeeps
  <2>4. BridgeInv(bridge', read', state', written', over')
    BY <2>1, <2>2, <2>3
  <2>5. QED
    BY <2>2, <2>4 DEF StreamInv
<1>2. CASE EndOfStream
  <2>1. /\ over = "no" /\ over' = "eof" /\ bridge' = bridge /\ read' = read
        /\ state' = [state EXCEPT !.ended = TRUE]
    BY <1>2 DEF EndOfStream
  <2>2. written' = written \o LastOfAll
    BY <1>2 DEF EndOfStream, LastOfAll
  <2>3. BridgeInv(bridge, read, [state EXCEPT !.ended = TRUE], written \o LastOfAll, "eof")
    BY <2>1, EndIsKept
  <2>4. BridgeInv(bridge', read', state', written', over')
    BY <2>1, <2>2, <2>3
  <2>5. QED
    BY <2>1, <2>4 DEF StreamInv
<1>3. CASE ReadFails
  <2>1. over = "no" /\ over' = "broken" /\ bridge' = bridge /\ read' = read /\ state' = state /\ written' = written
    BY <1>3 DEF ReadFails
  <2>2. BridgeInv(bridge, read, state, written, "no")
    BY <2>1 DEF StreamInv
  <2>3. BridgeInv(bridge, read, state, written, "broken")
    BY <2>2 DEF BridgeInv, Phases
  <2>4. QED
    BY <2>1, <2>3 DEF StreamInv
<1>4. CASE UNCHANGED streamVars
  BY <1>4 DEF StreamInv, streamVars
<1>5. QED
  BY <1>1, <1>2, <1>3, <1>4 DEF StreamNext

LEMMA StreamInvSound ==
  ASSUME StreamInv
  PROVE  StreamSound /\ StreamComplete
<1>1. /\ Sound(bridge, written) /\ Phases(bridge, read, state, written, over)
      /\ Telling(bridge, read, state, written) /\ Ledger(bridge, read, state, written)
      /\ Opens(written, state.place) /\ bridge \in Bridges
  BY DEF StreamInv, BridgeInv, BridgeTypes, Placing
<1>2. StreamSound
  BY <1>1, SoundIs
<1>3. /\ \A k : (Wrote(k) = {} <=> Said(written, k) = {})
      /\ \A k : \A i \in Wrote(k) : written[i] \in Said(written, k)
      /\ \A k : \A m \in Said(written, k) : \E i \in Wrote(k) : m = written[i]
  BY DEF Wrote, Said, Marks
<1>4. /\ Kinds = KindsOf(read) /\ \A item : Given(item) = GivenOf(read, item)
      /\ UsageBefore(FinishAt) = UsageIn(read, MarkAt(read, "finish"))
      /\ UsageBefore(LastMark) = UsageIn(read, MarkAt(read, "error"))
      /\ UsageBefore(Len(read) + 1) = LatestUsage(read)
  BY DEF Kinds, KindsOf, Given, GivenOf, UsageBefore, UsageIn, FinishAt, LastMark, MarkAt, LatestUsage, LastOf, LastIn
<1>5. \A item \in Items :
        LET back == bridge = "responses" /\ item \in Custom /\ "finish" \notin Kinds
        IN Pieces(written, item) = IF back THEN <<>> ELSE Given(item)
  BY <1>1, <1>4 DEF Telling, HeldBack
<1>6. over = "eof" => Wrote("stop") # {}
  BY <1>1, <1>3 DEF Phases
<1>7. Wrote("stop") # {} => over = "eof" \/ Kinds \cap {"done", "error", "finish"} # {}
  BY <1>1, <1>3, <1>4 DEF Phases
<1>8. ASSUME NEW i \in Wrote("stop")
      PROVE  /\ bridge = "anthropic" =>
                  /\ \A item \in Opened : \E j \in Wrote("close") : item \in written[j].items
                  /\ \A j \in Wrote("end") : written[j].usage = UsageBefore(FinishAt)
             /\ bridge = "responses" => \A j \in Wrote("end") :
                  /\ written[j].usage = UsageBefore(Len(read) + 1)
                  /\ \A item \in Items : written[j].content[item] = Given(item)
             /\ bridge = "openai" =>
                  IF Wrote("usage") = {} THEN UsageBefore(LastMark) = 0
                  ELSE \A j \in Wrote("usage") : written[j].usage = UsageBefore(LastMark)
  <2>1. state.ended
    BY <1>1, <1>3, <1>8 DEF Phases
  <2>2. ASSUME bridge = "anthropic"
        PROVE  /\ \A item \in Opened : \E j \in Wrote("close") : item \in written[j].items
               /\ \A j \in Wrote("end") : written[j].usage = UsageBefore(FinishAt)
    <3>1. Opened \subseteq DOMAIN state.place
      BY <1>1, <1>3 DEF Opened, Opens
    <3>2. \A x \in DOMAIN state.place : \E m \in Said(written, "close") : x \in m.items
      BY <1>1, <2>1, <2>2 DEF Ledger
    <3>3. \A m \in Said(written, "end") : m.usage = UsageIn(read, MarkAt(read, "finish"))
      BY <1>1, <2>2 DEF Ledger
    <3>4. \A item \in Opened : \E j \in Wrote("close") : item \in written[j].items
      BY <1>3, <3>1, <3>2
    <3>5. \A j \in Wrote("end") : written[j].usage = UsageBefore(FinishAt)
      BY <1>3, <1>4, <3>3
    <3>6. QED
      BY <3>4, <3>5
  <2>3. ASSUME bridge = "responses"
        PROVE  \A j \in Wrote("end") :
                  /\ written[j].usage = UsageBefore(Len(read) + 1)
                  /\ \A item \in Items : written[j].content[item] = Given(item)
    <3>1. \A m \in Said(written, "end") :
            m.usage = LatestUsage(read) /\ \A item \in Items : m.content[item] = GivenOf(read, item)
      BY <1>1, <2>3 DEF Ledger
    <3>2. QED
      BY <1>3, <1>4, <3>1
  <2>4. ASSUME bridge = "openai"
        PROVE  IF Wrote("usage") = {} THEN UsageBefore(LastMark) = 0
               ELSE \A j \in Wrote("usage") : written[j].usage = UsageBefore(LastMark)
    <3>1. IF Said(written, "usage") = {} THEN UsageIn(read, MarkAt(read, "error")) = 0
          ELSE \A m \in Said(written, "usage") : m.usage = UsageIn(read, MarkAt(read, "error"))
      BY <1>1, <2>1, <2>4 DEF Ledger
    <3>2. QED
      BY <1>3, <1>4, <3>1
  <2>5. QED
    BY <2>2, <2>3, <2>4
<1>9. StreamComplete
  BY <1>5, <1>6, <1>7, <1>8 DEF StreamComplete
<1>10. QED
  BY <1>2, <1>9

LEMMA StreamAlways == StreamSpec => []StreamInv
<1>1. StreamInit => StreamInv
  BY StreamsInitially
<1>2. StreamInv /\ [StreamNext]_streamVars => StreamInv'
  BY StreamInvKept, StreamAssumption
<1>3. QED
  BY <1>1, <1>2, PTL DEF StreamSpec

(* A client of a bridge is told of every item once, between the announcement *)
(* and the item's closing, each at a place of its own, with nothing after   *)
(* the last mark; and all the provider said of it reaches the client, in    *)
(* order and with the usage told so far, for a stream of any length.        *)
THEOREM StreamsAreSound == StreamSpec => []StreamsSound
<1>1. StreamInv => StreamsSound
  BY StreamInvSound DEF StreamsSound
<1>2. QED
  BY <1>1, StreamAlways, PTL
=============================================================================
