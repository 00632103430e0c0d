---------------------------- MODULE AdmissionProofs ----------------------------
(***************************************************************************)
(* Proofs about what decides when a request is worked on: the queue, the   *)
(* rate limiters and the response cache, for any number of requests,       *)
(* schedulers, clients and keys, and every size, rate and time to live.    *)
(***************************************************************************)
EXTENDS MCAdmission, FiniteSetTheorems, TLAPS

(***************************************************************************)
(* The queue.                                                              *)
(***************************************************************************)

(* The requests that a level's counter counts beside those in its channel. *)
PickedUp(r) == \E s \in Schedulers : scheduler[s] = [at |-> "picked", got |-> r]
Waits(r) == caller[r] = "counted" \/ PickedUp(r)
Beside(l) == {r \in Requests : Priority[r] = l /\ Waits(r)}
HasOne(s) == scheduler[s].at \in {"picked", "acquire"}

(* A request is in at most one place, and nowhere until it is sent.         *)
NowhereYet ==
  \A r \in Requests : caller[r] \in {"none", "counted"} => ~InChannel(r) /\ ~Held(r) /\ work[r] = "none"
NotBegun == \A r \in Requests : InChannel(r) \/ Held(r) => work[r] = "none"
NotBoth == \A r \in Requests : ~(InChannel(r) /\ Held(r))
OwnLevel == \A l \in Level : \A i \in DOMAIN channel[l] : Priority[channel[l][i]] = l
OnceThere == \A l \in Level : \A i, j \in DOMAIN channel[l] : channel[l][i] = channel[l][j] => i = j
OneHolder ==
  \A s, t \in Schedulers : HasOne(s) /\ HasOne(t) /\ scheduler[s].got = scheduler[t].got => s = t
OnePlace == NowhereYet /\ NotBegun /\ NotBoth /\ OwnLevel /\ OnceThere /\ OneHolder

(* Who sends the next request has been answered.                            *)
Answered == \A r \in Requests : caller[r] = "done" => work[r] = "ended"

SlotsHold == IsFiniteSet(Running) /\ Cardinality(Running) <= MaxConcurrent

CountersRight ==
  \A l \in Level : IsFiniteSet(Beside(l)) /\ waiting[l] = Len(channel[l]) + Cardinality(Beside(l))

(* Somebody will look at a level: a scheduler that has not passed it, or    *)
(* one that starts again, or has stopped; or a token is there, or will be.  *)
LooksAt(s, l) ==
  \/ scheduler[s].at = "scan" /\ scheduler[s].level <= l
  \/ scheduler[s].at \in {"picked", "acquire", "stopped"}
NoneForgotten ==
  \A l \in Level : channel[l] # <<>> =>
    \/ \E s \in Schedulers : LooksAt(s, l)
    \/ notify > 0
    \/ \E r \in Requests : caller[r] = "sent"

QueueInv == QueueTypeOK /\ OnePlace /\ Answered /\ SlotsHold /\ CountersRight /\ NoneForgotten

QueueStep ==
  \/ \E r \in Requests : Enqueue(r) \/ EnqueueFails(r) \/ Leave(r) \/ Send(r) \/ Notify(r)
                            \/ Ends(r) \/ Panics(r) \/ Again(r)
  \/ \E s \in Schedulers : Pick(s) \/ Wake(s) \/ Uncount(s) \/ Acquire(s) \/ Stop(s)
  \/ Close

LEMMA Levels == Level = 1..3 /\ Len(Priorities) = 3
BY DEF Level, Priorities

LEMMA QueueInitially == QueueInit => QueueInv
<1> SUFFICES ASSUME QueueInit PROVE QueueInv
  OBVIOUS
<1> USE DEF QueueInit
<1>1. QueueTypeOK
  <2>1. channel \in [Level -> Seq(Requests)] /\ \A l \in Level : Len(channel[l]) <= ChannelCap
    BY QueueAssumption
  <2>2. scheduler \in [Schedulers -> SchedulerState]
    BY Levels DEF SchedulerState, Scan
  <2>3. notify \in 0..ChannelCap /\ waiting \in [Level -> Nat] /\ cancels \in 0..MaxCancels
    BY QueueAssumption
  <2>4. QED
    BY <2>1, <2>2, <2>3 DEF QueueTypeOK
<1>2. OnePlace
  BY QueueAssumption, Levels DEF OnePlace, NowhereYet, NotBegun, NotBoth, OwnLevel, OnceThere, OneHolder, HasOne, Held, InChannel, Scan
<1>3. SlotsHold
  <2>1. Running = {}
    BY DEF Running
  <2>2. MaxConcurrent \in Nat
    BY QueueAssumption, FS_CardinalityType DEF MaxConcurrent
  <2>3. QED
    BY <2>1, <2>2, FS_EmptySet DEF SlotsHold
<1>4. CountersRight
  <2>1. \A l \in Level : Beside(l) = {}
    BY DEF Beside, Waits, PickedUp, Scan
  <2>2. \A l \in Level : waiting[l] = 0 /\ Len(channel[l]) = 0
    OBVIOUS
  <2>3. \A l \in Level : IsFiniteSet(Beside(l)) /\ Cardinality(Beside(l)) = 0
    BY <2>1, FS_EmptySet
  <2>4. QED
    BY <2>2, <2>3 DEF CountersRight
<1>5. NoneForgotten
  BY DEF NoneForgotten
<1>6. Answered
  BY DEF Answered
<1>7. QED
  BY <1>1, <1>2, <1>3, <1>4, <1>5, <1>6 DEF QueueInv

-----------------------------------------------------------------------------
(* What each step does to the places. *)
LEMMA PlacesUnmoved ==
  ASSUME UNCHANGED <<channel, scheduler>>
  PROVE  /\ \A r \in Requests : (InChannel(r)' <=> InChannel(r)) /\ (Held(r)' <=> Held(r))
         /\ OwnLevel => OwnLevel'
         /\ OnceThere => OnceThere'
         /\ OneHolder => OneHolder'
BY DEF InChannel, Held, OwnLevel, OnceThere, OneHolder, HasOne

LEMMA NoneTaken ==
  ASSUME OnePlace, UNCHANGED <<channel, caller, work>>,
         \A t \in Schedulers : HasOne(t)' => HasOne(t) /\ scheduler'[t].got = scheduler[t].got
  PROVE  OnePlace'
<1>1. \A r \in Requests : (InChannel(r)' <=> InChannel(r)) /\ (Held(r)' => Held(r))
  BY DEF InChannel, Held, HasOne
<1>2. NowhereYet' /\ NotBegun' /\ NotBoth'
  BY <1>1 DEF OnePlace, NowhereYet, NotBegun, NotBoth
<1>3. OwnLevel' /\ OnceThere'
  BY DEF OnePlace, OwnLevel, OnceThere
<1>4. OneHolder'
  BY DEF OnePlace, OneHolder
<1>5. QED
  BY <1>2, <1>3, <1>4 DEF OnePlace

LEMMA AnsweredKept ==
  ASSUME QueueTypeOK, OnePlace, Answered, QueueStep
  PROVE  Answered'
<1>1. ASSUME NEW s \in Schedulers, Acquire(s)
      PROVE  Answered'
  <2> DEFINE r == scheduler[s].got
  <2>1. r \in Requests /\ Held(r) /\ UNCHANGED caller /\ \A q \in Requests \ {r} : work'[q] = work[q]
    BY <1>1 DEF Acquire, Held, QueueTypeOK, SchedulerState
  <2>2. caller[r] # "done"
    BY <2>1 DEF OnePlace, NotBegun, Answered
  <2>3. QED
    BY <2>1, <2>2 DEF Answered
<1>2. ASSUME NEW r \in Requests, Again(r) \/ Ends(r) \/ Panics(r) \/ Notify(r)
      PROVE  Answered'
  <2>1. \A q \in Requests \ {r} : caller'[q] = caller[q] /\ work'[q] = work[q]
    BY <1>2 DEF Again, Ends, Panics, Notify, Caller, QueueTypeOK
  <2>2. caller'[r] = "done" => work'[r] = "ended"
    BY <1>2 DEF Again, Ends, Panics, Notify, Caller, Running, Answered, QueueTypeOK
  <2>3. QED
    BY <2>1, <2>2 DEF Answered
<1>3. ASSUME UNCHANGED work, \A q \in Requests : caller'[q] = "done" => caller[q] = "done"
      PROVE  Answered'
  BY <1>3 DEF Answered
<1>4. ASSUME NEW r \in Requests, Enqueue(r) \/ EnqueueFails(r) \/ Leave(r) \/ Send(r)
      PROVE  Answered'
  BY <1>3, <1>4 DEF Enqueue, EnqueueFails, Leave, Send, Caller, QueueTypeOK
<1>5. QED
  BY <1>1, <1>2, <1>3, <1>4 DEF QueueStep, Pick, Wake, Uncount, Stop, Close

LEMMA OnePlaceKept ==
  ASSUME QueueTypeOK, OnePlace, Answered, QueueStep
  PROVE  OnePlace'
<1>1. ASSUME NEW r \in Requests, Enqueue(r) \/ EnqueueFails(r) \/ Leave(r) \/ Notify(r)
      PROVE  OnePlace'
  <2>1. UNCHANGED <<channel, scheduler, work>>
    BY <1>1 DEF Enqueue, EnqueueFails, Leave, Notify
  <2>2. \A q \in Requests : caller'[q] \in {"none", "counted"} => caller[q] \in {"none", "counted"}
    BY <1>1 DEF Enqueue, EnqueueFails, Leave, Notify, Caller, QueueTypeOK
  <2>3. QED
    BY <2>1, <2>2, PlacesUnmoved DEF OnePlace, NowhereYet, NotBegun, NotBoth
<1>2. ASSUME NEW r \in Requests, Ends(r) \/ Panics(r)
      PROVE  OnePlace'
  <2>1. UNCHANGED <<channel, scheduler>>
    BY <1>2 DEF Ends, Panics
  <2>2. \A q \in Requests : caller'[q] \in {"none", "counted"} => caller[q] \in {"none", "counted"}
    BY <1>2 DEF Ends, Panics, QueueTypeOK
  <2>3. \A q \in Requests : (InChannel(q)' <=> InChannel(q)) /\ (Held(q)' <=> Held(q))
    BY <2>1, PlacesUnmoved
  <2>4. NowhereYet' /\ NotBegun' /\ NotBoth'
    <3>1. \A q \in Requests : work'[q] = "none" <=> work[q] = "none"
      BY <1>2 DEF Ends, Panics, Running, QueueTypeOK
    <3>2. NowhereYet'
      <4> SUFFICES ASSUME NEW q \in Requests, caller'[q] \in {"none", "counted"}
                   PROVE  ~InChannel(q)' /\ ~Held(q)' /\ work'[q] = "none"
        BY DEF NowhereYet
      <4>1. caller[q] \in {"none", "counted"}
        BY <2>2
      <4>2. QED
        BY <4>1, <2>3, <3>1 DEF OnePlace, NowhereYet
    <3>3. NotBegun' /\ NotBoth'
      BY <2>2, <2>3, <3>1 DEF OnePlace, NotBegun, NotBoth
    <3>4. QED
      BY <3>2, <3>3
  <2>5. QED
    BY <2>1, <2>4, PlacesUnmoved DEF OnePlace
<1>3. ASSUME Close
      PROVE  OnePlace'
  BY <1>3, PlacesUnmoved DEF Close, OnePlace, NowhereYet, NotBegun, NotBoth
<1>4. ASSUME NEW r \in Requests, Send(r)
      PROVE  OnePlace'
  <2> DEFINE l == Priority[r]
  <2>1. /\ UNCHANGED <<scheduler, work>> /\ caller[r] = "counted" /\ caller'[r] = "sent"
        /\ \A q \in Requests \ {r} : caller'[q] = caller[q]
    BY <1>4 DEF Send, Caller, QueueTypeOK
  <2>2. /\ l \in Level /\ channel[l] \in Seq(Requests)
        /\ channel'[l] = Append(channel[l], r) /\ \A k \in Level \ {l} : channel'[k] = channel[k]
    BY <1>4, QueueAssumption DEF Send, QueueTypeOK
  <2>3. ~InChannel(r) /\ ~Held(r) /\ work[r] = "none"
    BY <2>1 DEF OnePlace, NowhereYet
  <2>4. \A q \in Requests : (Held(q)' <=> Held(q)) /\ (InChannel(q)' <=> InChannel(q) \/ q = r)
    <3>1. \A q \in Requests : Held(q)' <=> Held(q)
      BY <2>1 DEF Held
    <3>2. ASSUME NEW q \in Requests PROVE InChannel(q)' <=> InChannel(q) \/ q = r
      <4>1. CASE Priority[q] = l
        BY <4>1, <2>2, SMTT(30) DEF InChannel
      <4>2. CASE Priority[q] # l
        BY <4>2, <2>2, QueueAssumption DEF InChannel
      <4>3. QED
        BY <4>1, <4>2
    <3>3. QED
      BY <3>1, <3>2
  <2>5. NowhereYet' /\ NotBegun' /\ NotBoth'
    BY <2>1, <2>3, <2>4 DEF OnePlace, NowhereYet, NotBegun, NotBoth
  <2>6. OwnLevel'
    BY <2>2, SMTT(30) DEF OnePlace, OwnLevel
  <2>7. OnceThere'
    <3>1. \A i \in DOMAIN channel[l] : channel[l][i] # r
      BY <2>3 DEF InChannel
    <3>2. /\ Len(channel[l]) \in Nat /\ DOMAIN channel[l] = 1..Len(channel[l])
          /\ DOMAIN channel'[l] = 1..Len(channel[l]) + 1 /\ channel'[l][Len(channel[l]) + 1] = r
          /\ \A i \in DOMAIN channel[l] : channel'[l][i] = channel[l][i]
      BY <2>2
    <3>3. \A i, j \in DOMAIN channel'[l] : channel'[l][i] = channel'[l][j] => i = j
      BY <2>2, <3>1, <3>2 DEF OnePlace, OnceThere
    <3>4. QED
      BY <2>2, <3>3 DEF OnePlace, OnceThere
  <2>8. OneHolder'
    BY <2>1 DEF OnePlace, OneHolder, HasOne
  <2>9. QED
    BY <2>5, <2>6, <2>7, <2>8 DEF OnePlace
<1>5. ASSUME NEW s \in Schedulers, Pick(s)
      PROVE  OnePlace'
  <2> DEFINE l == scheduler[s].level
             r == Head(channel[l])
  <2>1. scheduler[s].at = "scan" /\ l \in Level /\ UNCHANGED <<caller, work>>
    BY <1>5 DEF Pick, QueueTypeOK, SchedulerState
  <2>2. CASE channel[l] = <<>>
    <3>1. UNCHANGED channel /\ scheduler'[s].at \in {"scan", "sleep"}
          /\ \A t \in Schedulers \ {s} : scheduler'[t] = scheduler[t]
      BY <1>5, <2>2 DEF Pick, Becomes, Scan, Sleeping, QueueTypeOK
    <3>2. QED
      BY <2>1, <3>1, NoneTaken DEF HasOne
  <2>3. CASE channel[l] # <<>>
    <3>1. /\ channel[l] \in Seq(Requests) /\ channel'[l] = Tail(channel[l])
          /\ \A k \in Level \ {l} : channel'[k] = channel[k]
          /\ r \in Requests /\ channel[l][1] = r
      BY <1>5, <2>1, <2>3 DEF Pick, QueueTypeOK
    <3>2. /\ scheduler'[s] = [at |-> "picked", got |-> r]
          /\ \A t \in Schedulers \ {s} : scheduler'[t] = scheduler[t]
      BY <1>5, <2>1, <2>3 DEF Pick, Becomes, QueueTypeOK
    <3>3. /\ Len(channel[l]) \in Nat \ {0}
          /\ \A i \in DOMAIN channel'[l] : i + 1 \in DOMAIN channel[l] /\ channel'[l][i] = channel[l][i + 1]
          /\ \A i \in DOMAIN channel[l] : i # 1 => i - 1 \in DOMAIN channel'[l] /\ channel[l][i] = channel'[l][i - 1]
      BY <2>3, <3>1, SMTT(30)
    <3>4. Priority[r] = l /\ InChannel(r)
      BY <2>1, <3>1, <3>3 DEF OnePlace, OwnLevel, InChannel
    <3>5. ~Held(r) /\ work[r] = "none" /\ caller[r] \notin {"none", "counted"}
      BY <3>1, <3>4 DEF OnePlace, NotBoth, NotBegun, NowhereYet
    <3>6. \A i \in DOMAIN channel'[l] : channel'[l][i] # r
      BY <2>1, <3>1, <3>3 DEF OnePlace, OnceThere
    <3>7. \A q \in Requests : Held(q)' => Held(q) \/ q = r
      BY <3>2 DEF Held
    <3>8. ASSUME NEW q \in Requests, InChannel(q)'
          PROVE  InChannel(q) /\ q # r
      <4>1. CASE Priority[q] = l
        BY <3>3, <3>6, <3>8, <4>1 DEF InChannel
      <4>2. CASE Priority[q] # l
        BY <3>1, <3>4, <3>8, <4>2, QueueAssumption DEF InChannel
      <4>3. QED
        BY <4>1, <4>2
    <3>9. NowhereYet' /\ NotBegun' /\ NotBoth'
      BY <2>1, <3>5, <3>7, <3>8 DEF OnePlace, NowhereYet, NotBegun, NotBoth
    <3>10. OwnLevel' /\ OnceThere'
      <4>1. \A i \in DOMAIN channel'[l] : Priority[channel'[l][i]] = l
        BY <2>1, <3>3 DEF OnePlace, OwnLevel
      <4>2. \A i, j \in DOMAIN channel'[l] : i \in Nat /\ j \in Nat
        BY <2>1, <3>1
      <4>3. \A i, j \in DOMAIN channel'[l] : channel'[l][i] = channel'[l][j] => i = j
        <5>1. \A i, j \in DOMAIN channel[l] : channel[l][i] = channel[l][j] => i = j
          BY <2>1 DEF OnePlace, OnceThere
        <5>2. ASSUME NEW i \in DOMAIN channel'[l], NEW j \in DOMAIN channel'[l],
                     channel'[l][i] = channel'[l][j]
              PROVE  i = j
          <6>1. i + 1 = j + 1
            BY <3>3, <5>1, <5>2, Zenon
          <6>2. i \in Nat /\ j \in Nat
            BY <4>2
          <6>3. QED
            BY ONLY <6>1, <6>2
        <5>3. QED
          BY <5>2, Zenon
      <4>4. QED
        BY <3>1, <4>1, <4>3 DEF OnePlace, OwnLevel, OnceThere
    <3>11. OneHolder'
      <4>1. \A t \in Schedulers : HasOne(t) => scheduler[t].got # r
        BY <3>5 DEF Held, HasOne
      <4>2. \A t \in Schedulers \ {s} : (HasOne(t)' <=> HasOne(t)) /\ scheduler'[t].got = scheduler[t].got
        BY <3>2 DEF HasOne
      <4>3. scheduler'[s].got = r
        BY <3>2
      <4>4. QED
        BY <4>1, <4>2, <4>3 DEF OnePlace, OneHolder
    <3>12. QED
      BY <3>9, <3>10, <3>11 DEF OnePlace
  <2>4. QED
    BY <2>2, <2>3
<1>6. ASSUME NEW s \in Schedulers, Wake(s) \/ Uncount(s) \/ Stop(s)
      PROVE  OnePlace'
  <2>1. UNCHANGED <<channel, caller, work>>
    BY <1>6 DEF Wake, Uncount, Stop
  <2>2. \A t \in Schedulers \ {s} : scheduler'[t] = scheduler[t]
    BY <1>6 DEF Wake, Uncount, Stop, Becomes, QueueTypeOK
  <2>3. HasOne(s)' => HasOne(s) /\ scheduler'[s].got = scheduler[s].got
    <3>1. CASE Wake(s)
      BY <3>1 DEF Wake, Becomes, Scan, HasOne, QueueTypeOK
    <3>2. CASE Uncount(s)
      BY <3>2 DEF Uncount, Becomes, HasOne, QueueTypeOK, SchedulerState
    <3>3. CASE Stop(s)
      BY <3>3 DEF Stop, Becomes, Stopped, HasOne, QueueTypeOK
    <3>4. QED
      BY <1>6, <3>1, <3>2, <3>3
  <2>4. QED
    BY <2>1, <2>2, <2>3, NoneTaken DEF HasOne
<1>7. ASSUME NEW s \in Schedulers, Acquire(s)
      PROVE  OnePlace'
  <2> DEFINE r == scheduler[s].got
  <2>1. /\ HasOne(s) /\ r \in Requests /\ UNCHANGED <<channel, caller>>
        /\ \A q \in Requests \ {r} : work'[q] = work[q]
    BY <1>7 DEF Acquire, HasOne, QueueTypeOK, SchedulerState
  <2>2. /\ ~HasOne(s)'
        /\ \A t \in Schedulers \ {s} : scheduler'[t] = scheduler[t]
    BY <1>7 DEF Acquire, Becomes, Scan, Stopped, HasOne, QueueTypeOK
  <2>3. Held(r) /\ ~InChannel(r) /\ caller[r] \notin {"none", "counted"}
    <3>1. Held(r)
      BY <2>1 DEF Held, HasOne
    <3>2. QED
      BY <2>1, <3>1 DEF OnePlace, NotBoth, NowhereYet
  <2>4. \A q \in Requests : (InChannel(q)' <=> InChannel(q)) /\ (Held(q)' => Held(q) /\ q # r)
    <3>1. \A q \in Requests : InChannel(q)' <=> InChannel(q)
      BY <2>1 DEF InChannel
    <3>2. \A q \in Requests : Held(q)' => Held(q) /\ q # r
      BY <2>1, <2>2 DEF Held, HasOne, OnePlace, OneHolder
    <3>3. QED
      BY <3>1, <3>2
  <2>5. NowhereYet' /\ NotBegun' /\ NotBoth'
    BY <2>1, <2>3, <2>4 DEF OnePlace, NowhereYet, NotBegun, NotBoth
  <2>6. OwnLevel' /\ OnceThere'
    BY <2>1 DEF OnePlace, OwnLevel, OnceThere
  <2>7. OneHolder'
    BY <2>2 DEF OnePlace, OneHolder, HasOne
  <2>8. QED
    BY <2>5, <2>6, <2>7 DEF OnePlace
<1>8. ASSUME NEW r \in Requests, Again(r)
      PROVE  OnePlace'
  <2>1. /\ UNCHANGED <<channel, scheduler>> /\ caller[r] = "done" /\ work'[r] = "none"
        /\ \A q \in Requests \ {r} : caller'[q] = caller[q] /\ work'[q] = work[q]
    BY <1>8 DEF Again, Caller, QueueTypeOK
  <2>2. ~InChannel(r) /\ ~Held(r)
    BY <2>1 DEF OnePlace, NotBegun, Answered
  <2>3. \A q \in Requests : (InChannel(q)' <=> InChannel(q)) /\ (Held(q)' <=> Held(q))
    BY <2>1, PlacesUnmoved
  <2>4. NowhereYet' /\ NotBegun' /\ NotBoth'
    BY <2>1, <2>2, <2>3 DEF OnePlace, NowhereYet, NotBegun, NotBoth
  <2>5. QED
    BY <2>1, <2>4, PlacesUnmoved DEF OnePlace
<1>9. QED
  BY <1>1, <1>2, <1>3, <1>4, <1>5, <1>6, <1>7, <1>8 DEF QueueStep

-----------------------------------------------------------------------------
LEMMA SlotsKept ==
  ASSUME QueueTypeOK, Answered, SlotsHold, QueueStep
  PROVE  SlotsHold'
<1>1. MaxConcurrent \in Nat /\ Cardinality(Running) \in Nat
  BY QueueAssumption, FS_CardinalityType DEF MaxConcurrent, SlotsHold
<1>2. ASSUME NEW r \in Requests, Ends(r) \/ Panics(r)
      PROVE  SlotsHold'
  <2>1. Running' = Running \ {r}
    BY <1>2 DEF Ends, Panics, Running, QueueTypeOK
  <2>2. QED
    BY <1>1, <2>1, FS_RemoveElement DEF SlotsHold, MaxConcurrent
<1>3. ASSUME NEW s \in Schedulers, Acquire(s)
      PROVE  SlotsHold'
  <2>1. Running' = Running \cup {scheduler[s].got} /\ Cardinality(Running) < MaxConcurrent
    <3>1. scheduler[s].got \in Requests /\ work' = [work EXCEPT ![scheduler[s].got] = "running"]
      BY <1>3 DEF Acquire, QueueTypeOK, SchedulerState
    <3>2. QED
      BY <1>3, <3>1 DEF Acquire, Running, QueueTypeOK
  <2>2. IsFiniteSet(Running)
    BY DEF SlotsHold
  <2>3. /\ IsFiniteSet(Running')
        /\ Cardinality(Running') = Cardinality(Running) \/ Cardinality(Running') = Cardinality(Running) + 1
    BY ONLY <2>1, <2>2, FS_AddElement, Zenon
  <2>4. Cardinality(Running') <= MaxConcurrent
    BY ONLY <1>1, <2>1, <2>3
  <2>5. QED
    BY <2>3, <2>4 DEF SlotsHold, MaxConcurrent
<1>4. ASSUME UNCHANGED work
      PROVE  SlotsHold'
  BY <1>4 DEF SlotsHold, Running, MaxConcurrent
<1>5. ASSUME NEW r \in Requests, Again(r)
      PROVE  SlotsHold'
  <2>1. Running' = Running
    BY <1>5 DEF Again, Caller, Running, Answered, QueueTypeOK
  <2>2. QED
    BY <2>1 DEF SlotsHold, MaxConcurrent
<1>6. QED
  BY <1>2, <1>3, <1>4, <1>5 DEF QueueStep, Enqueue, EnqueueFails, Leave, Send, Notify, Pick, Wake, Uncount, Stop, Close

-----------------------------------------------------------------------------
(* A request that joins those a counter counts beside a channel, or leaves. *)
LEMMA Joins ==
  ASSUME QueueTypeOK, CountersRight, NEW r \in Requests, ~Waits(r),
         \A q \in Requests : Waits(q)' <=> Waits(q) \/ q = r,
         \A l \in Level : waiting'[l] - Len(channel'[l])
            = waiting[l] - Len(channel[l]) + (IF l = Priority[r] THEN 1 ELSE 0),
         \A l \in Level : waiting'[l] \in Int /\ Len(channel'[l]) \in Nat
  PROVE  CountersRight'
<1> SUFFICES ASSUME NEW l \in Level
             PROVE  (IsFiniteSet(Beside(l)) /\ waiting[l] = Len(channel[l]) + Cardinality(Beside(l)))'
  BY DEF CountersRight
<1>1. IsFiniteSet(Beside(l)) /\ Cardinality(Beside(l)) \in Nat /\ r \notin Beside(l)
      /\ waiting[l] = Len(channel[l]) + Cardinality(Beside(l)) /\ Len(channel[l]) \in Nat
  BY FS_CardinalityType DEF CountersRight, Beside, QueueTypeOK
<1>2. CASE l = Priority[r]
  <2>1. Beside(l)' = Beside(l) \cup {r}
    BY <1>2 DEF Beside
  <2>2. IsFiniteSet(Beside(l)') /\ Cardinality(Beside(l)') = Cardinality(Beside(l)) + 1
    BY <1>1, <2>1, FS_AddElement
  <2>3. QED
    BY <1>1, <1>2, <2>2, SMTT(30)
<1>3. CASE l # Priority[r]
  <2>1. Beside(l)' = Beside(l)
    BY <1>3 DEF Beside
  <2>2. QED
    BY <1>1, <1>3, <2>1
<1>4. QED
  BY <1>2, <1>3

LEMMA Leaves ==
  ASSUME QueueTypeOK, CountersRight, NEW r \in Requests, Waits(r),
         \A q \in Requests : Waits(q)' <=> Waits(q) /\ q # r,
         \A l \in Level : waiting'[l] - Len(channel'[l])
            = waiting[l] - Len(channel[l]) - (IF l = Priority[r] THEN 1 ELSE 0),
         \A l \in Level : waiting'[l] \in Int /\ Len(channel'[l]) \in Nat
  PROVE  CountersRight'
<1> SUFFICES ASSUME NEW l \in Level
             PROVE  (IsFiniteSet(Beside(l)) /\ waiting[l] = Len(channel[l]) + Cardinality(Beside(l)))'
  BY DEF CountersRight
<1>1. IsFiniteSet(Beside(l)) /\ Cardinality(Beside(l)) \in Nat
      /\ waiting[l] = Len(channel[l]) + Cardinality(Beside(l)) /\ Len(channel[l]) \in Nat
  BY FS_CardinalityType DEF CountersRight, QueueTypeOK
<1>2. CASE l = Priority[r]
  <2>1. Beside(l)' = Beside(l) \ {r} /\ r \in Beside(l)
    BY <1>2 DEF Beside
  <2>2. IsFiniteSet(Beside(l)') /\ Cardinality(Beside(l)') = Cardinality(Beside(l)) - 1
    BY ONLY <1>1, <2>1, FS_RemoveElement
  <2>3. QED
    BY <1>1, <1>2, <2>2, SMTT(30)
<1>3. CASE l # Priority[r]
  <2>1. Beside(l)' = Beside(l)
    BY <1>3 DEF Beside
  <2>2. QED
    BY <1>1, <1>3, <2>1
<1>4. QED
  BY <1>2, <1>3

LEMMA SameWait ==
  ASSUME CountersRight, UNCHANGED <<channel, waiting>>, \A q \in Requests : Waits(q)' <=> Waits(q)
  PROVE  CountersRight'
<1>1. \A l \in Level : Beside(l)' = Beside(l)
  BY DEF Beside
<1>2. QED
  BY <1>1 DEF CountersRight

LEMMA CountersKept ==
  ASSUME QueueTypeOK, OnePlace, CountersRight, QueueStep
  PROVE  CountersRight'
<1>1. ASSUME NEW r \in Requests, Leave(r) \/ Notify(r) \/ Ends(r) \/ Panics(r) \/ Again(r)
                                \/ (Enqueue(r) /\ closed)
      PROVE  CountersRight'
  <2>1. UNCHANGED <<channel, waiting, scheduler>>
    BY <1>1 DEF Leave, Notify, Ends, Panics, Again, Enqueue
  <2>2. \A q \in Requests : caller'[q] = "counted" <=> caller[q] = "counted"
    BY <1>1 DEF Leave, Notify, Ends, Panics, Again, Enqueue, Caller, QueueTypeOK
  <2>3. QED
    BY <2>1, <2>2, SameWait DEF Waits, PickedUp
<1>2. ASSUME Close
      PROVE  CountersRight'
  BY <1>2, SameWait DEF Close, Waits, PickedUp
<1>3. ASSUME NEW s \in Schedulers, Wake(s) \/ Acquire(s) \/ Stop(s)
      PROVE  CountersRight'
  <2>1. UNCHANGED <<channel, waiting, caller>>
    BY <1>3 DEF Wake, Acquire, Stop
  <2>2. /\ \A t \in Schedulers \ {s} : scheduler'[t] = scheduler[t]
        /\ scheduler[s].at # "picked" /\ scheduler'[s].at # "picked"
    BY <1>3 DEF Wake, Acquire, Stop, Becomes, Scan, Stopped, Sleeping, QueueTypeOK
  <2>3. \A q \in Requests : PickedUp(q)' <=> PickedUp(q)
    BY <2>2 DEF PickedUp
  <2>4. QED
    BY <2>1, <2>3, SameWait DEF Waits
<1>4. ASSUME NEW r \in Requests, Enqueue(r), ~closed
      PROVE  CountersRight'
  <2>1. /\ UNCHANGED <<channel, scheduler>> /\ caller[r] = "none" /\ caller'[r] = "counted"
        /\ \A q \in Requests \ {r} : caller'[q] = caller[q]
        /\ waiting' = [waiting EXCEPT ![Priority[r]] = @ + 1]
    BY <1>4 DEF Enqueue, Caller, Count, QueueTypeOK
  <2>2. ~PickedUp(r)
    BY <2>1 DEF OnePlace, NowhereYet, Held, PickedUp
  <2>3. \A q \in Requests : Waits(q)' <=> Waits(q) \/ q = r
    BY <2>1 DEF Waits, PickedUp
  <2>4. \A l \in Level : /\ waiting[l] \in Nat /\ Len(channel[l]) \in Nat
                         /\ waiting'[l] = waiting[l] + (IF l = Priority[r] THEN 1 ELSE 0)
    BY <2>1, QueueAssumption DEF QueueTypeOK
  <2>5. \A l \in Level : /\ waiting'[l] \in Int /\ Len(channel'[l]) \in Nat
                         /\ waiting'[l] - Len(channel'[l])
                              = waiting[l] - Len(channel[l]) + (IF l = Priority[r] THEN 1 ELSE 0)
    BY <2>1, <2>4
  <2>6. ~Waits(r)
    BY <2>1, <2>2 DEF Waits
  <2>7. QED
    BY <2>3, <2>5, <2>6, Joins
<1>5. ASSUME NEW r \in Requests, EnqueueFails(r)
      PROVE  CountersRight'
  <2>1. /\ UNCHANGED <<channel, scheduler>> /\ caller[r] = "counted" /\ caller'[r] # "counted"
        /\ \A q \in Requests \ {r} : caller'[q] = caller[q]
        /\ waiting' = [waiting EXCEPT ![Priority[r]] = @ + -1]
    BY <1>5 DEF EnqueueFails, Caller, Count, QueueTypeOK
  <2>2. ~PickedUp(r)
    BY <2>1 DEF OnePlace, NowhereYet, Held, PickedUp
  <2>3. \A q \in Requests : Waits(q)' <=> Waits(q) /\ q # r
    BY <2>1, <2>2 DEF Waits, PickedUp
  <2>4. \A l \in Level : /\ waiting[l] \in Nat /\ Len(channel[l]) \in Nat
                         /\ waiting'[l] = waiting[l] - (IF l = Priority[r] THEN 1 ELSE 0)
    BY <2>1, QueueAssumption DEF QueueTypeOK
  <2>5. \A l \in Level : /\ waiting'[l] \in Int /\ Len(channel'[l]) \in Nat
                         /\ waiting'[l] - Len(channel'[l])
                              = waiting[l] - Len(channel[l]) - (IF l = Priority[r] THEN 1 ELSE 0)
    BY <2>1, <2>4
  <2>6. Waits(r)
    BY <2>1 DEF Waits
  <2>7. QED
    BY <2>3, <2>5, <2>6, Leaves
<1>6. ASSUME NEW r \in Requests, Send(r)
      PROVE  CountersRight'
  <2>1. /\ UNCHANGED <<waiting, scheduler>> /\ caller[r] = "counted" /\ caller'[r] # "counted"
        /\ \A q \in Requests \ {r} : caller'[q] = caller[q]
        /\ channel' = [channel EXCEPT ![Priority[r]] = Append(@, r)]
    BY <1>6 DEF Send, Caller, QueueTypeOK
  <2>2. ~PickedUp(r)
    BY <2>1 DEF OnePlace, NowhereYet, Held, PickedUp
  <2>3. \A q \in Requests : Waits(q)' <=> Waits(q) /\ q # r
    BY <2>1, <2>2 DEF Waits, PickedUp
  <2>4. \A l \in Level : /\ waiting[l] \in Nat /\ Len(channel[l]) \in Nat
                         /\ Len(channel'[l]) = Len(channel[l]) + (IF l = Priority[r] THEN 1 ELSE 0)
    BY <2>1, QueueAssumption DEF QueueTypeOK
  <2>5. \A l \in Level : /\ waiting'[l] \in Int /\ Len(channel'[l]) \in Nat
                         /\ waiting'[l] - Len(channel'[l])
                              = waiting[l] - Len(channel[l]) - (IF l = Priority[r] THEN 1 ELSE 0)
    <3>1. UNCHANGED waiting
      BY <2>1
    <3> SUFFICES ASSUME NEW l \in Level
                 PROVE  /\ waiting'[l] \in Int /\ Len(channel'[l]) \in Nat
                        /\ waiting'[l] - Len(channel'[l])
                              = waiting[l] - Len(channel[l]) - (IF l = Priority[r] THEN 1 ELSE 0)
      OBVIOUS
    <3> DEFINE w == waiting[l]
               v == waiting'[l]
               m == Len(channel[l])
               n == Len(channel'[l])
    <3>2. w \in Nat /\ v = w /\ m \in Nat /\ n = m + (IF l = Priority[r] THEN 1 ELSE 0)
      BY <2>4, <3>1
    <3> HIDE DEF w, v, m, n
    <3>3. v \in Int /\ n \in Nat /\ v - n = w - m - (IF l = Priority[r] THEN 1 ELSE 0)
      <4>1. CASE l = Priority[r]
        <5>1. v \in Nat /\ n \in Nat /\ v - n = w - m - 1
          BY ONLY <3>2, <4>1
        <5>2. QED
          BY ONLY <4>1, <5>1
      <4>2. CASE l # Priority[r]
        <5>1. v \in Nat /\ n \in Nat /\ v - n = w - m - 0
          BY ONLY <3>2, <4>2
        <5>2. QED
          BY ONLY <4>2, <5>1
      <4>3. QED
        BY <4>1, <4>2
    <3>4. QED
      BY <3>3 DEF w, v, m, n
  <2>6. Waits(r)
    BY <2>1 DEF Waits
  <2>7. QED
    BY <2>3, <2>5, <2>6, Leaves
<1>7. ASSUME NEW s \in Schedulers, Pick(s)
      PROVE  CountersRight'
  <2> DEFINE l == scheduler[s].level
             r == Head(channel[l])
  <2>1. scheduler[s].at = "scan" /\ l \in Level /\ UNCHANGED <<caller, waiting>>
    BY <1>7 DEF Pick, QueueTypeOK, SchedulerState
  <2>2. CASE channel[l] = <<>>
    <3>1. UNCHANGED channel /\ scheduler'[s].at \in {"scan", "sleep"}
          /\ \A t \in Schedulers \ {s} : scheduler'[t] = scheduler[t]
      BY <1>7, <2>2 DEF Pick, Becomes, Scan, Sleeping, QueueTypeOK
    <3>2. \A q \in Requests : PickedUp(q)' <=> PickedUp(q)
      BY <2>1, <3>1 DEF PickedUp
    <3>3. QED
      BY <2>1, <3>1, <3>2, SameWait DEF Waits
  <2>3. CASE channel[l] # <<>>
    <3>1. /\ channel[l] \in Seq(Requests) /\ channel' = [channel EXCEPT ![l] = Tail(@)]
          /\ r \in Requests /\ channel[l][1] = r /\ 1 \in DOMAIN channel[l]
      BY <1>7, <2>1, <2>3 DEF Pick, QueueTypeOK
    <3>2. /\ scheduler'[s] = [at |-> "picked", got |-> r]
          /\ \A t \in Schedulers \ {s} : scheduler'[t] = scheduler[t]
      BY <1>7, <2>1, <2>3 DEF Pick, Becomes, QueueTypeOK
    <3>3. Priority[r] = l
      BY <2>1, <3>1 DEF OnePlace, OwnLevel
    <3>4. InChannel(r)
      BY <3>1, <3>3 DEF InChannel
    <3>5. ~Waits(r)
      BY <3>1, <3>4 DEF OnePlace, NotBoth, NowhereYet, Held, Waits, PickedUp
    <3>6. \A q \in Requests : PickedUp(q)' <=> PickedUp(q) \/ q = r
      BY <2>1, <3>2 DEF PickedUp
    <3>7. \A q \in Requests : Waits(q)' <=> Waits(q) \/ q = r
      BY <2>1, <3>6 DEF Waits
    <3>8. \A k \in Level : /\ waiting[k] \in Nat /\ Len(channel[k]) \in Nat /\ channel[k] \in Seq(Requests)
                           /\ channel'[k] = IF k = l THEN Tail(channel[k]) ELSE channel[k]
      BY <2>1, <3>1 DEF QueueTypeOK
    <3>9. \A k \in Level : Len(channel'[k]) = Len(channel[k]) - (IF k = Priority[r] THEN 1 ELSE 0)
      <4> SUFFICES ASSUME NEW k \in Level
                   PROVE  Len(channel'[k]) = Len(channel[k]) - (IF k = Priority[r] THEN 1 ELSE 0)
        OBVIOUS
      <4>1. CASE k = l
        <5>1. channel'[k] = Tail(channel[k]) /\ channel[k] # << >> /\ channel[k] \in Seq(Requests)
          BY <2>3, <3>8, <4>1
        <5>2. Len(channel'[k]) = Len(channel[k]) - 1
          BY <5>1
        <5>3. QED
          BY <3>3, <4>1, <5>2
      <4>2. CASE k # l
        BY <3>3, <3>8, <4>2
      <4>3. QED
        BY <4>1, <4>2
    <3>10. \A k \in Level : /\ waiting'[k] \in Int /\ Len(channel'[k]) \in Nat
                            /\ waiting'[k] - Len(channel'[k])
                                 = waiting[k] - Len(channel[k]) + (IF k = Priority[r] THEN 1 ELSE 0)
      <4>1. UNCHANGED waiting
        BY <2>1
      <4>2. \A k \in Level : Len(channel'[k]) \in Nat
        <5> SUFFICES ASSUME NEW k \in Level PROVE Len(channel'[k]) \in Nat
          OBVIOUS
        <5>1. CASE k = l
          <6>1. channel[l] # << >> /\ channel'[k] = Tail(channel[l]) /\ channel[l] \in Seq(Requests)
            BY <2>3, <3>8, <5>1
          <6>2. QED
            BY <6>1
        <5>2. CASE k # l
          BY <3>8, <5>2
        <5>3. QED
          BY <5>1, <5>2
      <4>3. \A k \in Level : waiting[k] \in Nat /\ Len(channel[k]) \in Nat
        BY <3>8
      <4> SUFFICES ASSUME NEW k \in Level
                   PROVE  /\ waiting'[k] \in Int /\ Len(channel'[k]) \in Nat
                          /\ waiting'[k] - Len(channel'[k])
                                 = waiting[k] - Len(channel[k]) + (IF k = Priority[r] THEN 1 ELSE 0)
        OBVIOUS
      <4>4. /\ waiting[k] \in Nat /\ Len(channel[k]) \in Nat /\ Len(channel'[k]) \in Nat
            /\ Len(channel'[k]) = Len(channel[k]) - (IF k = Priority[r] THEN 1 ELSE 0)
        BY <4>2, <4>3, <3>9
      <4> HIDE DEF l, r
      <4>5. CASE k = Priority[r]
        BY ONLY <4>1, <4>4, <4>5, SMT
      <4>6. CASE k # Priority[r]
        BY ONLY <4>1, <4>4, <4>6, SMT
      <4>7. QED
        BY <4>5, <4>6
    <3>11. QED
      BY <3>1, <3>5, <3>7, <3>10, Joins
  <2>4. QED
    BY <2>2, <2>3
<1>8. ASSUME NEW s \in Schedulers, Uncount(s)
      PROVE  CountersRight'
  <2> DEFINE r == scheduler[s].got
  <2>1. /\ UNCHANGED <<channel, caller>> /\ r \in Requests /\ scheduler[s] = [at |-> "picked", got |-> r]
        /\ waiting' = [waiting EXCEPT ![Priority[r]] = @ + -1]
    BY <1>8 DEF Uncount, Count, QueueTypeOK, SchedulerState
  <2>2. scheduler'[s].at = "acquire" /\ \A t \in Schedulers \ {s} : scheduler'[t] = scheduler[t]
    BY <1>8 DEF Uncount, Becomes, QueueTypeOK, SchedulerState
  <2>3. Held(r) /\ PickedUp(r)
    BY <2>1 DEF Held, PickedUp
  <2>4. caller[r] # "counted"
    BY <2>1, <2>3 DEF OnePlace, NowhereYet
  <2>5. \A t \in Schedulers \ {s} : scheduler[t] # [at |-> "picked", got |-> r]
    BY <2>1 DEF OnePlace, OneHolder, HasOne
  <2>6. \A q \in Requests : PickedUp(q)' <=> PickedUp(q) /\ q # r
    BY <2>1, <2>2, <2>5 DEF PickedUp
  <2>7. \A q \in Requests : Waits(q)' <=> Waits(q) /\ q # r
    BY <2>1, <2>4, <2>6 DEF Waits
  <2>8. \A l \in Level : /\ waiting[l] \in Nat /\ Len(channel[l]) \in Nat
                         /\ waiting'[l] = waiting[l] - (IF l = Priority[r] THEN 1 ELSE 0)
    BY <2>1, QueueAssumption DEF QueueTypeOK
  <2>9. \A l \in Level : /\ waiting'[l] \in Int /\ Len(channel'[l]) \in Nat
                         /\ waiting'[l] - Len(channel'[l])
                              = waiting[l] - Len(channel[l]) - (IF l = Priority[r] THEN 1 ELSE 0)
    BY <2>1, <2>8
  <2>10. Waits(r)
    BY <2>3 DEF Waits
  <2>11. QED
    BY <2>1, <2>7, <2>9, <2>10, Leaves
<1>9. QED
  BY <1>1, <1>2, <1>3, <1>4, <1>5, <1>6, <1>7, <1>8 DEF QueueStep

-----------------------------------------------------------------------------
LEMMA NoneForgottenKept ==
  ASSUME QueueTypeOK, NoneForgotten, QueueStep
  PROVE  NoneForgotten'
<1>1. ASSUME UNCHANGED <<channel, notify, scheduler>>,
             \A r \in Requests : caller[r] = "sent" => caller'[r] = "sent"
      PROVE  NoneForgotten'
  BY <1>1 DEF NoneForgotten, LooksAt
<1>2. ASSUME NEW r \in Requests, Enqueue(r) \/ EnqueueFails(r) \/ Leave(r) \/ Ends(r) \/ Panics(r) \/ Again(r)
      PROVE  NoneForgotten'
  <2>1. UNCHANGED <<channel, notify, scheduler>>
    BY <1>2 DEF Enqueue, EnqueueFails, Leave, Ends, Panics, Again
  <2>2. \A q \in Requests : caller[q] = "sent" => caller'[q] = "sent"
    BY <1>2 DEF Enqueue, EnqueueFails, Leave, Ends, Panics, Again, Caller, QueueTypeOK
  <2>3. QED
    BY <2>1, <2>2, <1>1
<1>3. ASSUME Close
      PROVE  NoneForgotten'
  BY <1>1, <1>3 DEF Close
<1>4. ASSUME NEW r \in Requests, Send(r)
      PROVE  NoneForgotten'
  <2>1. caller'[r] = "sent"
    BY <1>4 DEF Send, Caller, QueueTypeOK
  <2>2. QED
    BY <2>1 DEF NoneForgotten
<1>5. ASSUME NEW r \in Requests, Notify(r)
      PROVE  NoneForgotten'
  <2>1. notify' > 0
    BY <1>5, QueueAssumption DEF Notify, QueueTypeOK
  <2>2. QED
    BY <2>1 DEF NoneForgotten
<1>6. ASSUME NEW s \in Schedulers, \A l \in Level : LooksAt(s, l)'
      PROVE  NoneForgotten'
  BY <1>6 DEF NoneForgotten
<1>7. ASSUME NEW s \in Schedulers, Wake(s) \/ Uncount(s) \/ Acquire(s) \/ Stop(s)
      PROVE  NoneForgotten'
  <2>1. scheduler'[s].at \in {"acquire", "stopped"} \/ scheduler'[s] = Scan(1)
    <3>1. CASE Wake(s)
      BY <3>1 DEF Wake, Becomes, QueueTypeOK
    <3>2. CASE Uncount(s)
      BY <3>2 DEF Uncount, Becomes, QueueTypeOK, SchedulerState
    <3>3. CASE Acquire(s)
      BY <3>3 DEF Acquire, Becomes, Stopped, QueueTypeOK
    <3>4. CASE Stop(s)
      BY <3>4 DEF Stop, Becomes, Stopped, QueueTypeOK
    <3>5. QED
      BY <1>7, <3>1, <3>2, <3>3, <3>4
  <2>2. \A l \in Level : LooksAt(s, l)'
    BY <2>1, Levels DEF LooksAt, Scan
  <2>3. QED
    BY <1>6, <2>2
<1>8. ASSUME NEW s \in Schedulers, Pick(s)
      PROVE  NoneForgotten'
  <2> DEFINE l == scheduler[s].level
  <2>1. scheduler[s].at = "scan" /\ l \in Level /\ UNCHANGED <<caller, notify>>
    BY <1>8 DEF Pick, QueueTypeOK, SchedulerState
  <2>2. CASE channel[l] # <<>>
    <3>1. scheduler'[s].at = "picked"
      BY <1>8, <2>2 DEF Pick, Becomes, QueueTypeOK
    <3>2. \A k \in Level : LooksAt(s, k)'
      BY <3>1 DEF LooksAt
    <3>3. QED
      BY <1>6, <3>2
  <2>3. CASE channel[l] = <<>>
    <3>1. /\ UNCHANGED channel
          /\ \A t \in Schedulers \ {s} : scheduler'[t] = scheduler[t]
          /\ l < 3 => scheduler'[s] = Scan(l + 1)
      BY <1>8, <2>3, Levels DEF Pick, Becomes, QueueTypeOK
    <3>2. ASSUME NEW k \in Level, channel[k] # <<>>, NEW t \in Schedulers, LooksAt(t, k)
          PROVE  LooksAt(t, k)'
      <4>1. CASE t = s
        <5>1. l < k /\ l < 3 /\ l + 1 <= k
          BY <2>1, <2>3, <3>2, <4>1, Levels DEF LooksAt
        <5>2. QED
          BY <3>1, <4>1, <5>1 DEF LooksAt, Scan
      <4>2. CASE t # s
        BY <3>1, <3>2, <4>2 DEF LooksAt
      <4>3. QED
        BY <4>1, <4>2
    <3>3. QED
      BY <2>1, <3>1, <3>2 DEF NoneForgotten
  <2>4. QED
    BY <2>2, <2>3
<1>9. QED
  BY <1>2, <1>3, <1>4, <1>5, <1>7, <1>8 DEF QueueStep

-----------------------------------------------------------------------------
(* The types; that the counters do not fall below zero is CountersRight. *)
LEMMA ChannelsKept ==
  ASSUME QueueTypeOK, QueueStep
  PROVE  channel' \in [Level -> Seq(Requests)] /\ \A l \in Level : Len(channel'[l]) <= ChannelCap
<1>1. CASE UNCHANGED channel
  BY <1>1 DEF QueueTypeOK
<1>2. ASSUME NEW r \in Requests, Send(r)
      PROVE  channel' \in [Level -> Seq(Requests)] /\ \A l \in Level : Len(channel'[l]) <= ChannelCap
  <2> DEFINE k == Priority[r]
  <2>1. /\ k \in Level /\ Len(channel[k]) < ChannelCap /\ channel[k] \in Seq(Requests)
        /\ channel' = [channel EXCEPT ![k] = Append(channel[k], r)]
    BY <1>2, QueueAssumption DEF Send, QueueTypeOK
  <2>2. Append(channel[k], r) \in Seq(Requests) /\ Len(Append(channel[k], r)) = Len(channel[k]) + 1
        /\ Len(channel[k]) \in Nat
    BY <2>1
  <2>3. channel' \in [Level -> Seq(Requests)]
    BY <2>1, <2>2 DEF QueueTypeOK
  <2>4. \A l \in Level : Len(channel'[l]) <= ChannelCap
    <3>1. Len(channel'[k]) <= ChannelCap
      BY <2>1, <2>2, QueueAssumption DEF QueueTypeOK
    <3>2. \A l \in Level \ {k} : channel'[l] = channel[l]
      BY <2>1 DEF QueueTypeOK
    <3>3. QED
      BY <3>1, <3>2 DEF QueueTypeOK
  <2>5. QED
    BY <2>3, <2>4
<1>3. ASSUME NEW s \in Schedulers, Pick(s)
      PROVE  channel' \in [Level -> Seq(Requests)] /\ \A l \in Level : Len(channel'[l]) <= ChannelCap
  <2> DEFINE k == scheduler[s].level
  <2>1. k \in Level /\ channel[k] \in Seq(Requests)
    BY <1>3 DEF Pick, QueueTypeOK, SchedulerState
  <2>2. CASE channel[k] = <<>>
    BY <1>1, <1>3, <2>2 DEF Pick
  <2>3. CASE channel[k] # <<>>
    <3>1. channel' = [channel EXCEPT ![k] = Tail(channel[k])]
      BY <1>3, <2>1, <2>3 DEF Pick, QueueTypeOK
    <3>2. Tail(channel[k]) \in Seq(Requests) /\ Len(Tail(channel[k])) = Len(channel[k]) - 1
          /\ Len(channel[k]) \in Nat
      BY <2>1, <2>3
    <3>3. channel' \in [Level -> Seq(Requests)]
      BY <2>1, <3>1, <3>2 DEF QueueTypeOK
    <3>4. Len(channel'[k]) <= ChannelCap
      BY <2>1, <3>1, <3>2, QueueAssumption DEF QueueTypeOK
    <3>5. \A l \in Level \ {k} : channel'[l] = channel[l]
      BY <3>1 DEF QueueTypeOK
    <3>6. QED
      BY <3>3, <3>4, <3>5 DEF QueueTypeOK
  <2>4. QED
    BY <2>2, <2>3
<1>4. QED
  BY <1>1, <1>2, <1>3 DEF QueueStep, Enqueue, EnqueueFails, Leave, Notify, Ends, Panics, Again, Wake, Uncount, Acquire, Stop, Close

LEMMA SchedulersKept ==
  ASSUME QueueTypeOK, QueueStep
  PROVE  scheduler' \in [Schedulers -> SchedulerState]
<1>1. CASE UNCHANGED scheduler
  BY <1>1 DEF QueueTypeOK
<1>2. \A s \in Schedulers, state \in SchedulerState :
        Becomes(s, state) => scheduler' \in [Schedulers -> SchedulerState]
  BY DEF Becomes, QueueTypeOK
<1>3. /\ \A l \in Level : Scan(l) \in SchedulerState
      /\ Sleeping \in SchedulerState /\ Stopped \in SchedulerState
      /\ \A r \in Requests : [at |-> "picked", got |-> r] \in SchedulerState
  BY Levels DEF SchedulerState, Scan, Sleeping, Stopped
<1>4. ASSUME NEW s \in Schedulers, Pick(s)
      PROVE  scheduler' \in [Schedulers -> SchedulerState]
  <2> DEFINE k == scheduler[s].level
  <2>1. k \in Level /\ channel[k] \in Seq(Requests)
    BY <1>4 DEF Pick, QueueTypeOK, SchedulerState
  <2>2. CASE channel[k] = <<>>
    <3>1. k < 3 => k + 1 \in Level
      BY <2>1, Levels
    <3>2. Becomes(s, IF k < 3 THEN Scan(k + 1) ELSE Sleeping)
      BY <1>4, <2>2, Levels DEF Pick
    <3>3. QED
      BY <1>2, <1>3, <3>1, <3>2
  <2>3. CASE channel[k] # <<>>
    <3>1. Head(channel[k]) \in Requests
      BY <2>1, <2>3
    <3>2. Becomes(s, [at |-> "picked", got |-> Head(channel[k])])
      BY <1>4, <2>3 DEF Pick
    <3>3. QED
      BY <1>2, <1>3, <3>1, <3>2
  <2>4. QED
    BY <2>2, <2>3
<1>5. ASSUME NEW s \in Schedulers, Wake(s) \/ Acquire(s) \/ Stop(s)
      PROVE  scheduler' \in [Schedulers -> SchedulerState]
  <2>1. Becomes(s, Scan(1)) \/ Becomes(s, Stopped)
    BY <1>5 DEF Wake, Acquire, Stop
  <2>2. QED
    BY <1>2, <1>3, <2>1, Levels
<1>6. ASSUME NEW s \in Schedulers, Uncount(s)
      PROVE  scheduler' \in [Schedulers -> SchedulerState]
  <2>1. [scheduler[s] EXCEPT !.at = "acquire"] \in SchedulerState
    BY <1>6 DEF Uncount, QueueTypeOK, SchedulerState
  <2>2. QED
    BY <1>2, <1>6, <2>1 DEF Uncount
<1>7. QED
  BY <1>1, <1>4, <1>5, <1>6 DEF QueueStep, Enqueue, EnqueueFails, Leave, Send, Notify, Ends, Panics, Again, Close

LEMMA QueueTypesKept ==
  ASSUME QueueTypeOK, QueueStep, CountersRight'
  PROVE  QueueTypeOK'
<1>1. channel' \in [Level -> Seq(Requests)] /\ \A l \in Level : Len(channel'[l]) <= ChannelCap
  BY ChannelsKept
<1>2. scheduler' \in [Schedulers -> SchedulerState]
  BY SchedulersKept
<1>3. closed' \in BOOLEAN /\ notify' \in 0..ChannelCap /\ cancels' \in 0..MaxCancels
  <2>1. CASE UNCHANGED <<closed, notify, cancels>>
    BY <2>1 DEF QueueTypeOK
  <2>2. ASSUME NEW r \in Requests, EnqueueFails(r) \/ Leave(r) \/ Notify(r)
        PROVE  closed' \in BOOLEAN /\ notify' \in 0..ChannelCap /\ cancels' \in 0..MaxCancels
    BY <2>2, QueueAssumption DEF QueueTypeOK, EnqueueFails, Leave, Notify
  <2>3. ASSUME NEW s \in Schedulers, Wake(s)
        PROVE  closed' \in BOOLEAN /\ notify' \in 0..ChannelCap /\ cancels' \in 0..MaxCancels
    BY <2>3, QueueAssumption DEF QueueTypeOK, Wake
  <2>4. CASE Close
    BY <2>4 DEF QueueTypeOK, Close
  <2>5. QED
    BY <2>1, <2>2, <2>3, <2>4 DEF QueueStep, Enqueue, Send, Ends, Panics, Again, Pick, Uncount, Acquire, Stop
<1>4. caller' \in [Requests -> {"none", "counted", "sent", "waiting", "done", "refused", "left"}]
  BY DEF QueueTypeOK, QueueStep, Enqueue, EnqueueFails, Leave, Send, Notify, Ends, Panics, Again,
     Pick, Wake, Uncount, Acquire, Stop, Close, Caller
<1>5. work' \in [Requests -> {"none", "running", "ended", "panicked"}]
  BY DEF QueueTypeOK, QueueStep, Enqueue, EnqueueFails, Leave, Send, Notify, Ends, Panics, Again,
     Pick, Wake, Uncount, Acquire, Stop, Close
<1>6. waiting' \in [Level -> Nat]
  <2>1. \A l \in Level : waiting'[l] \in Nat
    <3> SUFFICES ASSUME NEW l \in Level PROVE waiting'[l] \in Nat
      OBVIOUS
    <3>1. Len(channel'[l]) \in Nat
      BY <1>1
    <3>2. Cardinality(Beside(l)') \in Nat /\ waiting'[l] = Len(channel'[l]) + Cardinality(Beside(l)')
      BY FS_CardinalityType DEF CountersRight
    <3>3. QED
      BY ONLY <3>1, <3>2
  <2>2. waiting' = [l \in Level |-> waiting'[l]]
    <3>1. CASE UNCHANGED waiting
      BY <3>1 DEF QueueTypeOK
    <3>2. ASSUME NEW l, NEW n, Count(l, n)
          PROVE  waiting' = [k \in Level |-> waiting'[k]]
      BY <3>2 DEF Count, QueueTypeOK
    <3>3. QED
      BY <3>1, <3>2 DEF QueueStep, Enqueue, EnqueueFails, Leave, Send, Notify, Ends, Panics, Again,
         Pick, Wake, Uncount, Acquire, Stop, Close
  <2>3. QED
    BY <2>1, <2>2
<1>7. QED
  BY <1>1, <1>2, <1>3, <1>4, <1>5, <1>6 DEF QueueTypeOK

LEMMA QueueInvKept == QueueInv /\ [QueueNext]_queueVars => QueueInv'
<1> SUFFICES ASSUME QueueInv, [QueueNext]_queueVars PROVE QueueInv'
  OBVIOUS
<1>1. CASE QueueStep
  BY <1>1, OnePlaceKept, AnsweredKept, SlotsKept, CountersKept, NoneForgottenKept, QueueTypesKept DEF QueueInv
<1>2. CASE UNCHANGED queueVars
  <2>1. QueueTypeOK' /\ SlotsHold'
    <3>1. QueueTypeOK'
      BY <1>2 DEF QueueInv, QueueTypeOK, queueVars
    <3>2. Running' = Running
      BY <1>2 DEF Running, queueVars
    <3>3. QED
      BY <3>1, <3>2 DEF QueueInv, SlotsHold, MaxConcurrent
  <2>2. OnePlace'
    BY <1>2, NoneTaken DEF QueueInv, queueVars, HasOne
  <2>3. CountersRight'
    BY <1>2, SameWait DEF QueueInv, queueVars, Waits, PickedUp
  <2>4. NoneForgotten'
    BY <1>2 DEF QueueInv, queueVars, NoneForgotten, LooksAt
  <2>5. Answered'
    BY <1>2 DEF QueueInv, queueVars, Answered
  <2>6. QED
    BY <2>1, <2>2, <2>3, <2>4, <2>5 DEF QueueInv
<1>3. QED
  BY <1>1, <1>2 DEF QueueNext, QueueStep, Serve, Schedule

LEMMA QueueInvSound == QueueInv => QueueSound
<1> SUFFICES ASSUME QueueInv PROVE QueueSound
  OBVIOUS
<1>1. Cardinality(Running) <= MaxConcurrent
  BY DEF QueueInv, SlotsHold
<1>2. \A r \in Requests : InChannel(r) => ~Held(r) /\ work[r] = "none"
  BY DEF QueueInv, OnePlace, NotBoth, NotBegun
<1>3. \A l \in Level : waiting[l] = Len(channel[l]) + Cardinality(
       {r \in Requests : Priority[r] = l /\ (caller[r] = "counted"
          \/ \E s \in Schedulers : scheduler[s] = [at |-> "picked", got |-> r])})
  BY DEF QueueInv, CountersRight, Beside, Waits, PickedUp
<1>4. ((\E r \in Requests : InChannel(r)) /\ \A s \in Schedulers : scheduler[s].at = "sleep")
       => notify > 0 \/ \E r \in Requests : caller[r] = "sent"
  <2> SUFFICES ASSUME NEW r \in Requests, InChannel(r), \A s \in Schedulers : scheduler[s].at = "sleep"
               PROVE  notify > 0 \/ \E q \in Requests : caller[q] = "sent"
    OBVIOUS
  <2>1. Priority[r] \in Level /\ channel[Priority[r]] # <<>>
    BY QueueAssumption DEF InChannel
  <2>2. QED
    BY <2>1 DEF QueueInv, NoneForgotten, LooksAt
<1>5. QED
  BY <1>1, <1>2, <1>3, <1>4 DEF QueueSound

(***************************************************************************)
(* The rate limiters.                                                      *)
(***************************************************************************)

(* A token bucket whose credit was so much at the time last has been charged *)
(* for every time it let somebody through: for those from the i-th on no     *)
(* more than it can hold and has grown since then.                           *)
Charged(times, credit, last) ==
  \A i \in DOMAIN times : (Len(times) - i + 1) * Cost + credit <= Limits!Full + last - times[i]

(* A client without a bucket gets a full one when it comes. *)
ClientCharged(c) ==
  IF c \in DOMAIN buckets
  THEN Charged(allowed[c], buckets[c].credit, buckets[c].last)
  ELSE Charged(allowed[c], Limits!Full, ticks)

CheckedBefore == \A c \in DOMAIN buckets : buckets[c].last <= ticks

ClientsInv ==
  Limits!Full <= StaleTTL => \A c \in Clients : ClientCharged(c) /\ Limits!WithinRate(allowed[c])

UpstreamInv ==
  /\ upstream.last > ticks => upstream.credit = 0
  /\ Charged(starts, upstream.credit, upstream.last)
  /\ Limits!WithinRate(starts)

LimitsInv == Limits!LimitTypeOK /\ CheckedBefore /\ ClientsInv /\ UpstreamInv

LEMMA LimitConstants ==
  /\ Cost \in Nat \ {0} /\ Burst \in Nat \ {0} /\ StaleTTL \in Nat /\ CleanupEvery \in Nat \ {0}
  /\ MaxTicks \in Nat /\ Limits!Full \in Nat /\ Limits!Full >= Cost /\ Limits!Full = Burst * Cost
<1>1. Cost \in Nat \ {0} /\ Burst \in Nat \ {0} /\ StaleTTL \in Nat /\ CleanupEvery \in Nat \ {0} /\ MaxTicks \in Nat
  BY LimitsAssumption DEF Limits!LimitAssumption
<1>2. Burst * Cost \in Nat /\ Burst * Cost >= Cost
  BY <1>1
<1>3. QED
  BY <1>1, <1>2 DEF Limits!Full

LEMMA ChargedLess ==
  ASSUME NEW times \in Seq(Nat), NEW credit \in Nat, NEW last \in Nat, Charged(times, credit, last),
         NEW credit2 \in Nat, NEW last2 \in Nat, credit2 - last2 <= credit - last
  PROVE  Charged(times, credit2, last2)
<1> SUFFICES ASSUME NEW i \in DOMAIN times
             PROVE  (Len(times) - i + 1) * Cost + credit2 <= Limits!Full + last2 - times[i]
  BY DEF Charged
<1>1. (Len(times) - i + 1) * Cost + credit <= Limits!Full + last - times[i]
  BY DEF Charged
<1>2. (Len(times) - i + 1) * Cost \in Int /\ Limits!Full \in Int /\ times[i] \in Int
  BY LimitConstants
<1>3. QED
  BY <1>1, <1>2

LEMMA ChargedAppend ==
  ASSUME NEW times \in Seq(Nat), NEW credit \in Nat, NEW last \in Nat, Charged(times, credit, last),
         NEW t \in Nat, NEW credit2 \in Nat, NEW last2 \in Nat,
         credit2 + Cost - last2 <= credit - last, Cost + credit2 <= Limits!Full + last2 - t
  PROVE  Charged(Append(times, t), credit2, last2)
<1> DEFINE more == Append(times, t)
           n == Len(times)
<1>1. n \in Nat /\ Len(more) = n + 1 /\ DOMAIN more = 1..(n + 1) /\ DOMAIN times = 1..n
      /\ more[n + 1] = t /\ \A i \in 1..n : more[i] = times[i]
  OBVIOUS
<1> HIDE DEF more, n
<1> SUFFICES ASSUME NEW i \in 1..(n + 1)
             PROVE  (n + 1 - i + 1) * Cost + credit2 <= Limits!Full + last2 - more[i]
  BY <1>1 DEF Charged, more
<1>2. CASE i = n + 1
  <2>1. (n + 1 - i + 1) * Cost = Cost
    BY <1>1, <1>2, LimitConstants
  <2>2. QED
    BY <1>1, <1>2, <2>1
<1>3. CASE i \in 1..n
  <2> DEFINE paid == (n - i + 1) * Cost
             owed == (n + 1 - i + 1) * Cost
  <2>1. paid + credit <= Limits!Full + last - times[i]
    BY <1>1, <1>3 DEF Charged, n
  <2>2. owed = paid + Cost /\ paid \in Int
    BY <1>1, <1>3, LimitConstants
  <2>3. Limits!Full \in Int /\ times[i] \in Int /\ Cost \in Int /\ more[i] = times[i]
    BY <1>1, <1>3, LimitConstants
  <2> HIDE DEF paid
  <2>4. owed + credit2 <= Limits!Full + last2 - more[i]
    <3> HIDE DEF owed
    <3>1. QED
      BY <2>1, <2>2, <2>3, SMTT(30)
  <2>5. QED
    BY <2>4
<1>4. QED
  BY <1>1, <1>2, <1>3

LEMMA WithinAppend ==
  ASSUME NEW times \in Seq(Nat), NEW t \in Nat, NEW credit \in Nat,
         Limits!WithinRate(times), Charged(Append(times, t), credit, t)
  PROVE  Limits!WithinRate(Append(times, t))
<1> DEFINE more == Append(times, t)
           n == Len(times)
<1>1. n \in Nat /\ Len(more) = n + 1 /\ DOMAIN more = 1..(n + 1) /\ DOMAIN times = 1..n
      /\ more[n + 1] = t /\ \A i \in 1..n : more[i] = times[i]
  OBVIOUS
<1>2. \A i \in 1..(n + 1) : more[i] \in Nat
  BY <1>1
<1>3. \A i \in DOMAIN more : (Len(more) - i + 1) * Cost + credit <= Limits!Full + t - more[i]
  BY DEF Charged
<1>4. \A i, j \in 1..n : i <= j => (j - i + 1 - Burst) * Cost <= times[j] - times[i]
  BY <1>1 DEF Limits!WithinRate
<1> HIDE DEF more, n
<1> SUFFICES ASSUME NEW i \in 1..(n + 1), NEW j \in 1..(n + 1), i <= j
             PROVE  (j - i + 1 - Burst) * Cost <= more[j] - more[i]
  BY <1>1 DEF Limits!WithinRate, more
<1>5. CASE j = n + 1
  <2> DEFINE paid == (j - i + 1) * Cost
             over == (j - i + 1 - Burst) * Cost
  <2>1. paid + credit <= Limits!Full + t - more[i]
    <3>1. i \in DOMAIN more /\ Len(more) = j
      BY <1>1, <1>5
    <3>2. QED
      BY <1>3, <3>1
  <2>2. over = paid - Limits!Full /\ paid \in Int
    BY <1>1, LimitConstants
  <2>3. more[i] \in Nat /\ more[j] = t /\ Limits!Full \in Nat
    BY <1>1, <1>2, <1>5, LimitConstants
  <2>4. over <= more[j] - more[i]
    <3> HIDE DEF paid, over
    <3>1. QED
      BY <2>1, <2>2, <2>3
  <2>5. QED
    BY <2>4
<1>6. CASE j \in 1..n
  <2>1. i \in 1..n
    BY <1>1, <1>6
  <2>2. QED
    BY <1>1, <1>4, <1>6, <2>1
<1>7. QED
  BY <1>1, <1>5, <1>6

-----------------------------------------------------------------------------
LEMMA LimitsInitially == Limits!LimitInit => LimitsInv
<1> SUFFICES ASSUME Limits!LimitInit PROVE LimitsInv
  OBVIOUS
<1> USE LimitConstants DEF Limits!LimitInit
<1>1. DOMAIN buckets = {} /\ \A c \in Clients : allowed[c] = <<>>
  OBVIOUS
<1>2. Limits!LimitTypeOK
  <2>1. allowed \in [Clients -> Seq(0..MaxTicks)] /\ starts \in Seq(Nat)
    OBVIOUS
  <2>2. upstream \in [credit : 0..Limits!Full, last : Nat]
    OBVIOUS
  <2>3. ticks \in 0..MaxTicks /\ allowCalls \in 0..CleanupEvery - 1
    OBVIOUS
  <2>4. QED
    BY <1>1, <2>1, <2>2, <2>3 DEF Limits!LimitTypeOK
<1>3. ClientsInv
  BY <1>1 DEF ClientsInv, ClientCharged, Charged, Limits!WithinRate
<1>4. UpstreamInv
  BY DEF UpstreamInv, Charged, Limits!WithinRate
<1>5. CheckedBefore
  BY <1>1 DEF CheckedBefore
<1>6. QED
  BY <1>2, <1>3, <1>4, <1>5 DEF LimitsInv

(* A bucket's type and that of what it let through, one by one. *)
LEMMA LimitTypes ==
  ASSUME Limits!LimitTypeOK
  PROVE  /\ ticks \in Nat
         /\ \A c \in Clients : allowed[c] \in Seq(0..MaxTicks) /\ allowed[c] \in Seq(Nat)
         /\ \A c \in DOMAIN buckets :
              buckets[c].credit \in 0..Limits!Full /\ buckets[c].credit \in Nat /\ buckets[c].last \in Nat
         /\ upstream.credit \in Nat /\ upstream.credit <= Limits!Full /\ upstream.last \in Nat
         /\ starts \in Seq(Nat)
<1>1. ASSUME NEW c \in Clients
      PROVE  allowed[c] \in Seq(0..MaxTicks) /\ allowed[c] \in Seq(Nat)
  <2>1. allowed[c] \in Seq(0..MaxTicks)
    BY DEF Limits!LimitTypeOK
  <2>2. \A times \in Seq(0..MaxTicks) : times \in Seq(Nat)
    <3> SUFFICES ASSUME NEW times \in Seq(0..MaxTicks) PROVE times \in Seq(Nat)
      OBVIOUS
    <3>1. \A i \in 1..Len(times) : times[i] \in Nat
      BY LimitConstants
    <3>2. QED
      BY <3>1
  <2>3. QED
    BY <2>1, <2>2
<1>2. QED
  BY <1>1, LimitConstants DEF Limits!LimitTypeOK

-----------------------------------------------------------------------------
(* Allow: what is left of the buckets, and what becomes of the client's own. *)
LEMMA KeptBuckets ==
  ASSUME NEW c \in Clients, Limits!LimitTypeOK
  PROVE  /\ DOMAIN Limits!Kept(c) \subseteq DOMAIN buckets
         /\ \A d \in DOMAIN Limits!Kept(c) : Limits!Kept(c)[d] = buckets[d]
         /\ \A d \in DOMAIN buckets \ DOMAIN Limits!Kept(c) : ticks - buckets[d].last > StaleTTL
<1>1. Limits!Kept(c) = buckets \/ Limits!Kept(c) = Limits!Swept
  BY Zenon DEF Limits!Kept
<1>2. /\ DOMAIN Limits!Swept \subseteq DOMAIN buckets
      /\ \A d \in DOMAIN Limits!Swept : Limits!Swept[d] = buckets[d]
      /\ \A d \in DOMAIN buckets \ DOMAIN Limits!Swept : ticks - buckets[d].last > StaleTTL
  <2>1. \A d \in DOMAIN buckets : ticks - buckets[d].last \in Int /\ StaleTTL \in Int
    BY LimitTypes, LimitConstants
  <2>2. /\ Limits!Fresh \subseteq DOMAIN buckets
        /\ \A d \in DOMAIN buckets \ Limits!Fresh : ticks - buckets[d].last > StaleTTL
    BY <2>1 DEF Limits!Fresh
  <2>3. DOMAIN Limits!Swept = Limits!Fresh /\ \A d \in Limits!Fresh : Limits!Swept[d] = buckets[d]
    BY DEF Limits!Swept
  <2>4. QED
    BY <2>2, <2>3
<1>3. QED
  BY <1>1, <1>2

LEMMA AllowDoes ==
  ASSUME NEW c \in Clients, Limits!LimitTypeOK, CheckedBefore, Limits!Allow(c)
  PROVE  \E credit \in 0..Limits!Full :
           LET kept == Limits!Kept(c)
               through == credit >= Cost
           IN  /\ UNCHANGED <<ticks, upstream, starts>> /\ allowCalls' \in 0..CleanupEvery - 1
               /\ c \in DOMAIN kept => credit <= buckets[c].credit + ticks - buckets[c].last
               /\ \/ buckets' = kept /\ c \notin DOMAIN kept /\ allowed' = allowed
                  \/ /\ DOMAIN buckets' = DOMAIN kept \cup {c}
                     /\ \A d \in DOMAIN kept \ {c} : buckets'[d] = kept[d]
                     /\ buckets'[c] = [credit |-> IF through THEN credit - Cost ELSE credit, last |-> ticks]
                     /\ IF through THEN allowed' = [allowed EXCEPT ![c] = Append(@, ticks)]
                                   ELSE allowed' = allowed
<1> DEFINE kept == Limits!Kept(c)
           refused == c \notin DOMAIN kept /\ Limits!Cardinality(DOMAIN kept) >= MaxBuckets
           credit == IF c \in DOMAIN kept THEN Limits!Least(Limits!Full, kept[c].credit + ticks - kept[c].last)
                     ELSE Limits!Full
           passes == ~refused /\ credit >= Cost
<1>1. /\ allowCalls' = (allowCalls + 1) % CleanupEvery
      /\ buckets' = IF refused THEN kept
                    ELSE [d \in DOMAIN kept \cup {c} |->
                            IF d = c THEN [credit |-> IF passes THEN credit - Cost ELSE credit, last |-> ticks]
                            ELSE kept[d]]
      /\ allowed' = IF passes THEN [allowed EXCEPT ![c] = Append(@, ticks)] ELSE allowed
      /\ UNCHANGED <<ticks, upstream, starts>>
  BY DEF Limits!Allow
<1>2. allowCalls' \in 0..CleanupEvery - 1
  <2>1. allowCalls \in Nat
    BY LimitConstants DEF Limits!LimitTypeOK
  <2>2. allowCalls' = (allowCalls + 1) % CleanupEvery
    BY <1>1
  <2>3. QED
    BY ONLY <2>1, <2>2, LimitConstants
<1>3. c \in DOMAIN kept => kept[c] = buckets[c] /\ c \in DOMAIN buckets
  BY KeptBuckets
<1> HIDE DEF kept
<1>4. credit \in 0..Limits!Full /\ (c \in DOMAIN kept => credit <= buckets[c].credit + ticks - buckets[c].last)
  <2>1. CASE c \in DOMAIN kept
    <3>1. buckets[c].credit \in Nat /\ buckets[c].last \in Nat /\ ticks \in Nat /\ Limits!Full \in Nat
          /\ buckets[c].last <= ticks
      BY <1>3, <2>1, LimitTypes, LimitConstants DEF CheckedBefore
    <3>2. QED
      BY <1>3, <2>1, <3>1 DEF Limits!Least
  <2>2. CASE c \notin DOMAIN kept
    BY <2>2, LimitConstants
  <2> HIDE DEF credit
  <2>3. QED
    BY <2>1, <2>2
<1>5. CASE refused
  BY <1>1, <1>2, <1>4, <1>5 DEF kept
<1>6. CASE ~refused
  <2>1. /\ DOMAIN buckets' = DOMAIN kept \cup {c}
        /\ \A d \in DOMAIN kept \ {c} : buckets'[d] = kept[d]
        /\ buckets'[c] = [credit |-> IF credit >= Cost THEN credit - Cost ELSE credit, last |-> ticks]
        /\ IF credit >= Cost THEN allowed' = [allowed EXCEPT ![c] = Append(@, ticks)] ELSE allowed' = allowed
    <3> HIDE DEF credit, refused
    <3>1. QED
      BY <1>1, <1>6
  <2> HIDE DEF credit
  <2>2. QED
    BY <1>1, <1>2, <1>4, <2>1 DEF kept
<1>7. QED
  BY <1>5, <1>6

LEMMA AllowKeeps ==
  ASSUME NEW c \in Clients, LimitsInv, Limits!Allow(c)
  PROVE  LimitsInv'
<1> DEFINE kept == Limits!Kept(c)
<1>1. PICK credit \in 0..Limits!Full :
           /\ UNCHANGED <<ticks, upstream, starts>> /\ allowCalls' \in 0..CleanupEvery - 1
           /\ c \in DOMAIN kept => credit <= buckets[c].credit + ticks - buckets[c].last
           /\ \/ buckets' = kept /\ c \notin DOMAIN kept /\ allowed' = allowed
              \/ /\ DOMAIN buckets' = DOMAIN kept \cup {c}
                 /\ \A d \in DOMAIN kept \ {c} : buckets'[d] = kept[d]
                 /\ buckets'[c] = [credit |-> IF credit >= Cost THEN credit - Cost ELSE credit, last |-> ticks]
                 /\ IF credit >= Cost THEN allowed' = [allowed EXCEPT ![c] = Append(@, ticks)]
                                      ELSE allowed' = allowed
  BY AllowDoes DEF LimitsInv
<1>2. /\ DOMAIN kept \subseteq DOMAIN buckets
      /\ \A d \in DOMAIN kept : kept[d] = buckets[d]
      /\ \A d \in DOMAIN buckets \ DOMAIN kept : ticks - buckets[d].last > StaleTTL
  BY KeptBuckets DEF LimitsInv
<1> HIDE DEF kept
<1>3. /\ ticks \in 0..MaxTicks /\ ticks \in Nat
      /\ allowed \in [Clients -> Seq(0..MaxTicks)]
      /\ \A d \in Clients : allowed[d] \in Seq(0..MaxTicks) /\ allowed[d] \in Seq(Nat)
      /\ DOMAIN buckets \subseteq Clients
      /\ \A d \in DOMAIN buckets :
           /\ buckets[d] \in [credit : 0..Limits!Full, last : 0..MaxTicks]
           /\ buckets[d].credit \in Nat /\ buckets[d].last \in Nat /\ buckets[d].last <= ticks
  BY LimitTypes DEF LimitsInv, Limits!LimitTypeOK, CheckedBefore
<1>4. credit \in Nat /\ credit <= Limits!Full /\ (credit >= Cost => credit - Cost \in 0..Limits!Full)
  BY LimitConstants
<1>5. \/ buckets' = kept /\ c \notin DOMAIN kept /\ allowed' = allowed
      \/ /\ DOMAIN buckets' = DOMAIN kept \cup {c} /\ \A d \in DOMAIN kept \ {c} : buckets'[d] = kept[d]
         /\ buckets'[c].last = ticks /\ buckets'[c] \in [credit : 0..Limits!Full, last : 0..MaxTicks]
         /\ \/ allowed' = allowed /\ buckets'[c].credit = credit
            \/ allowed' = [allowed EXCEPT ![c] = Append(allowed[c], ticks)] /\ credit >= Cost
               /\ buckets'[c].credit = credit - Cost
  <2>1. CASE buckets' = kept /\ c \notin DOMAIN kept /\ allowed' = allowed
    BY <2>1
  <2>2. CASE credit >= Cost /\ ~(buckets' = kept /\ c \notin DOMAIN kept /\ allowed' = allowed)
    BY <1>1, <1>3, <1>4, <2>2
  <2>3. CASE ~(credit >= Cost) /\ ~(buckets' = kept /\ c \notin DOMAIN kept /\ allowed' = allowed)
    BY <1>1, <1>3, <1>4, <2>3
  <2>4. QED
    BY <2>1, <2>2, <2>3
<1>6. Limits!LimitTypeOK' /\ CheckedBefore'
  <2>1. \A d \in DOMAIN buckets' :
          /\ d \in Clients /\ buckets'[d] \in [credit : 0..Limits!Full, last : 0..MaxTicks]
          /\ buckets'[d].last <= ticks
    <3> DEFINE Fine(d, b) ==
          d \in Clients /\ b \in [credit : 0..Limits!Full, last : 0..MaxTicks] /\ b.last <= ticks
    <3>1. \A d \in DOMAIN kept : Fine(d, kept[d])
      BY <1>2, <1>3, Zenon
    <3>2. ASSUME DOMAIN buckets' = DOMAIN kept \cup {c}, buckets'[c].last = ticks,
                 buckets'[c] \in [credit : 0..Limits!Full, last : 0..MaxTicks]
          PROVE  Fine(c, buckets'[c])
      BY ONLY <1>3, <3>2, c \in Clients
    <3> HIDE DEF Fine
    <3>3. CASE buckets' = kept
      BY <3>1, <3>3, Zenon DEF Fine
    <3>4. CASE /\ DOMAIN buckets' = DOMAIN kept \cup {c} /\ \A d \in DOMAIN kept \ {c} : buckets'[d] = kept[d]
               /\ buckets'[c].last = ticks /\ buckets'[c] \in [credit : 0..Limits!Full, last : 0..MaxTicks]
      <4>1. Fine(c, buckets'[c])
        BY <3>2, <3>4
      <4>2. \A d \in DOMAIN buckets' : Fine(d, buckets'[d])
        BY ONLY <3>1, <3>4, <4>1, SMT
      <4>3. QED
        BY <4>2, Zenon DEF Fine
    <3>5. QED
      BY <1>5, <3>3, <3>4, Zenon
  <2>2. allowed' \in [Clients -> Seq(0..MaxTicks)]
    <3>1. Append(allowed[c], ticks) \in Seq(0..MaxTicks)
      BY <1>3
    <3>2. QED
      BY <1>3, <1>5, <3>1
  <2>3. QED
    BY <1>1, <2>1, <2>2 DEF LimitsInv, Limits!LimitTypeOK, CheckedBefore, Limits!Full
<1>7. ClientsInv'
  <2> SUFFICES ASSUME Limits!Full <= StaleTTL, NEW d \in Clients
               PROVE  (ClientCharged(d) /\ Limits!WithinRate(allowed[d]))'
    BY DEF ClientsInv, Limits!Full
  <2>1. ClientCharged(d) /\ Limits!WithinRate(allowed[d])
    BY DEF LimitsInv, ClientsInv
  <2>2. IF d \in DOMAIN kept THEN d \in DOMAIN buckets /\ Charged(allowed[d], buckets[d].credit, buckets[d].last)
        ELSE Charged(allowed[d], Limits!Full, ticks)
    <3>1. CASE d \in DOMAIN kept
      BY <1>2, <2>1, <3>1 DEF ClientCharged
    <3>2. CASE d \notin DOMAIN buckets
      BY <1>2, <2>1, <3>2 DEF ClientCharged
    <3>3. CASE d \in DOMAIN buckets \ DOMAIN kept
      <4>1. Charged(allowed[d], buckets[d].credit, buckets[d].last)
        BY <2>1, <3>3 DEF ClientCharged
      <4>2. Limits!Full - ticks <= buckets[d].credit - buckets[d].last
        BY <1>2, <1>3, <3>3, LimitConstants
      <4>3. QED
        BY <1>3, <3>3, <4>1, <4>2, ChargedLess, LimitConstants
    <3>4. QED
      BY <3>1, <3>2, <3>3
  <2>3. CASE d # c \/ (buckets' = kept /\ allowed' = allowed)
    <3>1. allowed'[d] = allowed[d]
      BY <1>3, <1>5, <2>3
    <3>2. (d \in DOMAIN buckets' <=> d \in DOMAIN kept) /\ (d \in DOMAIN kept => buckets'[d] = buckets[d])
      BY <1>2, <1>5, <2>3
    <3>3. ClientCharged(d)'
      BY <1>1, <2>2, <3>1, <3>2 DEF ClientCharged, Charged, Limits!Full
    <3>4. Limits!WithinRate(allowed[d])'
      BY <2>1, <3>1 DEF Limits!WithinRate
    <3>5. QED
      BY <3>3, <3>4
  <2>4. CASE d = c /\ ~(buckets' = kept /\ allowed' = allowed)
    <3>1. /\ c \in DOMAIN buckets' /\ buckets'[c].last = ticks
          /\ \/ allowed' = allowed /\ buckets'[c].credit = credit
             \/ allowed'[c] = Append(allowed[c], ticks) /\ credit >= Cost /\ buckets'[c].credit = credit - Cost
      BY <1>3, <1>5, <2>4
    <3>2. Charged(allowed[c], credit, ticks)
      <4>1. CASE c \in DOMAIN kept
        <5>1. credit - ticks <= buckets[c].credit - buckets[c].last
              /\ buckets[c].credit \in Nat /\ buckets[c].last \in Nat
          BY <1>1, <1>2, <1>3, <1>4, <4>1
        <5>2. Charged(allowed[c], buckets[c].credit, buckets[c].last)
          BY <2>2, <2>4, <4>1
        <5>3. QED
          BY <1>3, <1>4, <5>1, <5>2, ChargedLess
      <4>2. CASE c \notin DOMAIN kept
        <5>1. Charged(allowed[c], Limits!Full, ticks)
          BY <2>2, <2>4, <4>2
        <5>2. credit - ticks <= Limits!Full - ticks /\ Limits!Full \in Nat
          BY <1>3, <1>4, LimitConstants
        <5>3. QED
          BY <1>3, <1>4, <5>1, <5>2, ChargedLess
      <4>3. QED
        BY <4>1, <4>2
    <3>3. CASE allowed' = allowed /\ buckets'[c].credit = credit
      <4>1. ClientCharged(c)'
        BY <1>1, <3>1, <3>2, <3>3 DEF ClientCharged, Charged, Limits!Full
      <4>2. QED
        BY <2>1, <2>4, <3>3, <4>1 DEF Limits!WithinRate
    <3>4. CASE allowed'[c] = Append(allowed[c], ticks) /\ credit >= Cost /\ buckets'[c].credit = credit - Cost
      <4>1. credit - Cost \in Nat /\ (credit - Cost) + Cost - ticks <= credit - ticks
            /\ Cost + (credit - Cost) <= Limits!Full + ticks - ticks
        BY <1>3, <1>4, <3>4, LimitConstants
      <4>2. Charged(Append(allowed[c], ticks), credit - Cost, ticks)
        BY <1>3, <1>4, <3>2, <4>1, ChargedAppend
      <4>3. Limits!WithinRate(Append(allowed[c], ticks))
        BY <1>3, <2>1, <2>4, <4>1, <4>2, WithinAppend
      <4>4. ClientCharged(c)'
        BY <1>1, <3>1, <3>4, <4>2 DEF ClientCharged, Charged, Limits!Full
      <4>5. QED
        BY <2>4, <3>4, <4>3, <4>4 DEF Limits!WithinRate
    <3>5. QED
      BY <3>1, <3>3, <3>4
  <2>5. QED
    BY <2>3, <2>4
<1>8. UpstreamInv'
  BY <1>1 DEF LimitsInv, UpstreamInv, Charged, Limits!WithinRate, Limits!Full
<1>9. QED
  BY <1>6, <1>7, <1>8 DEF LimitsInv

-----------------------------------------------------------------------------
LEMMA TickKeeps ==
  ASSUME LimitsInv, Limits!LimitTick
  PROVE  LimitsInv'
<1>1. /\ ticks' = ticks + 1 /\ ticks + 1 \in 0..MaxTicks /\ ticks \in Nat
      /\ UNCHANGED <<buckets, allowCalls, allowed, upstream, starts>>
  BY LimitConstants DEF LimitsInv, Limits!LimitTypeOK, Limits!LimitTick
<1>2. Limits!LimitTypeOK' /\ CheckedBefore'
  <2>1. Limits!LimitTypeOK'
    BY <1>1 DEF LimitsInv, Limits!LimitTypeOK, Limits!Full
  <2>2. CheckedBefore'
    BY <1>1, LimitTypes DEF LimitsInv, CheckedBefore
  <2>3. QED
    BY <2>1, <2>2
<1>3. ClientsInv'
  <2> SUFFICES ASSUME Limits!Full <= StaleTTL, NEW d \in Clients
               PROVE  (ClientCharged(d) /\ Limits!WithinRate(allowed[d]))'
    BY DEF ClientsInv, Limits!Full
  <2>1. ClientCharged(d) /\ Limits!WithinRate(allowed[d])
    BY DEF LimitsInv, ClientsInv
  <2>2. CASE d \in DOMAIN buckets
    BY <1>1, <2>1, <2>2 DEF ClientCharged, Charged, Limits!WithinRate, Limits!Full
  <2>3. CASE d \notin DOMAIN buckets
    <3>1. Charged(allowed[d], Limits!Full, ticks + 1)
      <4>1. Charged(allowed[d], Limits!Full, ticks) /\ allowed[d] \in Seq(Nat)
        BY <2>1, <2>3, LimitTypes DEF ClientCharged, LimitsInv
      <4>2. Limits!Full \in Nat /\ ticks + 1 \in Nat /\ Limits!Full - (ticks + 1) <= Limits!Full - ticks
        BY <1>1, LimitConstants
      <4>3. QED
        BY <1>1, <4>1, <4>2, ChargedLess
    <3>2. QED
      BY <1>1, <2>1, <2>3, <3>1 DEF ClientCharged, Charged, Limits!WithinRate, Limits!Full
  <2>4. QED
    BY <2>2, <2>3
<1>4. UpstreamInv'
  <2>1. upstream.last > ticks' => upstream.credit = 0
    BY <1>1, LimitTypes DEF LimitsInv, UpstreamInv
  <2>2. QED
    BY <1>1, <2>1 DEF LimitsInv, UpstreamInv, Charged, Limits!WithinRate, Limits!Full
<1>5. QED
  BY <1>2, <1>3, <1>4 DEF LimitsInv

(* reserveDelay: who has to wait starts when the bucket's own time says. *)
LEMMA ReserveKeeps ==
  ASSUME LimitsInv, Limits!reserveDelay
  PROVE  LimitsInv'
<1> DEFINE grown == ticks > upstream.last
           credit == IF grown THEN Limits!Least(Limits!Full, upstream.credit + ticks - upstream.last)
                     ELSE upstream.credit
           base == IF grown THEN ticks ELSE upstream.last
<1>1. /\ IF credit >= Cost
         THEN upstream' = [credit |-> credit - Cost, last |-> base] /\ starts' = Append(starts, ticks)
         ELSE /\ upstream' = [credit |-> 0, last |-> base + Cost - credit]
              /\ starts' = Append(starts, base + Cost - credit)
      /\ UNCHANGED <<ticks, buckets, allowCalls, allowed>>
  BY DEF Limits!reserveDelay
<1>2. /\ ticks \in Nat /\ upstream.credit \in Nat /\ upstream.credit <= Limits!Full /\ upstream.last \in Nat
      /\ starts \in Seq(Nat) /\ (upstream.last > ticks => upstream.credit = 0)
      /\ Charged(starts, upstream.credit, upstream.last) /\ Limits!WithinRate(starts)
  BY LimitTypes DEF LimitsInv, UpstreamInv
<1>3. /\ credit \in Nat /\ credit <= Limits!Full /\ base \in Nat /\ base >= ticks
      /\ credit - base <= upstream.credit - upstream.last
      /\ (base > ticks => credit = 0)
  BY <1>2, LimitConstants DEF Limits!Least
<1> HIDE DEF grown, credit, base
<1>4. CASE credit >= Cost
  <2>1. upstream' = [credit |-> credit - Cost, last |-> ticks] /\ starts' = Append(starts, ticks) /\ base = ticks
    BY <1>1, <1>2, <1>3, <1>4, LimitConstants
  <2>2. /\ credit - Cost \in Nat /\ credit - Cost \in 0..Limits!Full
        /\ (credit - Cost) + Cost - ticks <= upstream.credit - upstream.last
        /\ Cost + (credit - Cost) <= Limits!Full + ticks - ticks
    BY <1>2, <1>3, <1>4, <2>1, LimitConstants
  <2>3. Charged(Append(starts, ticks), credit - Cost, ticks)
    BY <1>2, <2>2, ChargedAppend
  <2>4. Limits!WithinRate(Append(starts, ticks))
    BY <1>2, <2>2, <2>3, WithinAppend
  <2>5. UpstreamInv'
    <3>1. upstream'.last = ticks /\ upstream'.credit = credit - Cost /\ ticks' = ticks
      BY <1>1, <2>1
    <3>2. Charged(starts, upstream.credit, upstream.last)'
      BY <2>1, <2>3, <3>1 DEF Charged, Limits!Full
    <3>3. Limits!WithinRate(starts)'
      BY <2>1, <2>4 DEF Limits!WithinRate
    <3>4. ~(upstream.last > ticks)'
      BY <1>2, <3>1
    <3>5. QED
      BY <3>2, <3>3, <3>4 DEF UpstreamInv
  <2>6. upstream' \in [credit : 0..Limits!Full, last : Nat] /\ starts' \in Seq(Nat)
    BY <1>2, <2>1, <2>2
  <2>7. QED
    BY <1>1, <2>5, <2>6 DEF LimitsInv, Limits!LimitTypeOK, CheckedBefore, ClientsInv, ClientCharged, Charged,
       Limits!WithinRate, Limits!Full
<1>5. CASE ~(credit >= Cost)
  <2> DEFINE start == base + Cost - credit
  <2>1. upstream' = [credit |-> 0, last |-> start] /\ starts' = Append(starts, start)
    BY <1>1, <1>5
  <2>2. /\ start \in Nat /\ 0 + Cost - start <= upstream.credit - upstream.last
        /\ Cost + 0 <= Limits!Full + start - start
    BY <1>2, <1>3, <1>5, LimitConstants
  <2> HIDE DEF start
  <2>3. Charged(Append(starts, start), 0, start)
    BY <1>2, <2>2, ChargedAppend
  <2>4. Limits!WithinRate(Append(starts, start))
    BY <1>2, <2>2, <2>3, WithinAppend
  <2>5. UpstreamInv'
    BY <1>1, <2>1, <2>3, <2>4 DEF UpstreamInv, Charged, Limits!WithinRate, Limits!Full
  <2>6. upstream' \in [credit : 0..Limits!Full, last : Nat] /\ starts' \in Seq(Nat)
    BY <1>2, <2>1, <2>2, LimitConstants
  <2>7. QED
    BY <1>1, <2>5, <2>6 DEF LimitsInv, Limits!LimitTypeOK, CheckedBefore, ClientsInv, ClientCharged, Charged,
       Limits!WithinRate, Limits!Full
<1>6. QED
  BY <1>4, <1>5

LEMMA LimitsInvKept ==
  ASSUME LimitsInv, Limits!ClientsNext \/ Limits!UpstreamNext \/ UNCHANGED Limits!limitVars
  PROVE  LimitsInv'
<1>1. CASE UNCHANGED Limits!limitVars
  BY <1>1 DEF Limits!limitVars, LimitsInv, Limits!LimitTypeOK, CheckedBefore, ClientsInv, ClientCharged, Charged,
     UpstreamInv, Limits!WithinRate, Limits!Full
<1>2. QED
  BY <1>1, AllowKeeps, TickKeeps, ReserveKeeps DEF Limits!ClientsNext, Limits!UpstreamNext

LEMMA LimitsInvSound == LimitsInv => Limits!LimitTypeOK /\ Limits!RatesHold
BY DEF LimitsInv, ClientsInv, UpstreamInv, Limits!RatesHold

(***************************************************************************)
(* Numbers, and functions that are defined by recursion over them.         *)
(***************************************************************************)

(* A set of numbers has a least one.                                        *)
LEMMA LeastNumber ==
  ASSUME NEW S, S \subseteq Nat, S # {}
  PROVE  \E n \in S : \A m \in S : n <= m
<1> DEFINE N == Nat
           R == OpToRel(<, Nat)
<1>0. \A m, n \in Nat : <<m, n>> \in R <=> m < n
  BY Zenon DEF OpToRel
<1>1. S \subseteq N /\ IsWellFoundedOn(R, N)
  BY NatLessThanWellFounded, Zenon
<1> HIDE DEF N, R
<1>2. \E n \in S : \A m \in S : ~ (<<m, n>> \in R)
  BY ONLY <1>1, S # {}, WFMin, SMT
<1>3. PICK n \in S : \A m \in S : ~ (<<m, n>> \in R)
  BY <1>2, Zenon
<1>4. n \in Nat
  BY Zenon
<1>5. ASSUME NEW m \in S
      PROVE  n <= m
  <2>1. m \in Nat /\ ~(m < n)
    BY <1>0, <1>3, <1>4, Zenon
  <2>2. QED
    BY ONLY <1>4, <2>1, SMT
<1>6. QED
  BY <1>5, Zenon

(* Induction up to a bound, for a set of numbers: the first one missing     *)
(* would have one before it that is not.                                    *)
LEMMA Induction ==
  ASSUME NEW N \in Nat, NEW T, 0 \in T, \A n \in 1..N : n - 1 \in T => n \in T
  PROVE  \A n \in 0..N : n \in T
<1> DEFINE S == {n \in 0..N : n \notin T}
<1>1. SUFFICES ASSUME S # {} PROVE FALSE
  OBVIOUS
<1>2. S \subseteq Nat
  OBVIOUS
<1> HIDE DEF S
<1>3. PICK n \in S : \A m \in S : n <= m
  BY <1>1, <1>2, LeastNumber
<1> USE DEF S
<1>4. n \in 1..N /\ n - 1 \in 0..N /\ ~(n <= n - 1)
  OBVIOUS
<1>5. n - 1 \notin S
  BY <1>3, <1>4
<1>6. QED
  BY <1>4, <1>5

(* A set of numbers with a bound has a largest one.                         *)
LEMMA LargestNumber ==
  ASSUME NEW S, S # {}, NEW N \in Nat, S \subseteq 0..N
  PROVE  \E n \in S : \A m \in S : n >= m
<1> DEFINE U == {u \in Nat : \A m \in S : m <= u}
<1>1. U \subseteq Nat /\ U # {}
  <2>1. N \in U
    OBVIOUS
  <2>2. QED
    BY <2>1
<1> HIDE DEF U
<1>2. PICK u \in U : \A v \in U : u <= v
  BY <1>1, LeastNumber
<1> USE DEF U
<1>3. u \in S
  <2>1. SUFFICES ASSUME u \notin S PROVE FALSE
    OBVIOUS
  <2>2. PICK m \in S : TRUE
    OBVIOUS
  <2>3. u \in Nat /\ u - 1 \in Nat /\ \A l \in S : l <= u - 1
    BY <2>1, <2>2
  <2>4. u - 1 \in U
    BY <2>3
  <2>5. QED
    BY <1>2, <2>3, <2>4
<1>4. QED
  BY <1>3

(* A recursion over 1..N with its values in S is one some function solves.  *)
Solvable(S, N, base, step) ==
  \E f \in [0..N -> S] : f[0] = base /\ \A n \in 1..N : f[n] = step[<<f[n - 1], n>>]

LEMMA Recursion ==
  ASSUME NEW S, NEW N \in Nat, NEW base \in S, NEW step \in [S \X (1..N) -> S]
  PROVE  Solvable(S, N, base, step)
<1> DEFINE Solves(f, m) == f[0] = base /\ \A n \in 1..m : f[n] = step[<<f[n - 1], n>>]
           T == {m \in 0..N : \E f \in [0..m -> S] : Solves(f, m)}
<1>1. 0 \in T
  <2> DEFINE f == [n \in 0..0 |-> base]
  <2>1. f \in [0..0 -> S] /\ Solves(f, 0)
    OBVIOUS
  <2> HIDE DEF f
  <2>2. QED
    BY <2>1
<1>2. ASSUME NEW n \in 1..N, n - 1 \in T
      PROVE  n \in T
  <2>1. PICK f \in [0..(n - 1) -> S] : Solves(f, n - 1)
    BY <1>2
  <2> DEFINE last == step[<<f[n - 1], n>>]
             g == [m \in 0..n |-> IF m = n THEN last ELSE f[m]]
  <2>2. last \in S
    <3>1. f[n - 1] \in S
      OBVIOUS
    <3>2. QED
      BY <3>1
  <2> HIDE DEF last
  <2>3. g \in [0..n -> S]
    BY <2>2
  <2>4. g[0] = base
    BY <2>1
  <2>5. ASSUME NEW m \in 1..n
        PROVE  g[m] = step[<<g[m - 1], m>>]
    <3>1. CASE m = n
      <4>1. g[m] = last /\ g[m - 1] = f[n - 1]
        BY <3>1
      <4>2. QED
        BY <3>1, <4>1 DEF last
    <3>2. CASE m # n
      <4>1. m \in 1..(n - 1) /\ g[m] = f[m] /\ g[m - 1] = f[m - 1]
        BY <3>2
      <4>2. QED
        BY <2>1, <4>1
    <3>3. QED
      BY <3>1, <3>2
  <2> HIDE DEF g
  <2>6. QED
    BY <2>3, <2>4, <2>5
<1> HIDE DEF T
<1>3. \A n \in 0..N : n \in T
  BY ONLY N \in Nat, <1>1, <1>2, Induction, Zenon
<1>4. N \in T
  BY <1>3
<1>5. QED
  BY <1>4 DEF T, Solvable

(***************************************************************************)
(* The cache's operators on sequences of entries.                          *)
(***************************************************************************)

Entries == Seq(Cached!Entry)

(* The functions that Total and Only are the last values of.                *)
Sums(s) ==
  CHOOSE f : f = [n \in 0..Len(s) |-> IF n = 0 THEN 0 ELSE f[n - 1] + s[n].bytes]
Kept(s, good) ==
  CHOOSE f : f = [n \in 0..Len(s) |->
                    IF n = 0 THEN <<>>
                    ELSE IF s[n] \in good THEN Append(f[n - 1], s[n]) ELSE f[n - 1]]

LEMMA LastValues ==
  ASSUME NEW s, NEW good
  PROVE  Cached!Total(s) = Sums(s)[Len(s)] /\ Cached!Only(s, good) = Kept(s, good)[Len(s)]
BY DEF Cached!Total, Cached!Only, Sums, Kept

(* An entry's bytes are a number.                                           *)
LEMMA EntryBytes ==
  ASSUME NEW s \in Entries, NEW i \in DOMAIN s
  PROVE  s[i] \in Cached!Entry /\ s[i].bytes \in Nat /\ i \in 1..Len(s) /\ Len(s) \in Nat
<1>1. s[i] \in Cached!Entry /\ i \in 1..Len(s) /\ Len(s) \in Nat
  BY DEF Entries
<1>2. s[i].bytes \in Sizes
  BY <1>1 DEF Cached!Entry
<1>3. QED
  BY <1>1, <1>2, CachedAssumption DEF Cached!CacheAssumption

LEMMA SumsSolves ==
  ASSUME NEW s \in Entries
  PROVE  /\ Sums(s) \in [0..Len(s) -> Nat] /\ Sums(s)[0] = 0
         /\ \A n \in 1..Len(s) : Sums(s)[n] = Sums(s)[n - 1] + s[n].bytes
<1> DEFINE N == Len(s)
           step == [p \in Nat \X (1..N) |-> p[1] + s[p[2]].bytes]
           Fixed(f) == f = [n \in 0..N |-> IF n = 0 THEN 0 ELSE f[n - 1] + s[n].bytes]
<1>1. N \in Nat /\ \A n \in 1..N : s[n].bytes \in Nat
  BY EntryBytes DEF Entries
<1> HIDE DEF N
<1>2. step \in [Nat \X (1..N) -> Nat]
  BY <1>1
<1>3. \A m \in Nat, n \in 1..N : step[<<m, n>>] = m + s[n].bytes
  BY <1>1
<1> HIDE DEF step
<1>4. PICK f \in [0..N -> Nat] : f[0] = 0 /\ \A n \in 1..N : f[n] = step[<<f[n - 1], n>>]
  <2> DEFINE S == Nat
             base == 0
  <2>1. N \in Nat /\ base \in S /\ step \in [S \X (1..N) -> S]
    BY <1>1, <1>2
  <2> HIDE DEF S, base
  <2>2. Solvable(S, N, base, step)
    BY ONLY <2>1, Recursion
  <2>3. QED
    BY ONLY <2>2, Zenon DEF S, base, Solvable
<1>5. ASSUME NEW n \in 1..N
      PROVE  n - 1 \in 0..N /\ f[n - 1] \in Nat /\ f[n] = f[n - 1] + s[n].bytes
  <2>1. n - 1 \in 0..N
    BY <1>1
  <2>2. f[n - 1] \in Nat
    BY <2>1
  <2>3. f[n] = step[<<f[n - 1], n>>]
    BY <1>4
  <2>4. QED
    BY <1>3, <2>1, <2>2, <2>3
<1>6. Fixed(f)
  BY <1>4, <1>5
<1>7. Fixed(Sums(s))
  <2>1. Sums(s) = CHOOSE g : Fixed(g)
    BY DEF Sums, N
  <2> HIDE DEF Fixed
  <2>2. QED
    BY <1>6, <2>1
<1>8. ASSUME NEW g, Fixed(g)
      PROVE  /\ g \in [0..N -> Nat] /\ g[0] = 0
             /\ \A n \in 1..N : g[n] = g[n - 1] + s[n].bytes
  <2>1. g[0] = 0
    BY <1>1, <1>8
  <2>2. ASSUME NEW n \in 1..N
        PROVE  g[n] = g[n - 1] + s[n].bytes
    <3>1. n \in 0..N /\ n # 0
      BY <1>1
    <3>2. QED
      BY ONLY <1>8, <3>1
  <2> DEFINE T == {n \in Nat : g[n] \in Nat}
  <2>3. ASSUME NEW n \in 1..N, n - 1 \in T
        PROVE  n \in T
    <3>1. g[n] = g[n - 1] + s[n].bytes /\ s[n].bytes \in Nat /\ n \in Nat
      BY <1>1, <2>2
    <3>2. g[n - 1] \in Nat
      BY <2>3
    <3>3. QED
      BY <3>1, <3>2
  <2>4. \A n \in 0..N : n \in T
    <3>1. 0 \in T
      BY <2>1
    <3> HIDE DEF T
    <3>2. QED
      BY ONLY <1>1, <2>3, <3>1, Induction, Zenon
  <2>5. g \in [0..N -> Nat]
    <3>1. DOMAIN g = 0..N /\ g = [n \in DOMAIN g |-> g[n]]
      BY <1>8
    <3>2. QED
      BY <2>4, <3>1
  <2>6. QED
    BY <2>1, <2>2, <2>5
<1> HIDE DEF Fixed
<1>9. QED
  BY <1>7, <1>8 DEF N

LEMMA KeptSolves ==
  ASSUME NEW s \in Entries, NEW good
  PROVE  /\ Kept(s, good) \in [0..Len(s) -> Entries] /\ Kept(s, good)[0] = <<>>
         /\ \A n \in 1..Len(s) :
              Kept(s, good)[n] = IF s[n] \in good THEN Append(Kept(s, good)[n - 1], s[n])
                                 ELSE Kept(s, good)[n - 1]
<1> DEFINE N == Len(s)
           next(o, n) == IF s[n] \in good THEN Append(o, s[n]) ELSE o
           step == [p \in Entries \X (1..N) |-> next(p[1], p[2])]
           Fixed(f) == f = [n \in 0..N |-> IF n = 0 THEN <<>> ELSE next(f[n - 1], n)]
<1>1. N \in Nat /\ \A n \in 1..N : s[n] \in Cached!Entry
  BY DEF Entries
<1>2. <<>> \in Entries /\ \A o \in Entries, n \in 1..N : next(o, n) \in Entries
  BY <1>1 DEF Entries
<1>3. Kept(s, good) = CHOOSE g : Fixed(g)
  BY DEF Kept
<1> HIDE DEF N, next
<1>4. step \in [Entries \X (1..N) -> Entries]
  BY <1>1, <1>2
<1>5. \A o \in Entries, n \in 1..N : step[<<o, n>>] = next(o, n)
  BY <1>1
<1> HIDE DEF step
<1>6. PICK f \in [0..N -> Entries] : f[0] = <<>> /\ \A n \in 1..N : f[n] = step[<<f[n - 1], n>>]
  <2> DEFINE base == <<>>
  <2>1. base \in Entries
    BY <1>2
  <2> HIDE DEF base
  <2>2. Solvable(Entries, N, base, step)
    BY ONLY <1>1, <1>4, <2>1, Recursion
  <2>3. QED
    BY ONLY <2>2, Zenon DEF base, Solvable
<1>7. ASSUME NEW n \in 1..N
      PROVE  n - 1 \in 0..N /\ f[n - 1] \in Entries /\ f[n] = next(f[n - 1], n)
  <2>1. n - 1 \in 0..N
    BY <1>1
  <2>2. f[n - 1] \in Entries
    BY <2>1
  <2>3. f[n] = step[<<f[n - 1], n>>]
    BY <1>6
  <2>4. QED
    BY <1>5, <2>1, <2>2, <2>3
<1>8. Fixed(f)
  BY <1>6, <1>7
<1>9. Fixed(Kept(s, good))
  <2> HIDE DEF Fixed
  <2>1. QED
    BY <1>3, <1>8
<1>10. ASSUME NEW g, Fixed(g)
       PROVE  /\ g \in [0..N -> Entries] /\ g[0] = <<>>
              /\ \A n \in 1..N : g[n] = next(g[n - 1], n)
  <2>1. g[0] = <<>>
    BY <1>1, <1>10
  <2>2. ASSUME NEW n \in 1..N
        PROVE  g[n] = next(g[n - 1], n)
    <3>1. n \in 0..N /\ n # 0
      BY <1>1
    <3>2. QED
      BY ONLY <1>10, <3>1
  <2> DEFINE T == {n \in Nat : g[n] \in Entries}
  <2>3. \A n \in 1..N : n - 1 \in T => n \in T
    BY <1>1, <1>2, <2>2
  <2>4. \A n \in 0..N : n \in T
    <3>1. 0 \in T
      BY <1>2, <2>1
    <3> HIDE DEF T
    <3>2. QED
      BY ONLY <1>1, <2>3, <3>1, Induction, Zenon
  <2>5. g \in [0..N -> Entries]
    <3>1. DOMAIN g = 0..N /\ g = [n \in DOMAIN g |-> g[n]]
      BY <1>10
    <3>2. QED
      BY <2>4, <3>1
  <2>6. QED
    BY <2>1, <2>2, <2>5
<1> HIDE DEF Fixed
<1>11. QED
  BY <1>9, <1>10 DEF N, next

(* What two sequences of entries make together, put one behind the other,   *)
(* and what the empty one and one entry alone do.                           *)
Joined(u, s, t) ==
  /\ Len(u) = Len(s) + Len(t)
  /\ \A i \in 1..Len(s) : u[i] = s[i]
  /\ \A i \in 1..Len(t) : u[Len(s) + i] = t[i]

LEMMA TotalOfTwo ==
  ASSUME NEW s \in Entries, NEW t \in Entries, NEW u \in Entries, Joined(u, s, t)
  PROVE  Cached!Total(u) = Cached!Total(s) + Cached!Total(t)
<1> DEFINE M == Len(s)
           N == Len(t)
           S == Sums(s)
           Q == Sums(t)
           U == Sums(u)
           T == {n \in Nat : U[n] = S[n]}
           V == {n \in Nat : U[M + n] = S[M] + Q[n]}
<1>1. M \in Nat /\ N \in Nat /\ Len(u) = M + N
  BY DEF Entries, Joined
<1>2. \A i \in 1..M : u[i] = s[i] /\ s[i].bytes \in Nat
  BY EntryBytes DEF Joined, Entries
<1>3. \A i \in 1..N : u[M + i] = t[i] /\ t[i].bytes \in Nat
  BY EntryBytes DEF Joined, Entries
<1>4. /\ S \in [0..M -> Nat] /\ S[0] = 0 /\ \A n \in 1..M : S[n] = S[n - 1] + s[n].bytes
      /\ Q \in [0..N -> Nat] /\ Q[0] = 0 /\ \A n \in 1..N : Q[n] = Q[n - 1] + t[n].bytes
      /\ U[0] = 0 /\ \A n \in 1..(M + N) : U[n] = U[n - 1] + u[n].bytes
  BY <1>1, SumsSolves
<1> HIDE DEF M, N, S, Q, U
<1>5. U[M] = S[M]
  <2>1. 0 \in T
    BY <1>4
  <2>2. ASSUME NEW n \in 1..M, n - 1 \in T
        PROVE  n \in T
    <3>1. U[n] = U[n - 1] + u[n].bytes
      BY <1>1, <1>4
    <3>2. S[n] = S[n - 1] + s[n].bytes /\ u[n] = s[n] /\ U[n - 1] = S[n - 1]
      BY <1>2, <1>4, <2>2
    <3>3. QED
      BY <3>1, <3>2
  <2> HIDE DEF T
  <2>3. \A n \in 0..M : n \in T
    BY ONLY <1>1, <2>1, <2>2, Induction
  <2>4. QED
    BY <1>1, <2>3 DEF T
<1>6. U[M + N] = S[M] + Q[N]
  <2>1. 0 \in V
    <3>1. S[M] \in Nat /\ M + 0 = M
      BY <1>1, <1>4
    <3>2. QED
      BY <1>4, <1>5, <3>1
  <2>2. ASSUME NEW n \in 1..N, n - 1 \in V
        PROVE  n \in V
    <3>1. M + n \in 1..(M + N) /\ (M + n) - 1 = M + (n - 1)
      BY <1>1
    <3>2. U[M + n] = U[M + (n - 1)] + t[n].bytes
      <4>1. U[M + n] = U[(M + n) - 1] + u[M + n].bytes
        BY <1>4, <3>1
      <4>2. QED
        BY <1>3, <3>1, <4>1
    <3>3. U[M + (n - 1)] = S[M] + Q[n - 1] /\ Q[n] = Q[n - 1] + t[n].bytes
      BY <1>4, <2>2
    <3>4. S[M] \in Nat /\ Q[n - 1] \in Nat /\ t[n].bytes \in Nat
      <4>1. M \in 0..M /\ n - 1 \in 0..N
        BY <1>1
      <4>2. QED
        BY <1>3, <1>4, <4>1
    <3>5. QED
      BY <3>2, <3>3, <3>4
  <2> HIDE DEF V
  <2>3. \A n \in 0..N : n \in V
    BY ONLY <1>1, <2>1, <2>2, Induction
  <2>4. QED
    BY <1>1, <2>3 DEF V
<1>7. QED
  BY <1>1, <1>6, LastValues DEF M, N, S, Q, U

LEMMA TotalOfFew ==
  /\ \A s \in Entries : Cached!Total(s) \in Nat
  /\ \A s \in Entries : s = <<>> => Cached!Total(s) = 0
  /\ \A s \in Entries : Len(s) = 1 => Cached!Total(s) = s[1].bytes
<1> SUFFICES ASSUME NEW s \in Entries
             PROVE  /\ Cached!Total(s) \in Nat
                    /\ s = <<>> => Cached!Total(s) = 0
                    /\ Len(s) = 1 => Cached!Total(s) = s[1].bytes
  OBVIOUS
<1>1. Len(s) \in Nat /\ Cached!Total(s) = Sums(s)[Len(s)]
  BY LastValues DEF Entries
<1>2. /\ Sums(s) \in [0..Len(s) -> Nat] /\ Sums(s)[0] = 0
      /\ \A n \in 1..Len(s) : Sums(s)[n] = Sums(s)[n - 1] + s[n].bytes
  BY SumsSolves
<1>3. Cached!Total(s) \in Nat
  BY <1>1, <1>2
<1>4. s = <<>> => Cached!Total(s) = 0
  BY <1>1, <1>2
<1>5. ASSUME Len(s) = 1
      PROVE  Cached!Total(s) = s[1].bytes
  <2>1. Sums(s)[1] = Sums(s)[0] + s[1].bytes
    BY <1>2, <1>5
  <2>2. s[1].bytes \in Nat
    BY <1>5, EntryBytes DEF Entries
  <2>3. QED
    BY <1>1, <1>2, <1>5, <2>1, <2>2
<1>6. QED
  BY <1>3, <1>4, <1>5

(* The first n entries and the others make them all.                        *)
LEMMA TotalOfParts ==
  ASSUME NEW s \in Entries, NEW n \in 0..Len(s)
  PROVE  /\ SubSeq(s, 1, n) \in Entries /\ Len(SubSeq(s, 1, n)) = n
         /\ \A i \in 1..n : SubSeq(s, 1, n)[i] = s[i]
         /\ SubSeq(s, n + 1, Len(s)) \in Entries /\ Len(SubSeq(s, n + 1, Len(s))) = Len(s) - n
         /\ \A i \in 1..(Len(s) - n) : SubSeq(s, n + 1, Len(s))[i] = s[n + i]
         /\ Cached!Total(s) = Cached!Total(SubSeq(s, 1, n)) + Cached!Total(SubSeq(s, n + 1, Len(s)))
<1> DEFINE E == Cached!Entry
           a == SubSeq(s, 1, n)
           b == SubSeq(s, n + 1, Len(s))
<1>1. Len(s) \in Nat /\ n \in Nat /\ s \in Seq(E)
  BY DEF Entries
<1> HIDE DEF E
<1>2. a \in Seq(E) /\ Len(a) = n /\ \A i \in 1..n : a[i] = s[i]
  BY <1>1
<1>3. b \in Seq(E) /\ Len(b) = Len(s) - n /\ \A i \in 1..(Len(s) - n) : b[i] = s[n + i]
  BY <1>1
<1> HIDE DEF a, b
<1>4. Joined(s, a, b)
  BY <1>1, <1>2, <1>3 DEF Joined
<1>5. a \in Entries /\ b \in Entries
  BY <1>2, <1>3 DEF Entries, E
<1>6. Cached!Total(s) = Cached!Total(a) + Cached!Total(b)
  BY <1>4, <1>5, TotalOfTwo
<1>7. QED
  BY <1>2, <1>3, <1>5, <1>6 DEF a, b

(* An entry put in front of others.                                         *)
InFront(u, e, s) == u = <<e>> \o s

LEMMA TotalInFront ==
  ASSUME NEW e \in Cached!Entry, NEW s \in Entries, NEW u, InFront(u, e, s)
  PROVE  /\ u \in Entries /\ Len(u) = Len(s) + 1
         /\ u[1] = e /\ \A i \in 1..Len(s) : u[i + 1] = s[i]
         /\ Cached!Total(u) = e.bytes + Cached!Total(s)
<1> DEFINE E == Cached!Entry
           a == <<e>>
<1>1. Len(s) \in Nat /\ s \in Seq(E) /\ e \in E
  BY DEF Entries
<1> HIDE DEF E
<1>2. a \in Seq(E) /\ Len(a) = 1 /\ a[1] = e
  BY <1>1
<1>3. u \in Seq(E) /\ Len(u) = Len(s) + 1 /\ u[1] = e /\ \A i \in 1..Len(s) : u[i + 1] = s[i]
  BY <1>1 DEF InFront
<1> HIDE DEF a
<1>4. Joined(u, a, s)
  BY <1>1, <1>2, <1>3 DEF Joined
<1>5. a \in Entries /\ u \in Entries
  BY <1>2, <1>3 DEF Entries, E
<1>6. Cached!Total(u) = Cached!Total(a) + Cached!Total(s) /\ Cached!Total(a) = e.bytes
  BY <1>2, <1>4, <1>5, TotalOfTwo, TotalOfFew
<1>7. QED
  BY <1>3, <1>5, <1>6

(* And one put behind them.                                                 *)
LEMMA TotalBehind ==
  ASSUME NEW e \in Cached!Entry, NEW s \in Entries
  PROVE  /\ Append(s, e) \in Entries /\ Len(Append(s, e)) = Len(s) + 1
         /\ Append(s, e)[Len(s) + 1] = e /\ \A i \in 1..Len(s) : Append(s, e)[i] = s[i]
         /\ Cached!Total(Append(s, e)) = Cached!Total(s) + e.bytes
<1> DEFINE E == Cached!Entry
           b == <<e>>
           u == Append(s, e)
<1>1. Len(s) \in Nat /\ s \in Seq(E) /\ e \in E
  BY DEF Entries
<1> HIDE DEF E
<1>2. b \in Seq(E) /\ Len(b) = 1 /\ b[1] = e
  BY <1>1
<1>3. u \in Seq(E) /\ Len(u) = Len(s) + 1 /\ u[Len(s) + 1] = e /\ \A i \in 1..Len(s) : u[i] = s[i]
  BY <1>1
<1> HIDE DEF b, u
<1>4. Joined(u, s, b)
  BY <1>1, <1>2, <1>3 DEF Joined
<1>5. b \in Entries /\ u \in Entries
  BY <1>2, <1>3 DEF Entries, E
<1>6. Cached!Total(u) = Cached!Total(s) + Cached!Total(b) /\ Cached!Total(b) = e.bytes
  BY <1>2, <1>4, <1>5, TotalOfTwo, TotalOfFew
<1>7. QED
  BY <1>3, <1>5, <1>6 DEF u

(* One entry a key.                                                         *)
OneEach(s) == \A i, j \in DOMAIN s : s[i].key = s[j].key => i = j

(* What is kept of the first n entries.                                     *)
KeptOf(o, s, good, n) ==
  /\ o \in Entries /\ Len(o) <= n /\ Cached!Total(o) <= Sums(s)[n]
  /\ \A i \in 1..Len(o) : o[i] \in good /\ \E j \in 1..n : o[i] = s[j]
  /\ OneEach(s) => OneEach(o)
  /\ \A j \in 1..n : s[j] \notin good => Len(o) + 1 <= n /\ Cached!Total(o) + s[j].bytes <= Sums(s)[n]

LEMMA KeptOneMore ==
  ASSUME NEW s \in Entries, NEW good, NEW n \in 1..Len(s), NEW o, KeptOf(o, s, good, n - 1)
  PROVE  /\ s[n] \in good => KeptOf(Append(o, s[n]), s, good, n)
         /\ s[n] \notin good => KeptOf(o, s, good, n)
<1> DEFINE e == s[n]
           S == Sums(s)
<1>1. Len(s) \in Nat /\ n \in Nat /\ n - 1 \in Nat /\ n - 1 \in 0..Len(s) /\ n \in DOMAIN s
  BY DEF Entries
<1>2. e \in Cached!Entry /\ e.bytes \in Nat
  BY <1>1, EntryBytes
<1>3. S[n] \in Nat /\ S[n - 1] \in Nat /\ S[n] = S[n - 1] + e.bytes
  <2>1. n \in 0..Len(s)
    BY <1>1
  <2>2. QED
    BY <1>1, <2>1, SumsSolves
<1>4. o \in Entries /\ Len(o) \in Nat /\ Len(o) <= n - 1 /\ Cached!Total(o) <= S[n - 1] /\ Cached!Total(o) \in Nat
  BY TotalOfFew DEF KeptOf, Entries
<1>5. \A i \in 1..Len(o) : o[i] \in good /\ \E j \in 1..(n - 1) : o[i] = s[j]
  BY DEF KeptOf
<1>6. OneEach(s) => OneEach(o)
  BY DEF KeptOf
<1>7. ASSUME NEW j \in 1..(n - 1), s[j] \notin good
      PROVE  Len(o) + 1 <= n - 1 /\ Cached!Total(o) + s[j].bytes <= S[n - 1]
  BY <1>7 DEF KeptOf
<1>8. \A j \in 1..(n - 1) : j \in 1..n /\ j \in DOMAIN s /\ s[j].bytes \in Nat
  <2>1. \A j \in 1..(n - 1) : j \in 1..n /\ j \in DOMAIN s
    BY <1>1 DEF Entries
  <2>2. QED
    BY <2>1, EntryBytes
<1>9. \A j \in 1..n : j = n \/ j \in 1..(n - 1)
  BY <1>1
<1> HIDE DEF S
<1>10. CASE e \in good
  <2> DEFINE u == Append(o, e)
  <2>1. /\ u \in Entries /\ Len(u) = Len(o) + 1
        /\ u[Len(o) + 1] = e /\ \A i \in 1..Len(o) : u[i] = o[i]
        /\ Cached!Total(u) = Cached!Total(o) + e.bytes
    BY <1>2, <1>4, TotalBehind
  <2> HIDE DEF u, e
  <2>2. \A i \in 1..Len(u) : i = Len(o) + 1 \/ i \in 1..Len(o)
    BY <1>4, <2>1
  <2>3. Len(u) <= n /\ Cached!Total(u) <= S[n]
    BY <1>1, <1>2, <1>3, <1>4, <2>1
  <2>4. ASSUME NEW i \in 1..Len(u)
        PROVE  u[i] \in good /\ \E j \in 1..n : u[i] = s[j]
    <3>1. CASE i = Len(o) + 1
      <4>1. n \in 1..n /\ u[i] = s[n]
        BY <1>1, <2>1, <3>1 DEF e
      <4>2. QED
        BY <1>10, <2>1, <3>1, <4>1
    <3>2. CASE i \in 1..Len(o)
      BY <1>5, <1>8, <2>1, <3>2
    <3>3. QED
      BY <2>2, <3>1, <3>2
  <2>5. ASSUME OneEach(s)
        PROVE  OneEach(u)
    <3>1. DOMAIN u = 1..Len(u) /\ DOMAIN o = 1..Len(o)
      BY <1>4, <2>1 DEF Entries
    <3>2. SUFFICES ASSUME NEW i \in 1..Len(u), NEW k \in 1..Len(u), u[i].key = u[k].key
                   PROVE  i = k
      BY <3>1 DEF OneEach
    <3>3. \A l \in 1..Len(o) : u[l].key # e.key
      <4>1. SUFFICES ASSUME NEW l \in 1..Len(o) PROVE u[l].key # s[n].key
        BY DEF e
      <4>2. PICK j \in 1..(n - 1) : o[l] = s[j]
        BY <1>5
      <4>3. j # n /\ s[j].key # s[n].key
        BY <1>1, <1>8, <2>5 DEF OneEach
      <4>4. QED
        BY <2>1, <4>2, <4>3
    <3>4. CASE i \in 1..Len(o) /\ k \in 1..Len(o)
      <4>1. o[i].key = o[k].key
        BY <2>1, <3>2, <3>4
      <4>2. QED
        BY <1>6, <2>5, <3>1, <3>4, <4>1 DEF OneEach
    <3>5. QED
      BY <2>1, <2>2, <3>2, <3>3, <3>4
  <2>6. ASSUME NEW j \in 1..n, s[j] \notin good
        PROVE  Len(u) + 1 <= n /\ Cached!Total(u) + s[j].bytes <= S[n]
    <3>1. j \in 1..(n - 1)
      BY <1>9, <1>10, <2>6 DEF e
    <3>2. Len(o) + 1 <= n - 1 /\ Cached!Total(o) + s[j].bytes <= S[n - 1] /\ s[j].bytes \in Nat
      BY <1>7, <1>8, <2>6, <3>1
    <3>3. Len(u) + 1 <= n
      BY <1>1, <1>4, <2>1, <3>2
    <3>4. Cached!Total(u) + s[j].bytes <= S[n]
      <4>1. \A a, b, c, d \in Nat : a + b <= d => (a + c) + b <= d + c
        OBVIOUS
      <4>2. (Cached!Total(o) + e.bytes) + s[j].bytes <= S[n - 1] + e.bytes
        BY <1>2, <1>3, <1>4, <3>2, <4>1
      <4>3. QED
        BY <1>3, <2>1, <4>2
    <3>5. QED
      BY <3>3, <3>4
  <2>7. KeptOf(u, s, good, n)
    BY <2>1, <2>3, <2>4, <2>5, <2>6 DEF KeptOf, S
  <2>8. QED
    BY <1>10, <2>7 DEF u, e
<1>11. CASE e \notin good
  <2>1. Len(o) <= n /\ Cached!Total(o) <= S[n]
    BY <1>1, <1>2, <1>3, <1>4
  <2>2. \A i \in 1..Len(o) : o[i] \in good /\ \E j \in 1..n : o[i] = s[j]
    BY <1>5, <1>8
  <2>3. ASSUME NEW j \in 1..n, s[j] \notin good
        PROVE  Len(o) + 1 <= n /\ Cached!Total(o) + s[j].bytes <= S[n]
    <3>1. CASE j = n
      BY <1>1, <1>2, <1>3, <1>4, <3>1
    <3>2. CASE j \in 1..(n - 1)
      <4>1. Len(o) + 1 <= n - 1 /\ Cached!Total(o) + s[j].bytes <= S[n - 1] /\ s[j].bytes \in Nat
        BY <1>7, <1>8, <2>3, <3>2
      <4>2. Len(o) + 1 <= n
        BY <1>1, <1>4, <4>1
      <4>3. Cached!Total(o) + s[j].bytes <= S[n]
        <5>1. \A a, b, c, d \in Nat : a + b <= d => a + b <= d + c
          OBVIOUS
        <5>2. QED
          BY <1>2, <1>3, <1>4, <4>1, <5>1
      <4>4. QED
        BY <4>2, <4>3
    <3>3. QED
      BY <1>9, <3>1, <3>2
  <2>4. KeptOf(o, s, good, n)
    BY <1>4, <1>6, <2>1, <2>2, <2>3 DEF KeptOf, S
  <2>5. QED
    BY <1>11, <2>4
<1>12. QED
  BY <1>10, <1>11

(* What Only keeps of all of them.                                          *)
LEMMA OnlyKeeps ==
  ASSUME NEW s \in Entries, NEW good
  PROVE  /\ KeptOf(Cached!Only(s, good), s, good, Len(s))
         /\ Sums(s)[Len(s)] = Cached!Total(s)
<1> DEFINE K == Kept(s, good)
           N == Len(s)
           T == {n \in Nat : KeptOf(K[n], s, good, n)}
<1>1. N \in Nat
  BY DEF Entries
<1>2. /\ K[0] = <<>> /\ Sums(s)[0] = 0
      /\ \A n \in 1..N : K[n] = IF s[n] \in good THEN Append(K[n - 1], s[n]) ELSE K[n - 1]
  BY KeptSolves, SumsSolves
<1> HIDE DEF K, N
<1>3. 0 \in T
  <2>0. <<>> \in Entries /\ Len(<<>>) = 0
    BY DEF Entries
  <2>1. <<>> \in Entries /\ Cached!Total(<<>>) = 0 /\ Len(<<>>) = 0
    BY <2>0, TotalOfFew
  <2>2. OneEach(<<>>)
    BY DEF OneEach
  <2>3. KeptOf(<<>>, s, good, 0)
    BY <1>2, <2>1, <2>2 DEF KeptOf
  <2>4. QED
    BY <1>2, <2>3
<1>4. ASSUME NEW n \in 1..N, n - 1 \in T
      PROVE  n \in T
  <2>1. KeptOf(K[n - 1], s, good, n - 1)
    BY <1>4
  <2>2. KeptOf(K[n], s, good, n)
    <3>1. /\ s[n] \in good => KeptOf(Append(K[n - 1], s[n]), s, good, n)
          /\ s[n] \notin good => KeptOf(K[n - 1], s, good, n)
      BY <2>1, KeptOneMore DEF N
    <3>2. QED
      BY <1>2, <3>1
  <2>3. QED
    BY <1>1, <2>2
<1> HIDE DEF T
<1>5. \A n \in 0..N : n \in T
  BY ONLY <1>1, <1>3, <1>4, Induction
<1>6. KeptOf(K[N], s, good, N)
  BY <1>1, <1>5 DEF T
<1>7. QED
  BY <1>6, LastValues DEF K, N

(***************************************************************************)
(* The cache.                                                              *)
(***************************************************************************)

CacheInv == Cached!CacheTypeOK /\ Cached!CacheAccounts

(* The parts of the invariant a step starts from.                           *)
LEMMA CacheBefore ==
  ASSUME CacheInv
  PROVE  /\ lru \in Entries /\ bytes \in Nat /\ Len(lru) \in Nat /\ DOMAIN lru = 1..Len(lru)
         /\ bytes = Cached!Total(lru) /\ Len(lru) <= MaxItems /\ OneEach(lru)
         /\ MaxBytes \in Nat /\ MaxItems \in Nat /\ MaxItems > 0
         /\ MaxBytes > 0 /\ bytes > MaxBytes => Len(lru) = 1
         /\ \A i \in DOMAIN lru : lru[i].value = latest[lru[i].key]
<1>1. Cached!CacheTypeOK /\ Cached!CacheAccounts
  BY DEF CacheInv
<1>2. lru \in Entries /\ bytes \in Nat /\ Len(lru) \in Nat /\ DOMAIN lru = 1..Len(lru)
  BY <1>1 DEF Cached!CacheTypeOK, Entries
<1>3. MaxBytes \in Nat /\ MaxItems \in Nat /\ MaxItems > 0
  BY CachedAssumption DEF Cached!CacheAssumption
<1>4. bytes = Cached!Total(lru) /\ Len(lru) <= MaxItems /\ OneEach(lru)
  BY <1>1 DEF Cached!CacheAccounts, OneEach
<1>5. MaxBytes > 0 /\ bytes > MaxBytes => Len(lru) = 1
  BY <1>1 DEF Cached!CacheAccounts
<1>6. \A i \in DOMAIN lru : lru[i].value = latest[lru[i].key]
  BY <1>1 DEF Cached!CacheAccounts
<1>7. QED
  BY <1>2, <1>3, <1>4, <1>5, <1>6

(* The account after a step, from its parts.                                *)
LEMMA AccountsAfter ==
  ASSUME /\ bytes' = Cached!Total(lru') /\ Len(lru') <= MaxItems /\ OneEach(lru')
         /\ MaxBytes > 0 /\ bytes' > MaxBytes => Len(lru') = 1,
         \A i \in DOMAIN lru' : lru'[i].value = latest'[lru'[i].key]
  PROVE  Cached!CacheAccounts'
BY DEF Cached!CacheAccounts, OneEach

(* What stays without the entries of a key.                                 *)
LEMMA WithoutOne ==
  ASSUME CacheInv, NEW k,
         NEW w, w = Cached!Without(lru, k)
  PROVE  /\ w \in Entries /\ Len(w) <= Len(lru) /\ Cached!Total(w) <= Cached!Total(lru) /\ OneEach(w)
         /\ \A i \in DOMAIN w : w[i].key # k /\ \E j \in DOMAIN lru : w[i] = lru[j]
         /\ \A j \in DOMAIN lru : lru[j].key = k =>
              Len(w) + 1 <= Len(lru) /\ Cached!Total(w) + lru[j].bytes <= Cached!Total(lru)
<1> DEFINE good == {e \in Cached!ToSet(lru) : e.key # k}
<1>1. w = Cached!Only(lru, good)
  BY DEF Cached!Without
<1>2. \A e \in good : e.key # k
  OBVIOUS
<1>3. \A j \in DOMAIN lru : lru[j].key = k => lru[j] \notin good
  OBVIOUS
<1> HIDE DEF good
<1>4. lru \in Entries /\ OneEach(lru) /\ DOMAIN lru = 1..Len(lru)
  BY CacheBefore
<1>5. KeptOf(w, lru, good, Len(lru)) /\ Sums(lru)[Len(lru)] = Cached!Total(lru)
  BY <1>1, <1>4, OnlyKeeps
<1>6. w \in Entries /\ Len(w) <= Len(lru) /\ Cached!Total(w) <= Cached!Total(lru) /\ OneEach(w)
  BY <1>4, <1>5 DEF KeptOf
<1>7. DOMAIN w = 1..Len(w)
  BY <1>6 DEF Entries
<1>8. \A i \in DOMAIN w : w[i].key # k /\ \E j \in DOMAIN lru : w[i] = lru[j]
  BY <1>2, <1>4, <1>5, <1>7 DEF KeptOf
<1>9. ASSUME NEW j \in DOMAIN lru, lru[j].key = k
      PROVE  Len(w) + 1 <= Len(lru) /\ Cached!Total(w) + lru[j].bytes <= Cached!Total(lru)
  BY <1>3, <1>4, <1>5, <1>9 DEF KeptOf
<1>10. QED
  BY <1>6, <1>8, <1>9

(* Keep, with no more than there was.                                       *)
LEMMA KeepDoes ==
  ASSUME CacheInv, NEW o \in Entries, Cached!Keep(o),
         Len(o) <= Len(lru), Cached!Total(o) <= Cached!Total(lru), OneEach(o),
         \A i \in DOMAIN o : o[i].value = latest'[o[i].key]
  PROVE  lru' \in Seq(Cached!Entry) /\ bytes' \in Nat /\ evicted' \in Seq(Cached!Entry) /\ Cached!CacheAccounts'
<1>1. lru' = o /\ bytes' = bytes - (Cached!Total(lru) - Cached!Total(o)) /\ evicted' = <<>>
  BY DEF Cached!Keep
<1>2. Cached!Total(lru) \in Nat /\ Cached!Total(o) \in Nat /\ bytes = Cached!Total(lru)
  BY CacheBefore, TotalOfFew
<1>3. bytes' = Cached!Total(o) /\ bytes' \in Nat
  BY <1>1, <1>2
<1>4. Len(o) \in Nat
  BY DEF Entries
<1>5. Len(o) <= MaxItems
  BY <1>4, CacheBefore
<1>6. ASSUME MaxBytes > 0, bytes' > MaxBytes
      PROVE  Len(o) = 1
  <2>1. bytes > MaxBytes
    BY <1>2, <1>3, <1>6, CacheBefore
  <2>2. Len(lru) = 1
    BY <1>6, <2>1, CacheBefore
  <2>3. Len(o) # 0
    <3>1. SUFFICES ASSUME Len(o) = 0 PROVE FALSE
      OBVIOUS
    <3>2. o = <<>>
      BY <3>1 DEF Entries
    <3>3. Cached!Total(o) = 0
      BY <3>2, TotalOfFew
    <3>4. QED
      BY <1>3, <1>6, <3>3, CacheBefore
  <2>4. Len(o) <= 1
    BY <2>2
  <2>5. \A n \in Nat : n # 0 /\ n <= 1 => n = 1
    OBVIOUS
  <2>6. QED
    BY ONLY <1>4, <2>3, <2>4, <2>5
<1>7. Cached!CacheAccounts'
  BY <1>1, <1>3, <1>5, <1>6, AccountsAfter
<1>8. QED
  BY <1>1, <1>3, <1>7 DEF Entries

(* A Get of a key that is there moves its entry to the front.               *)
LEMMA ToFront ==
  ASSUME CacheInv, NEW k, Cached!Has(k),
         NEW o, InFront(o, Cached!At(k), Cached!Without(lru, k))
  PROVE  /\ o \in Entries /\ Len(o) <= Len(lru) /\ Cached!Total(o) <= Cached!Total(lru) /\ OneEach(o)
         /\ \A i \in DOMAIN o : \E j \in DOMAIN lru : o[i] = lru[j]
         /\ \E j \in DOMAIN lru : lru[j] = Cached!At(k) /\ lru[j].key = k
<1> DEFINE w == Cached!Without(lru, k)
           e == Cached!At(k)
<1>1. PICK j \in DOMAIN lru : lru[j] = e /\ lru[j].key = k
  BY DEF Cached!Has, Cached!At
<1>2. /\ w \in Entries /\ OneEach(w)
      /\ \A i \in DOMAIN w : w[i].key # k /\ \E l \in DOMAIN lru : w[i] = lru[l]
      /\ Len(w) + 1 <= Len(lru) /\ Cached!Total(w) + lru[j].bytes <= Cached!Total(lru)
  BY <1>1, WithoutOne
<1>3. e \in Cached!Entry /\ e.bytes \in Nat
  BY <1>1, CacheBefore, EntryBytes
<1> HIDE DEF w, e
<1>4. InFront(o, e, w)
  BY DEF e, w
<1>5. /\ o \in Entries /\ Len(o) = Len(w) + 1
      /\ o[1] = e /\ \A i \in 1..Len(w) : o[i + 1] = w[i]
      /\ Cached!Total(o) = e.bytes + Cached!Total(w)
  BY <1>2, <1>3, <1>4, TotalInFront
<1>6. Len(w) \in Nat /\ DOMAIN w = 1..Len(w) /\ DOMAIN o = 1..Len(o) /\ Cached!Total(w) \in Nat
  BY <1>2, <1>5, TotalOfFew DEF Entries
<1>7. Len(o) <= Len(lru) /\ Cached!Total(o) <= Cached!Total(lru)
  BY <1>1, <1>2, <1>3, <1>5, <1>6
<1>8. \A i \in 1..Len(o) : i = 1 \/ (i - 1 \in 1..Len(w) /\ o[i] = w[i - 1])
  <2>1. SUFFICES ASSUME NEW i \in 1..Len(o), i # 1 PROVE i - 1 \in 1..Len(w) /\ o[i] = w[i - 1]
    OBVIOUS
  <2>2. i - 1 \in 1..Len(w) /\ (i - 1) + 1 = i
    BY <1>5, <1>6, <2>1
  <2>3. QED
    BY <1>5, <2>2
<1>9. ASSUME NEW i \in DOMAIN o
      PROVE  \E l \in DOMAIN lru : o[i] = lru[l]
  <2>1. CASE i = 1
    BY <1>1, <1>5, <2>1
  <2>2. CASE i - 1 \in DOMAIN w /\ o[i] = w[i - 1]
    BY <1>2, <2>2
  <2>3. QED
    BY <1>6, <1>8, <2>1, <2>2
<1>10. OneEach(o)
  <2>1. SUFFICES ASSUME NEW i \in 1..Len(o), NEW l \in 1..Len(o), o[i].key = o[l].key
                 PROVE  i = l
    BY <1>6 DEF OneEach
  <2>2. CASE i = 1 \/ l = 1
    <3>1. \A m \in 1..Len(o) : m # 1 => o[m].key # k
      BY <1>2, <1>6, <1>8, SMTT(30)
    <3>2. o[1].key = k
      BY <1>1, <1>5
    <3>3. QED
      BY <2>1, <2>2, <3>1, <3>2
  <2>3. CASE i # 1 /\ l # 1
    <3>1. i - 1 \in DOMAIN w /\ l - 1 \in DOMAIN w /\ w[i - 1].key = w[l - 1].key
      BY <1>6, <1>8, <2>1, <2>3
    <3>2. i - 1 = l - 1
      BY <1>2, <3>1 DEF OneEach
    <3>3. QED
      BY <3>2
  <2>4. QED
    BY <2>2, <2>3
<1>11. \E l \in DOMAIN lru : lru[l] = Cached!At(k) /\ lru[l].key = k
  BY <1>1, Zenon DEF e
<1>12. QED
  BY ONLY <1>5, <1>7, <1>9, <1>10, <1>11

LEMMA CacheInitially == Cached!CacheInit => CacheInv
<1> SUFFICES ASSUME Cached!CacheInit PROVE CacheInv
  OBVIOUS
<1>1. lru = <<>> /\ bytes = 0 /\ clock = 0 /\ puts = 0 /\ latest = [k \in Keys |-> 0] /\ answer = 0 /\ evicted = <<>>
  BY DEF Cached!CacheInit, Cached!Miss
<1>2. MaxClock \in Nat /\ MaxPuts \in Nat /\ MaxItems \in Nat \ {0} /\ MaxBytes \in Nat
  BY CachedAssumption DEF Cached!CacheAssumption
<1>3. Cached!CacheTypeOK
  BY <1>1, <1>2 DEF Cached!CacheTypeOK
<1>4. Cached!CacheAccounts
  <2>1. lru \in Entries
    BY <1>1 DEF Entries
  <2>2. Cached!Total(lru) = 0
    BY <1>1, <2>1, TotalOfFew
  <2>3. Len(lru) = 0 /\ DOMAIN lru = {}
    BY <1>1
  <2>4. QED
    BY <1>1, <1>2, <2>2, <2>3 DEF Cached!CacheAccounts
<1>5. QED
  BY <1>3, <1>4 DEF CacheInv

LEMMA GetKeeps ==
  ASSUME CacheInv, NEW k \in Keys, Cached!Get(k)
  PROVE  CacheInv'
<1>1. UNCHANGED <<clock, puts, latest>>
  BY DEF Cached!Get
<1>2. ASSUME NEW o \in Entries, Cached!Keep(o), answer' \in 0..MaxPuts,
             Len(o) <= Len(lru), Cached!Total(o) <= Cached!Total(lru), OneEach(o),
             \A i \in DOMAIN o : \E j \in DOMAIN lru : o[i] = lru[j]
      PROVE  CacheInv'
  <2>1. \A i \in DOMAIN o : o[i].value = latest'[o[i].key]
    BY <1>1, <1>2, CacheBefore
  <2>2. lru' \in Seq(Cached!Entry) /\ bytes' \in Nat /\ evicted' \in Seq(Cached!Entry) /\ Cached!CacheAccounts'
    BY <1>2, <2>1, KeepDoes
  <2>3. Cached!CacheTypeOK
    BY DEF CacheInv
  <2>4. Cached!CacheTypeOK'
    BY <1>1, <1>2, <2>2, <2>3 DEF Cached!CacheTypeOK
  <2>5. QED
    BY <2>2, <2>4 DEF CacheInv
<1>3. 0 \in 0..MaxPuts
  BY CachedAssumption DEF Cached!CacheAssumption
<1>4. CASE ~Cached!Has(k)
  <2>1. answer' = 0 /\ Cached!Keep(lru)
    BY <1>4 DEF Cached!Get, Cached!Miss
  <2>2. /\ lru \in Entries /\ Len(lru) <= Len(lru) /\ Cached!Total(lru) <= Cached!Total(lru) /\ OneEach(lru)
        /\ \A i \in DOMAIN lru : \E j \in DOMAIN lru : lru[i] = lru[j]
    BY CacheBefore, TotalOfFew
  <2>3. QED
    BY <1>2, <1>3, <2>1, <2>2
<1>5. CASE Cached!Has(k) /\ Cached!Expired(Cached!At(k))
  <2>1. answer' = 0 /\ Cached!Keep(Cached!Without(lru, k))
    BY <1>5 DEF Cached!Get, Cached!Miss
  <2>2. PICK o : o = Cached!Without(lru, k)
    OBVIOUS
  <2>3. /\ o \in Entries /\ Len(o) <= Len(lru) /\ Cached!Total(o) <= Cached!Total(lru) /\ OneEach(o)
        /\ \A i \in DOMAIN o : \E j \in DOMAIN lru : o[i] = lru[j]
    BY <2>2, WithoutOne
  <2>4. QED
    BY <1>2, <1>3, <2>1, <2>2, <2>3
<1>6. CASE Cached!Has(k) /\ ~Cached!Expired(Cached!At(k))
  <2>1. answer' = Cached!At(k).value /\ Cached!Keep(<<Cached!At(k)>> \o Cached!Without(lru, k))
    BY <1>6 DEF Cached!Get
  <2>2. PICK o : o = <<Cached!At(k)>> \o Cached!Without(lru, k)
    OBVIOUS
  <2>3. /\ o \in Entries /\ Len(o) <= Len(lru) /\ Cached!Total(o) <= Cached!Total(lru) /\ OneEach(o)
        /\ \A i \in DOMAIN o : \E j \in DOMAIN lru : o[i] = lru[j]
        /\ \E j \in DOMAIN lru : lru[j] = Cached!At(k) /\ lru[j].key = k
    <3>1. InFront(o, Cached!At(k), Cached!Without(lru, k))
      BY <2>2 DEF InFront
    <3>2. QED
      BY ONLY CacheInv, <1>6, <3>1, ToFront
  <2>4. Cached!At(k) \in Cached!Entry
    BY <2>3, CacheBefore, EntryBytes
  <2>5. answer' \in 0..MaxPuts
    <3>1. Cached!At(k).value \in 1..MaxPuts
      BY <2>4 DEF Cached!Entry
    <3>2. QED
      BY <2>1, <3>1, CachedAssumption DEF Cached!CacheAssumption
  <2>6. QED
    BY <1>2, <2>1, <2>2, <2>3, <2>5
<1>7. QED
  BY <1>4, <1>5, <1>6

LEMMA DeleteKeeps ==
  ASSUME CacheInv, NEW k \in Keys, Cached!Delete(k)
  PROVE  CacheInv'
<1>1. /\ Cached!Keep(Cached!Without(lru, k)) /\ UNCHANGED <<clock, puts, answer>>
      /\ latest' = [latest EXCEPT ![k] = 0]
  BY DEF Cached!Delete
<1>2. PICK o : o = Cached!Without(lru, k)
  OBVIOUS
<1>3. /\ o \in Entries /\ Len(o) <= Len(lru) /\ Cached!Total(o) <= Cached!Total(lru) /\ OneEach(o)
      /\ \A i \in DOMAIN o : o[i].key # k /\ \E j \in DOMAIN lru : o[i] = lru[j]
  BY <1>2, WithoutOne
<1>4. Cached!CacheTypeOK
  BY DEF CacheInv
<1>5. latest' \in [Keys -> 0..MaxPuts] /\ \A l \in Keys : l # k => latest'[l] = latest[l]
  <2>1. latest \in [Keys -> 0..MaxPuts] /\ 0 \in 0..MaxPuts
    BY <1>4, CachedAssumption DEF Cached!CacheTypeOK, Cached!CacheAssumption
  <2>2. QED
    BY <1>1, <2>1
<1>6. ASSUME NEW i \in DOMAIN o
      PROVE  o[i].value = latest'[o[i].key]
  <2>1. o[i].key \in Keys /\ o[i].key # k
    BY <1>3, EntryBytes DEF Cached!Entry
  <2>2. o[i].value = latest[o[i].key]
    BY <1>3, CacheBefore
  <2>3. QED
    BY <1>5, <2>1, <2>2
<1>7. lru' \in Seq(Cached!Entry) /\ bytes' \in Nat /\ evicted' \in Seq(Cached!Entry) /\ Cached!CacheAccounts'
  BY <1>1, <1>2, <1>3, <1>6, KeepDoes
<1>8. Cached!CacheTypeOK'
  BY <1>1, <1>4, <1>5, <1>7 DEF Cached!CacheTypeOK
<1>9. QED
  BY <1>7, <1>8 DEF CacheInv

LEMMA SweepKeeps ==
  ASSUME CacheInv, Cached!sweepExpired
  PROVE  CacheInv'
<1> DEFINE good == {e \in Cached!ToSet(lru) : ~Cached!Expired(e)}
<1>1. Cached!Keep(Cached!Only(lru, good)) /\ UNCHANGED <<clock, puts, latest, answer>>
  BY DEF Cached!sweepExpired
<1> HIDE DEF good
<1>2. PICK o : o = Cached!Only(lru, good)
  OBVIOUS
<1>3. lru \in Entries /\ OneEach(lru) /\ DOMAIN lru = 1..Len(lru)
  BY CacheBefore
<1>4. KeptOf(o, lru, good, Len(lru)) /\ Sums(lru)[Len(lru)] = Cached!Total(lru)
  BY <1>2, <1>3, OnlyKeeps
<1>5. o \in Entries /\ Len(o) <= Len(lru) /\ Cached!Total(o) <= Cached!Total(lru) /\ OneEach(o)
  BY <1>3, <1>4 DEF KeptOf
<1>6. DOMAIN o = 1..Len(o)
  BY <1>5 DEF Entries
<1>7. \A i \in DOMAIN o : \E j \in DOMAIN lru : o[i] = lru[j]
  BY <1>3, <1>4, <1>6 DEF KeptOf
<1>8. \A i \in DOMAIN o : o[i].value = latest'[o[i].key]
  BY <1>1, <1>7, CacheBefore
<1>9. lru' \in Seq(Cached!Entry) /\ bytes' \in Nat /\ evicted' \in Seq(Cached!Entry) /\ Cached!CacheAccounts'
  BY <1>1, <1>2, <1>5, <1>8, KeepDoes
<1>10. Cached!CacheTypeOK
  BY DEF CacheInv
<1>11. Cached!CacheTypeOK'
  BY <1>1, <1>9, <1>10 DEF Cached!CacheTypeOK
<1>12. QED
  BY <1>9, <1>11 DEF CacheInv

(* How many of the others fit beside a new entry: one more would not.       *)
Crowded(o, n, size) ==
  \/ n + 1 >= MaxItems
  \/ MaxBytes > 0 /\ Cached!Total(SubSeq(o, 1, n + 1)) + size > MaxBytes
  \/ MaxBytes > 0 /\ size > MaxBytes

LEMMA FitsMost ==
  ASSUME NEW o \in Entries, NEW size \in Nat, NEW n, n = Cached!Fits(o, size)
  PROVE  /\ n \in 0..Len(o) /\ n < MaxItems
         /\ n > 0 /\ MaxBytes > 0 => Cached!Total(SubSeq(o, 1, n)) + size <= MaxBytes
         /\ n < Len(o) => Crowded(o, n, size)
<1> DEFINE fits(m) == MaxBytes = 0 \/ Cached!Total(SubSeq(o, 1, m)) + size <= MaxBytes
           count == {m \in 0..Len(o) : m < MaxItems}
           room == {m \in count : fits(m)}
<1>1. Len(o) \in Nat /\ MaxItems \in Nat /\ MaxItems > 0 /\ MaxBytes \in Nat
  BY CachedAssumption DEF Entries, Cached!CacheAssumption
<1>2. \A m \in 0..Len(o) : Cached!Total(SubSeq(o, 1, m)) \in Nat
  BY TotalOfParts, TotalOfFew
<1>3. n = IF room = {} THEN 0 ELSE Cached!Max(room)
  BY DEF Cached!Fits
<1>4. \A m \in 0..Len(o) : ~fits(m) => MaxBytes > 0 /\ Cached!Total(SubSeq(o, 1, m)) + size > MaxBytes
  BY <1>1, <1>2
<1>5. \A m \in 0..Len(o) : fits(m) /\ MaxBytes > 0 => Cached!Total(SubSeq(o, 1, m)) + size <= MaxBytes
  BY <1>1
<1> HIDE DEF fits
<1>6. 0 \in count
  BY <1>1
<1>7. CASE room = {}
  <2>1. n = 0 /\ ~fits(0)
    BY <1>3, <1>6, <1>7
  <2>2. Cached!Total(SubSeq(o, 1, 0)) = 0
    <3>1. 0 \in 0..Len(o)
      BY <1>1
    <3>2. SubSeq(o, 1, 0) \in Entries /\ Len(SubSeq(o, 1, 0)) = 0
      BY <3>1, TotalOfParts
    <3>3. SubSeq(o, 1, 0) = <<>>
      OBVIOUS
    <3>4. QED
      BY <3>2, <3>3, TotalOfFew
  <2>3. MaxBytes > 0 /\ size > MaxBytes
    BY <1>1, <1>4, <2>1, <2>2
  <2>4. QED
    BY <1>1, <2>1, <2>3 DEF Crowded
<1>8. CASE room # {}
  <2>1. \E m \in room : \A l \in room : m >= l
    <3>1. room \subseteq 0..Len(o)
      OBVIOUS
    <3> HIDE DEF room
    <3>2. QED
      BY <1>1, <1>8, <3>1, LargestNumber
  <2>2. n \in room /\ \A l \in room : n >= l
    BY <1>3, <1>8, <2>1 DEF Cached!Max
  <2>3. ASSUME n < Len(o), n + 1 < MaxItems
        PROVE  MaxBytes > 0 /\ Cached!Total(SubSeq(o, 1, n + 1)) + size > MaxBytes
    <3>1. n + 1 \in count /\ n + 1 \in 0..Len(o) /\ ~(n >= n + 1)
      BY <1>1, <2>2, <2>3
    <3>2. ~fits(n + 1)
      BY <2>2, <3>1
    <3>3. QED
      BY <1>4, <3>1, <3>2
  <2>4. n < Len(o) => Crowded(o, n, size)
    BY <1>1, <2>2, <2>3 DEF Crowded
  <2>5. n \in 0..Len(o) /\ n < MaxItems
    BY <2>2
  <2>6. MaxBytes > 0 => Cached!Total(SubSeq(o, 1, n)) + size <= MaxBytes
    BY <1>5, <2>2, <2>5
  <2>7. QED
    BY <2>4, <2>5, <2>6
<1>9. QED
  BY <1>7, <1>8

(* What a Put of something does.                                            *)
LEMMA PutDoes ==
  ASSUME CacheInv, NEW k \in Keys, NEW size \in Sizes, size # 0, Cached!Put(k, size)
  PROVE  /\ lru' \in Entries /\ evicted' \in Entries /\ bytes' \in Nat /\ Len(lru') >= 1
         /\ Cached!CacheAccounts'
         /\ evicted' # <<>> =>
              \/ Len(lru') + 1 > MaxItems
              \/ MaxBytes > 0 /\ Cached!Total(lru') + evicted'[1].bytes > MaxBytes
<1> DEFINE w == Cached!Without(lru, k)
           n == Cached!Fits(w, size)
           e == [key |-> k, value |-> puts + 1, bytes |-> size, cachedAt |-> clock]
           front == SubSeq(w, 1, n)
           rest == SubSeq(w, n + 1, Len(w))
<1>1. /\ puts < MaxPuts /\ lru' = <<e>> \o front /\ evicted' = rest
      /\ bytes' = bytes - (Cached!Total(lru) - Cached!Total(w)) - Cached!Total(rest) + size
      /\ latest' = [latest EXCEPT ![k] = puts + 1]
  BY DEF Cached!Put
<1>2. Cached!CacheTypeOK
  BY DEF CacheInv
<1>3. size \in Nat /\ size > 0
  BY CachedAssumption DEF Cached!CacheAssumption
<1>4. e \in Cached!Entry
  BY <1>1, <1>2, CachedAssumption DEF Cached!CacheTypeOK, Cached!Entry, Cached!CacheAssumption
<1>5. e.key = k /\ e.bytes = size /\ e.value = puts + 1
  OBVIOUS
<1>6. /\ w \in Entries /\ Cached!Total(w) <= Cached!Total(lru) /\ OneEach(w)
      /\ \A i \in DOMAIN w : w[i].key # k /\ \E j \in DOMAIN lru : w[i] = lru[j]
  BY WithoutOne
<1> HIDE DEF w, e
<1>7. /\ n \in 0..Len(w) /\ n < MaxItems
      /\ n > 0 /\ MaxBytes > 0 => Cached!Total(front) + size <= MaxBytes
      /\ n < Len(w) => Crowded(w, n, size)
  <2>1. PICK m : m = n
    OBVIOUS
  <2>2. /\ m \in 0..Len(w) /\ m < MaxItems
        /\ m > 0 /\ MaxBytes > 0 => Cached!Total(SubSeq(w, 1, m)) + size <= MaxBytes
        /\ m < Len(w) => Crowded(w, m, size)
    BY <1>3, <1>6, <2>1, FitsMost
  <2>3. QED
    BY <2>1, <2>2
<1> HIDE DEF n
<1>8. /\ front \in Entries /\ Len(front) = n /\ \A i \in 1..n : front[i] = w[i]
      /\ rest \in Entries /\ Len(rest) = Len(w) - n /\ \A i \in 1..(Len(w) - n) : rest[i] = w[n + i]
      /\ Cached!Total(w) = Cached!Total(front) + Cached!Total(rest)
  BY <1>6, <1>7, TotalOfParts
<1>9. Len(w) \in Nat /\ n \in Nat /\ DOMAIN w = 1..Len(w) /\ MaxItems \in Nat /\ MaxBytes \in Nat
  BY <1>6, <1>7, CacheBefore DEF Entries
<1> HIDE DEF front, rest
<1>10. InFront(lru', e, front)
  BY <1>1 DEF InFront
<1>11. /\ lru' \in Entries /\ Len(lru') = n + 1
       /\ lru'[1] = e /\ \A i \in 1..n : lru'[i + 1] = front[i]
       /\ Cached!Total(lru') = size + Cached!Total(front)
  BY ONLY <1>4, <1>5, <1>8, <1>10, TotalInFront
<1>12. bytes' = Cached!Total(lru') /\ bytes' \in Nat
  <2>1. /\ bytes = Cached!Total(lru) /\ Cached!Total(lru) \in Nat /\ Cached!Total(w) \in Nat
        /\ Cached!Total(front) \in Nat /\ Cached!Total(rest) \in Nat
    BY <1>6, <1>8, CacheBefore, TotalOfFew
  <2>2. \A a, b, c, d \in Nat : a - (a - (b + c)) - c + d = d + b
    OBVIOUS
  <2>3. bytes' = size + Cached!Total(front)
    BY <1>1, <1>3, <1>8, <2>1, <2>2, SMTT(30)
  <2>4. QED
    BY <1>3, <1>11, <2>1, <2>3
<1>13. \A i \in 1..(n + 1) : i = 1 \/ (i - 1 \in DOMAIN w /\ lru'[i] = w[i - 1])
  <2>1. SUFFICES ASSUME NEW i \in 1..(n + 1), i # 1 PROVE i - 1 \in DOMAIN w /\ lru'[i] = w[i - 1]
    OBVIOUS
  <2>2. i - 1 \in 1..n /\ i - 1 \in DOMAIN w /\ (i - 1) + 1 = i
    BY <1>7, <1>9, <2>1
  <2>3. QED
    BY <1>8, <1>11, <2>2
<1>14. OneEach(lru')
  <2>1. DOMAIN lru' = 1..(n + 1)
    BY <1>11 DEF Entries
  <2>2. SUFFICES ASSUME NEW i \in 1..(n + 1), NEW l \in 1..(n + 1), lru'[i].key = lru'[l].key
                 PROVE  i = l
    BY <2>1 DEF OneEach
  <2>3. CASE i = 1 \/ l = 1
    <3>1. \A m \in 1..(n + 1) : m # 1 => lru'[m].key # k
      BY <1>6, <1>13
    <3>2. lru'[1].key = k
      BY <1>5, <1>11
    <3>3. QED
      BY <2>2, <2>3, <3>1, <3>2
  <2>4. CASE i # 1 /\ l # 1
    <3>1. i - 1 \in DOMAIN w /\ l - 1 \in DOMAIN w /\ w[i - 1].key = w[l - 1].key
      BY <1>13, <2>2, <2>4
    <3>2. i - 1 = l - 1
      BY <1>6, <3>1 DEF OneEach
    <3>3. QED
      BY <1>9, <3>2
  <2>5. QED
    BY <2>3, <2>4
<1>15. ASSUME NEW i \in DOMAIN lru'
       PROVE  lru'[i].value = latest'[lru'[i].key]
  <2>1. i \in 1..(n + 1) /\ latest \in [Keys -> 0..MaxPuts]
    BY <1>2, <1>11 DEF Entries, Cached!CacheTypeOK
  <2>2. latest'[k] = puts + 1 /\ \A l \in Keys : l # k => latest'[l] = latest[l]
    BY <1>1, <2>1
  <2>3. CASE i = 1
    BY <1>5, <1>11, <2>2, <2>3
  <2>4. CASE i - 1 \in DOMAIN w /\ lru'[i] = w[i - 1]
    <3>1. w[i - 1].key # k /\ w[i - 1].key \in Keys
      BY <1>6, <2>4, EntryBytes DEF Cached!Entry
    <3>2. w[i - 1].value = latest[w[i - 1].key]
      BY <1>6, <2>4, CacheBefore
    <3>3. QED
      BY <2>2, <2>4, <3>1, <3>2
  <2>5. QED
    BY <1>13, <2>1, <2>3, <2>4
<1>16. MaxBytes > 0 /\ bytes' > MaxBytes => Len(lru') = 1
  <2>1. SUFFICES ASSUME MaxBytes > 0, n # 0 PROVE ~(bytes' > MaxBytes)
    BY <1>11
  <2>2. Cached!Total(front) + size <= MaxBytes
    BY <1>7, <1>9, <2>1
  <2>3. Cached!Total(front) \in Nat
    BY <1>8, TotalOfFew
  <2>4. bytes' = Cached!Total(front) + size
    BY <1>3, <1>11, <1>12, <2>3
  <2>5. QED
    BY <1>3, <1>9, <2>2, <2>3, <2>4
<1>17. Cached!CacheAccounts'
  <2>1. Len(lru') <= MaxItems
    BY <1>7, <1>9, <1>11
  <2>2. QED
    BY <1>12, <1>14, <1>15, <1>16, <2>1, AccountsAfter
<1>18. ASSUME evicted' # <<>>
       PROVE  \/ Len(lru') + 1 > MaxItems
              \/ MaxBytes > 0 /\ Cached!Total(lru') + evicted'[1].bytes > MaxBytes
  <2>1. n < Len(w)
    <3>1. n # Len(w)
      <4>1. SUFFICES ASSUME n = Len(w) PROVE FALSE
        OBVIOUS
      <4>2. Len(rest) = 0
        BY <1>8, <1>9, <4>1
      <4>3. QED
        BY <1>1, <1>8, <1>18, <4>2 DEF Entries
    <3>2. n \in 0..Len(w)
      BY <1>7
    <3>3. QED
      <4>1. \A a, b \in Nat : a \in 0..b /\ a # b => a < b
        OBVIOUS
      <4>2. QED
        BY ONLY <1>9, <3>1, <3>2, <4>1
  <2>2. Crowded(w, n, size)
    BY <1>7, <2>1
  <2>3. Cached!Total(front) \in Nat /\ rest[1].bytes \in Nat /\ rest[1] = w[n + 1]
    <3>1. 1 \in 1..(Len(w) - n) /\ 1 \in DOMAIN rest
      BY <1>8, <1>9, <2>1 DEF Entries
    <3>2. QED
      BY <1>8, <3>1, TotalOfFew, EntryBytes
  <2>4. CASE n + 1 >= MaxItems
    BY <1>9, <1>11, <2>4
  <2>5. CASE MaxBytes > 0 /\ Cached!Total(SubSeq(w, 1, n + 1)) + size > MaxBytes
    <3> DEFINE more == SubSeq(w, 1, n + 1)
    <3>1. n + 1 \in 0..Len(w) /\ n + 1 \in 1..(n + 1) /\ \A i \in 1..n : i \in 1..(n + 1)
      BY <1>9, <2>1
    <3>2. more \in Entries /\ Len(more) = n + 1 /\ \A i \in 1..(n + 1) : more[i] = w[i]
      BY <1>6, <3>1, TotalOfParts
    <3> HIDE DEF more
    <3> DEFINE last == SubSeq(rest, 1, 1)
    <3>3. last \in Entries /\ Len(last) = 1 /\ last[1] = rest[1]
      <4>1. 1 \in 0..Len(rest) /\ 1 \in 1..1
        BY <1>8, <1>9, <2>1
      <4>2. QED
        BY <1>8, <4>1, TotalOfParts
    <3> HIDE DEF last
    <3>4. Joined(more, front, last)
      <4>1. \A i \in 1..n : more[i] = front[i]
        BY <1>8, <3>1, <3>2
      <4>2. more[n + 1] = last[1]
        BY <2>3, <3>1, <3>2, <3>3
      <4>3. \A i \in 1..1 : i = 1
        OBVIOUS
      <4>4. QED
        BY <1>8, <3>2, <3>3, <4>1, <4>2, <4>3 DEF Joined
    <3>5. Cached!Total(more) = Cached!Total(front) + rest[1].bytes
      BY <1>8, <3>2, <3>3, <3>4, TotalOfTwo, TotalOfFew
    <3>6. Cached!Total(more) + size > MaxBytes
      BY <2>5 DEF more
    <3>7. Cached!Total(lru') + rest[1].bytes > MaxBytes
      BY <1>3, <1>9, <1>11, <2>3, <3>5, <3>6
    <3>8. QED
      BY <1>1, <2>5, <3>7
  <2>6. CASE MaxBytes > 0 /\ size > MaxBytes
    <3>1. Cached!Total(lru') + rest[1].bytes > MaxBytes
      BY <1>3, <1>9, <1>11, <2>3, <2>6
    <3>2. QED
      BY <1>1, <2>6, <3>1
  <2>7. QED
    BY <2>2, <2>4, <2>5, <2>6 DEF Crowded
<1>19. QED
  BY <1>1, <1>8, <1>9, <1>11, <1>12, <1>17, <1>18

LEMMA PutKeeps ==
  ASSUME CacheInv, NEW k \in Keys, NEW size \in Sizes, Cached!Put(k, size)
  PROVE  CacheInv'
<1>1. Cached!CacheTypeOK /\ Cached!CacheAccounts
  BY DEF CacheInv
<1>2. puts' \in 0..MaxPuts /\ UNCHANGED <<clock, answer>>
  BY <1>1, CachedAssumption DEF Cached!Put, Cached!CacheTypeOK, Cached!CacheAssumption
<1>3. CASE size = 0
  <2>1. UNCHANGED <<lru, bytes, latest>> /\ evicted' = <<>>
    BY <1>3 DEF Cached!Put
  <2>2. Cached!CacheTypeOK'
    BY <1>1, <1>2, <2>1 DEF Cached!CacheTypeOK
  <2>3. Cached!CacheAccounts'
    BY <1>1, <2>1 DEF Cached!CacheAccounts
  <2>4. QED
    BY <2>2, <2>3 DEF CacheInv
<1>4. CASE size # 0
  <2>1. lru' \in Entries /\ evicted' \in Entries /\ bytes' \in Nat /\ Cached!CacheAccounts'
    BY <1>4, PutDoes
  <2>2. latest' \in [Keys -> 0..MaxPuts]
    <3>1. latest' = [latest EXCEPT ![k] = puts + 1] /\ puts + 1 = puts'
      BY <1>4 DEF Cached!Put
    <3>2. latest \in [Keys -> 0..MaxPuts]
      BY <1>1 DEF Cached!CacheTypeOK
    <3>3. QED
      BY <1>2, <3>1, <3>2
  <2>3. Cached!CacheTypeOK'
    BY <1>1, <1>2, <2>1, <2>2 DEF Cached!CacheTypeOK, Entries
  <2>4. QED
    BY <2>1, <2>3 DEF CacheInv
<1>5. QED
  BY <1>3, <1>4

LEMMA CacheInvKept ==
  ASSUME CacheInv, Cached!CacheNext \/ UNCHANGED atCache
  PROVE  CacheInv'
<1>1. Cached!CacheTypeOK /\ Cached!CacheAccounts
  BY DEF CacheInv
<1>2. ASSUME Cached!CacheTick
      PROVE  CacheInv'
  <2>1. clock' \in 0..MaxClock
    BY <1>1, <1>2, CachedAssumption DEF Cached!CacheTick, Cached!CacheTypeOK, Cached!CacheAssumption
  <2>2. UNCHANGED <<lru, bytes, puts, latest, answer>> /\ evicted' = <<>>
    BY <1>2 DEF Cached!CacheTick
  <2>3. Cached!CacheTypeOK'
    BY <1>1, <2>1, <2>2 DEF Cached!CacheTypeOK
  <2>4. Cached!CacheAccounts'
    BY <1>1, <2>2 DEF Cached!CacheAccounts
  <2>5. QED
    BY <2>3, <2>4 DEF CacheInv
<1>3. ASSUME UNCHANGED atCache
      PROVE  CacheInv'
  <2>1. Cached!CacheTypeOK'
    BY <1>1, <1>3 DEF Cached!CacheTypeOK, atCache
  <2>2. Cached!CacheAccounts'
    BY <1>1, <1>3 DEF Cached!CacheAccounts, atCache
  <2>3. QED
    BY <2>1, <2>2 DEF CacheInv
<1>4. QED
  BY <1>2, <1>3, GetKeeps, PutKeeps, DeleteKeeps, SweepKeeps DEF Cached!CacheNext

(* What a Get answers, and what a step pushes out.                          *)
LEMMA Serves ==
  ASSUME CacheInv, Cached!CacheNext
  PROVE  /\ \A k \in Keys : Cached!Get(k) /\ answer' # Cached!Miss =>
              answer' = latest[k] /\ \E i \in DOMAIN lru : lru[i].value = answer' /\ ~Cached!Expired(lru[i])
         /\ evicted' # <<>> =>
              \/ Len(lru') + 1 > MaxItems
              \/ MaxBytes > 0 /\ Cached!Total(lru') + evicted'[1].bytes > MaxBytes
<1>1. ASSUME NEW k \in Keys, Cached!Get(k), answer' # Cached!Miss
      PROVE  answer' = latest[k] /\ \E i \in DOMAIN lru : lru[i].value = answer' /\ ~Cached!Expired(lru[i])
  <2>1. Cached!Has(k) /\ ~Cached!Expired(Cached!At(k)) /\ answer' = Cached!At(k).value
    BY <1>1 DEF Cached!Get
  <2>2. PICK j \in DOMAIN lru : lru[j] = Cached!At(k) /\ lru[j].key = k
    BY <2>1 DEF Cached!Has, Cached!At
  <2>3. lru[j].value = latest[k]
    BY <2>2, CacheBefore
  <2>4. QED
    BY <2>1, <2>2, <2>3
<1>2. ASSUME NEW k \in Keys, Cached!Get(k) \/ Cached!Delete(k)
      PROVE  evicted' = <<>>
  BY <1>2 DEF Cached!Get, Cached!Delete, Cached!Keep
<1>3. ASSUME Cached!sweepExpired \/ Cached!CacheTick
      PROVE  evicted' = <<>>
  BY <1>3 DEF Cached!sweepExpired, Cached!CacheTick, Cached!Keep
<1>4. ASSUME NEW k \in Keys, NEW size \in Sizes, Cached!Put(k, size), evicted' # <<>>
      PROVE  \/ Len(lru') + 1 > MaxItems
             \/ MaxBytes > 0 /\ Cached!Total(lru') + evicted'[1].bytes > MaxBytes
  <2>1. size # 0
    BY <1>4 DEF Cached!Put
  <2>2. QED
    BY <1>4, <2>1, PutDoes
<1>5. evicted' # <<>> =>
              \/ Len(lru') + 1 > MaxItems
              \/ MaxBytes > 0 /\ Cached!Total(lru') + evicted'[1].bytes > MaxBytes
  BY <1>2, <1>3, <1>4 DEF Cached!CacheNext
<1>6. QED
  BY <1>1, <1>5

(***************************************************************************)
(* All of them: each step is one part's, and leaves the others alone.      *)
(***************************************************************************)

AdmissionInv == QueueInv /\ LimitsInv /\ CacheInv

LEMMA AdmissionInitially == MCInit => AdmissionInv
BY QueueInitially, LimitsInitially, CacheInitially DEF MCInit, AdmissionInv

LEMMA AdmissionInvKept ==
  ASSUME AdmissionInv, MCNext \/ UNCHANGED <<part, queueVars, atCache, atLimits>>
  PROVE  AdmissionInv'
<1>1. QueueInv /\ LimitsInv /\ CacheInv
  BY DEF AdmissionInv
<1>2. QueueNext \/ UNCHANGED queueVars
  BY DEF MCNext
<1>3. Limits!ClientsNext \/ Limits!UpstreamNext \/ UNCHANGED Limits!limitVars
  BY DEF MCNext, atLimits, Limits!limitVars
<1>4. Cached!CacheNext \/ UNCHANGED atCache
  BY DEF MCNext
<1>5. QueueInv'
  BY <1>1, <1>2, QueueInvKept
<1>6. LimitsInv'
  BY <1>1, <1>3, LimitsInvKept
<1>7. CacheInv'
  BY <1>1, <1>4, CacheInvKept
<1>8. QED
  BY <1>5, <1>6, <1>7 DEF AdmissionInv

LEMMA AdmissionInvSound == AdmissionInv => TypesOK /\ AdmissionSound
<1> SUFFICES ASSUME AdmissionInv PROVE TypesOK /\ AdmissionSound
  OBVIOUS
<1>1. QueueTypeOK /\ QueueSound
  BY QueueInvSound DEF AdmissionInv, QueueInv
<1>2. Limits!LimitTypeOK /\ Limits!RatesHold
  BY LimitsInvSound DEF AdmissionInv
<1>3. Cached!CacheTypeOK /\ Cached!CacheAccounts
  BY DEF AdmissionInv, CacheInv
<1>4. QED
  BY <1>1, <1>2, <1>3 DEF TypesOK, AdmissionSound

LEMMA AdmissionAlways == MCSpec => []AdmissionInv
<1>1. MCInit => AdmissionInv
  BY AdmissionInitially
<1>2. AdmissionInv /\ [MCNext]_<<part, queueVars, atCache, atLimits>> => AdmissionInv'
  BY AdmissionInvKept
<1>3. QED
  BY <1>1, <1>2, PTL DEF MCSpec

(* The queue's channels hold at most what was allocated for them, a token   *)
(* bucket never more than it can, and the cache's account is a number.      *)
THEOREM AdmissionTypes == MCSpec => []TypesOK
<1>1. AdmissionInv => TypesOK
  BY AdmissionInvSound
<1>2. QED
  BY <1>1, AdmissionAlways, PTL

(* A request is in one place and counted where it waits, no more run than   *)
(* there are slots, and no token is missing where all the schedulers sleep; *)
(* no client, and no upstream, gets more than its bucket's burst and rate   *)
(* let through, in any stretch of time; and the cache accounts for exactly  *)
(* what it keeps, within its bounds, one value a key, the last one put.     *)
THEOREM AdmissionIsSound == MCSpec => []AdmissionSound
<1>1. AdmissionInv => AdmissionSound
  BY AdmissionInvSound
<1>2. QED
  BY <1>1, AdmissionAlways, PTL

(* What a step of the cache owes to who uses it.                            *)
Served ==
  /\ \A k \in Keys : Cached!Get(k) /\ answer' # Cached!Miss =>
       answer' = latest[k] /\ \E i \in DOMAIN lru : lru[i].value = answer' /\ ~Cached!Expired(lru[i])
  /\ evicted' # <<>> =>
       \/ Len(lru') + 1 > MaxItems
       \/ MaxBytes > 0 /\ Cached!Total(lru') + evicted'[1].bytes > MaxBytes

(* A Get answers the last value put of its key, and never one older than    *)
(* the time to live; a Put pushes out no entry that there was room for.     *)
THEOREM CacheIsFresh == MCSpec => CacheServes
<1>1. AdmissionInv /\ [MCNext]_<<part, queueVars, atCache, atLimits>> => [Served]_(Cached!cacheVars)
  <2>1. SUFFICES ASSUME AdmissionInv, MCNext \/ UNCHANGED <<part, queueVars, atCache, atLimits>>
                 PROVE  Served \/ UNCHANGED Cached!cacheVars
    OBVIOUS
  <2>2. Cached!CacheNext \/ UNCHANGED Cached!cacheVars
    BY <2>1 DEF MCNext, atCache, Cached!cacheVars
  <2>3. CacheInv
    BY <2>1 DEF AdmissionInv
  <2>4. QED
    BY <2>2, <2>3, Serves DEF Served
<1>2. QED
  BY <1>1, AdmissionAlways, PTL DEF MCSpec, CacheServes, Cached!CacheServes, Served
==============================================================================
