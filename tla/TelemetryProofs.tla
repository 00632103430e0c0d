--------------------------- MODULE TelemetryProofs ---------------------------
(***************************************************************************)
(* Theorems about the telemetry plane: what becomes of the events a        *)
(* handler emitted, and what telemetryd's query store says of the log.     *)
(*                                                                         *)
(* An inductive invariant for the client and one for telemetryd; the two   *)
(* parts share no variable, so a step of one leaves the other's alone.     *)
(***************************************************************************)
EXTENDS MCTelemetry, FiniteSetTheorems, TLAPS

(***************************************************************************)
(* Numbers, and functions that are defined by recursion over them.         *)
(***************************************************************************)

(* A set of numbers has a least one.                                        *)
LEMMA LeastNumber ==
  ASSUME NEW S, S \subseteq Nat, S # {}
  PROVE  \E n \in S : \A m \in S : n <= m
<1> DEFINE N == Nat
           R == OpToRel(<, Nat)
<1>0. \A m, n \in Nat : <<m, n>> \in R <=> m < n
  BY Zenon DEF OpToRel
<1>1. S \subseteq N /\ IsWellFoundedOn(R, N)
  BY NatLessThanWellFounded, Zenon
<1> HIDE DEF N, R
<1>2. \E n \in S : \A m \in S : ~ (<<m, n>> \in R)
  BY ONLY <1>1, S # {}, WFMin, SMT
<1>3. PICK n \in S : \A m \in S : ~ (<<m, n>> \in R)
  BY <1>2, Zenon
<1>4. n \in Nat
  BY Zenon
<1>5. ASSUME NEW m \in S
      PROVE  n <= m
  <2>1. m \in Nat /\ ~(m < n)
    BY <1>0, <1>3, <1>4, Zenon
  <2>2. QED
    BY ONLY <1>4, <2>1, SMT
<1>6. QED
  BY <1>5, Zenon

(* Induction up to a bound, for a set of numbers: the first one missing     *)
(* would have one before it that is not.                                    *)
LEMMA Induction ==
  ASSUME NEW N \in Nat, NEW T, 0 \in T, \A n \in 1..N : n - 1 \in T => n \in T
  PROVE  \A n \in 0..N : n \in T
<1> DEFINE S == {n \in 0..N : n \notin T}
<1>1. SUFFICES ASSUME S # {} PROVE FALSE
  OBVIOUS
<1>2. S \subseteq Nat
  OBVIOUS
<1> HIDE DEF S
<1>3. PICK n \in S : \A m \in S : n <= m
  BY <1>1, <1>2, LeastNumber
<1> USE DEF S
<1>4. n \in 1..N /\ n - 1 \in 0..N /\ ~(n <= n - 1)
  OBVIOUS
<1>5. n - 1 \notin S
  BY <1>3, <1>4
<1>6. QED
  BY <1>4, <1>5

(* A recursion over 1..N with its values in S is one some function solves.  *)
Solvable(S, N, base, step) ==
  \E f \in [0..N -> S] : f[0] = base /\ \A n \in 1..N : f[n] = step[<<f[n - 1], n>>]

LEMMA Recursion ==
  ASSUME NEW S, NEW N \in Nat, NEW base \in S, NEW step \in [S \X (1..N) -> S]
  PROVE  Solvable(S, N, base, step)
<1> DEFINE Solves(f, m) == f[0] = base /\ \A n \in 1..m : f[n] = step[<<f[n - 1], n>>]
           T == {m \in 0..N : \E f \in [0..m -> S] : Solves(f, m)}
<1>1. 0 \in T
  <2> DEFINE f == [n \in 0..0 |-> base]
  <2>1. f \in [0..0 -> S] /\ Solves(f, 0)
    OBVIOUS
  <2> HIDE DEF f
  <2>2. QED
    BY <2>1
<1>2. ASSUME NEW n \in 1..N, n - 1 \in T
      PROVE  n \in T
  <2>1. PICK f \in [0..(n - 1) -> S] : Solves(f, n - 1)
    BY <1>2
  <2> DEFINE last == step[<<f[n - 1], n>>]
             g == [m \in 0..n |-> IF m = n THEN last ELSE f[m]]
  <2>2. last \in S
    <3>1. f[n - 1] \in S
      OBVIOUS
    <3>2. QED
      BY <3>1
  <2> HIDE DEF last
  <2>3. g \in [0..n -> S]
    BY <2>2
  <2>4. g[0] = base
    BY <2>1
  <2>5. ASSUME NEW m \in 1..n
        PROVE  g[m] = step[<<g[m - 1], m>>]
    <3>1. CASE m = n
      <4>1. g[m] = last /\ g[m - 1] = f[n - 1]
        BY <3>1
      <4>2. QED
        BY <3>1, <4>1 DEF last
    <3>2. CASE m # n
      <4>1. m \in 1..(n - 1) /\ g[m] = f[m] /\ g[m - 1] = f[m - 1]
        BY <3>2
      <4>2. QED
        BY <2>1, <4>1
    <3>3. QED
      BY <3>1, <3>2
  <2> HIDE DEF g
  <2>6. QED
    BY <2>3, <2>4, <2>5
<1> HIDE DEF T
<1>3. \A n \in 0..N : n \in T
  BY ONLY N \in Nat, <1>1, <1>2, Induction, Zenon
<1>4. N \in T
  BY <1>3
<1>5. QED
  BY <1>4 DEF T, Solvable

(***************************************************************************)
(* Sequences of events.                                                    *)
(***************************************************************************)

Ids(seq) == {seq[i] : i \in DOMAIN seq}

(* The table o has all that table has, in its place, the ids given besides,  *)
(* and no id twice if table has none twice.                                  *)
Grown(o, table, ids) ==
  /\ Len(o) >= Len(table) /\ \A i \in 1..Len(table) : o[i] = table[i]
  /\ Ids(o) = Ids(table) \cup ids
  /\ IsInjective(table) => IsInjective(o)

(* One insert.                                                              *)
Insert(o, e) == IF \E i \in DOMAIN o : o[i] = e THEN o ELSE Append(o, e)

LEMMA InsertGrows ==
  ASSUME NEW E, NEW table \in Seq(E), NEW ids, NEW o \in Seq(E), NEW e \in E,
         Grown(o, table, ids)
  PROVE  Insert(o, e) \in Seq(E) /\ Grown(Insert(o, e), table, ids \cup {e})
<1>1. CASE \E i \in DOMAIN o : o[i] = e
  <2>1. Insert(o, e) = o /\ e \in Ids(o)
    BY <1>1 DEF Insert, Ids
  <2>2. QED
    BY <2>1 DEF Grown
<1>2. CASE \A i \in DOMAIN o : o[i] # e
  <2> DEFINE p == Append(o, e)
  <2>1. Insert(o, e) = p
    BY <1>2 DEF Insert
  <2>2. /\ p \in Seq(E) /\ Len(p) = Len(o) + 1 /\ p[Len(p)] = e
        /\ \A i \in 1..Len(o) : p[i] = o[i]
        /\ Len(o) \in Nat /\ Len(table) \in Nat
        /\ DOMAIN p = 1..Len(p) /\ DOMAIN o = 1..Len(o)
    OBVIOUS
  <2> HIDE DEF p
  <2>3. Ids(p) = Ids(o) \cup {e}
    <3>1. \A i \in DOMAIN p : p[i] \in Ids(o) \cup {e}
      BY <2>2 DEF Ids
    <3>2. \A i \in DOMAIN o : o[i] \in Ids(p)
      BY <2>2 DEF Ids
    <3>3. e \in Ids(p)
      BY <2>2 DEF Ids
    <3>4. QED
      BY <3>1, <3>2, <3>3 DEF Ids
  <2>4. IsInjective(o) => IsInjective(p)
    <3> SUFFICES ASSUME IsInjective(o), NEW i \in DOMAIN p, NEW j \in DOMAIN p, p[i] = p[j]
                 PROVE  i = j
      BY DEF IsInjective
    <3>1. CASE i \in DOMAIN o /\ j \in DOMAIN o
      BY <2>2, <3>1 DEF IsInjective
    <3>2. CASE i \notin DOMAIN o /\ j \notin DOMAIN o
      BY <2>2, <3>2
    <3>3. CASE i \in DOMAIN o /\ j \notin DOMAIN o
      BY <1>2, <2>2, <3>3
    <3>4. CASE i \notin DOMAIN o /\ j \in DOMAIN o
      BY <1>2, <2>2, <3>4
    <3>5. QED
      BY <3>1, <3>2, <3>3, <3>4
  <2>5. Len(p) >= Len(table) /\ \A i \in 1..Len(table) : p[i] = table[i]
    BY <2>2 DEF Grown
  <2>6. QED
    BY <2>1, <2>2, <2>3, <2>4, <2>5 DEF Grown
<1>3. QED
  BY <1>1, <1>2

(* The function Appended takes the last value of.                           *)
After(table, batch, failed) ==
  CHOOSE f : f = [n \in 0..Len(batch) |->
                    IF n = 0 THEN table
                    ELSE IF n \in failed \/ \E i \in DOMAIN f[n - 1] : f[n - 1][i] = batch[n] THEN f[n - 1]
                    ELSE Append(f[n - 1], batch[n])]

(* The ids of a batch without those whose insert failed.                    *)
Accepted(batch, failed) == {batch[i] : i \in DOMAIN batch \ failed}

(* A batch that was appended: the log has what it had and what the batch    *)
(* has, but for the failed inserts, and still nothing twice.                *)
LEMMA AppendedGrows ==
  ASSUME NEW E, NEW table \in Seq(E), NEW batch \in Seq(E), NEW failed
  PROVE  /\ Appended(table, batch, failed) \in Seq(E)
         /\ Grown(Appended(table, batch, failed), table, Accepted(batch, failed))
<1> DEFINE N == Len(batch)
           S == Seq(E)
           at(o, n) == IF n \in failed THEN o ELSE Insert(o, batch[n])
           step == [p \in S \X (1..N) |-> at(p[1], p[2])]
           Fixed(f) == f = [n \in 0..N |-> IF n = 0 THEN table ELSE at(f[n - 1], n)]
           g == After(table, batch, failed)
           some(n) == {batch[i] : i \in 1..n \ failed}
           T == {n \in 0..N : g[n] \in S /\ Grown(g[n], table, some(n))}
<1>1. N \in Nat /\ (\A n \in 1..N : batch[n] \in E) /\ DOMAIN batch = 1..N
  OBVIOUS
<1>2. \A o \in S, n \in 1..N : at(o, n) \in S
  <2>1. \A o \in S, e \in E : Insert(o, e) \in S
    BY DEF Insert
  <2>2. QED
    BY <1>1, <2>1
<1>3. Appended(table, batch, failed) = g[N]
  BY DEF Appended, After
<1>4. g = CHOOSE f : Fixed(f)
  <2> DEFINE raw(f) == [n \in 0..N |-> IF n = 0 THEN table
                          ELSE IF n \in failed \/ \E i \in DOMAIN f[n - 1] : f[n - 1][i] = batch[n] THEN f[n - 1]
                          ELSE Append(f[n - 1], batch[n])]
  <2>1. \A f : raw(f) = [n \in 0..N |-> IF n = 0 THEN table ELSE at(f[n - 1], n)]
    BY DEF Insert
  <2>2. g = CHOOSE f : f = raw(f)
    BY DEF After
  <2> HIDE DEF raw
  <2>3. \A f : f = raw(f) <=> Fixed(f)
    BY <2>1
  <2>4. QED
    BY <2>2, <2>3
<1> HIDE DEF N, g, at
<1>5. step \in [S \X (1..N) -> S]
  BY <1>1, <1>2
<1>6. \A o \in S, n \in 1..N : step[<<o, n>>] = at(o, n)
  BY <1>1
<1> HIDE DEF step
<1>7. PICK f \in [0..N -> S] : f[0] = table /\ \A n \in 1..N : f[n] = step[<<f[n - 1], n>>]
  <2>1. table \in S
    OBVIOUS
  <2> HIDE DEF S
  <2>2. Solvable(S, N, table, step)
    BY ONLY <1>1, <1>5, <2>1, Recursion
  <2>3. QED
    BY ONLY <2>2, Zenon DEF Solvable
<1> HIDE DEF S
<1>8. ASSUME NEW n \in 1..N
      PROVE  n - 1 \in 0..N /\ f[n - 1] \in S /\ f[n] = at(f[n - 1], n)
  <2>1. n - 1 \in 0..N
    BY <1>1
  <2>2. f[n - 1] \in S
    BY <2>1
  <2>3. f[n] = step[<<f[n - 1], n>>]
    BY <1>7
  <2>4. QED
    BY <1>6, <2>1, <2>2, <2>3
<1>9. Fixed(f)
  BY <1>7, <1>8
<1>10. Fixed(g)
  <2> HIDE DEF Fixed
  <2>1. QED
    BY <1>4, <1>9
<1>11. g[0] = table
  BY <1>1, <1>10
<1>12. ASSUME NEW n \in 1..N
       PROVE  g[n] = at(g[n - 1], n)
  <2>1. n \in 0..N /\ n # 0
    BY <1>1
  <2>2. QED
    BY ONLY <1>10, <2>1
<1>13. 0 \in T
  <2>1. some(0) = {} /\ 0 \in 0..N
    BY ONLY <1>1
  <2>2. Grown(table, table, {})
    BY DEF Grown
  <2>3. QED
    BY <1>11, <2>1, <2>2 DEF S
<1>14. ASSUME NEW n \in 1..N, n - 1 \in T
       PROVE  n \in T
  <2>1. n \in 0..N /\ batch[n] \in E /\ 1..n = (1..(n - 1)) \cup {n}
    BY <1>1
  <2>2. g[n - 1] \in Seq(E) /\ Grown(g[n - 1], table, some(n - 1))
    BY <1>14 DEF S
  <2>3. some(n) = IF n \in failed THEN some(n - 1) ELSE some(n - 1) \cup {batch[n]}
    BY <2>1
  <2> HIDE DEF some
  <2>4. Insert(g[n - 1], batch[n]) \in Seq(E)
        /\ Grown(Insert(g[n - 1], batch[n]), table, some(n - 1) \cup {batch[n]})
    BY <2>1, <2>2, InsertGrows
  <2>5. g[n] = IF n \in failed THEN g[n - 1] ELSE Insert(g[n - 1], batch[n])
    BY <1>12 DEF at
  <2>6. CASE n \in failed
    BY <2>1, <2>2, <2>3, <2>5, <2>6 DEF S
  <2>7. CASE n \notin failed
    BY <2>1, <2>3, <2>4, <2>5, <2>7 DEF S
  <2>8. QED
    BY <2>6, <2>7
<1>15. N \in T
  <2> HIDE DEF T
  <2>1. \A n \in 0..N : n \in T
    BY ONLY <1>1, <1>13, <1>14, Induction, Zenon
  <2>2. QED
    BY <1>1, <2>1
<1>16. some(N) = Accepted(batch, failed)
  BY <1>1 DEF Accepted
<1>17. QED
  BY <1>3, <1>15, <1>16 DEF S

(* A sequence without repetition has as many members as places.             *)
LEMMA IdsCount ==
  ASSUME NEW E, NEW s \in Seq(E)
  PROVE  /\ IsFiniteSet(Ids(s)) /\ Ids(s) \subseteq E
         /\ IsInjective(s) => Cardinality(Ids(s)) = Len(s)
<1> DEFINE N == Len(s)
           f == [i \in 1..N |-> s[i]]
           S == Ids(s)
<1>1. N \in Nat /\ DOMAIN s = 1..N /\ (\A i \in 1..N : s[i] \in E)
  OBVIOUS
<1>2. S \subseteq E /\ (\A i \in 1..N : s[i] \in S) /\ (\A e \in S : \E i \in 1..N : s[i] = e)
  BY <1>1 DEF Ids
<1>3. IsInjective(s) => \A i, j \in 1..N : s[i] = s[j] => i = j
  BY <1>1 DEF IsInjective
<1> HIDE DEF N, S
<1>4. IsFiniteSet(1..N) /\ Cardinality(1..N) = N
  <2>1. N \in Int /\ 1 \in Int /\ ~(1 > N /\ N # 0) /\ (1 > N => N = 0) /\ N - 1 + 1 = N
    BY <1>1
  <2>2. QED
    BY <1>1, <2>1, FS_Interval
<1>5. f \in Surjection(1..N, S)
  BY <1>2 DEF Surjection
<1>6. IsFiniteSet(S)
  BY <1>4, <1>5, FS_Surjection
<1>7. IsInjective(s) => f \in Injection(1..N, S)
  BY <1>2, <1>3 DEF Injection, IsInjective
<1>8. Cardinality(S) = N <=> f \in Injection(1..N, S)
  BY <1>4, <1>5, FS_Surjection
<1>9. QED
  BY <1>2, <1>6, <1>7, <1>8 DEF S, N

(* The larger and the smaller of two numbers.                               *)
LEMMA MaxOfTwo ==
  ASSUME NEW m \in Nat, NEW n \in Nat
  PROVE  Max({m, n}) \in {m, n} /\ Max({m, n}) >= m /\ Max({m, n}) >= n
<1>1. \E u \in {m, n} : \A v \in {m, n} : u >= v
  <2>1. CASE m >= n
    BY <2>1
  <2>2. CASE ~(m >= n)
    BY <2>2
  <2>3. QED
    BY <2>1, <2>2
<1>2. Max({m, n}) \in {m, n} /\ \A v \in {m, n} : Max({m, n}) >= v
  BY <1>1 DEF Max
<1>3. QED
  BY <1>2

LEMMA MinOfTwo ==
  ASSUME NEW m \in Nat, NEW n \in Nat
  PROVE  Min({m, n}) \in {m, n} /\ Min({m, n}) <= m /\ Min({m, n}) <= n
<1>1. \E u \in {m, n} : \A v \in {m, n} : u =< v
  <2>1. CASE m =< n
    BY <2>1
  <2>2. CASE ~(m =< n)
    BY <2>2
  <2>3. QED
    BY <2>1, <2>2
<1>2. Min({m, n}) \in {m, n} /\ \A v \in {m, n} : Min({m, n}) =< v
  BY <1>1 DEF Min
<1>3. QED
  BY <1>2

(***************************************************************************)
(* telemetryd: the log, the projectors and the migration.                  *)
(***************************************************************************)

(* Every attempt among the first n events of the table is in the set had.   *)
CoveredIn(table, had, n) ==
  n <= Len(table) /\ \A i \in 1..n : ShapeOf(table[i]).attempt => table[i] \in had

Covered(n) == CoveredIn(events, facts, n)

(* The log has no event twice, and every fact is of an event in it.         *)
Logged == IsInjective(events) /\ IsFiniteSet(facts) /\ facts \subseteq Ids(events)

(* What the checkpoint or a projector has passed is among the facts, and a  *)
(* projector has read nothing the log does not have.                        *)
Passed ==
  /\ Covered(checkpoint)
  /\ \A p \in Projectors : /\ proj[p].at # "off" => Covered(proj[p].lastID)
                           /\ proj[p].at = "read" => proj[p].maxID <= Len(events)

(* Rows the migration has saved, or appended, are in the log, but for those *)
(* whose insert failed; it goes on from where its checkpoint file is, which *)
(* nobody else writes.                                                      *)
InLog(r) == \E e \in Ids(events) \cap Imported : e.row = r
RowsKept ==
  /\ saved.last <= rows /\ \A r \in 1..saved.last \ lost : InLog(r)
  /\ import.at # "off" => import.after = saved.last /\ import.after <= import.upto /\ import.upto <= rows
  /\ import.at = "appended" => \A r \in 1..import.upto \ lost : InLog(r)

LogInv == TypeOK /\ Logged /\ Passed /\ AggregatesMatchFacts /\ RowsKept

LEMMA LogInvStarts == (Init \/ LogAtRest) => LogInv
<1> SUFFICES ASSUME Init \/ LogAtRest PROVE LogInv
  OBVIOUS
<1>1. /\ events = <<>> /\ facts = {} /\ aggs = [k \in Keys |-> 0] /\ checkpoint = 0
      /\ rows \in 0..MaxRows /\ import = NoImport /\ saved = [print |-> None, last |-> 0] /\ lost = {} /\ crashes = 0
      /\ proj \in [Projectors -> [at : {"off", "idle"}, lastID : {0}, maxID : {0}]]
  BY LogAssumption DEF Init, LogAtRest, Off, Projectors
<1>2. TypeOK
  <2>1. events \in Seq(EventId) /\ facts \subseteq EventId /\ aggs \in [Keys -> Nat]
    BY <1>1
  <2>2. proj \in [Projectors -> Projector]
    BY <1>1 DEF Projector
  <2>3. import \in Import /\ saved \in [print : Fingerprints \cup {None}, last : 0..MaxRows]
    BY <1>1, LogAssumption DEF Import, NoImport, Fingerprints
  <2>4. QED
    BY <1>1, <2>1, <2>2, <2>3, LogAssumption DEF TypeOK
<1>3. Logged
  BY <1>1, FS_EmptySet DEF Logged, IsInjective
<1>4. Passed
  <2>1. Covered(0)
    BY <1>1 DEF Covered, CoveredIn
  <2>2. \A p \in Projectors : proj[p].lastID = 0 /\ proj[p].at # "read"
    BY <1>1
  <2>3. QED
    BY <1>1, <2>1, <2>2 DEF Passed
<1>5. AggregatesMatchFacts
  <2>1. \A k \in Keys : {e \in facts : ~ShapeOf(e).synthetic /\ ShapeOf(e).key = k} = {}
    BY <1>1
  <2>2. QED
    BY <1>1, <2>1, FS_EmptySet DEF AggregatesMatchFacts, Counted
<1>6. RowsKept
  BY <1>1, LogAssumption DEF RowsKept, NoImport
<1>7. QED
  BY <1>2, <1>3, <1>4, <1>5, <1>6 DEF LogInv

(* An attempt that was passed stays passed when events and facts are added. *)
LEMMA CoveredStays ==
  ASSUME NEW E, NEW table \in Seq(E), NEW o \in Seq(E), NEW ids, Grown(o, table, ids),
         NEW had, NEW has, had \subseteq has, NEW n \in Nat, CoveredIn(table, had, n)
  PROVE  CoveredIn(o, has, n)
<1>1. Len(table) \in Nat /\ Len(o) \in Nat /\ n <= Len(table) /\ Len(o) >= Len(table)
  BY DEF Grown, CoveredIn
<1>2. ASSUME NEW i \in 1..n, ShapeOf(o[i]).attempt
      PROVE  o[i] \in has
  <2>1. i \in 1..Len(table)
    BY <1>1
  <2>2. o[i] = table[i]
    BY <2>1 DEF Grown
  <2>3. QED
    BY <1>2, <2>2 DEF CoveredIn
<1>3. QED
  BY <1>1, <1>2 DEF CoveredIn

(* A batch in the log, whoever wrote it.                                    *)
LEMMA LogGrows ==
  ASSUME LogInv, NEW batch \in Seq(EventId), NEW failed, events' = Appended(events, batch, failed),
         UNCHANGED facts
  PROVE  /\ events' \in Seq(EventId) /\ Logged'
         /\ Ids(events') = Ids(events) \cup Accepted(batch, failed) /\ Len(events') >= Len(events)
         /\ \A n \in Nat : Covered(n) => CoveredIn(events', facts', n)
         /\ \A r : InLog(r) => InLog(r)'
<1>1. events \in Seq(EventId)
  BY DEF LogInv, TypeOK
<1>2. events' \in Seq(EventId) /\ Grown(events', events, Accepted(batch, failed))
  BY <1>1, AppendedGrows
<1>3. Ids(events') = Ids(events) \cup Accepted(batch, failed) /\ Len(events') >= Len(events)
  BY <1>2 DEF Grown
<1>4. Logged'
  BY <1>2, <1>3 DEF LogInv, Logged, Grown
<1>5. ASSUME NEW n \in Nat, Covered(n)
      PROVE  CoveredIn(events', facts', n)
  <2>1. CoveredIn(events', facts, n)
    BY <1>1, <1>2, <1>5, CoveredStays DEF Covered
  <2>2. QED
    BY <2>1
<1>6. \A r : InLog(r) => InLog(r)'
  BY <1>3 DEF InLog
<1>7. QED
  BY <1>2, <1>3, <1>4, <1>5, <1>6

(* A step that leaves the log and the query store alone.                    *)
LEMMA SameLog ==
  ASSUME LogInv, UNCHANGED <<events, facts>>
  PROVE  /\ Logged' /\ (\A n : Covered(n)' = Covered(n)) /\ (\A r : InLog(r)' = InLog(r))
BY DEF LogInv, Logged, Covered, InLog

LEMMA SameTotals ==
  ASSUME LogInv, UNCHANGED <<facts, aggs>>
  PROVE  AggregatesMatchFacts'
BY DEF LogInv, AggregatesMatchFacts

(* What was passed stays passed, when a step goes on from there.            *)
StillCovered ==
  /\ \A n \in Nat : Covered(n) => CoveredIn(events', facts', n)
  /\ Len(events') >= Len(events)

LEMMA PassedStays ==
  ASSUME LogInv, TypeOK', UNCHANGED proj, Covered(checkpoint)', StillCovered
  PROVE  Passed'
<1>1. ASSUME NEW p \in Projectors
      PROVE  /\ proj[p].at # "off" => CoveredIn(events', facts', proj[p].lastID)
             /\ proj[p].at = "read" => proj[p].maxID <= Len(events')
  <2>1. proj[p].lastID \in Nat /\ proj[p].maxID \in Nat /\ Len(events) \in Nat /\ Len(events') \in Nat
    BY DEF LogInv, TypeOK, Projector
  <2>2. /\ proj[p].at # "off" => Covered(proj[p].lastID)
        /\ proj[p].at = "read" => proj[p].maxID <= Len(events)
    BY DEF LogInv, Passed
  <2>3. QED
    BY <2>1, <2>2 DEF StillCovered
<1>2. QED
  BY <1>1 DEF Passed, Covered

LEMMA ProjectorSteps ==
  ASSUME LogInv, TypeOK', NEW p \in Projectors, NEW now, proj' = [proj EXCEPT ![p] = now],
         Covered(checkpoint)', StillCovered,
         now.at # "off" => CoveredIn(events', facts', now.lastID), now.at = "read" => now.maxID <= Len(events')
  PROVE  Passed'
<1>1. ASSUME NEW q \in Projectors, q # p
      PROVE  /\ proj[q].at # "off" => CoveredIn(events', facts', proj[q].lastID)
             /\ proj[q].at = "read" => proj[q].maxID <= Len(events')
  <2>1. proj[q].lastID \in Nat /\ proj[q].maxID \in Nat /\ Len(events) \in Nat /\ Len(events') \in Nat
    <3>1. proj[q] \in Projector
      BY DEF LogInv, TypeOK
    <3>2. proj[q].lastID \in Nat /\ proj[q].maxID \in Nat
      BY <3>1 DEF Projector
    <3>3. events \in Seq(EventId) /\ events' \in Seq(EventId)
      BY DEF LogInv, TypeOK
    <3>4. QED
      BY <3>2, <3>3
  <2>2. /\ proj[q].at # "off" => Covered(proj[q].lastID)
        /\ proj[q].at = "read" => proj[q].maxID <= Len(events)
    BY DEF LogInv, Passed
  <2>3. QED
    BY <2>1, <2>2 DEF StillCovered
<1>2. \A q \in Projectors : proj'[q] = IF q = p THEN now ELSE proj[q]
  BY DEF LogInv, TypeOK
<1>3. ASSUME NEW q \in Projectors
      PROVE  /\ proj'[q].at # "off" => CoveredIn(events', facts', proj'[q].lastID)
             /\ proj'[q].at = "read" => proj'[q].maxID <= Len(events')
  <2>1. CASE q = p
    <3>1. proj'[q] = now
      BY <1>2, <2>1
    <3>2. QED
      BY <3>1
  <2>2. CASE q # p
    <3>1. proj'[q] = proj[q]
      BY <1>2, <2>2
    <3>2. QED
      BY <1>1, <2>2, <3>1
  <2>3. QED
    BY <2>1, <2>2
<1>4. QED
  BY <1>3 DEF Passed, Covered

LEMMA SameCovered ==
  ASSUME LogInv, UNCHANGED <<events, facts>>
  PROVE  StillCovered /\ (UNCHANGED checkpoint => Covered(checkpoint)')
<1>1. Len(events) \in Nat /\ Covered(checkpoint)
  BY DEF LogInv, TypeOK, Passed
<1>2. QED
  BY <1>1 DEF StillCovered, Covered

LEMMA RowsStay ==
  ASSUME LogInv, UNCHANGED <<rows, import, saved, lost>>, \A r : InLog(r) => InLog(r)'
  PROVE  RowsKept'
BY DEF LogInv, RowsKept

LEMMA AppendBatchKeeps ==
  ASSUME LogInv, AppendBatch PROVE LogInv'
<1>0. PICK batch \in Batches : \E failed \in SUBSET DOMAIN batch : events' = Appended(events, batch, failed)
  BY DEF AppendBatch
<1>1. PICK failed : events' = Appended(events, batch, failed)
  BY <1>0
<1>2. UNCHANGED <<facts, aggs, checkpoint, proj, rows, import, saved, lost, crashes>>
  BY DEF AppendBatch
<1>3. batch \in Seq(EventId)
  <2>1. batch \in Seq(Live)
    BY LogAssumption
  <2>2. QED
    BY <2>1 DEF EventId
<1>4. /\ events' \in Seq(EventId) /\ Logged' /\ StillCovered
      /\ \A r : InLog(r) => InLog(r)'
  BY <1>1, <1>2, <1>3, LogGrows DEF StillCovered
<1>5. TypeOK'
  BY <1>2, <1>4 DEF LogInv, TypeOK
<1>6. Covered(checkpoint)'
  BY <1>2, <1>4 DEF LogInv, TypeOK, Passed, StillCovered, Covered
<1>7. QED
  BY <1>2, <1>4, <1>5, <1>6, PassedStays, SameTotals, RowsStay DEF LogInv

LEMMA DaemonStartsKeeps ==
  ASSUME LogInv, DaemonStarts PROVE LogInv'
<1>1. UNCHANGED <<events, facts, aggs, checkpoint, rows, import, saved, lost, crashes>>
  BY DEF DaemonStarts
<1>2. PICK known \in {checkpoint, 0} :
        proj' = [proj EXCEPT !["run"] = [at |-> "idle", lastID |-> known, maxID |-> 0]]
  BY DEF DaemonStarts, Off
<1> DEFINE now == [at |-> "idle", lastID |-> known, maxID |-> 0]
<1>3. known \in Nat /\ "run" \in Projectors
  BY DEF LogInv, TypeOK, Projectors
<1>4. now \in Projector
  BY <1>3 DEF Projector
<1>5. TypeOK'
  BY <1>1, <1>2, <1>4 DEF LogInv, TypeOK
<1>6. StillCovered /\ Covered(checkpoint)'
  BY <1>1, SameCovered
<1>7. CoveredIn(events', facts', now.lastID)
  <2>1. Covered(0)
    BY DEF LogInv, TypeOK, Covered, CoveredIn
  <2>2. Covered(checkpoint)
    BY DEF LogInv, Passed
  <2>3. QED
    BY <1>1, <2>1, <2>2 DEF Covered
<1>8. proj' = [proj EXCEPT !["run"] = now] /\ now.at # "read"
  BY <1>2
<1> HIDE DEF now
<1>9. Passed'
  BY <1>3, <1>5, <1>6, <1>7, <1>8, ProjectorSteps
<1>10. Logged' /\ AggregatesMatchFacts' /\ RowsKept'
  BY <1>1, SameLog, SameTotals, RowsStay
<1>11. QED
  BY <1>5, <1>9, <1>10 DEF LogInv

(* A projector's step that leaves everything but it alone.                  *)
LEMMA OnlyProjector ==
  ASSUME LogInv, UNCHANGED <<events, facts, aggs, checkpoint, rows, import, saved, lost>>,
         crashes' \in 0..MaxCrashes,
         NEW p \in Projectors, NEW now \in Projector, proj' = [proj EXCEPT ![p] = now],
         now.at # "off" => Covered(now.lastID), now.at = "read" => now.maxID <= Len(events)
  PROVE  LogInv'
<1>1. TypeOK'
  BY DEF LogInv, TypeOK
<1>2. StillCovered /\ Covered(checkpoint)'
  BY SameCovered
<1>3. now.at # "off" => CoveredIn(events', facts', now.lastID)
  BY DEF Covered
<1>4. now.at = "read" => now.maxID <= Len(events')
  OBVIOUS
<1>5. Passed'
  BY ONLY LogInv, <1>1, <1>2, <1>3, <1>4, p \in Projectors, proj' = [proj EXCEPT ![p] = now], ProjectorSteps
<1>6. Logged' /\ AggregatesMatchFacts' /\ RowsKept'
  BY SameLog, SameTotals, RowsStay
<1>7. QED
  BY <1>1, <1>5, <1>6 DEF LogInv

LEMMA ProjectorFields ==
  ASSUME NEW r \in Projector, NEW place, NEW m
  PROVE  [r EXCEPT !.at = place, !.maxID = m] = [at |-> place, lastID |-> r.lastID, maxID |-> m]
<1> DEFINE u == [r EXCEPT !.at = place]
<1>1. r = [at |-> r.at, lastID |-> r.lastID, maxID |-> r.maxID]
  BY DEF Projector
<1>2. u = [at |-> place, lastID |-> r.lastID, maxID |-> r.maxID]
  BY <1>1
<1>3. [u EXCEPT !.maxID = m] = [at |-> place, lastID |-> r.lastID, maxID |-> m]
  <2> HIDE DEF u
  <2>1. QED
    BY <1>2
<1>4. QED
  BY <1>3

LEMMA OffHolds == Off \in Projector /\ Off.at = "off"
BY DEF Off, Projector

LEMMA DaemonStopsKeeps ==
  ASSUME LogInv, DaemonStops PROVE LogInv'
<1>1. crashes' \in 0..MaxCrashes
  BY LogAssumption DEF LogInv, TypeOK, DaemonStops
<1>2. "run" \in Projectors /\ proj' = [proj EXCEPT !["run"] = Off]
      /\ UNCHANGED <<events, facts, aggs, checkpoint, rows, import, saved, lost>>
  BY DEF DaemonStops, Projectors
<1>3. QED
  BY <1>1, <1>2, OffHolds, OnlyProjector

LEMMA ReadKeeps ==
  ASSUME LogInv, NEW p \in Projectors, Read(p) PROVE LogInv'
<1> DEFINE m == Min({Len(events), proj[p].lastID + Limit})
           now == [at |-> "read", lastID |-> proj[p].lastID, maxID |-> m]
<1>1. UNCHANGED <<events, facts, aggs, checkpoint, rows, import, saved, lost, crashes>> /\ proj[p].at = "idle"
  BY DEF Read
<1>2. proj[p] \in Projector /\ Len(events) \in Nat /\ proj[p].lastID + Limit \in Nat
  BY LogAssumption DEF LogInv, TypeOK, Projector
<1>3. m \in Nat /\ m <= Len(events)
  <2> DEFINE u == Len(events)
             v == proj[p].lastID + Limit
  <2> HIDE DEF u, v
  <2>1. u \in Nat /\ v \in Nat
    BY <1>2 DEF u, v
  <2>2. Min({u, v}) \in {u, v} /\ Min({u, v}) <= u
    BY <2>1, MinOfTwo
  <2>3. QED
    BY <2>1, <2>2 DEF u, v
<1> HIDE DEF m
<1>4. now \in Projector
  BY <1>2, <1>3 DEF Projector
<1>5. proj' = [proj EXCEPT ![p] = now]
  <2>1. [proj[p] EXCEPT !.at = "read", !.maxID = m] = now
    BY <1>2, ProjectorFields
  <2>2. proj' = [proj EXCEPT ![p] = [proj[p] EXCEPT !.at = "read", !.maxID = m]]
    BY DEF Read, m, LogInv, TypeOK
  <2>3. QED
    BY <2>1, <2>2, Zenon
<1>6. Covered(now.lastID)
  BY <1>1 DEF LogInv, Passed
<1>7. crashes' \in 0..MaxCrashes /\ now.maxID <= Len(events)
  BY <1>1, <1>3 DEF LogInv, TypeOK
<1> HIDE DEF now
<1>8. QED
  BY <1>1, <1>4, <1>5, <1>6, <1>7, OnlyProjector

LEMMA ApplyFailsKeeps ==
  ASSUME LogInv, ApplyFails PROVE LogInv'
<1> DEFINE now == [at |-> "idle", lastID |-> proj["run"].lastID, maxID |-> 0]
<1>1. UNCHANGED <<events, facts, aggs, checkpoint, rows, import, saved, lost, crashes>>
      /\ proj["run"].at = "read" /\ "run" \in Projectors
  BY DEF ApplyFails, Projectors
<1>2. proj["run"] \in Projector
  BY <1>1 DEF LogInv, TypeOK
<1>3. now \in Projector
  BY <1>2 DEF Projector
<1>4. proj' = [proj EXCEPT !["run"] = now]
  <2>1. [proj["run"] EXCEPT !.at = "idle", !.maxID = 0] = now
    BY <1>2, ProjectorFields
  <2>2. QED
    BY <2>1, Zenon DEF ApplyFails
<1>5. Covered(now.lastID) /\ now.at # "read"
  BY <1>1 DEF LogInv, Passed
<1>6. crashes' \in 0..MaxCrashes
  BY <1>1 DEF LogInv, TypeOK
<1> HIDE DEF now
<1>7. QED
  BY <1>1, <1>3, <1>4, <1>5, <1>6, OnlyProjector

AddsUp(S, T, k) ==
  /\ Counted(S, k) \in Nat /\ Counted(T, k) \in Nat
  /\ Counted(S \cup T, k) = Counted(S, k) + Counted(T, k)

LEMMA CountedSplits ==
  ASSUME NEW S, IsFiniteSet(S), NEW T, IsFiniteSet(T), S \cap T = {}, NEW k
  PROVE  AddsUp(S, T, k)
<1> DEFINE Of(U) == {e \in U : ~ShapeOf(e).synthetic /\ ShapeOf(e).key = k}
           A == Of(S)
           B == Of(T)
<1>1. A \subseteq S /\ B \subseteq T /\ Of(S \cup T) = A \cup B /\ A \cap B = {}
  OBVIOUS
<1>2. Counted(S, k) = Cardinality(A) /\ Counted(T, k) = Cardinality(B)
      /\ Counted(S \cup T, k) = Cardinality(Of(S \cup T))
  BY DEF Counted
<1> HIDE DEF A, B, Of
<1>3. IsFiniteSet(A) /\ IsFiniteSet(B)
  BY <1>1, FS_Subset
<1>4. Cardinality(A) \in Nat /\ Cardinality(B) \in Nat
  BY <1>3, FS_CardinalityType
<1>5. Cardinality(A \cup B) = Cardinality(A) + Cardinality(B) - Cardinality(A \cap B)
  BY <1>3, FS_Union
<1>6. Cardinality(A \cap B) = 0
  BY <1>1, FS_EmptySet
<1>7. \A a, b, c, d \in Nat : d = 0 => a + b - d = a + b
  OBVIOUS
<1>8. Cardinality(A) + Cardinality(B) - Cardinality(A \cap B) = Cardinality(A) + Cardinality(B)
  BY <1>4, <1>6, <1>7
<1>9. Counted(S \cup T, k) = Cardinality(A \cup B)
  BY <1>1, <1>2, Zenon
<1>10. QED
  BY ONLY <1>2, <1>4, <1>5, <1>8, <1>9, Zenon DEF AddsUp

(* What a projector inserts: events of the log that are no facts yet; with  *)
(* them it has covered what it read.                                        *)
LEMMA InsertedIs ==
  ASSUME LogInv, NEW p \in Projectors, proj[p].at = "read"
  PROVE  /\ Inserted(p) \subseteq Ids(events) /\ Inserted(p) \cap facts = {} /\ IsFiniteSet(Inserted(p))
         /\ proj[p].maxID \in Nat
         /\ CoveredIn(events, facts \cup Inserted(p), proj[p].maxID)
<1> DEFINE low == proj[p].lastID
           high == proj[p].maxID
<1>1. low \in Nat /\ high \in Nat
  BY DEF LogInv, TypeOK, Projector
<1>2. events \in Seq(EventId) /\ Len(events) \in Nat /\ DOMAIN events = 1..Len(events)
  BY DEF LogInv, TypeOK
<1>3. high <= Len(events) /\ Covered(low)
  BY DEF LogInv, Passed
<1>4. Inserted(p) = {e \in {events[i] : i \in low + 1 .. high} : ShapeOf(e).attempt} \ facts
  BY DEF Inserted
<1> HIDE DEF low, high
<1>5. Inserted(p) \subseteq Ids(events) /\ Inserted(p) \cap facts = {}
  BY <1>1, <1>2, <1>3, <1>4 DEF Ids
<1>6. IsFiniteSet(Inserted(p))
  BY <1>2, <1>5, IdsCount, FS_Subset
<1>7. ASSUME NEW i \in 1..high, ShapeOf(events[i]).attempt
      PROVE  events[i] \in facts \cup Inserted(p)
  <2>1. CASE i \in 1..low
    BY <1>3, <1>7, <2>1 DEF Covered, CoveredIn
  <2>2. CASE i \notin 1..low
    <3>1. i \in low + 1 .. high
      BY <1>1, <2>2
    <3>2. QED
      BY <1>4, <1>7, <3>1
  <2>3. QED
    BY <2>1, <2>2
<1>8. CoveredIn(events, facts \cup Inserted(p), high)
  BY <1>3, <1>7 DEF CoveredIn
<1>9. QED
  BY <1>1, <1>5, <1>6, <1>8 DEF high

LEMMA ApplyKeeps ==
  ASSUME LogInv, NEW p \in Projectors, Apply(p) PROVE LogInv'
<1> DEFINE I == Inserted(p)
           high == proj[p].maxID
           now == [at |-> "idle", lastID |-> high, maxID |-> 0]
<1>1. UNCHANGED <<events, rows, import, saved, lost, crashes>> /\ proj[p].at = "read"
      /\ facts' = facts \cup I /\ proj' = [proj EXCEPT ![p] = now]
  BY DEF Apply
<1>2. aggs' = [k \in Keys |-> aggs[k] + Counted(I, k)] /\ checkpoint' = Max({checkpoint, high})
  BY DEF Apply
<1>3. /\ I \subseteq Ids(events) /\ I \cap facts = {} /\ IsFiniteSet(I)
      /\ high \in Nat /\ CoveredIn(events, facts \cup I, high)
  BY <1>1, InsertedIs
<1> HIDE DEF I, high
<1>4. IsFiniteSet(facts) /\ facts \subseteq Ids(events) /\ IsInjective(events)
  BY DEF LogInv, Logged
<1>5. events \in Seq(EventId) /\ Ids(events) \subseteq EventId /\ Len(events) \in Nat
  <2>1. events \in Seq(EventId)
    BY DEF LogInv, TypeOK
  <2>2. QED
    BY <2>1, IdsCount
<1>6. \A k \in Keys : /\ Counted(I, k) \in Nat /\ aggs[k] = Counted(facts, k)
                      /\ Counted(facts \cup I, k) = Counted(facts, k) + Counted(I, k)
  <2>1. facts \cap I = {}
    BY <1>3
  <2>2. IsFiniteSet(I)
    BY <1>3
  <2>3. \A k \in Keys : aggs[k] = Counted(facts, k)
    BY DEF LogInv, AggregatesMatchFacts
  <2>4. ASSUME NEW k \in Keys
        PROVE  /\ Counted(I, k) \in Nat
               /\ Counted(facts \cup I, k) = Counted(facts, k) + Counted(I, k)
    <3> DEFINE S == facts
    <3>1. IsFiniteSet(S) /\ S \cap I = {}
      BY <1>4, <2>1
    <3> HIDE DEF S
    <3>2. AddsUp(S, I, k)
      BY ONLY <2>2, <3>1, CountedSplits
    <3>3. QED
      BY <3>2 DEF S, AddsUp
  <2>5. QED
    BY ONLY <2>3, <2>4
<1>7. AggregatesMatchFacts'
  BY <1>1, <1>2, <1>6 DEF AggregatesMatchFacts, Counted
<1>8. checkpoint \in Nat /\ Covered(checkpoint)
  BY DEF LogInv, TypeOK, Passed
<1>9. checkpoint' \in {checkpoint, high}
  BY <1>2, <1>3, <1>8, MaxOfTwo
<1>10. StillCovered
  BY <1>1, <1>5 DEF StillCovered, Covered, CoveredIn
<1>11. Covered(checkpoint)'
  BY <1>1, <1>3, <1>8, <1>9, <1>10 DEF StillCovered, Covered
<1>12. now \in Projector
  BY <1>3 DEF Projector
<1>13. TypeOK'
  <2>1. aggs' \in [Keys -> Nat]
    BY <1>2, <1>6 DEF LogInv, TypeOK
  <2>2. facts' \subseteq EventId /\ checkpoint' \in Nat
    BY <1>1, <1>3, <1>4, <1>5, <1>8, <1>9
  <2>3. proj' \in [Projectors -> Projector]
    BY <1>1, <1>12 DEF LogInv, TypeOK
  <2>4. QED
    BY <1>1, <2>1, <2>2, <2>3 DEF LogInv, TypeOK
<1>14. CoveredIn(events', facts', now.lastID) /\ now.at # "read"
  BY <1>1, <1>3
<1> HIDE DEF now
<1>15. Passed'
  BY <1>1, <1>10, <1>11, <1>13, <1>14, ProjectorSteps
<1>16. Logged'
  <2>1. IsFiniteSet(facts \cup I)
    BY <1>3, <1>4, FS_Union
  <2>2. QED
    BY <1>1, <1>3, <1>4, <2>1 DEF Logged, Ids
<1>17. RowsKept'
  BY <1>1, RowsStay DEF InLog, Ids
<1>18. QED
  BY <1>7, <1>13, <1>15, <1>16, <1>17 DEF LogInv

LEMMA SourceGrowsKeeps ==
  ASSUME LogInv, SourceGrows PROVE LogInv'
<1>1. UNCHANGED <<events, facts, aggs, checkpoint, proj, import, saved, lost, crashes>>
      /\ rows < MaxRows /\ rows' = rows + 1
  BY DEF SourceGrows
<1>2. rows \in Nat /\ MaxRows \in Nat /\ saved.last \in Nat /\ import.upto \in Nat
  BY LogAssumption DEF LogInv, TypeOK, Import
<1>3. TypeOK'
  BY <1>1, <1>2 DEF LogInv, TypeOK
<1>4. StillCovered /\ Covered(checkpoint)' /\ Logged' /\ \A r : InLog(r)' = InLog(r)
  BY <1>1, SameCovered, SameLog
<1>5. RowsKept'
  BY <1>1, <1>2, <1>4 DEF LogInv, RowsKept
<1>6. QED
  BY <1>1, <1>3, <1>4, <1>5, PassedStays, SameTotals DEF LogInv

LEMMA ImportReadsKeeps ==
  ASSUME LogInv, ImportReads PROVE LogInv'
<1>1. UNCHANGED <<events, facts, aggs, checkpoint, proj, saved, lost, crashes>> /\ import.at = "off"
  BY DEF ImportReads
<1>2. PICK seen \in {rows, rows + 1} \cap Fingerprints :
        /\ rows' = seen
        /\ import' = [at |-> "read", print |-> IF saved.print = None THEN rows ELSE saved.print,
                      after |-> saved.last, upto |-> seen]
  BY DEF ImportReads
<1>3. rows \in Nat /\ seen \in Nat /\ rows <= seen /\ seen \in 0..MaxRows /\ rows \in 0..MaxRows
      /\ saved.last \in 0..MaxRows /\ saved.last <= rows
  BY <1>2, LogAssumption DEF LogInv, TypeOK, Fingerprints, RowsKept
<1>4. (IF saved.print = None THEN rows ELSE saved.print) \in Fingerprints
  <2>1. saved.print \in Fingerprints \cup {None} /\ rows \in Fingerprints
    BY DEF LogInv, TypeOK, Fingerprints
  <2>2. QED
    BY <2>1
<1>5. import' \in Import
  BY <1>2, <1>3, <1>4 DEF Import
<1>6. TypeOK'
  BY <1>1, <1>2, <1>3, <1>5 DEF LogInv, TypeOK
<1>7. StillCovered /\ Covered(checkpoint)' /\ Logged' /\ \A r : InLog(r)' = InLog(r)
  BY <1>1, SameCovered, SameLog
<1>8. RowsKept'
  <2>1. import'.at = "read" /\ import'.after = saved.last /\ import'.upto = seen
    BY <1>2
  <2>2. saved'.last <= rows' /\ import'.after <= import'.upto /\ import'.upto <= rows'
    BY <1>1, <1>2, <1>3, <2>1
  <2>3. \A r \in 1..saved'.last \ lost' : InLog(r)'
    BY <1>1, <1>7 DEF LogInv, RowsKept
  <2>4. QED
    BY <1>1, <2>1, <2>2, <2>3 DEF RowsKept
<1>9. QED
  BY <1>1, <1>6, <1>7, <1>8, PassedStays, SameTotals DEF LogInv

LEMMA ImportAppendsKeeps ==
  ASSUME LogInv, ImportAppends PROVE LogInv'
<1> DEFINE N == import.upto - import.after
           batch == ImportedRows
           moved == [import EXCEPT !.at = "appended"]
           now == [at |-> "idle", lastID |-> checkpoint, maxID |-> 0]
<1>0. PICK failed \in SUBSET DOMAIN batch :
        /\ events' = Appended(events, batch, failed)
        /\ lost' = lost \cup {batch[i].row : i \in failed}
  BY DEF ImportAppends
<1>1. /\ UNCHANGED <<facts, aggs, checkpoint, rows, saved, crashes>> /\ import.at = "read"
      /\ import' = moved
      /\ proj' = [proj EXCEPT !["drain"] = now] /\ "drain" \in Projectors
  <2>1. [Off EXCEPT !.at = "idle", !.lastID = checkpoint] = now
    <3>1. [Off EXCEPT !.at = "idle"] = [at |-> "idle", lastID |-> 0, maxID |-> 0]
      BY DEF Off
    <3>2. [[at |-> "idle", lastID |-> 0, maxID |-> 0] EXCEPT !.lastID = checkpoint] = now
      OBVIOUS
    <3>3. QED
      BY <3>1, <3>2, Zenon
  <2>2. proj' = [proj EXCEPT !["drain"] = now]
    BY <2>1, Zenon DEF ImportAppends
  <2>3. QED
    BY <2>2 DEF ImportAppends, Projectors
<1>2. /\ import \in Import /\ import.after = saved.last /\ import.after <= import.upto
      /\ import.upto <= rows /\ import.print \in Fingerprints
      /\ import.after \in Nat /\ import.upto \in Nat /\ import.upto <= MaxRows /\ MaxRows \in Nat
  BY <1>1, LogAssumption DEF LogInv, TypeOK, RowsKept, Import
<1>3. N \in Nat /\ \A i \in 1..N : import.after + i \in 1..MaxRows
  BY <1>2
<1>4. \A i \in 1..N : [print |-> import.print, row |-> import.after + i] \in Imported
  BY <1>2, <1>3 DEF Imported
<1>5. batch \in Seq(EventId) /\ Len(batch) = N
  <2>1. batch = [i \in 1..N |-> [print |-> import.print, row |-> import.after + i]]
    BY DEF ImportedRows
  <2>2. Imported \subseteq EventId
    BY DEF EventId
  <2> HIDE DEF batch, N
  <2>3. QED
    BY <1>3, <1>4, <2>1, <2>2
<1>6. \A r \in (import.after + 1)..import.upto \ lost' : \E e \in Accepted(batch, failed) \cap Imported : e.row = r
  <2> SUFFICES ASSUME NEW r \in (import.after + 1)..import.upto, r \notin lost'
               PROVE  \E e \in Accepted(batch, failed) \cap Imported : e.row = r
    OBVIOUS
  <2> DEFINE i == r - import.after
             e == [print |-> import.print, row |-> import.after + i]
  <2>1. i \in 1..N /\ import.after + i = r
    BY <1>2
  <2>2. e \in Imported /\ e.row = r
    BY <1>4, <2>1
  <2>3. batch[i] = e /\ i \in DOMAIN batch
    BY <2>1 DEF ImportedRows
  <2> HIDE DEF e, i, batch
  <2>4. i \notin failed
    BY <1>0, <2>2, <2>3
  <2>5. QED
    BY <2>2, <2>3, <2>4 DEF Accepted
<1>61. lost' \subseteq 1..MaxRows /\ lost \subseteq lost'
  <2>1. DOMAIN batch = 1..N /\ \A i \in 1..N : batch[i].row = import.after + i
    BY DEF ImportedRows
  <2>2. lost \subseteq 1..MaxRows
    BY DEF LogInv, TypeOK
  <2> HIDE DEF batch, N
  <2>3. QED
    BY <1>0, <1>3, <2>1, <2>2
<1> HIDE DEF batch, N
<1>7. /\ events' \in Seq(EventId) /\ Logged' /\ StillCovered
      /\ Ids(events') = Ids(events) \cup Accepted(batch, failed) /\ \A r : InLog(r) => InLog(r)'
  BY <1>0, <1>1, <1>5, LogGrows DEF StillCovered
<1>8. checkpoint \in Nat /\ Covered(checkpoint)
  BY DEF LogInv, TypeOK, Passed
<1>9. moved \in Import /\ moved = [at |-> "appended", print |-> import.print,
                                    after |-> import.after, upto |-> import.upto]
  BY <1>2 DEF Import
<1>10. now \in Projector /\ CoveredIn(events', facts', now.lastID) /\ now.at # "read"
  BY <1>7, <1>8 DEF Projector, StillCovered
<1>11. Covered(checkpoint)'
  BY <1>1, <1>7, <1>8 DEF StillCovered, Covered
<1>12. TypeOK'
  BY <1>1, <1>7, <1>9, <1>10, <1>61 DEF LogInv, TypeOK
<1> HIDE DEF now
<1>13. Passed'
  BY <1>1, <1>7, <1>10, <1>11, <1>12, ProjectorSteps
<1>14. RowsKept'
  <2>1. import'.at = "appended" /\ import'.after = import.after /\ import'.upto = import.upto
    BY <1>1, <1>9
  <2>2. \A r \in 1..saved.last \ lost' : InLog(r)'
    BY <1>7, <1>61 DEF LogInv, RowsKept
  <2>3. ASSUME NEW r \in 1..import.upto \ lost'
        PROVE  InLog(r)'
    <3>1. r \in 1..saved.last \/ r \in (import.after + 1)..import.upto
      BY <1>2
    <3>2. QED
      BY <1>6, <1>7, <2>2, <3>1 DEF InLog
  <2>4. saved.last <= rows
    BY DEF LogInv, RowsKept
  <2>5. QED
    BY <1>1, <1>2, <2>1, <2>2, <2>3, <2>4 DEF RowsKept
<1>15. QED
  BY <1>1, <1>7, <1>12, <1>13, <1>14, SameTotals DEF LogInv

LEMMA ImportEndsKeeps ==
  ASSUME LogInv, ImportEnds PROVE LogInv'
<1>1. /\ UNCHANGED <<events, facts, aggs, checkpoint, rows, lost, crashes>> /\ import.at = "appended"
      /\ saved' = (IF import.upto > saved.last THEN [print |-> import.print, last |-> import.upto] ELSE saved)
      /\ import' = NoImport /\ proj' = [proj EXCEPT !["drain"] = Off] /\ "drain" \in Projectors
  BY DEF ImportEnds, Projectors
<1>2. /\ import.print \in Fingerprints /\ import.upto \in 0..MaxRows /\ import.upto <= rows
      /\ \A r \in 1..import.upto \ lost : InLog(r)
  BY <1>1 DEF LogInv, TypeOK, Import, RowsKept
<1>3. saved \in [print : Fingerprints \cup {None}, last : 0..MaxRows] /\ saved.last <= rows
      /\ \A r \in 1..saved.last \ lost : InLog(r)
  BY DEF LogInv, TypeOK, RowsKept
<1>4. /\ saved' \in [print : Fingerprints \cup {None}, last : 0..MaxRows] /\ saved'.last <= rows
      /\ \A r \in 1..saved'.last \ lost : InLog(r)
  <2>1. CASE import.upto > saved.last
    BY <1>1, <1>2, <2>1
  <2>2. CASE ~(import.upto > saved.last)
    BY <1>1, <1>3, <2>2
  <2>3. QED
    BY <2>1, <2>2
<1>5. NoImport \in Import /\ NoImport.at = "off"
  BY LogAssumption DEF NoImport, Import, Fingerprints
<1>6. TypeOK'
  BY <1>1, <1>4, <1>5, OffHolds DEF LogInv, TypeOK
<1>7. StillCovered /\ Covered(checkpoint)' /\ Logged' /\ \A r : InLog(r)' = InLog(r)
  BY <1>1, SameCovered, SameLog
<1>8. Passed'
  BY <1>1, <1>6, <1>7, OffHolds, ProjectorSteps
<1>9. RowsKept'
  BY <1>1, <1>4, <1>5, <1>7 DEF RowsKept
<1>10. QED
  BY <1>1, <1>6, <1>7, <1>8, <1>9, SameTotals DEF LogInv

LEMMA ImportAbortsKeeps ==
  ASSUME LogInv, ImportAborts PROVE LogInv'
<1>1. /\ UNCHANGED <<events, facts, aggs, checkpoint, rows, saved, lost>> /\ crashes' \in 0..MaxCrashes
      /\ import' = NoImport /\ proj' = [proj EXCEPT !["drain"] = Off] /\ "drain" \in Projectors
  BY LogAssumption DEF ImportAborts, Projectors, LogInv, TypeOK
<1>2. NoImport \in Import /\ NoImport.at = "off"
  BY LogAssumption DEF NoImport, Import, Fingerprints
<1>3. TypeOK'
  BY <1>1, <1>2, OffHolds DEF LogInv, TypeOK
<1>4. StillCovered /\ Covered(checkpoint)' /\ Logged' /\ \A r : InLog(r)' = InLog(r)
  BY <1>1, SameCovered, SameLog
<1>5. Passed'
  BY <1>1, <1>3, <1>4, OffHolds, ProjectorSteps
<1>6. RowsKept'
  BY <1>1, <1>2, <1>4 DEF LogInv, RowsKept
<1>7. QED
  BY <1>1, <1>3, <1>4, <1>5, <1>6, SameTotals DEF LogInv

LEMMA LogInvKept ==
  ASSUME LogInv, Next \/ UNCHANGED vars
  PROVE  LogInv'
<1>1. CASE UNCHANGED vars
  BY <1>1 DEF vars, LogInv, TypeOK, Logged, Passed, Covered, AggregatesMatchFacts, RowsKept, InLog
<1>2. CASE Next
  BY <1>2, AppendBatchKeeps, DaemonStartsKeeps, DaemonStopsKeeps, ReadKeeps, ApplyFailsKeeps, ApplyKeeps,
     SourceGrowsKeeps, ImportReadsKeeps, ImportAppendsKeeps, ImportEndsKeeps, ImportAbortsKeeps DEF Next
<1>3. QED
  BY <1>1, <1>2

LEMMA LogInvSound == LogInv => TypeOK /\ ProjectionSound
<1> SUFFICES ASSUME LogInv PROVE ProjectionSound
  BY DEF LogInv
<1>1. CheckpointCovers
  BY DEF LogInv, Passed, Covered, CoveredIn, CheckpointCovers
<1>2. ImportKept
  <2>1. ASSUME NEW r \in 1..saved.last \ lost
        PROVE  \E i \in DOMAIN events : events[i] \in Imported /\ events[i].row = r
    <3>1. PICK e \in Ids(events) \cap Imported : e.row = r
      BY DEF LogInv, RowsKept, InLog
    <3>2. QED
      BY <3>1 DEF Ids
  <2>2. \A e \in facts : \E i \in DOMAIN events : events[i] = e
    BY DEF LogInv, Logged, Ids
  <2>3. QED
    BY <2>1, <2>2 DEF ImportKept, LogInv, Logged
<1>3. QED
  BY <1>1, <1>2 DEF LogInv, ProjectionSound

(***************************************************************************)
(* gatewayd's client: who has each event, and how it was counted.          *)
(***************************************************************************)

Senders == Client!Senders
Event == Client!Event

(* The events the goroutines hold, when h says what batch each has.         *)
InHands(h) == UNION {Ids(h[s]) : s \in Senders}

(* The accounts of e events emitted, with batches h in hand, a buffer b, a  *)
(* log l, n counted as sent and d as dropped.                               *)
AccountsOf(h, b, l, e, n, d) ==
  /\ IsInjective(b) /\ \A s \in Senders : IsInjective(h[s])
  /\ \A s, t \in Senders : s # t => Ids(h[s]) \cap Ids(h[t]) = {}
  /\ InHands(h) \cap Ids(b) = {}
  /\ InHands(h) \subseteq 1..e /\ Ids(b) \subseteq 1..e /\ Ids(l) \subseteq 1..e
  /\ Ids(b) \cap Ids(l) = {}
  /\ n + d + Cardinality(InHands(h)) + Len(b) = e
  /\ IsInjective(l) /\ n <= Cardinality(Ids(l) \ InHands(h))

AccountTypes(h, b, l, e, n, d) ==
  /\ h \in [Senders -> Seq(Event)] /\ b \in Seq(Event) /\ l \in Seq(Event)
  /\ e \in Nat /\ n \in Nat /\ d \in Nat

LEMMA UpToFinite ==
  ASSUME NEW e \in Nat, NEW S, S \subseteq 1..e
  PROVE  IsFiniteSet(S) /\ Cardinality(S) \in Nat /\ Cardinality(S) <= e
<1>1. IsFiniteSet(1..e) /\ Cardinality(1..e) = IF 1 > e THEN 0 ELSE e - 1 + 1
  BY FS_Interval
<1>2. Cardinality(1..e) = e
  BY <1>1
<1>3. QED
  BY <1>1, <1>2, FS_Subset, FS_CardinalityType

(* Two sets without a common member.                                        *)
LEMMA CardOfTwo ==
  ASSUME NEW S, IsFiniteSet(S), NEW T, IsFiniteSet(T), S \cap T = {}
  PROVE  /\ Cardinality(S) \in Nat /\ Cardinality(T) \in Nat
         /\ Cardinality(S \cup T) = Cardinality(S) + Cardinality(T)
<1>1. Cardinality(S) \in Nat /\ Cardinality(T) \in Nat
  BY FS_CardinalityType
<1>2. Cardinality(S \cup T) = Cardinality(S) + Cardinality(T) - Cardinality(S \cap T)
  BY FS_Union
<1>3. Cardinality(S \cap T) = 0
  BY FS_EmptySet
<1>4. \A a, b, c \in Nat : c = 0 => a + b - c = a + b
  OBVIOUS
<1>5. QED
  BY <1>1, <1>2, <1>3, <1>4

(* One batch is replaced.                                                   *)
LEMMA HandsChange ==
  ASSUME NEW h \in [Senders -> Seq(Event)], NEW s \in Senders, NEW b,
         \A t, u \in Senders : t # u => Ids(h[t]) \cap Ids(h[u]) = {}
  PROVE  /\ InHands([h EXCEPT ![s] = b]) = (InHands(h) \ Ids(h[s])) \cup Ids(b)
         /\ Ids(h[s]) \subseteq InHands(h)
<1> DEFINE g == [h EXCEPT ![s] = b]
<1>1. \A t \in Senders : g[t] = IF t = s THEN b ELSE h[t]
  OBVIOUS
<1> HIDE DEF g
<1>2. \A x : x \in InHands(g) <=> \E t \in Senders : x \in Ids(g[t])
  BY DEF InHands
<1>3. \A x : x \in InHands(h) <=> \E t \in Senders : x \in Ids(h[t])
  BY DEF InHands
<1>4. ASSUME NEW x
      PROVE  x \in InHands(g) <=> x \in (InHands(h) \ Ids(h[s])) \cup Ids(b)
  <2>1. ASSUME x \in InHands(g) PROVE x \in (InHands(h) \ Ids(h[s])) \cup Ids(b)
    <3>1. PICK t \in Senders : x \in Ids(g[t])
      BY <1>2, <2>1
    <3>2. CASE t = s
      BY <1>1, <3>1, <3>2
    <3>3. CASE t # s
      <4>1. x \in Ids(h[t]) /\ x \notin Ids(h[s])
        BY <1>1, <3>1, <3>3
      <4>2. QED
        BY <1>3, <4>1
    <3>4. QED
      BY <3>2, <3>3
  <2>2. ASSUME x \in Ids(b) PROVE x \in InHands(g)
    BY <1>1, <1>2, <2>2
  <2>3. ASSUME x \in InHands(h), x \notin Ids(h[s]) PROVE x \in InHands(g)
    <3>1. PICK t \in Senders : x \in Ids(h[t])
      BY <1>3, <2>3
    <3>2. t # s
      BY <2>3, <3>1
    <3>3. QED
      BY <1>1, <1>2, <3>1, <3>2
  <2>4. QED
    BY <2>1, <2>2, <2>3
<1>5. QED
  BY <1>3, <1>4 DEF g

LEMMA EmptyIds == Ids(<<>>) = {} /\ IsInjective(<<>>)
BY DEF Ids, IsInjective

(* A goroutine takes the buffer.                                            *)
LEMMA AccountsSwapped ==
  ASSUME NEW h, NEW b, NEW l, NEW e, NEW n, NEW d, AccountTypes(h, b, l, e, n, d),
         AccountsOf(h, b, l, e, n, d), NEW s \in Senders, h[s] = <<>>
  PROVE  AccountsOf([h EXCEPT ![s] = b], <<>>, l, e, n, d)
<1> DEFINE g == [h EXCEPT ![s] = b]
<1>1. InHands(g) = InHands(h) \cup Ids(b) /\ InHands(h) \cap Ids(b) = {}
  <2>1. \A t, u \in Senders : t # u => Ids(h[t]) \cap Ids(h[u]) = {}
    BY DEF AccountsOf
  <2>2. h \in [Senders -> Seq(Event)]
    BY DEF AccountTypes
  <2>3. InHands(g) = (InHands(h) \ Ids(h[s])) \cup Ids(b)
    BY <2>1, <2>2, HandsChange
  <2>4. QED
    BY <2>3, EmptyIds DEF AccountsOf
<1>2. \A t \in Senders : g[t] = IF t = s THEN b ELSE h[t]
  BY DEF AccountTypes
<1> HIDE DEF g
<1>3. \A t \in Senders : IsInjective(g[t])
  BY <1>2 DEF AccountsOf
<1>4. \A t \in Senders : t # s => Ids(h[t]) \subseteq InHands(h)
  BY DEF InHands
<1>5. ASSUME NEW t \in Senders, NEW u \in Senders, t # u
      PROVE  Ids(g[t]) \cap Ids(g[u]) = {}
  <2>1. CASE t = s
    BY <1>1, <1>2, <1>4, <1>5, <2>1
  <2>2. CASE u = s
    BY <1>1, <1>2, <1>4, <1>5, <2>2
  <2>3. CASE t # s /\ u # s
    BY <1>2, <1>5, <2>3 DEF AccountsOf
  <2>4. QED
    BY <2>1, <2>2, <2>3
<1>6. Cardinality(InHands(g)) = Cardinality(InHands(h)) + Len(b)
      /\ Cardinality(InHands(h)) \in Nat /\ Len(b) \in Nat
  <2>1. IsFiniteSet(InHands(h)) /\ IsFiniteSet(Ids(b))
    BY UpToFinite DEF AccountsOf, AccountTypes
  <2>2. Cardinality(Ids(b)) = Len(b) /\ Len(b) \in Nat
    BY IdsCount DEF AccountsOf, AccountTypes
  <2>3. QED
    BY <1>1, <2>1, <2>2, CardOfTwo
<1>7. n + d + Cardinality(InHands(g)) + Len(<<>>) = e
  <2>1. n + d + Cardinality(InHands(h)) + Len(b) = e /\ n \in Nat /\ d \in Nat /\ e \in Nat
    BY DEF AccountsOf, AccountTypes
  <2>2. \A p, q \in Nat : n + d + p + q = e => n + d + (p + q) + 0 = e
    BY <2>1
  <2>3. QED
    BY <1>6, <2>1, <2>2
<1>8. Ids(l) \ InHands(g) = Ids(l) \ InHands(h)
  BY <1>1 DEF AccountsOf
<1>9. QED
  BY <1>1, <1>3, <1>5, <1>7, <1>8, EmptyIds DEF AccountsOf, g

(* A goroutine lets its batch go: k of it are counted as sent, and no more  *)
(* than k are in the log.                                                   *)
LEMMA AccountsReleased ==
  ASSUME NEW h, NEW b, NEW l, NEW e, NEW n, NEW d, AccountTypes(h, b, l, e, n, d),
         AccountsOf(h, b, l, e, n, d), NEW s \in Senders,
         NEW k \in Nat, k <= Cardinality(Ids(h[s]) \cap Ids(l))
  PROVE  /\ AccountsOf([h EXCEPT ![s] = <<>>], b, l, e, n + k, d + (Len(h[s]) - k))
         /\ Len(h[s]) - k \in Nat
<1> DEFINE g == [h EXCEPT ![s] = <<>>]
           H == Ids(h[s])
           L == Ids(l)
<1>1. InHands(g) = InHands(h) \ H /\ H \subseteq InHands(h)
  <2>1. \A t, u \in Senders : t # u => Ids(h[t]) \cap Ids(h[u]) = {}
    BY DEF AccountsOf
  <2>2. h \in [Senders -> Seq(Event)]
    BY DEF AccountTypes
  <2>3. InHands(g) = (InHands(h) \ H) \cup Ids(<<>>) /\ H \subseteq InHands(h)
    BY <2>1, <2>2, HandsChange
  <2>4. QED
    BY <2>3, EmptyIds
<1>2. \A t \in Senders : g[t] = IF t = s THEN <<>> ELSE h[t]
  BY DEF AccountTypes
<1>3. Cardinality(H) = Len(h[s]) /\ IsFiniteSet(H) /\ Len(h[s]) \in Nat
  BY IdsCount DEF AccountsOf, AccountTypes
<1>4. /\ IsFiniteSet(InHands(h)) /\ IsFiniteSet(L) /\ InHands(h) \subseteq 1..e
      /\ n <= Cardinality(L \ InHands(h)) /\ n \in Nat /\ d \in Nat /\ e \in Nat
      /\ n + d + Cardinality(InHands(h)) + Len(b) = e /\ Len(b) \in Nat
  BY UpToFinite DEF AccountsOf, AccountTypes
<1> HIDE DEF g, H, L
<1>5. IsFiniteSet(InHands(g)) /\ IsFiniteSet(H \cap L) /\ IsFiniteSet(L \ InHands(h))
  BY <1>1, <1>3, <1>4, FS_Difference, FS_Intersection
<1>6. Cardinality(InHands(h)) = Cardinality(InHands(g)) + Len(h[s]) /\ Cardinality(InHands(g)) \in Nat
  <2>1. InHands(h) = InHands(g) \cup H /\ InHands(g) \cap H = {}
    BY <1>1
  <2>2. QED
    BY <1>3, <1>5, <2>1, CardOfTwo
<1>7. k <= Cardinality(H \cap L) /\ Cardinality(H \cap L) <= Cardinality(H) /\ Cardinality(H \cap L) \in Nat
  <2>1. k <= Cardinality(H \cap L)
    BY DEF H, L
  <2>2. QED
    BY <1>3, <1>5, <2>1, FS_Intersection, FS_CardinalityType
<1>8. Len(h[s]) - k \in Nat
  BY <1>3, <1>7
<1>9. (n + k) + (d + (Len(h[s]) - k)) + Cardinality(InHands(g)) + Len(b) = e
  <2> DEFINE c == Cardinality(InHands(g))
             q == Len(h[s])
             z == Len(b)
             v == Cardinality(InHands(h))
  <2>1. c \in Nat /\ q \in Nat /\ z \in Nat /\ v = c + q /\ n + d + v + z = e
    BY <1>3, <1>4, <1>6
  <2> HIDE DEF c, q, z, v
  <2>2. (n + k) + (d + (q - k)) + c + z = e
    BY <1>4, <2>1
  <2>3. QED
    BY <2>2 DEF c, q, z
<1>10. n + k <= Cardinality(L \ InHands(g))
  <2> DEFINE A == L \ InHands(h)
             B == H \cap L
  <2>1. L \ InHands(g) = A \cup B /\ A \cap B = {}
    BY <1>1
  <2>2. IsFiniteSet(A) /\ IsFiniteSet(B) /\ n <= Cardinality(A) /\ k <= Cardinality(B)
    BY <1>4, <1>5, <1>7
  <2> HIDE DEF A, B
  <2>3. Cardinality(A \cup B) = Cardinality(A) + Cardinality(B)
        /\ Cardinality(A) \in Nat /\ Cardinality(B) \in Nat
    BY <2>1, <2>2, CardOfTwo
  <2>4. n + k <= Cardinality(A) + Cardinality(B)
    BY <1>4, <2>2, <2>3
  <2>5. QED
    BY <2>1, <2>3, <2>4
<1>11. \A t \in Senders : IsInjective(g[t])
  BY <1>2, EmptyIds DEF AccountsOf
<1>12. \A t, u \in Senders : t # u => Ids(g[t]) \cap Ids(g[u]) = {}
  BY <1>2, EmptyIds DEF AccountsOf
<1>13. /\ IsInjective(b) /\ InHands(g) \cap Ids(b) = {} /\ InHands(g) \subseteq 1..e
       /\ Ids(b) \subseteq 1..e /\ Ids(l) \subseteq 1..e /\ Ids(b) \cap Ids(l) = {} /\ IsInjective(l)
  BY <1>1 DEF AccountsOf
<1>14. AccountsOf(g, b, l, e, n + k, d + (Len(h[s]) - k))
  BY ONLY <1>9, <1>10, <1>11, <1>12, <1>13, Zenon DEF AccountsOf, L
<1>15. QED
  BY <1>8, <1>14 DEF g

(* telemetryd appends a batch that some goroutine holds.                    *)
LEMMA AccountsStored ==
  ASSUME NEW h, NEW b, NEW l, NEW e, NEW n, NEW d, AccountTypes(h, b, l, e, n, d),
         AccountsOf(h, b, l, e, n, d), NEW s \in Senders, NEW failed
  PROVE  AccountsOf(h, b, Appended(l, h[s], failed), e, n, d)
<1> DEFINE m == Appended(l, h[s], failed)
           had == Accepted(h[s], failed)
<1>1. l \in Seq(Event) /\ h[s] \in Seq(Event)
  BY DEF AccountTypes
<1>2. m \in Seq(Event) /\ Ids(m) = Ids(l) \cup had /\ (IsInjective(l) => IsInjective(m))
  BY <1>1, AppendedGrows DEF Grown
<1> HIDE DEF m
<1>3. had \subseteq InHands(h)
  BY DEF InHands, Accepted, Ids
<1> HIDE DEF had
<1>4. Ids(m) \ InHands(h) = Ids(l) \ InHands(h)
  BY <1>2, <1>3
<1>5. Ids(m) \subseteq 1..e /\ Ids(b) \cap Ids(m) = {} /\ IsInjective(m)
  BY <1>2, <1>3 DEF AccountsOf
<1>6. AccountsOf(h, b, m, e, n, d)
  BY <1>4, <1>5 DEF AccountsOf
<1>7. QED
  BY <1>6 DEF m

(* What telemetryd answers is fresh are events of the batch it now has.     *)
LEMMA FreshAreStored ==
  ASSUME NEW l \in Seq(Event), IsInjective(l), NEW batch \in Seq(Event), NEW failed
  PROVE  /\ Len(Appended(l, batch, failed)) - Len(l) \in Nat
         /\ Len(Appended(l, batch, failed)) - Len(l)
              <= Cardinality(Ids(batch) \cap Ids(Appended(l, batch, failed)))
<1> DEFINE m == Appended(l, batch, failed)
           had == Accepted(batch, failed)
           A == Ids(l)
           B == had \ Ids(l)
           C == Ids(batch) \cap Ids(m)
<1>1. m \in Seq(Event) /\ Ids(m) = A \cup had /\ IsInjective(m)
  BY AppendedGrows DEF Grown
<1> HIDE DEF m
<1>11. had \subseteq Ids(batch)
  BY DEF Accepted, Ids
<1> HIDE DEF had
<1>2. IsFiniteSet(A) /\ IsFiniteSet(Ids(batch)) /\ Cardinality(A) = Len(l) /\ Cardinality(Ids(m)) = Len(m)
  BY <1>1, IdsCount
<1>3. Ids(m) = A \cup B /\ A \cap B = {} /\ B \subseteq C /\ C \subseteq Ids(batch)
  BY <1>1, <1>11
<1> HIDE DEF C
<1>4. IsFiniteSet(B) /\ Cardinality(B) <= Cardinality(C) /\ Cardinality(C) \in Nat
  <2>1. IsFiniteSet(C)
    BY <1>2, <1>3, FS_Subset
  <2>2. QED
    BY <1>3, <2>1, FS_Subset, FS_CardinalityType
<1> HIDE DEF A, B
<1>5. Cardinality(A \cup B) = Cardinality(A) + Cardinality(B) /\ Cardinality(A) \in Nat /\ Cardinality(B) \in Nat
  BY <1>2, <1>3, <1>4, CardOfTwo
<1>6. Len(m) - Len(l) = Cardinality(B)
  BY <1>2, <1>3, <1>5
<1>7. QED
  BY <1>4, <1>5, <1>6 DEF m, C

(* Emit: the newest event comes, the oldest j make room.                    *)
LEMMA AccountsEmitted ==
  ASSUME NEW h, NEW b, NEW l, NEW e, NEW n, NEW d, AccountTypes(h, b, l, e, n, d),
         AccountsOf(h, b, l, e, n, d), NEW j \in 0..Len(b)
  PROVE  AccountsOf(h, Append(SubSeq(b, 1 + j, Len(b)), e + 1), l, e + 1, n,
                    d + (Len(b) - Len(SubSeq(b, 1 + j, Len(b)))))
<1> DEFINE N == Len(b)
           kept == SubSeq(b, 1 + j, N)
           c == Append(kept, e + 1)
<1>1. b \in Seq(Event) /\ N \in Nat /\ e \in Nat /\ j \in 0..N /\ n \in Nat /\ d \in Nat
  BY DEF AccountTypes
<1>2. /\ kept \in Seq(Event) /\ Len(kept) = N - j /\ N - j \in Nat
      /\ \A i \in 1..(N - j) : kept[i] = b[i + j] /\ i + j \in 1..N
  <2> HIDE DEF N
  <2>1. N - j \in Nat /\ \A i \in 1..(N - j) : i + j \in 1..N
    BY <1>1
  <2>2. Len(b) = N
    BY DEF N
  <2>3. kept \in Seq(Event) /\ Len(kept) = N - j /\ \A i \in 1..(N - j) : kept[i] = b[i + j]
    BY <1>1, <2>1, <2>2
  <2>4. QED
    BY <2>1, <2>3
<1>3. /\ Len(c) = N - j + 1 /\ DOMAIN c = 1..(N - j + 1) /\ c[N - j + 1] = e + 1
      /\ \A i \in 1..(N - j) : c[i] = kept[i]
  BY <1>2
<1>4. DOMAIN b = 1..N
  BY <1>1
<1> HIDE DEF N, kept, c
<1>5. \A i \in 1..(N - j) : c[i] = b[i + j] /\ i + j \in DOMAIN b /\ c[i] \in Ids(b)
  BY <1>2, <1>3, <1>4 DEF Ids
<1>6. Ids(c) \subseteq Ids(b) \cup {e + 1}
  <2>1. \A i \in DOMAIN c : i \in 1..(N - j) \/ i = N - j + 1
    BY <1>2, <1>3
  <2>2. QED
    BY <1>3, <1>5, <2>1 DEF Ids
<1>7. e + 1 \notin 1..e /\ 1..e \subseteq 1..(e + 1) /\ e + 1 \in 1..(e + 1)
  BY <1>1
<1>8. IsInjective(c)
  <2> SUFFICES ASSUME NEW i \in DOMAIN c, NEW k \in DOMAIN c, c[i] = c[k]
               PROVE  i = k
    BY DEF IsInjective
  <2>1. \A m \in DOMAIN c : m \in 1..(N - j) \/ m = N - j + 1
    BY <1>2, <1>3
  <2>2. \A m \in 1..(N - j) : c[m] # e + 1
    BY <1>5, <1>7 DEF AccountsOf
  <2>3. CASE i \in 1..(N - j) /\ k \in 1..(N - j)
    <3>1. b[i + j] = b[k + j] /\ i + j \in DOMAIN b /\ k + j \in DOMAIN b
      BY <1>5, <2>3
    <3>2. i + j = k + j
      BY <3>1 DEF AccountsOf, IsInjective
    <3>3. QED
      BY <1>1, <2>3, <3>2
  <2>4. CASE ~(i \in 1..(N - j) /\ k \in 1..(N - j))
    BY <1>3, <2>1, <2>2, <2>4
  <2>5. QED
    BY <2>3, <2>4
<1>9. n + (d + (N - Len(kept))) + Cardinality(InHands(h)) + Len(c) = e + 1
  <2> DEFINE v == Cardinality(InHands(h))
             p == N - Len(kept)
             q == Len(c)
  <2>1. v \in Nat /\ p = j /\ q = N - j + 1 /\ n + d + v + N = e
    BY <1>1, <1>2, <1>3, UpToFinite DEF AccountsOf, N
  <2> HIDE DEF v, p, q
  <2>2. n + (d + p) + v + q = e + 1
    BY <1>1, <2>1
  <2>3. QED
    BY <2>2 DEF v, p, q
<1>10. InHands(h) \cap Ids(c) = {} /\ Ids(c) \cap Ids(l) = {} /\ Ids(c) \subseteq 1..(e + 1)
       /\ InHands(h) \subseteq 1..(e + 1) /\ Ids(l) \subseteq 1..(e + 1)
  BY <1>6, <1>7 DEF AccountsOf
<1>11. AccountsOf(h, c, l, e + 1, n, d + (N - Len(kept)))
  BY <1>8, <1>9, <1>10 DEF AccountsOf
<1>12. QED
  BY <1>11 DEF c, kept, N

(* What a goroutine's record owes to the log and to the connections made.   *)
FitsIn(r, table, n) ==
  /\ r.attempt < MaxAttempts
  /\ r.at \in {"idle", "spawned", "done"} => r.batch = <<>>
  /\ r.at = "calling" => r.on \in 1..n
  /\ r.fresh <= Cardinality(Ids(r.batch) \cap Ids(table))

hands == [s \in Senders |-> sender[s].batch]

(* The loop's last flush comes after Cancel, and takes all there is.        *)
LoopQuiet == sender[Loop].last \/ sender[Loop].at = "done" => cancelled /\ buffer = <<>>

Accounts == AccountsOf(hands, buffer, log, emitted, sent, dropped)

ClientInv ==
  /\ Client!TypeOK
  /\ \A s \in Senders : FitsIn(sender[s], log, Len(conns))
  /\ LoopQuiet /\ Accounts

LEMMA ClientConstants ==
  /\ Loop \notin Flushers /\ None \notin Callers /\ Senders = {Loop} \cup Flushers /\ Event = 1..MaxEvents
  /\ BatchSize \in Nat \ {0} /\ QueueSize \in Nat \ {0}
  /\ MaxAttempts \in Nat \ {0} /\ AskCap \in Nat
  /\ MaxEvents \in Nat /\ MaxDials \in Nat \ {0} /\ MaxOutages \in Nat
BY ClientsAssumption DEF Client!ClientAssumption, Senders, Client!Senders, Event, Client!Event

LEMMA ClientTyped ==
  ASSUME ClientInv
  PROVE  /\ AccountTypes(hands, buffer, log, emitted, sent, dropped)
         /\ sender \in [Senders -> Client!Sender]
         /\ Len(conns) \in Nat /\ DOMAIN conns = 1..Len(conns)
<1>1. sender \in [Senders -> Client!Sender]
  BY DEF ClientInv, Client!TypeOK, Senders
<1>2. \A s \in Senders : sender[s].batch \in Seq(Event)
  BY <1>1 DEF Client!Sender, Event
<1>3. hands \in [Senders -> Seq(Event)]
  BY <1>2 DEF hands
<1>4. buffer \in Seq(Event) /\ log \in Seq(Event) /\ emitted \in Nat /\ sent \in Nat /\ dropped \in Nat
  BY DEF ClientInv, Client!TypeOK, Event
<1>5. Len(conns) \in Nat /\ DOMAIN conns = 1..Len(conns)
  BY DEF ClientInv, Client!TypeOK
<1>6. QED
  BY <1>1, <1>3, <1>4, <1>5 DEF AccountTypes

(* A goroutine's record, field by field, and what is left of it in the      *)
(* steps that change several of them.                                       *)
Row(where, batch, a, on, found, answered, fresh, ask, last) ==
  [at |-> where, batch |-> batch, attempt |-> a, on |-> on, found |-> found,
   answered |-> answered, fresh |-> fresh, ask |-> ask, last |-> last]

LEMMA RowOf ==
  ASSUME NEW r \in Client!Sender
  PROVE  r = Row(r.at, r.batch, r.attempt, r.on, r.found, r.answered, r.fresh, r.ask, r.last)
BY DEF Row, Client!Sender

IsRow(r, where, batch, a, on, found, answered, fresh, ask, last) ==
  r = Row(where, batch, a, on, found, answered, fresh, ask, last)

(* One field of such a record is set.                                       *)
WithAt(r, v) == [r EXCEPT !.at = v]
WithBatch(r, v) == [r EXCEPT !.batch = v]
WithAttempt(r, v) == [r EXCEPT !.attempt = v]
WithOn(r, v) == [r EXCEPT !.on = v]
WithFound(r, v) == [r EXCEPT !.found = v]
WithAnswered(r, v) == [r EXCEPT !.answered = v]
WithFresh(r, v) == [r EXCEPT !.fresh = v]
WithAsk(r, v) == [r EXCEPT !.ask = v]
WithLast(r, v) == [r EXCEPT !.last = v]

LEMMA SetAt ==
  ASSUME NEW r, NEW a, NEW b, NEW c, NEW d, NEW e, NEW f, NEW g, NEW i, NEW j, NEW v,
         IsRow(r, a, b, c, d, e, f, g, i, j)
  PROVE  IsRow(WithAt(r, v), v, b, c, d, e, f, g, i, j)
BY SMTT(30) DEF Row, IsRow, WithAt

LEMMA SetBatch ==
  ASSUME NEW r, NEW a, NEW b, NEW c, NEW d, NEW e, NEW f, NEW g, NEW i, NEW j, NEW v,
         IsRow(r, a, b, c, d, e, f, g, i, j)
  PROVE  IsRow(WithBatch(r, v), a, v, c, d, e, f, g, i, j)
BY SMTT(30) DEF Row, IsRow, WithBatch

LEMMA SetAttempt ==
  ASSUME NEW r, NEW a, NEW b, NEW c, NEW d, NEW e, NEW f, NEW g, NEW i, NEW j, NEW v,
         IsRow(r, a, b, c, d, e, f, g, i, j)
  PROVE  IsRow(WithAttempt(r, v), a, b, v, d, e, f, g, i, j)
BY SMTT(30) DEF Row, IsRow, WithAttempt

LEMMA SetOn ==
  ASSUME NEW r, NEW a, NEW b, NEW c, NEW d, NEW e, NEW f, NEW g, NEW i, NEW j, NEW v,
         IsRow(r, a, b, c, d, e, f, g, i, j)
  PROVE  IsRow(WithOn(r, v), a, b, c, v, e, f, g, i, j)
BY SMTT(30) DEF Row, IsRow, WithOn

LEMMA SetFound ==
  ASSUME NEW r, NEW a, NEW b, NEW c, NEW d, NEW e, NEW f, NEW g, NEW i, NEW j, NEW v,
         IsRow(r, a, b, c, d, e, f, g, i, j)
  PROVE  IsRow(WithFound(r, v), a, b, c, d, v, f, g, i, j)
BY SMTT(30) DEF Row, IsRow, WithFound

LEMMA SetAnswered ==
  ASSUME NEW r, NEW a, NEW b, NEW c, NEW d, NEW e, NEW f, NEW g, NEW i, NEW j, NEW v,
         IsRow(r, a, b, c, d, e, f, g, i, j)
  PROVE  IsRow(WithAnswered(r, v), a, b, c, d, e, v, g, i, j)
BY SMTT(30) DEF Row, IsRow, WithAnswered

LEMMA SetFresh ==
  ASSUME NEW r, NEW a, NEW b, NEW c, NEW d, NEW e, NEW f, NEW g, NEW i, NEW j, NEW v,
         IsRow(r, a, b, c, d, e, f, g, i, j)
  PROVE  IsRow(WithFresh(r, v), a, b, c, d, e, f, v, i, j)
BY SMTT(30) DEF Row, IsRow, WithFresh

LEMMA SetAsk ==
  ASSUME NEW r, NEW a, NEW b, NEW c, NEW d, NEW e, NEW f, NEW g, NEW i, NEW j, NEW v,
         IsRow(r, a, b, c, d, e, f, g, i, j)
  PROVE  IsRow(WithAsk(r, v), a, b, c, d, e, f, g, v, j)
BY SMTT(30) DEF Row, IsRow, WithAsk

LEMMA SetLast ==
  ASSUME NEW r, NEW a, NEW b, NEW c, NEW d, NEW e, NEW f, NEW g, NEW i, NEW j, NEW v,
         IsRow(r, a, b, c, d, e, f, g, i, j)
  PROVE  IsRow(WithLast(r, v), a, b, c, d, e, f, g, i, v)
BY SMTT(30) DEF Row, IsRow, WithLast

LEMMA WaitingIs ==
  ASSUME ClientInv, NEW s \in Senders, NEW where, NEW a
  PROVE  Client!Waiting(s, where, a) =
           Row(where, sender[s].batch, a, 0, "open", FALSE, 0, sender[s].ask, sender[s].last)
<1> DEFINE w1 == WithAt(sender[s], where)
           w2 == WithAttempt(w1, a)
           w3 == WithOn(w2, 0)
           w4 == WithFound(w3, "open")
           w5 == WithAnswered(w4, FALSE)
           w6 == WithFresh(w5, 0)
<1>1. IsRow(sender[s], sender[s].at, sender[s].batch, sender[s].attempt, sender[s].on, sender[s].found, sender[s].answered, sender[s].fresh, sender[s].ask, sender[s].last)
  BY RowOf, ClientTyped DEF IsRow
<1>2. IsRow(w1, where, sender[s].batch, sender[s].attempt, sender[s].on, sender[s].found, sender[s].answered, sender[s].fresh, sender[s].ask, sender[s].last)
  BY ONLY <1>1, SetAt, Zenon DEF w1
<1> HIDE DEF w1
<1>3. IsRow(w2, where, sender[s].batch, a, sender[s].on, sender[s].found, sender[s].answered, sender[s].fresh, sender[s].ask, sender[s].last)
  BY ONLY <1>2, SetAttempt, Zenon DEF w2
<1> HIDE DEF w2
<1>4. IsRow(w3, where, sender[s].batch, a, 0, sender[s].found, sender[s].answered, sender[s].fresh, sender[s].ask, sender[s].last)
  BY ONLY <1>3, SetOn, Zenon DEF w3
<1> HIDE DEF w3
<1>5. IsRow(w4, where, sender[s].batch, a, 0, "open", sender[s].answered, sender[s].fresh, sender[s].ask, sender[s].last)
  BY ONLY <1>4, SetFound, Zenon DEF w4
<1> HIDE DEF w4
<1>6. IsRow(w5, where, sender[s].batch, a, 0, "open", FALSE, sender[s].fresh, sender[s].ask, sender[s].last)
  BY ONLY <1>5, SetAnswered, Zenon DEF w5
<1> HIDE DEF w5
<1>7. IsRow(w6, where, sender[s].batch, a, 0, "open", FALSE, 0, sender[s].ask, sender[s].last)
  BY ONLY <1>6, SetFresh, Zenon DEF w6
<1> HIDE DEF w6
<1>8. w6 = Client!Waiting(s, where, a)
  BY DEF w1, w2, w3, w4, w5, w6, WithAnswered, WithAt, WithAttempt, WithFound, WithFresh, WithOn, Client!Waiting
<1>9. QED
  BY ONLY <1>7, <1>8, Zenon DEF IsRow

LEMMA CallingIs ==
  ASSUME ClientInv, NEW s \in Senders
  PROVE  [sender[s] EXCEPT !.at = "calling", !.on = client, !.found = conns[client],
                           !.answered = FALSE, !.fresh = 0] =
           Row("calling", sender[s].batch, sender[s].attempt, client, conns[client], FALSE, 0, sender[s].ask, sender[s].last)
<1> DEFINE w1 == WithAt(sender[s], "calling")
           w2 == WithOn(w1, client)
           w3 == WithFound(w2, conns[client])
           w4 == WithAnswered(w3, FALSE)
           w5 == WithFresh(w4, 0)
<1>1. IsRow(sender[s], sender[s].at, sender[s].batch, sender[s].attempt, sender[s].on, sender[s].found, sender[s].answered, sender[s].fresh, sender[s].ask, sender[s].last)
  BY RowOf, ClientTyped DEF IsRow
<1>2. IsRow(w1, "calling", sender[s].batch, sender[s].attempt, sender[s].on, sender[s].found, sender[s].answered, sender[s].fresh, sender[s].ask, sender[s].last)
  BY ONLY <1>1, SetAt, Zenon DEF w1
<1> HIDE DEF w1
<1>3. IsRow(w2, "calling", sender[s].batch, sender[s].attempt, client, sender[s].found, sender[s].answered, sender[s].fresh, sender[s].ask, sender[s].last)
  BY ONLY <1>2, SetOn, Zenon DEF w2
<1> HIDE DEF w2
<1>4. IsRow(w3, "calling", sender[s].batch, sender[s].attempt, client, conns[client], sender[s].answered, sender[s].fresh, sender[s].ask, sender[s].last)
  BY ONLY <1>3, SetFound, Zenon DEF w3
<1> HIDE DEF w3
<1>5. IsRow(w4, "calling", sender[s].batch, sender[s].attempt, client, conns[client], FALSE, sender[s].fresh, sender[s].ask, sender[s].last)
  BY ONLY <1>4, SetAnswered, Zenon DEF w4
<1> HIDE DEF w4
<1>6. IsRow(w5, "calling", sender[s].batch, sender[s].attempt, client, conns[client], FALSE, 0, sender[s].ask, sender[s].last)
  BY ONLY <1>5, SetFresh, Zenon DEF w5
<1> HIDE DEF w5
<1>7. w5 = [sender[s] EXCEPT !.at = "calling", !.on = client, !.found = conns[client],
                           !.answered = FALSE, !.fresh = 0]
  BY DEF w1, w2, w3, w4, w5, WithAnswered, WithAt, WithFound, WithFresh, WithOn
<1>8. QED
  BY ONLY <1>6, <1>7, Zenon DEF IsRow

LEMMA AnsweredIs ==
  ASSUME ClientInv, NEW s \in Senders, NEW n
  PROVE  [sender[s] EXCEPT !.answered = TRUE, !.fresh = n] =
           Row(sender[s].at, sender[s].batch, sender[s].attempt, sender[s].on, sender[s].found, TRUE, n, sender[s].ask, sender[s].last)
<1> DEFINE w1 == WithAnswered(sender[s], TRUE)
           w2 == WithFresh(w1, n)
<1>1. IsRow(sender[s], sender[s].at, sender[s].batch, sender[s].attempt, sender[s].on, sender[s].found, sender[s].answered, sender[s].fresh, sender[s].ask, sender[s].last)
  BY RowOf, ClientTyped DEF IsRow
<1>2. IsRow(w1, sender[s].at, sender[s].batch, sender[s].attempt, sender[s].on, sender[s].found, TRUE, sender[s].fresh, sender[s].ask, sender[s].last)
  BY ONLY <1>1, SetAnswered, Zenon DEF w1
<1> HIDE DEF w1
<1>3. IsRow(w2, sender[s].at, sender[s].batch, sender[s].attempt, sender[s].on, sender[s].found, TRUE, n, sender[s].ask, sender[s].last)
  BY ONLY <1>2, SetFresh, Zenon DEF w2
<1> HIDE DEF w2
<1>4. w2 = [sender[s] EXCEPT !.answered = TRUE, !.fresh = n]
  BY DEF w1, w2, WithAnswered, WithFresh
<1>5. QED
  BY ONLY <1>3, <1>4, Zenon DEF IsRow

LEMMA UnansweredIs ==
  ASSUME ClientInv, NEW s \in Senders
  PROVE  [sender[s] EXCEPT !.answered = TRUE] =
           Row(sender[s].at, sender[s].batch, sender[s].attempt, sender[s].on, sender[s].found, TRUE, sender[s].fresh, sender[s].ask, sender[s].last)
<1> DEFINE w1 == WithAnswered(sender[s], TRUE)
<1>1. IsRow(sender[s], sender[s].at, sender[s].batch, sender[s].attempt, sender[s].on, sender[s].found, sender[s].answered, sender[s].fresh, sender[s].ask, sender[s].last)
  BY RowOf, ClientTyped DEF IsRow
<1>2. IsRow(w1, sender[s].at, sender[s].batch, sender[s].attempt, sender[s].on, sender[s].found, TRUE, sender[s].fresh, sender[s].ask, sender[s].last)
  BY ONLY <1>1, SetAnswered, Zenon DEF w1
<1> HIDE DEF w1
<1>3. w1 = [sender[s] EXCEPT !.answered = TRUE]
  BY DEF w1, WithAnswered
<1>4. QED
  BY ONLY <1>2, <1>3, Zenon DEF IsRow

LEMMA SpawnedIs ==
  ASSUME ClientInv, NEW s \in Senders
  PROVE  [sender[s] EXCEPT !.at = "spawned"] =
           Row("spawned", sender[s].batch, sender[s].attempt, sender[s].on, sender[s].found, sender[s].answered, sender[s].fresh, sender[s].ask, sender[s].last)
<1> DEFINE w1 == WithAt(sender[s], "spawned")
<1>1. IsRow(sender[s], sender[s].at, sender[s].batch, sender[s].attempt, sender[s].on, sender[s].found, sender[s].answered, sender[s].fresh, sender[s].ask, sender[s].last)
  BY RowOf, ClientTyped DEF IsRow
<1>2. IsRow(w1, "spawned", sender[s].batch, sender[s].attempt, sender[s].on, sender[s].found, sender[s].answered, sender[s].fresh, sender[s].ask, sender[s].last)
  BY ONLY <1>1, SetAt, Zenon DEF w1
<1> HIDE DEF w1
<1>3. w1 = [sender[s] EXCEPT !.at = "spawned"]
  BY DEF w1, WithAt
<1>4. QED
  BY ONLY <1>2, <1>3, Zenon DEF IsRow

(* A goroutine that starts to serve: the batch it took, for whom, and       *)
(* whether the loop returns afterwards.                                     *)
Taken(r, b) == [r EXCEPT !.at = "ready", !.batch = b]

LEMMA TakenIs ==
  ASSUME NEW r, NEW b, NEW c, NEW z, IsRow(r, "idle", <<>>, 0, 0, "open", FALSE, 0, c, z)
  PROVE  IsRow(Taken(r, b), "ready", b, 0, 0, "open", FALSE, 0, c, z)
<1> DEFINE w1 == WithAt(r, "ready")
           w2 == WithBatch(w1, b)
<1>1. IsRow(r, "idle", <<>>, 0, 0, "open", FALSE, 0, c, z)
  BY Zenon
<1>2. IsRow(w1, "ready", <<>>, 0, 0, "open", FALSE, 0, c, z)
  BY ONLY <1>1, SetAt, Zenon DEF w1
<1> HIDE DEF w1
<1>3. IsRow(w2, "ready", b, 0, 0, "open", FALSE, 0, c, z)
  BY ONLY <1>2, SetBatch, Zenon DEF w2
<1> HIDE DEF w2
<1>4. w2 = Taken(r, b)
  BY DEF w1, w2, WithAt, WithBatch, Taken
<1>5. QED
  BY ONLY <1>3, <1>4, Zenon

LEMMA RestingIs ==
  /\ IsRow(Client!Resting, "idle", <<>>, 0, 0, "open", FALSE, 0, None, FALSE)
  /\ IsRow([Client!Resting EXCEPT !.at = "done"], "done", <<>>, 0, 0, "open", FALSE, 0, None, FALSE)
  /\ IsRow([Client!Resting EXCEPT !.last = TRUE], "idle", <<>>, 0, 0, "open", FALSE, 0, None, TRUE)
  /\ \A c : IsRow([Client!Resting EXCEPT !.ask = c], "idle", <<>>, 0, 0, "open", FALSE, 0, c, FALSE)
<1>1. IsRow(Client!Resting, "idle", <<>>, 0, 0, "open", FALSE, 0, None, FALSE)
  BY Zenon DEF Client!Resting, Row, IsRow
<1>2. IsRow(WithAt(Client!Resting, "done"), "done", <<>>, 0, 0, "open", FALSE, 0, None, FALSE)
  BY ONLY <1>1, SetAt, Zenon
<1>3. IsRow(WithLast(Client!Resting, TRUE), "idle", <<>>, 0, 0, "open", FALSE, 0, None, TRUE)
  BY ONLY <1>1, SetLast, Zenon
<1>4. ASSUME NEW c
      PROVE  IsRow(WithAsk(Client!Resting, c), "idle", <<>>, 0, 0, "open", FALSE, 0, c, FALSE)
  BY ONLY <1>1, SetAsk, Zenon
<1>5. QED
  BY <1>1, <1>2, <1>3, <1>4, Zenon DEF WithAt, WithLast, WithAsk

(* When what the fields get is of their types, the record is a goroutine's. *)
FieldsTyped(where, batch, a, on, found, answered, fresh, ask, last) ==
  /\ where \in {"idle", "spawned", "ready", "calling", "dialling", "sleeping", "done"}
  /\ batch \in Seq(Event) /\ a \in 0..MaxAttempts /\ on \in 0..MaxDials
  /\ found \in {"open", "cut", "closed"} /\ answered \in BOOLEAN /\ fresh \in Nat
  /\ ask \in Callers \cup {None} /\ last \in BOOLEAN

HasFields(r, where, batch, a, on, found, answered, fresh, ask, last) ==
  /\ r \in Client!Sender /\ r.at = where /\ r.batch = batch /\ r.attempt = a /\ r.on = on
  /\ r.found = found /\ r.answered = answered /\ r.fresh = fresh /\ r.ask = ask /\ r.last = last

LEMMA RowTyped ==
  ASSUME NEW where, NEW batch, NEW a, NEW on, NEW found, NEW answered, NEW fresh, NEW ask, NEW last,
         FieldsTyped(where, batch, a, on, found, answered, fresh, ask, last),
         NEW r, IsRow(r, where, batch, a, on, found, answered, fresh, ask, last)
  PROVE  HasFields(r, where, batch, a, on, found, answered, fresh, ask, last)
<1>1. r = [at |-> where, batch |-> batch, attempt |-> a, on |-> on, found |-> found,
           answered |-> answered, fresh |-> fresh, ask |-> ask, last |-> last]
  BY Zenon DEF IsRow, Row
<1>2. r \in Client!Sender
  BY <1>1 DEF Client!Sender, FieldsTyped, Event
<1>3. QED
  BY <1>1, <1>2 DEF HasFields

LEMMA SenderFields ==
  ASSUME ClientInv, NEW s \in Senders
  PROVE  /\ sender[s] \in Client!Sender /\ sender[s].batch \in Seq(Event) /\ sender[s].attempt \in 0..MaxAttempts
         /\ sender[s].on \in 0..MaxDials /\ sender[s].found \in {"open", "cut", "closed"}
         /\ sender[s].answered \in BOOLEAN /\ sender[s].fresh \in Nat
         /\ sender[s].ask \in Callers \cup {None} /\ sender[s].last \in BOOLEAN
         /\ hands[s] = sender[s].batch
<1>1. sender[s] \in Client!Sender
  BY ClientTyped
<1>2. QED
  BY <1>1 DEF Client!Sender, Event, hands

(* What a record owes is nothing new when no event is fresh, and stays paid *)
(* when the log and the connections grow.                                   *)
LEMMA FitsWhenStale ==
  ASSUME NEW r \in Client!Sender, r.fresh = 0, r.attempt < MaxAttempts,
         r.at \in {"idle", "spawned", "done"} => r.batch = <<>>,
         NEW n, r.at = "calling" => r.on \in 1..n, NEW table
  PROVE  FitsIn(r, table, n)
<1>1. IsFiniteSet(Ids(r.batch))
  BY IdsCount DEF Client!Sender
<1>2. Cardinality(Ids(r.batch) \cap Ids(table)) \in Nat
  BY <1>1, FS_Intersection, FS_CardinalityType
<1>3. QED
  BY <1>2 DEF FitsIn

LEMMA FitsStays ==
  ASSUME NEW r \in Client!Sender, NEW table, NEW o, Ids(table) \subseteq Ids(o),
         NEW n \in Nat, NEW m \in Nat, n <= m, FitsIn(r, table, n)
  PROVE  FitsIn(r, o, m)
<1> DEFINE A == Ids(r.batch) \cap Ids(table)
           B == Ids(r.batch) \cap Ids(o)
<1>1. IsFiniteSet(Ids(r.batch)) /\ r.fresh \in Nat
  BY IdsCount DEF Client!Sender
<1>2. IsFiniteSet(B) /\ A \subseteq B
  BY <1>1, FS_Intersection
<1>3. r.fresh <= Cardinality(A) /\ r.attempt < MaxAttempts
      /\ (r.at \in {"idle", "spawned", "done"} => r.batch = <<>>) /\ (r.at = "calling" => r.on \in 1..n)
  BY DEF FitsIn
<1> HIDE DEF A, B
<1>4. Cardinality(A) <= Cardinality(B) /\ Cardinality(A) \in Nat /\ Cardinality(B) \in Nat
  BY <1>2, FS_Subset, FS_CardinalityType
<1>5. r.fresh <= Cardinality(B)
  BY <1>1, <1>3, <1>4
<1>6. r.at = "calling" => r.on \in 1..m
  BY <1>3
<1>7. QED
  BY <1>3, <1>5, <1>6 DEF FitsIn, B

(* The log and the connections only grow.                                   *)
Growing ==
  /\ log' \in Seq(Event) /\ Ids(log) \subseteq Ids(log')
  /\ Len(conns') \in Nat /\ Len(conns') >= Len(conns)

SendersFit == sender \in [Senders -> Client!Sender] /\ \A s \in Senders : FitsIn(sender[s], log, Len(conns))

LEMMA SendersStay ==
  ASSUME ClientInv, UNCHANGED sender, Growing
  PROVE  SendersFit' /\ hands' = hands
<1>1. \A s \in Senders : sender[s] \in Client!Sender /\ FitsIn(sender[s], log, Len(conns))
  BY ClientTyped DEF ClientInv
<1>2. \A s \in Senders : FitsIn(sender[s], log', Len(conns'))
  BY <1>1, FitsStays, ClientTyped DEF Growing
<1>3. sender' \in [Senders -> Client!Sender]
  BY ClientTyped
<1>4. QED
  BY <1>2, <1>3 DEF SendersFit, hands

LEMMA SenderMoves ==
  ASSUME ClientInv, Growing, NEW s \in Senders, NEW r \in Client!Sender,
         sender' = [sender EXCEPT ![s] = r], FitsIn(r, log', Len(conns'))
  PROVE  /\ SendersFit' /\ hands' = [hands EXCEPT ![s] = r.batch]
         /\ \A t \in Senders : sender'[t] = IF t = s THEN r ELSE sender[t]
<1>1. \A t \in Senders : sender'[t] = IF t = s THEN r ELSE sender[t]
  BY ClientTyped
<1>2. sender' \in [Senders -> Client!Sender]
  BY ClientTyped
<1>3. ASSUME NEW t \in Senders
      PROVE  FitsIn(sender'[t], log', Len(conns'))
  <2>1. CASE t = s
    BY <1>1, <2>1
  <2>2. CASE t # s
    <3>1. sender'[t] = sender[t]
      BY <1>1, <2>2
    <3>2. sender[t] \in Client!Sender /\ FitsIn(sender[t], log, Len(conns))
      BY ClientTyped DEF ClientInv
    <3>3. FitsIn(sender[t], log', Len(conns'))
      BY <3>2, FitsStays, ClientTyped DEF Growing
    <3>4. QED
      BY <3>1, <3>3
  <2>3. QED
    BY <2>1, <2>2
<1>4. hands' = [hands EXCEPT ![s] = r.batch]
  <2>1. hands' = [t \in Senders |-> sender'[t].batch]
    BY DEF hands
  <2>2. [hands EXCEPT ![s] = r.batch] = [t \in Senders |-> IF t = s THEN r.batch ELSE sender[t].batch]
    BY DEF hands
  <2>3. \A t \in Senders : sender'[t].batch = IF t = s THEN r.batch ELSE sender[t].batch
    BY <1>1
  <2>4. QED
    BY ONLY <2>1, <2>2, <2>3
<1>5. QED
  BY <1>1, <1>2, <1>3, <1>4 DEF SendersFit

(* No step but the loop's own disturbs what its last flush found.           *)
LEMMA QuietStays ==
  ASSUME ClientInv, NEW s \in Senders, NEW r, \A t \in Senders : sender'[t] = IF t = s THEN r ELSE sender[t],
         cancelled => cancelled', buffer = <<>> => buffer' = <<>>,
         s = Loop /\ (r.last \/ r.at = "done") => cancelled' /\ buffer' = <<>>
  PROVE  LoopQuiet'
<1>1. Loop \in Senders
  BY ClientConstants
<1>2. QED
  BY <1>1 DEF ClientInv, LoopQuiet

ClientRest ==
  /\ emitted \in 0..MaxEvents /\ buffer \in Seq(Event)
  /\ asks \in Seq(Callers) /\ caller \in [Callers -> {"out", "waiting", "served", "refused"}]
  /\ conns \in Seq({"open", "cut", "closed"}) /\ Len(conns) \in 1..MaxDials
  /\ client \in DOMAIN conns
  /\ sent \in Nat /\ dropped \in Nat
  /\ cancelled \in BOOLEAN /\ closed \in BOOLEAN
  /\ log \in Seq(Event) /\ up \in BOOLEAN /\ outages \in 0..MaxOutages

LEMMA ClientParts ==
  ASSUME ClientInv PROVE ClientRest /\ SendersFit /\ LoopQuiet /\ Accounts
<1>1. SendersFit /\ LoopQuiet /\ Accounts
  BY ClientTyped DEF ClientInv, SendersFit
<1>2. ClientRest
  BY DEF ClientInv, ClientRest, Client!TypeOK, Event
<1>3. QED
  BY <1>1, <1>2

LEMMA ClientAssembled ==
  ASSUME ClientRest', SendersFit', LoopQuiet', Accounts'
  PROVE  ClientInv'
BY DEF ClientInv, ClientRest, SendersFit, Client!TypeOK, Event, Senders

(* The connections a client has after a step: the ones it had, perhaps one  *)
(* closed, perhaps one more.                                                *)
ConnsKept ==
  /\ conns' \in Seq({"open", "cut", "closed"}) /\ Len(conns') \in 1..MaxDials
  /\ client' \in DOMAIN conns' /\ Len(conns') >= Len(conns)

LEMMA ConnsSame ==
  ASSUME ClientInv, UNCHANGED <<client, conns>> PROVE ConnsKept
BY DEF ConnsKept, ClientInv, Client!TypeOK

LEMMA ConnClosed ==
  ASSUME ClientInv, conns' = [conns EXCEPT ![client] = "closed"], UNCHANGED client
  PROVE  ConnsKept
BY DEF ConnsKept, ClientInv, Client!TypeOK

(* What a step of a sender leaves alone, whatever becomes of its batch.     *)
Aside == UNCHANGED <<emitted, buffer, asks, cancelled, closed, log, up, outages>>

LEMMA AsideGrows ==
  ASSUME ClientInv, Aside, ConnsKept
  PROVE  Growing
<1>1. log \in Seq(Event) /\ log' = log
  BY DEF ClientInv, Client!TypeOK, Aside, Event
<1>2. QED
  BY <1>1, ClientConstants DEF Growing, ConnsKept

(* What the loop or another goroutine is after its flush.                   *)
LEMMA AfterIs ==
  ASSUME ClientInv, NEW s \in Senders
  PROVE  /\ Client!After(s) \in Client!Sender /\ Client!After(s).batch = <<>>
         /\ \A table, n : FitsIn(Client!After(s), table, n)
         /\ Client!After(s).last \/ Client!After(s).at = "done" => sender[s].last
<1> DEFINE r == Client!After(s)
<1>1. \E where \in {"idle", "done"} : /\ IsRow(r, where, <<>>, 0, 0, "open", FALSE, 0, None, FALSE)
                                      /\ where = "done" => sender[s].last
  <2>1. CASE sender[s].last
    <3>1. r = [Client!Resting EXCEPT !.at = "done"]
      BY <2>1 DEF Client!After
    <3>2. QED
      BY <2>1, <3>1, RestingIs
  <2>2. CASE ~sender[s].last
    <3>1. r = Client!Resting
      BY <2>2 DEF Client!After
    <3>2. QED
      BY <3>1, RestingIs
  <2>3. QED
    BY <2>1, <2>2
<1> HIDE DEF r
<1>2. PICK where \in {"idle", "done"} : /\ IsRow(r, where, <<>>, 0, 0, "open", FALSE, 0, None, FALSE)
                                        /\ where = "done" => sender[s].last
  BY <1>1
<1>3. r \in Client!Sender /\ r.at = where /\ r.batch = <<>> /\ r.attempt = 0 /\ r.fresh = 0 /\ r.last = FALSE
  <2>1. FieldsTyped(where, <<>>, 0, 0, "open", FALSE, 0, None, FALSE)
    BY ClientConstants DEF FieldsTyped
  <2>2. HasFields(r, where, <<>>, 0, 0, "open", FALSE, 0, None, FALSE)
    BY ONLY <1>2, <2>1, RowTyped, Zenon
  <2>3. QED
    BY ONLY <2>2, Zenon DEF HasFields
<1>4. ASSUME NEW table, NEW n
      PROVE  FitsIn(r, table, n)
  <2>1. r.attempt < MaxAttempts /\ r.at # "calling"
    BY <1>3, ClientConstants
  <2>2. QED
    BY <1>3, <2>1, FitsWhenStale
<1>5. r.last \/ r.at = "done" => sender[s].last
  BY ONLY <1>2, <1>3, Zenon
<1>6. QED
  BY ONLY <1>3, <1>4, <1>5, Zenon DEF r

(* A flush ends: k of the batch's events count as sent, the others as       *)
(* dropped.                                                                 *)
LEMMA FlushEndsKeeps ==
  ASSUME ClientInv, NEW s \in Senders, Client!FlushEnds(s), Aside, ConnsKept,
         NEW k \in Nat, k <= Cardinality(Ids(sender[s].batch) \cap Ids(log)),
         sent' = sent + k, dropped' = dropped + (Len(sender[s].batch) - k)
  PROVE  ClientInv'
<1> DEFINE r == Client!After(s)
<1>1. sender' = [sender EXCEPT ![s] = r]
  BY DEF Client!FlushEnds
<1>2. /\ r \in Client!Sender /\ r.batch = <<>> /\ FitsIn(r, log', Len(conns'))
      /\ r.last \/ r.at = "done" => sender[s].last
  BY AfterIs
<1> HIDE DEF r
<1>3. Growing
  BY AsideGrows
<1>4. /\ SendersFit' /\ hands' = [hands EXCEPT ![s] = <<>>]
      /\ \A t \in Senders : sender'[t] = IF t = s THEN r ELSE sender[t]
  <2>1. /\ SendersFit' /\ hands' = [hands EXCEPT ![s] = r.batch]
        /\ \A t \in Senders : sender'[t] = IF t = s THEN r ELSE sender[t]
    BY ONLY ClientInv, <1>1, <1>2, <1>3, SenderMoves
  <2>2. QED
    BY <1>2, <2>1
<1>5. LoopQuiet'
  <2>1. s = Loop /\ (r.last \/ r.at = "done") => cancelled' /\ buffer' = <<>>
    BY <1>2 DEF ClientInv, LoopQuiet, Aside
  <2>2. (cancelled => cancelled') /\ (buffer = <<>> => buffer' = <<>>)
    BY DEF Aside
  <2>3. QED
    BY <1>4, <2>1, <2>2, QuietStays
<1>6. AccountTypes(hands, buffer, log, emitted, sent, dropped) /\ hands[s] = sender[s].batch
  BY ClientTyped, SenderFields
<1>7. /\ AccountsOf([hands EXCEPT ![s] = <<>>], buffer, log, emitted, sent + k, dropped + (Len(hands[s]) - k))
      /\ Len(hands[s]) - k \in Nat
  <2>1. AccountsOf(hands, buffer, log, emitted, sent, dropped)
    BY DEF ClientInv, Accounts
  <2>2. k <= Cardinality(Ids(hands[s]) \cap Ids(log))
    BY <1>6
  <2>3. QED
    BY <1>6, <2>1, <2>2, AccountsReleased
<1>8. Accounts'
  <2>1. /\ emitted' = emitted /\ buffer' = buffer /\ log' = log /\ hands' = [hands EXCEPT ![s] = <<>>]
        /\ sent' = sent + k /\ dropped' = dropped + (Len(hands[s]) - k)
    BY <1>4, <1>6 DEF Aside
  <2>2. AccountsOf(hands', buffer', log', emitted', sent', dropped')
    BY ONLY <1>7, <2>1, Zenon
  <2>3. QED
    BY <2>2 DEF Accounts, AccountsOf, InHands
<1>9. ClientRest'
  <2>1. caller' \in [Callers -> {"out", "waiting", "served", "refused"}]
    BY SenderFields DEF Client!FlushEnds, ClientInv, Client!TypeOK
  <2>2. sent' \in Nat /\ dropped' \in Nat
    <3>1. sent \in Nat /\ dropped \in Nat
      BY DEF ClientInv, Client!TypeOK
    <3>2. \A a, b \in Nat : a + b \in Nat
      OBVIOUS
    <3>3. Len(sender[s].batch) - k \in Nat
      BY <1>6, <1>7
    <3>4. QED
      BY <3>1, <3>2, <3>3
  <2>3. QED
    BY <2>1, <2>2, ClientParts DEF ClientRest, ConnsKept, Aside
<1>10. QED
  BY <1>4, <1>5, <1>8, <1>9, ClientAssembled

(* A step in which a goroutine keeps its batch, and its loop does not end.  *)
LEMMA BatchKept ==
  ASSUME ClientInv, NEW s \in Senders, NEW r \in Client!Sender, sender' = [sender EXCEPT ![s] = r],
         r.batch = sender[s].batch, r.last => sender[s].last, r.at # "done",
         Growing, FitsIn(r, log', Len(conns')), UNCHANGED <<buffer, cancelled>>
  PROVE  SendersFit' /\ LoopQuiet' /\ hands' = hands
<1>1. /\ SendersFit' /\ hands' = [hands EXCEPT ![s] = r.batch]
      /\ \A t \in Senders : sender'[t] = IF t = s THEN r ELSE sender[t]
  BY SenderMoves
<1>2. hands' = hands
  BY <1>1 DEF hands
<1>3. LoopQuiet'
  <2>1. s = Loop /\ (r.last \/ r.at = "done") => cancelled' /\ buffer' = <<>>
    BY DEF ClientInv, LoopQuiet
  <2>2. (cancelled => cancelled') /\ (buffer = <<>> => buffer' = <<>>)
    OBVIOUS
  <2>3. QED
    BY <1>1, <2>1, <2>2, QuietStays
<1>4. QED
  BY <1>1, <1>2, <1>3

LEMMA AccountsStay ==
  ASSUME ClientInv, UNCHANGED <<buffer, log, emitted, sent, dropped>>, hands' = hands
  PROVE  Accounts'
BY DEF ClientInv, Accounts, AccountsOf, InHands

LEMMA WaitingKeeps ==
  ASSUME ClientInv, NEW s \in Senders, NEW where \in {"ready", "dialling", "sleeping"},
         NEW a \in 0..MaxAttempts, a < MaxAttempts,
         sender' = [sender EXCEPT ![s] = Client!Waiting(s, where, a)],
         Aside, ConnsKept, UNCHANGED <<sent, dropped, caller>>
  PROVE  ClientInv'
<1> DEFINE r == Client!Waiting(s, where, a)
<1>1. HasFields(r, where, sender[s].batch, a, 0, "open", FALSE, 0, sender[s].ask, sender[s].last)
  <2>1. IsRow(r, where, sender[s].batch, a, 0, "open", FALSE, 0, sender[s].ask, sender[s].last)
    BY WaitingIs DEF IsRow
  <2>2. FieldsTyped(where, sender[s].batch, a, 0, "open", FALSE, 0, sender[s].ask, sender[s].last)
    BY SenderFields, ClientConstants DEF FieldsTyped
  <2> HIDE DEF r
  <2>3. QED
    BY ONLY <2>1, <2>2, RowTyped, Zenon
<1> HIDE DEF r
<1>2. /\ r \in Client!Sender /\ r.at = where /\ r.batch = sender[s].batch /\ r.attempt = a
      /\ r.fresh = 0 /\ r.last = sender[s].last
  BY ONLY <1>1, Zenon DEF HasFields
<1>3. Growing
  BY AsideGrows
<1>4. FitsIn(r, log', Len(conns'))
  <2>1. r.at \notin {"idle", "spawned", "done", "calling"} /\ r.attempt < MaxAttempts
    BY <1>2
  <2>2. QED
    BY <1>2, <2>1, FitsWhenStale
<1>5. SendersFit' /\ LoopQuiet' /\ hands' = hands
  <2>1. sender' = [sender EXCEPT ![s] = r] /\ UNCHANGED <<buffer, cancelled>>
    BY DEF r, Aside
  <2>2. r.at # "done" /\ (r.last => sender[s].last)
    BY <1>2
  <2>3. QED
    BY <1>2, <1>3, <1>4, <2>1, <2>2, BatchKept
<1>6. Accounts'
  BY <1>5, AccountsStay DEF Aside
<1>7. ClientRest'
  BY ClientParts DEF ClientRest, ConnsKept, Aside
<1>8. QED
  BY <1>5, <1>6, <1>7, ClientAssembled

(* A batch is dropped whole.                                                *)
LEMMA DropKeeps ==
  ASSUME ClientInv, NEW s \in Senders, Client!FlushEnds(s), Aside, ConnsKept, UNCHANGED sent,
         dropped' = dropped + Len(sender[s].batch)
  PROVE  ClientInv'
<1>1. sender[s].batch \in Seq(Event) /\ sent \in Nat
  BY SenderFields, ClientParts DEF ClientRest
<1>2. IsFiniteSet(Ids(sender[s].batch)) /\ Len(sender[s].batch) \in Nat
  BY <1>1, IdsCount
<1>3. 0 <= Cardinality(Ids(sender[s].batch) \cap Ids(log))
  <2>1. Cardinality(Ids(sender[s].batch) \cap Ids(log)) \in Nat
    BY <1>2, FS_Intersection, FS_CardinalityType
  <2>2. QED
    BY <2>1
<1>4. sent' = sent + 0 /\ dropped' = dropped + (Len(sender[s].batch) - 0)
  <2>1. \A n \in Nat : n + 0 = n /\ n - 0 = n
    OBVIOUS
  <2>2. QED
    BY <1>1, <1>2, <2>1
<1>5. QED
  BY <1>3, <1>4, FlushEndsKeeps

LEMMA GiveUpOrSleepKeeps ==
  ASSUME ClientInv, NEW s \in Senders, Client!GiveUpOrSleep(s), Aside, ConnsKept, UNCHANGED sent
  PROVE  ClientInv'
<1>1. sender[s].attempt \in 0..MaxAttempts /\ sender[s].attempt < MaxAttempts
  BY SenderFields DEF ClientInv, FitsIn
<1>2. CASE sender[s].attempt + 1 = MaxAttempts \/ cancelled
  BY <1>2, DropKeeps DEF Client!GiveUpOrSleep
<1>3. CASE ~(sender[s].attempt + 1 = MaxAttempts \/ cancelled)
  <2>1. sender' = [sender EXCEPT ![s] = Client!Waiting(s, "sleeping", sender[s].attempt)]
        /\ UNCHANGED <<dropped, caller>>
    BY <1>3 DEF Client!GiveUpOrSleep
  <2>2. QED
    BY <1>1, <2>1, WaitingKeeps
<1>4. QED
  BY <1>2, <1>3

LEMMA NextAttemptKeeps ==
  ASSUME ClientInv, NEW s \in Senders, Client!NextAttempt(s), Aside, ConnsKept, UNCHANGED sent
  PROVE  ClientInv'
<1>1. sender[s].attempt \in 0..MaxAttempts /\ sender[s].attempt < MaxAttempts
  BY SenderFields DEF ClientInv, FitsIn
<1>2. CASE sender[s].attempt + 1 = MaxAttempts
  BY <1>2, DropKeeps DEF Client!NextAttempt
<1>3. CASE sender[s].attempt + 1 # MaxAttempts
  <2>1. sender' = [sender EXCEPT ![s] = Client!Waiting(s, "ready", sender[s].attempt + 1)]
        /\ UNCHANGED <<dropped, caller>>
    BY <1>3 DEF Client!NextAttempt
  <2>2. sender[s].attempt + 1 \in 0..MaxAttempts /\ sender[s].attempt + 1 < MaxAttempts
    BY <1>1, <1>3, ClientConstants
  <2>3. QED
    BY <2>1, <2>2, WaitingKeeps
<1>4. QED
  BY <1>2, <1>3

LEMMA CallFailsKeeps ==
  ASSUME ClientInv, NEW s \in Senders, Client!CallFails(s)
  PROVE  ClientInv'
<1>1. Aside /\ UNCHANGED <<sent, client>>
  BY DEF Client!CallFails, Client!serverVars, Aside
<1>2. PICK known \in Client!Recognised(s) :
        IF known
          THEN /\ conns' = [conns EXCEPT ![client] = "closed"]
               /\ sender' = [sender EXCEPT ![s] = Client!Waiting(s, "dialling", sender[s].attempt)]
               /\ UNCHANGED <<dropped, caller>>
          ELSE /\ Client!GiveUpOrSleep(s)
               /\ UNCHANGED conns
  BY DEF Client!CallFails
<1>3. CASE known
  <2>1. ConnsKept
    BY <1>1, <1>2, <1>3, ConnClosed
  <2>2. sender[s].attempt \in 0..MaxAttempts /\ sender[s].attempt < MaxAttempts
    BY SenderFields DEF ClientInv, FitsIn
  <2>3. QED
    BY <1>1, <1>2, <1>3, <2>1, <2>2, WaitingKeeps
<1>4. CASE ~known
  BY <1>1, <1>2, <1>4, ConnsSame, GiveUpOrSleepKeeps
<1>5. QED
  BY <1>3, <1>4

LEMMA DialKeeps ==
  ASSUME ClientInv, NEW s \in Senders, Client!Dial(s)
  PROVE  ClientInv'
<1>1. Aside /\ UNCHANGED sent
  BY DEF Client!Dial, Client!serverVars, Aside
<1>2. CASE up /\ Len(conns) < MaxDials
  <2>1. conns' = Append(conns, "open") /\ client' = Len(conns) + 1 /\ Client!NextAttempt(s)
    BY <1>2 DEF Client!Dial
  <2>2. conns \in Seq({"open", "cut", "closed"}) /\ Len(conns) \in Nat /\ MaxDials \in Nat
    BY ClientParts, ClientConstants DEF ClientRest
  <2>3. ConnsKept
    BY <1>2, <2>1, <2>2 DEF ConnsKept
  <2>4. QED
    BY <1>1, <2>1, <2>3, NextAttemptKeeps
<1>3. CASE ~(up /\ Len(conns) < MaxDials)
  <2>1. Client!GiveUpOrSleep(s) /\ UNCHANGED <<conns, client>>
    BY <1>3 DEF Client!Dial
  <2>2. QED
    BY <1>1, <2>1, ConnsSame, GiveUpOrSleepKeeps
<1>4. QED
  BY <1>2, <1>3

LEMMA WakeKeeps ==
  ASSUME ClientInv, NEW s \in Senders, Client!Wake(s)
  PROVE  ClientInv'
<1>1. Aside /\ UNCHANGED <<sent, client, conns>> /\ Client!NextAttempt(s)
  BY DEF Client!Wake, Client!serverVars, Aside
<1>2. QED
  BY <1>1, ConnsSame, NextAttemptKeeps

LEMMA AnsweredKeeps ==
  ASSUME ClientInv, NEW s \in Senders, Client!Answered(s)
  PROVE  ClientInv'
<1>1. Aside /\ UNCHANGED <<client, conns>> /\ Client!FlushEnds(s)
      /\ sent' = sent + sender[s].fresh /\ dropped' = dropped + (Len(sender[s].batch) - sender[s].fresh)
  BY DEF Client!Answered, Client!serverVars, Aside
<1>2. sender[s].fresh \in Nat /\ sender[s].fresh <= Cardinality(Ids(sender[s].batch) \cap Ids(log))
  BY SenderFields DEF ClientInv, FitsIn
<1>3. QED
  BY <1>1, <1>2, ConnsSame, FlushEndsKeeps

LEMMA CallKeeps ==
  ASSUME ClientInv, NEW s \in Senders, Client!Call(s)
  PROVE  ClientInv'
<1> DEFINE r == [sender[s] EXCEPT !.at = "calling", !.on = client, !.found = conns[client],
                                  !.answered = FALSE, !.fresh = 0]
<1>1. Aside /\ UNCHANGED <<caller, client, conns, sent, dropped>> /\ sender[s].at = "ready"
  BY DEF Client!Call, Client!serverVars, Aside
<1>2. sender' = [sender EXCEPT ![s] = r]
  BY ClientTyped DEF Client!Call
<1>3. conns \in Seq({"open", "cut", "closed"}) /\ Len(conns) \in 1..MaxDials /\ client \in 1..Len(conns)
      /\ conns[client] \in {"open", "cut", "closed"} /\ MaxDials \in Nat
  BY ClientParts, ClientConstants DEF ClientRest
<1>4. HasFields(r, "calling", sender[s].batch, sender[s].attempt, client, conns[client], FALSE, 0,
                sender[s].ask, sender[s].last)
  <2>1. IsRow(r, "calling", sender[s].batch, sender[s].attempt, client, conns[client], FALSE, 0,
              sender[s].ask, sender[s].last)
    BY CallingIs DEF IsRow
  <2>2. FieldsTyped("calling", sender[s].batch, sender[s].attempt, client, conns[client], FALSE, 0,
                    sender[s].ask, sender[s].last)
    BY <1>3, SenderFields DEF FieldsTyped
  <2> HIDE DEF r
  <2>3. QED
    BY ONLY <2>1, <2>2, RowTyped, Zenon
<1> HIDE DEF r
<1>5. /\ r \in Client!Sender /\ r.at = "calling" /\ r.batch = sender[s].batch /\ r.on = client
      /\ r.attempt = sender[s].attempt /\ r.fresh = 0 /\ r.last = sender[s].last
  BY ONLY <1>4, Zenon DEF HasFields
<1>6. Growing
  BY <1>1, ConnsSame, AsideGrows
<1>7. FitsIn(r, log', Len(conns'))
  <2>1. r.at \notin {"idle", "spawned", "done"} /\ r.attempt < MaxAttempts
    BY <1>5 DEF ClientInv, FitsIn
  <2>2. r.on \in 1..Len(conns')
    BY <1>1, <1>3, <1>5
  <2>3. QED
    BY <1>5, <2>1, <2>2, FitsWhenStale
<1>8. SendersFit' /\ LoopQuiet' /\ hands' = hands
  <2>1. UNCHANGED <<buffer, cancelled>> /\ r.at # "done" /\ (r.last => sender[s].last)
    BY <1>1, <1>5 DEF Aside
  <2>2. QED
    BY <1>2, <1>5, <1>6, <1>7, <2>1, BatchKept
<1>9. Accounts'
  BY <1>1, <1>8, AccountsStay DEF Aside
<1>10. ClientRest'
  BY <1>1, ClientParts DEF ClientRest, Aside
<1>11. QED
  BY <1>8, <1>9, <1>10, ClientAssembled

(* telemetryd answers: the batch is in the log, or the transaction failed.  *)
LEMMA ServerAppendsKeeps ==
  ASSUME ClientInv, NEW s \in Senders, Client!ServerAppends(s)
  PROVE  ClientInv'
<1>1. UNCHANGED <<emitted, buffer, asks, caller, client, conns, sent, dropped, cancelled, closed, up, outages>>
      /\ sender[s].at = "calling"
  BY DEF Client!ServerAppends
<1>2. log \in Seq(Event) /\ sender[s].batch \in Seq(Event) /\ IsInjective(log)
  BY ClientParts, SenderFields DEF ClientRest, Accounts, AccountsOf
<1>3. Len(conns) \in Nat /\ Len(conns') = Len(conns)
  BY <1>1, ClientTyped
<1>4. ASSUME NEW r \in Client!Sender, sender' = [sender EXCEPT ![s] = r],
             r.at = "calling", r.batch = sender[s].batch, r.attempt = sender[s].attempt,
             r.on = sender[s].on, r.last = sender[s].last,
             r.fresh <= Cardinality(Ids(r.batch) \cap Ids(log')),
             Growing, AccountsOf(hands, buffer, log', emitted, sent, dropped)
      PROVE  ClientInv'
  <2>1. FitsIn(r, log', Len(conns'))
    BY <1>1, <1>3, <1>4 DEF ClientInv, FitsIn
  <2>2. SendersFit' /\ LoopQuiet' /\ hands' = hands
    <3>1. UNCHANGED <<buffer, cancelled>> /\ r.at # "done" /\ (r.last => sender[s].last)
      BY <1>1, <1>4
    <3>2. QED
      BY <1>4, <2>1, <3>1, BatchKept
  <2>3. Accounts'
    BY <1>1, <1>4, <2>2 DEF Accounts, AccountsOf, InHands
  <2>4. ClientRest'
    BY <1>1, <1>4, ClientParts DEF ClientRest, Growing
  <2>5. QED
    BY <2>2, <2>3, <2>4, ClientAssembled
<1>5. ASSUME NEW failed, log' = Client!Appended(log, sender[s].batch, failed),
             sender' = [sender EXCEPT ![s].answered = TRUE, ![s].fresh = Len(log') - Len(log)]
      PROVE  ClientInv'
  <2> DEFINE n == Len(log') - Len(log)
             r == [sender[s] EXCEPT !.answered = TRUE, !.fresh = n]
  <2>1. log' = Appended(log, sender[s].batch, failed)
    BY <1>5 DEF Client!Appended, Appended
  <2>2. log' \in Seq(Event) /\ Ids(log') = Ids(log) \cup Accepted(sender[s].batch, failed)
    BY <1>2, <2>1, AppendedGrows DEF Grown
  <2>3. n \in Nat /\ n <= Cardinality(Ids(sender[s].batch) \cap Ids(log'))
    BY <1>2, <2>1, FreshAreStored
  <2>4. sender' = [sender EXCEPT ![s] = r]
    BY <1>5, ClientTyped
  <2> HIDE DEF n
  <2>5. HasFields(r, "calling", sender[s].batch, sender[s].attempt, sender[s].on, sender[s].found, TRUE, n,
                  sender[s].ask, sender[s].last)
    <3>1. IsRow(r, "calling", sender[s].batch, sender[s].attempt, sender[s].on, sender[s].found, TRUE, n,
                sender[s].ask, sender[s].last)
      BY <1>1, AnsweredIs DEF IsRow
    <3>2. FieldsTyped("calling", sender[s].batch, sender[s].attempt, sender[s].on, sender[s].found, TRUE, n,
                      sender[s].ask, sender[s].last)
      BY <2>3, SenderFields DEF FieldsTyped
    <3> HIDE DEF r
    <3>3. QED
      BY ONLY <3>1, <3>2, RowTyped, Zenon
  <2> HIDE DEF r
  <2>6. /\ r \in Client!Sender /\ r.at = "calling" /\ r.batch = sender[s].batch /\ r.on = sender[s].on
        /\ r.attempt = sender[s].attempt /\ r.fresh = n /\ r.last = sender[s].last
    BY ONLY <2>5, Zenon DEF HasFields
  <2>7. Growing
    BY <1>3, <2>2 DEF Growing
  <2>8. AccountsOf(hands, buffer, log', emitted, sent, dropped)
    <3>1. AccountTypes(hands, buffer, log, emitted, sent, dropped) /\ hands[s] = sender[s].batch
      BY ClientTyped, SenderFields
    <3>2. AccountsOf(hands, buffer, Appended(log, hands[s], failed), emitted, sent, dropped)
      BY <3>1, AccountsStored DEF ClientInv, Accounts
    <3>3. QED
      BY <2>1, <3>1, <3>2
  <2>9. QED
    BY <1>4, <2>3, <2>4, <2>6, <2>7, <2>8
<1>6. CASE sender' = [sender EXCEPT ![s].answered = TRUE] /\ UNCHANGED log
  <2> DEFINE r == [sender[s] EXCEPT !.answered = TRUE]
  <2>1. sender' = [sender EXCEPT ![s] = r]
    BY <1>6, ClientTyped
  <2>2. HasFields(r, "calling", sender[s].batch, sender[s].attempt, sender[s].on, sender[s].found, TRUE,
                  sender[s].fresh, sender[s].ask, sender[s].last)
    <3>1. IsRow(r, "calling", sender[s].batch, sender[s].attempt, sender[s].on, sender[s].found, TRUE,
                sender[s].fresh, sender[s].ask, sender[s].last)
      BY <1>1, UnansweredIs DEF IsRow
    <3>2. FieldsTyped("calling", sender[s].batch, sender[s].attempt, sender[s].on, sender[s].found, TRUE,
                      sender[s].fresh, sender[s].ask, sender[s].last)
      BY SenderFields DEF FieldsTyped
    <3> HIDE DEF r
    <3>3. QED
      BY ONLY <3>1, <3>2, RowTyped, Zenon
  <2> HIDE DEF r
  <2>3. /\ r \in Client!Sender /\ r.at = "calling" /\ r.batch = sender[s].batch /\ r.on = sender[s].on
        /\ r.attempt = sender[s].attempt /\ r.fresh = sender[s].fresh /\ r.last = sender[s].last
    BY ONLY <2>2, Zenon DEF HasFields
  <2>4. Growing
    BY <1>2, <1>3, <1>6 DEF Growing
  <2>5. AccountsOf(hands, buffer, log', emitted, sent, dropped)
    BY <1>6 DEF ClientInv, Accounts
  <2>6. r.fresh <= Cardinality(Ids(r.batch) \cap Ids(log'))
    BY <1>6, <2>3 DEF ClientInv, FitsIn
  <2>7. QED
    BY <1>4, <2>1, <2>3, <2>4, <2>5, <2>6
<1>7. QED
  BY <1>5, <1>6 DEF Client!ServerAppends

(* The part of a flush under the lock.                                      *)
LEMMA SwapKeeps ==
  ASSUME ClientInv, NEW s \in Senders, sender[s].at \in {"idle", "spawned"},
         NEW c \in Callers \cup {None}, NEW z \in BOOLEAN, z => cancelled,
         NEW r0, IsRow(r0, "idle", <<>>, 0, 0, "open", FALSE, 0, c, z), Client!Swap(s, r0),
         UNCHANGED <<emitted, client, conns, sent, dropped, cancelled, closed, log, up, outages>>,
         asks' \in Seq(Callers)
  PROVE  ClientInv'
<1>1. FieldsTyped("idle", <<>>, 0, 0, "open", FALSE, 0, c, z)
  BY ClientConstants DEF FieldsTyped
<1>2. HasFields(r0, "idle", <<>>, 0, 0, "open", FALSE, 0, c, z)
  BY ONLY <1>1, IsRow(r0, "idle", <<>>, 0, 0, "open", FALSE, 0, c, z), RowTyped, Zenon
<1>3. r0.last = z /\ r0.ask = c
  BY ONLY <1>2, Zenon DEF HasFields
<1>4. hands[s] = <<>> /\ sender[s].batch = <<>>
  BY SenderFields DEF ClientInv, FitsIn
<1>5. Growing
  BY ConnsSame, ClientParts, ClientConstants DEF Growing, ConnsKept, ClientRest
<1>6. buffer' = <<>> /\ <<>> \in Seq(Event)
  BY DEF Client!Swap
<1>7. ASSUME NEW r \in Client!Sender, sender' = [sender EXCEPT ![s] = r], r.batch = buffer,
             FitsIn(r, log', Len(conns')), r.last \/ r.at = "done" => cancelled,
             caller' \in [Callers -> {"out", "waiting", "served", "refused"}]
      PROVE  ClientInv'
  <2>1. /\ SendersFit' /\ hands' = [hands EXCEPT ![s] = buffer]
        /\ \A t \in Senders : sender'[t] = IF t = s THEN r ELSE sender[t]
    BY <1>5, <1>7, SenderMoves
  <2>2. LoopQuiet'
    <3>1. s = Loop /\ (r.last \/ r.at = "done") => cancelled' /\ buffer' = <<>>
      BY <1>6, <1>7
    <3>2. (cancelled => cancelled') /\ (buffer = <<>> => buffer' = <<>>)
      BY <1>6
    <3>3. QED
      BY <2>1, <3>1, <3>2, QuietStays
  <2>3. AccountsOf([hands EXCEPT ![s] = buffer], <<>>, log, emitted, sent, dropped)
    <3>1. AccountTypes(hands, buffer, log, emitted, sent, dropped)
      BY ClientTyped
    <3>2. QED
      BY <1>4, <3>1, AccountsSwapped DEF ClientInv, Accounts
  <2>4. Accounts'
    BY <1>6, <2>1, <2>3 DEF Accounts, AccountsOf, InHands
  <2>5. ClientRest'
    BY <1>6, <1>7, ClientParts DEF ClientRest
  <2>6. QED
    BY <2>1, <2>2, <2>4, <2>5, ClientAssembled
<1>8. CASE buffer = <<>>
  <2> DEFINE r == IF r0.last THEN [Client!Resting EXCEPT !.at = "done"] ELSE Client!Resting
  <2>1. sender' = [sender EXCEPT ![s] = r]
        /\ caller' = (IF r0.ask = None THEN caller ELSE [caller EXCEPT ![r0.ask] = "served"])
    BY <1>8 DEF Client!Swap
  <2>2. \E where \in {"idle", "done"} : /\ IsRow(r, where, <<>>, 0, 0, "open", FALSE, 0, None, FALSE)
                                        /\ where = "done" => z
    <3>1. CASE z
      <4>1. r = [Client!Resting EXCEPT !.at = "done"]
        BY <1>3, <3>1
      <4>2. QED
        BY <3>1, <4>1, RestingIs
    <3>2. CASE ~z
      <4>1. r = Client!Resting
        BY <1>3, <3>2
      <4>2. QED
        BY <4>1, RestingIs
    <3>3. QED
      BY <3>1, <3>2
  <2> HIDE DEF r
  <2>3. PICK where \in {"idle", "done"} : /\ IsRow(r, where, <<>>, 0, 0, "open", FALSE, 0, None, FALSE)
                                          /\ where = "done" => z
    BY <2>2
  <2>4. FieldsTyped(where, <<>>, 0, 0, "open", FALSE, 0, None, FALSE)
    BY ClientConstants DEF FieldsTyped
  <2>5. HasFields(r, where, <<>>, 0, 0, "open", FALSE, 0, None, FALSE)
    BY ONLY <2>3, <2>4, RowTyped, Zenon
  <2>6. r \in Client!Sender /\ r.at = where /\ r.batch = <<>> /\ r.attempt = 0 /\ r.fresh = 0 /\ r.last = FALSE
    BY ONLY <2>5, Zenon DEF HasFields
  <2>7. FitsIn(r, log', Len(conns'))
    <3>1. r.attempt < MaxAttempts /\ r.at # "calling"
      BY <2>6, ClientConstants
    <3>2. QED
      BY <2>6, <3>1, FitsWhenStale
  <2>8. r.last \/ r.at = "done" => cancelled
    <3>1. r.last \/ r.at = "done" => z
      BY ONLY <2>3, <2>6, Zenon
    <3>2. QED
      BY <3>1
  <2>9. caller' \in [Callers -> {"out", "waiting", "served", "refused"}]
    BY <1>3, <2>1, ClientParts DEF ClientRest
  <2>10. QED
    BY <1>7, <1>8, <2>1, <2>6, <2>7, <2>8, <2>9
<1>9. CASE buffer # <<>>
  <2> DEFINE r == Taken(r0, buffer)
  <2>1. sender' = [sender EXCEPT ![s] = r] /\ UNCHANGED caller
    BY <1>9 DEF Client!Swap, Taken
  <2>2. IsRow(r, "ready", buffer, 0, 0, "open", FALSE, 0, c, z)
    BY ONLY IsRow(r0, "idle", <<>>, 0, 0, "open", FALSE, 0, c, z), TakenIs, Zenon
  <2>3. FieldsTyped("ready", buffer, 0, 0, "open", FALSE, 0, c, z)
    BY ClientConstants, ClientParts DEF FieldsTyped, ClientRest
  <2> HIDE DEF r
  <2>4. HasFields(r, "ready", buffer, 0, 0, "open", FALSE, 0, c, z)
    BY ONLY <2>2, <2>3, RowTyped, Zenon
  <2>5. r \in Client!Sender /\ r.at = "ready" /\ r.batch = buffer /\ r.attempt = 0 /\ r.fresh = 0 /\ r.last = z
    BY ONLY <2>4, Zenon DEF HasFields
  <2>6. FitsIn(r, log', Len(conns'))
    <3>1. r.attempt < MaxAttempts /\ r.at \notin {"idle", "spawned", "done", "calling"}
      BY <2>5, ClientConstants
    <3>2. QED
      BY <2>5, <3>1, FitsWhenStale
  <2>7. r.last \/ r.at = "done" => cancelled
    BY <2>5
  <2>8. caller' \in [Callers -> {"out", "waiting", "served", "refused"}]
    BY <2>1, ClientParts DEF ClientRest
  <2>9. QED
    BY <1>7, <2>1, <2>5, <2>6, <2>7, <2>8
<1>10. QED
  BY <1>8, <1>9

LEMMA SpawnedFlushKeeps ==
  ASSUME ClientInv, NEW s \in Flushers, Client!SpawnedFlush(s)
  PROVE  ClientInv'
<1>1. s \in Senders /\ None \in Callers \cup {None} /\ FALSE \in BOOLEAN
  BY ClientConstants
<1>2. sender[s].at \in {"idle", "spawned"} /\ Client!Swap(s, Client!Resting)
      /\ UNCHANGED <<emitted, asks, client, conns, sent, dropped, cancelled, closed, log, up, outages>>
  BY DEF Client!SpawnedFlush, Client!serverVars
<1>3. asks' \in Seq(Callers)
  BY <1>2, ClientParts DEF ClientRest
<1>4. QED
  BY <1>1, <1>2, <1>3, RestingIs, SwapKeeps

LEMMA LoopTickKeeps ==
  ASSUME ClientInv, Client!LoopTick
  PROVE  ClientInv'
<1>1. Loop \in Senders /\ None \in Callers \cup {None} /\ FALSE \in BOOLEAN
  BY ClientConstants
<1>2. sender[Loop].at \in {"idle", "spawned"} /\ Client!Swap(Loop, Client!Resting)
      /\ UNCHANGED <<emitted, asks, client, conns, sent, dropped, cancelled, closed, log, up, outages>>
  BY DEF Client!LoopTick, Client!serverVars
<1>3. asks' \in Seq(Callers)
  BY <1>2, ClientParts DEF ClientRest
<1>4. QED
  BY <1>1, <1>2, <1>3, RestingIs, SwapKeeps

LEMMA LoopAskedKeeps ==
  ASSUME ClientInv, Client!LoopAsked
  PROVE  ClientInv'
<1>1. Loop \in Senders /\ FALSE \in BOOLEAN
  BY ClientConstants
<1>2. sender[Loop].at \in {"idle", "spawned"} /\ Client!Swap(Loop, [Client!Resting EXCEPT !.ask = Head(asks)])
      /\ asks # <<>> /\ asks' = Tail(asks)
      /\ UNCHANGED <<emitted, client, conns, sent, dropped, cancelled, closed, log, up, outages>>
  BY DEF Client!LoopAsked, Client!serverVars
<1>3. asks \in Seq(Callers)
  BY ClientParts DEF ClientRest
<1>4. asks' \in Seq(Callers) /\ Head(asks) \in Callers \cup {None}
  BY <1>2, <1>3
<1>5. IsRow([Client!Resting EXCEPT !.ask = Head(asks)], "idle", <<>>, 0, 0, "open", FALSE, 0, Head(asks), FALSE)
  BY RestingIs
<1>6. QED
  BY <1>1, <1>2, <1>4, <1>5, SwapKeeps

LEMMA LoopStopsKeeps ==
  ASSUME ClientInv, Client!LoopStops
  PROVE  ClientInv'
<1>1. Loop \in Senders /\ None \in Callers \cup {None} /\ TRUE \in BOOLEAN
  BY ClientConstants
<1>2. sender[Loop].at \in {"idle", "spawned"} /\ Client!Swap(Loop, [Client!Resting EXCEPT !.last = TRUE])
      /\ cancelled
      /\ UNCHANGED <<emitted, asks, client, conns, sent, dropped, cancelled, closed, log, up, outages>>
  BY DEF Client!LoopStops, Client!serverVars
<1>3. asks' \in Seq(Callers)
  BY <1>2, ClientParts DEF ClientRest
<1>4. QED
  BY <1>1, <1>2, <1>3, RestingIs, SwapKeeps

LEMMA EmitKeeps ==
  ASSUME ClientInv, Client!Emit
  PROVE  ClientInv'
<1> DEFINE j == IF Len(buffer) >= QueueSize THEN Len(buffer) + 1 - QueueSize ELSE 0
           kept == SubSeq(buffer, 1 + j, Len(buffer))
<1>1. /\ ~cancelled /\ emitted < MaxEvents /\ emitted' = emitted + 1
      /\ buffer' = Append(kept, emitted + 1)
      /\ dropped' = dropped + (Len(buffer) - Len(kept))
      /\ UNCHANGED <<asks, caller, client, conns, sent, cancelled, closed, log, up, outages>>
  BY DEF Client!Emit, Client!serverVars
<1>2. /\ buffer \in Seq(Event) /\ Len(buffer) \in Nat /\ emitted \in 0..MaxEvents /\ log \in Seq(Event)
      /\ sent \in Nat /\ dropped \in Nat /\ MaxEvents \in Nat /\ QueueSize \in Nat \ {0} /\ Event = 1..MaxEvents
  BY ClientParts, ClientConstants DEF ClientRest
<1>3. j \in 0..Len(buffer)
  BY <1>2
<1>4. AccountTypes(hands, buffer, log, emitted, sent, dropped)
  BY ClientTyped
<1> HIDE DEF j
<1>5. AccountsOf(hands, Append(kept, emitted + 1), log, emitted + 1, sent, dropped + (Len(buffer) - Len(kept)))
  BY <1>3, <1>4, AccountsEmitted DEF ClientInv, Accounts
<1>6. kept \in Seq(Event) /\ Len(buffer) - Len(kept) \in Nat
  <2> DEFINE N == Len(buffer)
  <2>1. N \in Nat /\ j \in 0..N /\ Len(buffer) = N
    BY <1>2, <1>3
  <2> HIDE DEF N
  <2>2. \A i \in (1 + j)..N : i \in 1..N
    BY <2>1
  <2>3. SubSeq(buffer, 1 + j, N) \in Seq(Event) /\ Len(SubSeq(buffer, 1 + j, N)) = N - j
    BY <1>2, <2>1, <2>2
  <2>4. N - (N - j) \in Nat
    BY <2>1
  <2>5. QED
    BY <2>1, <2>3, <2>4
<1> HIDE DEF kept
<1>7. buffer' \in Seq(Event) /\ emitted' \in 0..MaxEvents /\ dropped' \in Nat
  <2>1. emitted + 1 \in Event
    BY <1>1, <1>2
  <2>2. \A a, b \in Nat : a + b \in Nat
    OBVIOUS
  <2>3. QED
    BY <1>1, <1>2, <1>6, <2>1, <2>2
<1>8. ClientRest'
  BY <1>1, <1>7, ClientParts DEF ClientRest
<1>9. Growing
  BY <1>1, <1>2, ClientTyped DEF Growing
<1>10. SendersFit' /\ hands' = hands /\ sender'[Loop] = sender[Loop]
  <2>1. CASE UNCHANGED sender
    BY <1>9, <2>1, SendersStay
  <2>2. ASSUME NEW s \in Flushers, sender[s].at = "idle", sender' = [sender EXCEPT ![s].at = "spawned"]
        PROVE  SendersFit' /\ hands' = hands /\ sender'[Loop] = sender[Loop]
    <3> DEFINE r == [sender[s] EXCEPT !.at = "spawned"]
    <3>1. s \in Senders /\ s # Loop /\ Loop \in Senders
      BY ClientConstants
    <3>2. sender' = [sender EXCEPT ![s] = r]
      BY <2>2
    <3>3. HasFields(r, "spawned", sender[s].batch, sender[s].attempt, sender[s].on, sender[s].found,
                    sender[s].answered, sender[s].fresh, sender[s].ask, sender[s].last)
      <4>1. IsRow(r, "spawned", sender[s].batch, sender[s].attempt, sender[s].on, sender[s].found,
                  sender[s].answered, sender[s].fresh, sender[s].ask, sender[s].last)
        BY <3>1, SpawnedIs DEF IsRow
      <4>2. FieldsTyped("spawned", sender[s].batch, sender[s].attempt, sender[s].on, sender[s].found,
                        sender[s].answered, sender[s].fresh, sender[s].ask, sender[s].last)
        BY <3>1, SenderFields DEF FieldsTyped
      <4> HIDE DEF r
      <4>3. QED
        BY ONLY <4>1, <4>2, RowTyped, Zenon
    <3> HIDE DEF r
    <3>4. r \in Client!Sender /\ r.at = "spawned" /\ r.batch = sender[s].batch
          /\ r.attempt = sender[s].attempt /\ r.fresh = sender[s].fresh
      BY ONLY <3>3, Zenon DEF HasFields
    <3>5. FitsIn(r, log', Len(conns'))
      BY <1>1, <2>2, <3>1, <3>4 DEF ClientInv, FitsIn
    <3>6. /\ SendersFit' /\ hands' = [hands EXCEPT ![s] = r.batch]
          /\ \A t \in Senders : sender'[t] = IF t = s THEN r ELSE sender[t]
      BY <1>9, <3>1, <3>2, <3>4, <3>5, SenderMoves
    <3>7. hands' = hands
      BY <3>4, <3>6 DEF hands
    <3>8. QED
      BY <3>1, <3>6, <3>7
  <2>3. QED
    BY <2>1, <2>2 DEF Client!Emit
<1>11. LoopQuiet'
  BY <1>1, <1>10 DEF ClientInv, LoopQuiet
<1>12. Accounts'
  BY <1>1, <1>5, <1>10 DEF Accounts, AccountsOf, InHands
<1>13. QED
  BY <1>8, <1>10, <1>11, <1>12, ClientAssembled

(* A step that leaves the senders, the buffer, the log and what was counted *)
(* alone.                                                                   *)
LEMMA EventsStay ==
  ASSUME ClientInv, UNCHANGED <<emitted, buffer, sender, sent, dropped, log>>,
         cancelled => cancelled', Len(conns') = Len(conns), ClientRest'
  PROVE  ClientInv'
<1>1. Growing
  BY ClientTyped, ClientParts DEF Growing, ClientRest
<1>2. SendersFit' /\ hands' = hands
  BY <1>1, SendersStay
<1>3. Accounts'
  BY <1>2, AccountsStay
<1>4. LoopQuiet'
  BY DEF ClientInv, LoopQuiet
<1>5. QED
  BY <1>2, <1>3, <1>4, ClientAssembled

LEMMA AskKeeps ==
  ASSUME ClientInv, NEW c \in Callers, Client!Ask(c)
  PROVE  ClientInv'
<1>1. UNCHANGED <<emitted, buffer, sender, client, conns, sent, dropped, cancelled, closed, log, up, outages>>
  BY DEF Client!Ask, Client!serverVars
<1>2. asks \in Seq(Callers) /\ caller \in [Callers -> {"out", "waiting", "served", "refused"}]
  BY ClientParts DEF ClientRest
<1>3. asks' \in Seq(Callers)
  <2>1. asks' = Append(asks, c) \/ asks' = asks
    BY DEF Client!Ask
  <2>2. \A q \in Seq(Callers) : Append(q, c) \in Seq(Callers)
    OBVIOUS
  <2>3. QED
    BY <1>2, <2>1, <2>2
<1>4. caller' \in [Callers -> {"out", "waiting", "served", "refused"}]
  <2>1. caller' = [caller EXCEPT ![c] = "waiting"] \/ caller' = [caller EXCEPT ![c] = "refused"]
    BY DEF Client!Ask
  <2>2. QED
    BY <1>2, <2>1
<1>5. ClientRest'
  BY <1>1, <1>3, <1>4, ClientParts DEF ClientRest
<1>6. QED
  BY <1>1, <1>5, EventsStay

LEMMA CancelKeeps ==
  ASSUME ClientInv, Client!Cancel
  PROVE  ClientInv'
<1>1. UNCHANGED <<emitted, buffer, sender, asks, caller, client, conns, sent, dropped, closed, log, up, outages>>
      /\ cancelled' = TRUE
  BY DEF Client!Cancel, Client!serverVars
<1>2. ClientRest'
  BY <1>1, ClientParts DEF ClientRest
<1>3. QED
  BY <1>1, <1>2, EventsStay

LEMMA CloseReturnsKeeps ==
  ASSUME ClientInv, Client!CloseReturns
  PROVE  ClientInv'
<1>1. UNCHANGED <<emitted, buffer, sender, asks, caller, client, sent, dropped, cancelled, log, up, outages>>
      /\ closed' = TRUE /\ conns' = [conns EXCEPT ![client] = "closed"]
  BY DEF Client!CloseReturns, Client!serverVars
<1>2. ConnsKept /\ Len(conns') = Len(conns)
  BY <1>1, ConnClosed, ClientParts DEF ClientRest
<1>3. ClientRest'
  BY <1>1, <1>2, ClientParts DEF ClientRest, ConnsKept
<1>4. QED
  BY <1>1, <1>2, <1>3, EventsStay

LEMMA ServerStopsKeeps ==
  ASSUME ClientInv, Client!ServerStops
  PROVE  ClientInv'
<1>1. UNCHANGED <<emitted, buffer, sender, asks, caller, client, sent, dropped, cancelled, closed, log>>
      /\ up' = FALSE /\ outages < MaxOutages /\ outages' = outages + 1
      /\ conns' = [i \in DOMAIN conns |-> IF conns[i] = "open" THEN "cut" ELSE conns[i]]
  BY DEF Client!ServerStops
<1>2. /\ conns \in Seq({"open", "cut", "closed"}) /\ Len(conns) \in 1..MaxDials /\ client \in DOMAIN conns
      /\ outages \in 0..MaxOutages /\ MaxOutages \in Nat /\ MaxDials \in Nat
  BY ClientParts, ClientConstants DEF ClientRest
<1>3. conns' \in Seq({"open", "cut", "closed"}) /\ Len(conns') = Len(conns) /\ DOMAIN conns' = DOMAIN conns
  <2> DEFINE N == Len(conns)
             S == {"open", "cut", "closed"}
             f == [i \in 1..N |-> IF conns[i] = "open" THEN "cut" ELSE conns[i]]
  <2>1. N \in Nat /\ DOMAIN conns = 1..N /\ (\A i \in 1..N : conns[i] \in S)
    BY <1>2
  <2>2. conns' = f /\ \A i \in 1..N : f[i] \in S
    BY <1>1, <2>1
  <2> HIDE DEF N, S
  <2>3. f \in Seq(S) /\ Len(f) = N /\ DOMAIN f = 1..N
    BY <2>1, <2>2
  <2>4. QED
    BY <2>1, <2>2, <2>3 DEF N, S
<1>4. /\ conns' \in Seq({"open", "cut", "closed"}) /\ Len(conns') \in 1..MaxDials /\ client' \in DOMAIN conns'
      /\ up' \in BOOLEAN
  BY <1>1, <1>2, <1>3
<1>5. outages' \in 0..MaxOutages
  <2>1. \A a, b \in Nat : a < b => a + 1 \in 0..b
    OBVIOUS
  <2>2. QED
    BY <1>1, <1>2, <2>1
<1>6. ClientRest'
  BY <1>1, <1>4, <1>5, ClientParts DEF ClientRest
<1>7. QED
  BY <1>1, <1>3, <1>6, EventsStay

LEMMA ServerStartsKeeps ==
  ASSUME ClientInv, Client!ServerStarts
  PROVE  ClientInv'
<1>1. UNCHANGED <<emitted, buffer, sender, asks, caller, client, conns, sent, dropped, cancelled, closed, log, outages>>
      /\ up' = TRUE
  BY DEF Client!ServerStarts, Client!clientVars
<1>2. ClientRest'
  BY <1>1, ClientParts DEF ClientRest
<1>3. QED
  BY <1>1, <1>2, EventsStay

LEMMA ClientInvKept ==
  ASSUME ClientInv, Client!Next \/ UNCHANGED atClient
  PROVE  ClientInv'
<1>1. CASE UNCHANGED atClient
  <2>1. ClientRest'
    BY <1>1, ClientParts DEF ClientRest, atClient
  <2>2. QED
    BY <1>1, <2>1, EventsStay DEF atClient
<1>2. CASE Client!Next
  <2>1. ASSUME NEW s \in Senders, Client!SenderStep(s) PROVE ClientInv'
    BY <2>1, CallKeeps, ServerAppendsKeeps, AnsweredKeeps, CallFailsKeeps, DialKeeps, WakeKeeps
       DEF Client!SenderStep
  <2>2. QED
    BY <1>2, <2>1, EmitKeeps, CancelKeeps, CloseReturnsKeeps, LoopTickKeeps, LoopAskedKeeps, LoopStopsKeeps,
       SpawnedFlushKeeps, AskKeeps, ServerStopsKeeps, ServerStartsKeeps DEF Client!Next, Senders
<1>3. QED
  BY <1>1, <1>2

LEMMA ClientInvStarts == Client!Init => ClientInv
<1> SUFFICES ASSUME Client!Init PROVE ClientInv
  OBVIOUS
<1> DEFINE r == Client!Resting
<1>1. /\ emitted = 0 /\ buffer = <<>> /\ sender = [s \in Senders |-> r]
      /\ asks = <<>> /\ caller = [c \in Callers |-> "out"]
      /\ conns = <<"open">> /\ client = 1
      /\ sent = 0 /\ dropped = 0 /\ cancelled = FALSE /\ closed = FALSE
      /\ log = <<>> /\ up = TRUE /\ outages = 0
  BY DEF Client!Init, Senders
<1>2. r \in Client!Sender /\ r.at = "idle" /\ r.batch = <<>> /\ r.attempt = 0 /\ r.fresh = 0 /\ r.last = FALSE
  <2>1. IsRow(r, "idle", <<>>, 0, 0, "open", FALSE, 0, None, FALSE)
    BY RestingIs, Zenon
  <2>2. FieldsTyped("idle", <<>>, 0, 0, "open", FALSE, 0, None, FALSE)
    BY ClientConstants DEF FieldsTyped
  <2> HIDE DEF r
  <2>3. HasFields(r, "idle", <<>>, 0, 0, "open", FALSE, 0, None, FALSE)
    BY ONLY <2>1, <2>2, RowTyped, Zenon
  <2>4. QED
    BY ONLY <2>3, Zenon DEF HasFields
<1> HIDE DEF r
<1>3. FitsIn(r, log, Len(conns))
  <2>1. r.attempt < MaxAttempts /\ r.at # "calling"
    BY <1>2, ClientConstants
  <2>2. QED
    BY <1>2, <2>1, FitsWhenStale
<1>4. /\ sender \in [Senders -> Client!Sender]
      /\ \A s \in Senders : sender[s] = r
  BY <1>1, <1>2
<1>5. Client!TypeOK
  <2>1. /\ <<"open">> \in Seq({"open", "cut", "closed"}) /\ Len(<<"open">>) \in 1..MaxDials /\ 1 \in DOMAIN <<"open">>
        /\ 0 \in 0..MaxEvents /\ 0 \in 0..MaxOutages /\ 0 \in Nat
    BY ClientConstants
  <2>2. sender \in [Client!Senders -> Client!Sender]
    BY <1>4 DEF Senders
  <2>3. <<>> \in Seq(Client!Event) /\ <<>> \in Seq(Callers)
    OBVIOUS
  <2>4. caller \in [Callers -> {"out", "waiting", "served", "refused"}]
    BY <1>1
  <2>5. QED
    BY <1>1, <2>1, <2>2, <2>3, <2>4 DEF Client!TypeOK
<1>6. LoopQuiet
  BY <1>2, <1>4, ClientConstants DEF LoopQuiet
<1>7. Accounts
  <2>1. \A s \in Senders : hands[s] = <<>>
    BY <1>2, <1>4 DEF hands
  <2>2. InHands(hands) = {}
    BY <2>1, EmptyIds DEF InHands
  <2>3. Cardinality(InHands(hands)) = 0 /\ Cardinality(Ids(log) \ InHands(hands)) = 0
    BY <1>1, <2>2, EmptyIds, FS_EmptySet
  <2>4. Len(buffer) = 0 /\ 0 + 0 + 0 + 0 = 0 /\ 0 <= 0
    BY <1>1
  <2> DEFINE H == InHands(hands)
  <2>5. H = {} /\ Cardinality(H) = 0 /\ Cardinality(Ids(log) \ H) = 0
    BY <2>2, <2>3
  <2>6. /\ IsInjective(buffer) /\ IsInjective(log) /\ Ids(buffer) = {} /\ Ids(log) = {}
        /\ \A s \in Senders : IsInjective(hands[s]) /\ Ids(hands[s]) = {}
    BY <1>1, <2>1, EmptyIds
  <2>7. /\ sent + dropped + Cardinality(H) + Len(buffer) = emitted
        /\ sent <= Cardinality(Ids(log) \ H)
    <3> HIDE DEF H
    <3>1. QED
      BY <1>1, <2>4, <2>5
  <2>8. QED
    BY <2>5, <2>6, <2>7 DEF Accounts, AccountsOf
<1>8. QED
  BY <1>3, <1>4, <1>5, <1>6, <1>7 DEF ClientInv

(* What the accounts say of the counters and of the log.                    *)
Balanced(h, b, l, e, n, d) ==
  /\ n + d + Cardinality(InHands(h) \cup Ids(b)) = e
  /\ n <= Len(l)
  /\ Cardinality((1..e) \ (Ids(l) \cup Ids(b) \cup InHands(h))) <= d

LEMMA AccountsAreTrue ==
  ASSUME NEW h, NEW b, NEW l, NEW e, NEW n, NEW d,
         AccountTypes(h, b, l, e, n, d), AccountsOf(h, b, l, e, n, d)
  PROVE  Balanced(h, b, l, e, n, d)
<1> DEFINE H == InHands(h)
           B == Ids(b)
           L == Ids(l)
           K == L \ H
           X == H \cup B
           R == (1..e) \ (L \cup B \cup H)
<1>1. e \in Nat /\ n \in Nat /\ d \in Nat /\ b \in Seq(Event) /\ l \in Seq(Event)
  BY DEF AccountTypes
<1>2. /\ H \subseteq 1..e /\ B \subseteq 1..e /\ L \subseteq 1..e /\ H \cap B = {} /\ B \cap L = {}
      /\ n + d + Cardinality(H) + Len(b) = e /\ n <= Cardinality(K)
  BY DEF AccountsOf
<1>3. Cardinality(B) = Len(b) /\ Cardinality(L) = Len(l)
  BY <1>1, IdsCount DEF AccountsOf
<1> HIDE DEF H, B, L
<1>4. /\ IsFiniteSet(H) /\ IsFiniteSet(B) /\ IsFiniteSet(L) /\ IsFiniteSet(K) /\ IsFiniteSet(X) /\ IsFiniteSet(R)
      /\ K \subseteq L /\ K \cup X \subseteq 1..e /\ IsFiniteSet(K \cup X)
  BY <1>1, <1>2, UpToFinite
<1>5. Cardinality(X) = Cardinality(H) + Cardinality(B) /\ Cardinality(H) \in Nat /\ Cardinality(B) \in Nat
  BY <1>2, <1>4, CardOfTwo
<1>6. K \cap X = {} /\ R \cap (K \cup X) = {} /\ R \cup (K \cup X) = 1..e
  BY <1>2
<1> HIDE DEF K, X, R
<1>7. Cardinality(K \cup X) = Cardinality(K) + Cardinality(X)
      /\ Cardinality(K) \in Nat /\ Cardinality(X) \in Nat
  BY <1>4, <1>6, CardOfTwo
<1>8. Cardinality(1..e) = Cardinality(R) + Cardinality(K \cup X) /\ Cardinality(R) \in Nat
  BY <1>4, <1>6, CardOfTwo
<1>9. Cardinality(1..e) = e
  <2>1. Cardinality(1..e) = IF 1 > e THEN 0 ELSE e - 1 + 1
    BY <1>1, FS_Interval
  <2>2. QED
    BY <1>1, <2>1
<1>10. Cardinality(K) <= Cardinality(L) /\ Cardinality(L) \in Nat
  BY <1>4, FS_Subset, FS_CardinalityType
<1>11. n + d + Cardinality(X) = e /\ n <= Cardinality(L) /\ Cardinality(R) <= d
  <2> DEFINE ch == Cardinality(H)
             cb == Cardinality(B)
             cl == Cardinality(L)
             ck == Cardinality(K)
             cx == Cardinality(X)
             cr == Cardinality(R)
  <2>1. n + d + ch + cb = e /\ e = cr + (ck + cx)
    BY <1>2, <1>3, <1>7, <1>8, <1>9
  <2>2. ch \in Nat /\ cb \in Nat /\ cl \in Nat /\ ck \in Nat /\ cx \in Nat /\ cr \in Nat
    BY <1>5, <1>7, <1>8, <1>10
  <2>3. n <= ck /\ ck <= cl /\ cx = ch + cb
    BY <1>2, <1>5, <1>10
  <2> HIDE DEF ch, cb, cl, ck, cx, cr
  <2>4. n + d + cx = e /\ n <= cl /\ cr <= d
    BY <1>1, <2>1, <2>2, <2>3
  <2>5. QED
    BY <2>4 DEF cx, cl, cr
<1>12. QED
  BY <1>3, <1>11 DEF Balanced, X, R, H, B, L

(* The client's module and this one mean the same by these words.            *)
LEMMA SameWords ==
  /\ \A S : Client!Cardinality(S) = Cardinality(S)
  /\ \A q : Client!IsInjective(q) = IsInjective(q)
  /\ \A q : Client!Ids(q) = Ids(q)
<1>1. \A S : Client!Cardinality(S) = Cardinality(S)
  BY Zenon DEF Client!Cardinality, Cardinality
<1>2. \A q : Client!IsInjective(q) = IsInjective(q)
  BY DEF Client!IsInjective, IsInjective
<1>3. \A q : Client!Ids(q) = Ids(q)
  BY DEF Client!Ids, Ids
<1>4. QED
  BY <1>1, <1>2, <1>3

LEMMA ClientInvSound == ClientInv => Client!TypeOK /\ Client!EventsAccounted
<1> SUFFICES ASSUME ClientInv PROVE Client!TypeOK /\ Client!EventsAccounted
  OBVIOUS
<1>1. AccountTypes(hands, buffer, log, emitted, sent, dropped) /\ AccountsOf(hands, buffer, log, emitted, sent, dropped)
  BY ClientTyped DEF ClientInv, Accounts
<1>2. \A s \in Senders : hands[s] = Client!Held(s)
  BY DEF hands, Client!Held
<1>3. \A q : Client!Ids(q) = Ids(q)
  BY SameWords
<1>4. Client!HeldByAny = InHands(hands)
  BY <1>2, <1>3 DEF Client!HeldByAny, InHands, Senders
<1>5. Client!OneHolder
  <2>1. IsInjective(buffer) /\ \A s \in Senders : IsInjective(hands[s])
    BY <1>1 DEF AccountsOf
  <2>2. \A s, t \in Senders : s # t => Ids(hands[s]) \cap Ids(hands[t]) = {}
    BY <1>1 DEF AccountsOf
  <2>3. InHands(hands) \cap Ids(buffer) = {}
    BY <1>1 DEF AccountsOf
  <2>4. QED
    BY <1>2, <1>3, <1>4, <2>1, <2>2, <2>3, SameWords DEF Client!OneHolder, Senders
<1>6. Balanced(hands, buffer, log, emitted, sent, dropped)
  BY ONLY <1>1, AccountsAreTrue, Zenon
<1>7. Client!Counted
  <2> DEFINE S == InHands(hands) \cup Ids(buffer)
  <2>1. sent + dropped + Cardinality(S) = emitted
    BY ONLY <1>6, Zenon DEF Balanced
  <2>2. Client!HeldByAny \cup Client!Ids(buffer) = S
    BY <1>3, <1>4
  <2> HIDE DEF S
  <2>3. QED
    BY <2>1, <2>2, SameWords DEF Client!Counted
<1>8. Client!CountsHonest
  <2> DEFINE S == (1..emitted) \ (Ids(log) \cup Ids(buffer) \cup InHands(hands))
  <2>1. sent <= Len(log) /\ Cardinality(S) <= dropped
    BY ONLY <1>6, Zenon DEF Balanced
  <2>2. (1..emitted) \ (Client!Ids(log) \cup Client!Ids(buffer) \cup Client!HeldByAny) = S
    BY <1>3, <1>4
  <2>3. Client!IsInjective(log)
    BY <1>1, SameWords DEF AccountsOf
  <2> HIDE DEF S
  <2>4. QED
    BY <2>1, <2>2, <2>3, SameWords DEF Client!CountsHonest
<1>9. Client!NothingLeftBehind
  BY DEF Client!NothingLeftBehind, ClientInv, LoopQuiet
<1>10. QED
  BY <1>5, <1>7, <1>8, <1>9 DEF ClientInv, Client!EventsAccounted

(***************************************************************************)
(* Both ends.                                                              *)
(***************************************************************************)

TelemetryInv == LogInv /\ ClientInv

LEMMA TelemetryInvStarts == MCInit => TelemetryInv
BY LogInvStarts, ClientInvStarts DEF MCInit, TelemetryInv

LEMMA TelemetryInvKept == TelemetryInv /\ [MCNext]_<<part, vars, atClient>> => TelemetryInv'
<1> SUFFICES ASSUME TelemetryInv, [MCNext]_<<part, vars, atClient>> PROVE TelemetryInv'
  OBVIOUS
<1>1. LogInv /\ ClientInv
  BY DEF TelemetryInv
<1>2. CASE Client!Next /\ UNCHANGED vars
  BY <1>1, <1>2, LogInvKept, ClientInvKept DEF TelemetryInv
<1>3. CASE Next /\ UNCHANGED atClient
  BY <1>1, <1>3, LogInvKept, ClientInvKept DEF TelemetryInv
<1>4. CASE UNCHANGED vars /\ UNCHANGED atClient
  BY <1>1, <1>4, LogInvKept, ClientInvKept DEF TelemetryInv
<1>5. QED
  BY <1>2, <1>3, <1>4 DEF MCNext

LEMMA TelemetryInvHolds == MCSpec => []TelemetryInv
<1>1. QED
  BY TelemetryInvStarts, TelemetryInvKept, PTL DEF MCSpec

(* Both parts keep to their types, however many goroutines flush, whatever  *)
(* batches arrive and wherever a daemon dies: in particular no goroutine    *)
(* calls on a connection that was never made, and no attempt goes past      *)
(* MaxReconnectAttempts.                                                    *)
THEOREM TelemetryTypes == MCSpec => []TypesOK
<1>1. TelemetryInv => TypesOK
  BY LogInvSound, ClientInvSound DEF TelemetryInv, TypesOK
<1>2. QED
  BY <1>1, TelemetryInvHolds, PTL

(* What Emit took is accounted for: client.go's Emit, flush, sendBatch,     *)
(* reconnect and Close race with each other and with a telemetryd that      *)
(* comes and goes, and still every event is in one place or counted once,   *)
(* SentCount never exceeds what telemetryd keeps, and what is nowhere is    *)
(* within DroppedCount.                                                     *)
THEOREM TelemetryAccounted == MCSpec => []EventsAccounted
<1>1. TelemetryInv => EventsAccounted
  BY ClientInvSound DEF TelemetryInv, EventsAccounted
<1>2. QED
  BY <1>1, TelemetryInvHolds, PTL

(* The query store agrees with the event log: the projectors' transactions, *)
(* the legacy import and the deaths of the daemon leave the aggregates equal *)
(* to what the facts say, the facts covering what the checkpoint has passed, *)
(* and no legacy row imported that the import has not passed.               *)
THEOREM TelemetryProjected == MCSpec => []ProjectionSound
<1>1. TelemetryInv => ProjectionSound
  BY LogInvSound DEF TelemetryInv
<1>2. QED
  BY <1>1, TelemetryInvHolds, PTL

=============================================================================
