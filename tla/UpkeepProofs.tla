---------------------------- MODULE UpkeepProofs ----------------------------
(***************************************************************************)
(* Proofs about the background work of a server and about source maps: who *)
(* leads, which files and cached maps can be relied upon, and what         *)
(* retention deletes.                                                      *)
(*                                                                         *)
(* Leadership: the lock is what keeps two instances from leading.          *)
(* LiveConnHolds ties it to the connection: a connection that is still     *)
(* alive holds the lock, so a second instance can only be let in after the *)
(* first one has lost its own.                                             *)
(*                                                                         *)
(* The other two parts need sums and sorted lists first.  Both are about   *)
(* finite sets of any size, where induction over the data is replaced: a   *)
(* sum is the cardinality of a set of units, and that lists can be sorted  *)
(* follows from a smallest set that could not be.                          *)
(***************************************************************************)
EXTENDS SourceMaps, Retention, Leader, FiniteSetTheorems, FunctionTheorems, SequenceTheorems,
        WellFoundedInduction, TLAPS

LiveConnHolds == \A i \in Instance : conn[i] = "ok" => lock = i

\* The jobs run only between a won attempt and the close of its connection.
JobsWithinLeadership ==
  \A i \in Instance : RunsSingletons(i) => pc[i] \in {"lead", "drain"}

\* The pool closes in a process that is over.
ClosedIsOver ==
  \A i \in Instance : closed[i] => pc[i] = "stopped" /\ local[i] = "off" /\ ~up[i]

LeaderInv == TypeOK /\ LiveConnHolds /\ JobsWithinLeadership /\ ClosedIsOver

-----------------------------------------------------------------------------
\* Instances that start hold no connection and run no singleton job.
LEMMA LeaderInvInit == LeaderInit => LeaderInv
  BY LeaderAssumption
  DEF LeaderInit, LeaderInv, TypeOK, LiveConnHolds, JobsWithinLeadership, ClosedIsOver,
      RunsSingletons, AllOff

\* The types of one instance's part of the state.
LEMMA InstanceTypes ==
  ASSUME TypeOK, NEW i \in Instance
  PROVE  /\ up[i] \in BOOLEAN /\ closed[i] \in BOOLEAN
         /\ pc[i] \in {"try", "lead", "drain", "sleep", "stopped"}
         /\ conn[i] \in {"none", "ok", "broken"}
         /\ local[i] \in {"off", "run", "panicked"}
         /\ conn[i] # "none" <=> pc[i] \in {"lead", "drain"}
         /\ job[i] \in [Job -> {"off", "run", "panicked"}]
         /\ faults < MaxFaults => faults + 1 \in 0 .. MaxFaults
         /\ stops < MaxStops => stops + 1 \in 0 .. MaxStops
  BY LeaderAssumption DEF TypeOK

\* runAsLeader: the lock is taken with the connection and given up with it,
\* after the last job has returned.
LEMMA LeadKeeps ==
  ASSUME LeaderInv, NEW i \in Instance, Lead(i)
  PROVE  LeaderInv'
<1> USE InstanceTypes, LeaderAssumption
<1>1. TypeOK
  BY DEF LeaderInv
<1>2. CASE Try(i)
  <2>1. pc[i] = "try" /\ up[i] /\ conn[i] = "none" /\ UNCHANGED <<up, local, closed, bounds>>
    BY <1>1, <1>2 DEF Try
  <2>2. CASE lock = Nobody
    <3>1. /\ lock' = i /\ conn' = [conn EXCEPT ![i] = "ok"] /\ pc' = [pc EXCEPT ![i] = "lead"]
          /\ job' = [job EXCEPT ![i] = [j \in Job |-> "run"]]
      BY <1>2, <2>2 DEF Try
    <3>2. TypeOK'
      BY <1>1, <2>1, <3>1 DEF TypeOK, bounds
    <3>3. LiveConnHolds'
      BY <1>1, <2>2, <3>1 DEF LeaderInv, LiveConnHolds, TypeOK
    <3>4. JobsWithinLeadership'
      BY <1>1, <3>1 DEF LeaderInv, JobsWithinLeadership, RunsSingletons, AllOff, TypeOK
    <3>5. ClosedIsOver'
      BY <1>1, <2>1, <3>1 DEF LeaderInv, ClosedIsOver, TypeOK
    <3> QED BY <3>2, <3>3, <3>4, <3>5 DEF LeaderInv
  <2>3. CASE lock # Nobody
    <3>1. pc' = [pc EXCEPT ![i] = "sleep"] /\ UNCHANGED <<lock, conn, job>>
      BY <1>2, <2>3 DEF Try
    <3> QED
      BY <1>1, <2>1, <3>1
      DEF LeaderInv, TypeOK, LiveConnHolds, JobsWithinLeadership, ClosedIsOver,
          RunsSingletons, AllOff, bounds
  <2> QED BY <2>2, <2>3
<1>3. CASE TryFails(i)
  BY <1>1, <1>3
  DEF TryFails, LeaderInv, TypeOK, LiveConnHolds, JobsWithinLeadership, ClosedIsOver,
      RunsSingletons, AllOff
<1>4. CASE Watch(i)
  BY <1>1, <1>4
  DEF Watch, LeaderInv, TypeOK, LiveConnHolds, JobsWithinLeadership, ClosedIsOver,
      RunsSingletons, AllOff, bounds
<1>5. CASE Close(i)
  <2>1. /\ pc[i] = "drain" /\ AllOff(i) /\ conn[i] # "none"
        /\ lock' = (IF lock = i /\ conn[i] = "ok" THEN Nobody ELSE lock)
        /\ conn' = [conn EXCEPT ![i] = "none"] /\ pc' = [pc EXCEPT ![i] = "sleep"]
        /\ UNCHANGED <<up, job, local, closed, bounds>>
    BY <1>1, <1>5 DEF Close
  <2>2. TypeOK'
    BY <1>1, <2>1 DEF TypeOK, bounds
  <2>3. LiveConnHolds'
    BY <1>1, <2>1 DEF LeaderInv, LiveConnHolds, TypeOK
  <2>4. JobsWithinLeadership' /\ ClosedIsOver'
    BY <1>1, <2>1 DEF LeaderInv, JobsWithinLeadership, ClosedIsOver, RunsSingletons, AllOff, TypeOK
  <2> QED BY <2>2, <2>3, <2>4 DEF LeaderInv
<1>6. CASE Wake(i)
  BY <1>1, <1>6
  DEF Wake, LeaderInv, TypeOK, LiveConnHolds, JobsWithinLeadership, ClosedIsOver,
      RunsSingletons, AllOff, bounds
<1> QED BY <1>2, <1>3, <1>4, <1>5, <1>6 DEF Lead

\* supervise: a singleton job starts again only under a living leadership.
LEMMA SuperviseKeeps ==
  ASSUME LeaderInv, NEW i \in Instance, Supervise(i)
  PROVE  LeaderInv'
<1> USE InstanceTypes, LeaderAssumption
<1>1. TypeOK
  BY DEF LeaderInv
<1>2. ASSUME NEW j \in Job, NEW s \in {"off", "run", "panicked"},
             s = "off" \/ job[i][j] # "off", job' = [job EXCEPT ![i][j] = s],
             faults' \in 0 .. MaxFaults, UNCHANGED <<up, pc, conn, lock, local, closed, stops>>
      PROVE  LeaderInv'
  <2>1. TypeOK'
    BY <1>1, <1>2 DEF TypeOK
  <2>2. \A k \in Instance : RunsSingletons(k)' => RunsSingletons(k)
    BY <1>1, <1>2 DEF RunsSingletons, AllOff, TypeOK
  <2> QED
    BY <1>2, <2>1, <2>2 DEF LeaderInv, LiveConnHolds, JobsWithinLeadership, ClosedIsOver
<1>3. ASSUME NEW j \in Job,
             JobStops(i, j) \/ JobReturns(i, j) \/ JobPanics(i, j) \/ JobRestarts(i, j)
      PROVE  LeaderInv'
  <2>1. faults' \in 0 .. MaxFaults /\ UNCHANGED <<up, pc, conn, lock, local, closed, stops>>
    BY <1>1, <1>3 DEF JobStops, JobReturns, JobPanics, JobRestarts, bounds, TypeOK
  <2>2. \E s \in {"off", "run", "panicked"} :
          (s = "off" \/ job[i][j] # "off") /\ job' = [job EXCEPT ![i][j] = s]
    BY <1>3 DEF JobStops, JobReturns, JobPanics, JobRestarts
  <2> QED BY <1>2, <2>1, <2>2
<1>4. ASSUME NEW s \in {"off", "run", "panicked"}, local' = [local EXCEPT ![i] = s],
             s = "off" \/ local[i] # "off",
             faults' \in 0 .. MaxFaults, UNCHANGED <<up, pc, conn, lock, job, closed, stops>>
      PROVE  LeaderInv'
  <2>1. TypeOK'
    BY <1>1, <1>4 DEF TypeOK
  <2>2. ClosedIsOver'
    BY <1>1, <1>4 DEF LeaderInv, ClosedIsOver, TypeOK
  <2> QED
    BY <1>4, <2>1, <2>2 DEF LeaderInv, LiveConnHolds, JobsWithinLeadership, RunsSingletons, AllOff
<1>5. CASE LocalStops(i) \/ LocalPanics(i) \/ LocalRestarts(i)
  <2>1. faults' \in 0 .. MaxFaults /\ UNCHANGED <<up, pc, conn, lock, job, closed, stops>>
    BY <1>1, <1>5 DEF LocalStops, LocalPanics, LocalRestarts, bounds, TypeOK
  <2>2. \E s \in {"off", "run", "panicked"} :
          (s = "off" \/ local[i] # "off") /\ local' = [local EXCEPT ![i] = s]
    BY <1>5 DEF LocalStops, LocalPanics, LocalRestarts
  <2> QED BY <1>4, <2>1, <2>2
<1> QED BY <1>3, <1>5 DEF Supervise

\* The process and its surroundings: a crash ends every job with it, and a lost
\* connection is no longer alive.
LEMMA ProcessKeeps ==
  ASSUME LeaderInv, NEW i \in Instance, Process(i)
  PROVE  LeaderInv'
<1> USE InstanceTypes, LeaderAssumption
<1>1. TypeOK
  BY DEF LeaderInv
<1>2. CASE Stop(i)
  BY <1>1, <1>2
  DEF Stop, LeaderInv, TypeOK, LiveConnHolds, JobsWithinLeadership, ClosedIsOver,
      RunsSingletons, AllOff
<1>3. CASE PoolCloses(i)
  BY <1>1, <1>3
  DEF PoolCloses, LeaderInv, TypeOK, LiveConnHolds, JobsWithinLeadership, ClosedIsOver,
      RunsSingletons, AllOff, bounds
<1>4. CASE Crash(i)
  BY <1>1, <1>4
  DEF Crash, LeaderInv, TypeOK, LiveConnHolds, JobsWithinLeadership, ClosedIsOver,
      RunsSingletons, AllOff
<1>5. CASE Restart(i)
  BY <1>1, <1>5
  DEF Restart, LeaderInv, TypeOK, LiveConnHolds, JobsWithinLeadership, ClosedIsOver,
      RunsSingletons, AllOff, bounds
<1>6. CASE Break(i)
  BY <1>1, <1>6
  DEF Break, LeaderInv, TypeOK, LiveConnHolds, JobsWithinLeadership, ClosedIsOver,
      RunsSingletons, AllOff
<1> QED BY <1>2, <1>3, <1>4, <1>5, <1>6 DEF Process

\* Every step keeps the invariant.
LEMMA LeaderInvNext == LeaderInv /\ [LeaderNext]_leaderVars => LeaderInv'
<1> SUFFICES ASSUME LeaderInv, [LeaderNext]_leaderVars PROVE LeaderInv'
  OBVIOUS
<1>1. CASE UNCHANGED leaderVars
  BY <1>1
  DEF leaderVars, bounds, LeaderInv, TypeOK, LiveConnHolds, JobsWithinLeadership, ClosedIsOver,
      RunsSingletons, AllOff
<1>2. ASSUME NEW i \in Instance, Lead(i) \/ Supervise(i) \/ Process(i) PROVE LeaderInv'
  BY <1>2, LeadKeeps, SuperviseKeeps, ProcessKeeps
<1>3. CASE ServerReleases
  BY <1>3, LeaderAssumption
  DEF ServerReleases, bounds, LeaderInv, TypeOK, LiveConnHolds, JobsWithinLeadership,
      ClosedIsOver, RunsSingletons, AllOff
<1> QED BY <1>1, <1>2, <1>3 DEF LeaderNext

\* The invariant holds throughout.
THEOREM LeaderInvHolds == LeaderSpec => []LeaderInv
  BY LeaderInvInit, LeaderInvNext, PTL DEF LeaderSpec

\* The variables keep their types, and an instance has a lock connection
\* exactly while it leads or winds its jobs down.
THEOREM LeaderTypeCorrect == LeaderSpec => []TypeOK
<1>1. LeaderInv => TypeOK
  BY DEF LeaderInv
<1> QED BY <1>1, LeaderInvHolds, PTL

\* A singleton job that runs has the lock, or an instance that has yet to find
\* its connection lost; and no job of any kind runs on a closed pool.
THEOREM JobsHaveLockAndPoolHolds == LeaderSpec => []JobsHaveLockAndPool
<1>1. LeaderInv => JobsHaveLockAndPool
  <2> SUFFICES ASSUME LeaderInv, NEW i \in Instance
               PROVE  /\ RunsSingletons(i) => lock = i \/ conn[i] = "broken"
                      /\ closed[i] => AllOff(i) /\ local[i] = "off"
    BY DEF JobsHaveLockAndPool, JobsRunUnderLock, PoolOutlivesJobs
  <2>1. RunsSingletons(i) => pc[i] \in {"lead", "drain"}
    BY DEF LeaderInv, JobsWithinLeadership
  <2>2. conn[i] \in {"none", "ok", "broken"} /\ (conn[i] # "none" <=> pc[i] \in {"lead", "drain"})
    BY InstanceTypes DEF LeaderInv
  <2>3. closed[i] => pc[i] = "stopped" /\ local[i] = "off"
    BY DEF LeaderInv, ClosedIsOver
  <2>4. conn[i] = "ok" => lock = i
    BY DEF LeaderInv, LiveConnHolds
  <2> QED BY <2>1, <2>2, <2>3, <2>4 DEF RunsSingletons
<1> QED BY <1>1, LeaderInvHolds, PTL

\* What is true of the package comment's "at most one instance": two instances
\* run singleton jobs at once only while one of them has lost its connection
\* and has not noticed.
OverlapNeedsLoss ==
  \A i, k \in Instance :
    RunsSingletons(i) /\ RunsSingletons(k) /\ i # k => conn[i] = "broken" \/ conn[k] = "broken"

\* The overlap that refutes OneInstanceAtATime is the only kind there is.
THEOREM OverlapNeedsLossHolds == LeaderSpec => []OverlapNeedsLoss
<1>1. JobsHaveLockAndPool => OverlapNeedsLoss
  BY DEF JobsHaveLockAndPool, JobsRunUnderLock, OverlapNeedsLoss
<1> QED BY <1>1, JobsHaveLockAndPoolHolds, PTL

(***************************************************************************)
(* Sums.  The unit n of x is <<x, n>>, and x has f[x] of them: the sum of  *)
(* f over S is the number of the units of its members.                     *)
(***************************************************************************)
Units(f, S) == {p \in S \X Nat : 1 <= p[2] /\ p[2] <= f[p[1]]}

\* A set of numbers that is not empty has a least element.
LEMMA LeastNatural ==
  ASSUME NEW T \in SUBSET Nat, T # {}
  PROVE  \E m \in T : \A n \in T : m <= n
<1>1. PICK m \in T : \A n \in T : ~ (<<n, m>> \in OpToRel(<, Nat))
  BY NatLessThanWellFounded, WFMin
<1>2. \A n \in T : ~ (n < m)
  BY <1>1 DEF OpToRel
<1> QED BY <1>2

\* An interval from 1 has as many elements as its bound says.
LEMMA IntervalSize ==
  ASSUME NEW n \in Nat
  PROVE  IsFiniteSet(1 .. n) /\ Cardinality(1 .. n) = n
<1>1. IsFiniteSet(1 .. n) /\ Cardinality(1 .. n) = IF 1 > n THEN 0 ELSE n - 1 + 1
  BY FS_Interval
<1>2. (IF 1 > n THEN 0 ELSE n - 1 + 1) = n
  OBVIOUS
<1> QED BY <1>1, <1>2

LEMMA UnitsOne ==
  ASSUME NEW f, NEW x, f[x] \in Nat
  PROVE  IsFiniteSet(Units(f, {x})) /\ Cardinality(Units(f, {x})) = f[x]
<1> DEFINE A == {x}
           B == 1 .. f[x]
<1>1. Units(f, {x}) = A \X B
  <2>1. ASSUME NEW p \in Units(f, {x}) PROVE p \in A \X B
    BY DEF Units
  <2>2. ASSUME NEW p \in A \X B PROVE p \in Units(f, {x})
    <3>1. p = <<p[1], p[2]>> /\ p[1] = x /\ p[2] \in 1 .. f[x]
      OBVIOUS
    <3> QED BY <3>1 DEF Units
  <2> QED BY <2>1, <2>2
<1>2. IsFiniteSet(A) /\ Cardinality(A) = 1
  BY FS_Singleton
<1>3. IsFiniteSet(B) /\ Cardinality(B) = f[x]
  BY IntervalSize
<1> HIDE DEF A, B
<1>4. IsFiniteSet(A \X B) /\ Cardinality(A \X B) = Cardinality(A) * Cardinality(B)
  BY <1>2, <1>3, FS_Product
<1>5. 1 * f[x] = f[x]
  OBVIOUS
<1> QED BY <1>1, <1>2, <1>3, <1>4, <1>5

LEMMA UnitsSplit ==
  ASSUME NEW f, NEW S, NEW T
  PROVE  Units(f, S \cup T) = Units(f, S) \cup Units(f, T)
  BY DEF Units

\* The units of a finite set are finitely many: by least counterexample.
LEMMA UnitsFinite ==
  ASSUME NEW f, NEW S, IsFiniteSet(S), \A x \in S : f[x] \in Nat
  PROVE  IsFiniteSet(Units(f, S)) /\ Cardinality(Units(f, S)) \in Nat
<1> DEFINE Bad == {n \in Nat : \E s \in SUBSET S : Cardinality(s) = n /\ ~IsFiniteSet(Units(f, s))}
<1>1. Bad = {}
  <2> SUFFICES ASSUME Bad # {} PROVE FALSE
    OBVIOUS
  <2>1. PICK m \in Bad : \A n \in Bad : m <= n
    <3>1. Bad \in SUBSET Nat
      OBVIOUS
    <3> HIDE DEF Bad
    <3> QED BY <3>1, LeastNatural
  <2>2. PICK s \in SUBSET S : Cardinality(s) = m /\ ~IsFiniteSet(Units(f, s))
    BY <2>1
  <2>3. s # {}
    <3>1. Units(f, {}) = {}
      BY DEF Units
    <3> QED BY <2>2, <3>1, FS_EmptySet
  <2>4. PICK u \in s : TRUE
    BY <2>3
  <2> DEFINE t == s \ {u}
  <2>5. t \in SUBSET S /\ Cardinality(t) = m - 1 /\ m - 1 \in Nat
    <3>1. IsFiniteSet(s) /\ IsFiniteSet(t)
      BY FS_Subset
    <3>2. Cardinality(t) \in Nat
      BY <3>1, FS_CardinalityType
    <3> QED BY <2>2, <3>1, <3>2, FS_RemoveElement
  <2>6. IsFiniteSet(Units(f, t))
    <3>1. m \in Nat /\ ~(m <= m - 1)
      BY <2>5, <2>1
    <3>2. m - 1 \notin Bad
      BY <2>1, <3>1
    <3> QED BY <2>5, <3>2
  <2>7. Units(f, s) = Units(f, t) \cup Units(f, {u})
    <3>1. s = t \cup {u}
      BY <2>4
    <3> QED BY <3>1, UnitsSplit
  <2>8. IsFiniteSet(Units(f, {u}))
    BY <2>4, UnitsOne
  <2>9. IsFiniteSet(Units(f, t) \cup Units(f, {u}))
    BY <2>6, <2>8, FS_Union
  <2> QED BY <2>2, <2>7, <2>9
<1>2. IsFiniteSet(Units(f, S))
  <2>1. Cardinality(S) \in Nat
    BY FS_CardinalityType
  <2> QED BY <1>1, <2>1
<1> QED BY <1>2, FS_CardinalityType

LEMMA UnitsAdd ==
  ASSUME NEW f, NEW S, NEW T, IsFiniteSet(S), IsFiniteSet(T),
         \A x \in S \cup T : f[x] \in Nat, S \cap T = {}
  PROVE  Cardinality(Units(f, S \cup T)) = Cardinality(Units(f, S)) + Cardinality(Units(f, T))
<1> DEFINE P == Units(f, S)
           Q == Units(f, T)
<1>1. IsFiniteSet(P) /\ IsFiniteSet(Q) /\ Cardinality(P) \in Nat /\ Cardinality(Q) \in Nat
  BY UnitsFinite
<1>2. P \cap Q = {}
  BY DEF Units
<1>3. Units(f, S \cup T) = P \cup Q
  BY UnitsSplit
<1> HIDE DEF P, Q
<1>4. Cardinality(P \cup Q) = Cardinality(P) + Cardinality(Q) - Cardinality(P \cap Q)
  BY <1>1, FS_Union
<1>5. Cardinality(P \cup Q) = Cardinality(P) + Cardinality(Q)
  <2>1. Cardinality(P \cap Q) = 0
    BY <1>2, FS_EmptySet
  <2> QED BY <1>1, <1>4, <2>1
<1> QED BY <1>3, <1>5 DEF P, Q

\* What a fold does with one set, given the sums of the smaller ones.
Pick(s) == CHOOSE x \in s : TRUE
SumStep(f, g, s) == IF s = {} THEN 0 ELSE f[Pick(s)] + g[s \ {Pick(s)}]

LEMMA SumIsUnits ==
  ASSUME NEW f, NEW S, IsFiniteSet(S), \A x \in S : f[x] \in Nat
  PROVE  SumFunctionOnSet(f, S) = Cardinality(Units(f, S))
<1> DEFINE g == [s \in SUBSET S |-> Cardinality(Units(f, s))]
           h == CHOOSE k : k = [s \in SUBSET S |-> SumStep(f, k, s)]
           Bad == {n \in Nat : \E s \in SUBSET S : Cardinality(s) = n /\ h[s] # g[s]}
<1>1. ASSUME NEW s \in SUBSET S PROVE g[s] = SumStep(f, g, s)
  <2>1. CASE s = {}
    <3>1. Units(f, s) = {}
      BY <2>1 DEF Units
    <3> QED BY <2>1, <3>1, FS_EmptySet DEF SumStep
  <2>2. CASE s # {}
    <3> DEFINE u == Pick(s)
               t == s \ {u}
    <3>1. u \in s /\ f[u] \in Nat
      BY <2>2 DEF Pick
    <3>2. s = t \cup {u} /\ t \cap {u} = {} /\ t \in SUBSET S
      BY <3>1
    <3>3. IsFiniteSet(t) /\ IsFiniteSet({u}) /\ \A x \in t \cup {u} : f[x] \in Nat
      BY <3>1, <3>2, FS_Subset, FS_Singleton
    <3> HIDE DEF u, t
    <3>4. Cardinality(Units(f, s)) = Cardinality(Units(f, t)) + Cardinality(Units(f, {u}))
      BY <3>2, <3>3, UnitsAdd
    <3>5. Cardinality(Units(f, {u})) = f[u] /\ Cardinality(Units(f, t)) \in Nat
      BY <3>1, <3>3, UnitsOne, UnitsFinite
    <3>6. g[s] = f[u] + g[t]
      BY <3>1, <3>2, <3>4, <3>5
    <3> QED BY <2>2, <3>6 DEF SumStep, u, t
  <2> QED BY <2>1, <2>2
<1>2. g = [s \in SUBSET S |-> SumStep(f, g, s)]
  BY <1>1
<1> HIDE DEF g
<1>3. h = [s \in SUBSET S |-> SumStep(f, h, s)]
  BY <1>2
<1> HIDE DEF h
<1>4. Bad = {}
  <2> SUFFICES ASSUME Bad # {} PROVE FALSE
    OBVIOUS
  <2>1. PICK m \in Bad : \A n \in Bad : m <= n
    <3>1. Bad \in SUBSET Nat
      OBVIOUS
    <3> HIDE DEF Bad
    <3> QED BY <3>1, LeastNatural
  <2>2. PICK s \in SUBSET S : Cardinality(s) = m /\ h[s] # g[s]
    BY <2>1
  <2>3. h[s] = SumStep(f, h, s) /\ g[s] = SumStep(f, g, s)
    BY <1>1, <1>3
  <2>4. s # {}
    BY <2>2, <2>3 DEF SumStep
  <2> DEFINE t == s \ {Pick(s)}
  <2>5. Pick(s) \in s
    BY <2>4 DEF Pick
  <2>6. t \in SUBSET S /\ Cardinality(t) = m - 1 /\ m - 1 \in Nat
    <3>1. IsFiniteSet(s) /\ IsFiniteSet(t)
      BY FS_Subset
    <3>2. Cardinality(t) \in Nat
      BY <3>1, FS_CardinalityType
    <3> QED BY <2>2, <2>5, <3>1, <3>2, FS_RemoveElement
  <2>7. h[t] = g[t]
    <3>1. m \in Nat /\ ~(m <= m - 1)
      BY <2>1, <2>6
    <3>2. m - 1 \notin Bad
      BY <2>1, <3>1
    <3> QED BY <2>6, <3>2
  <2> QED BY <2>2, <2>3, <2>4, <2>7 DEF SumStep
<1>5. h[S] = g[S]
  <2>1. Cardinality(S) \in Nat
    BY FS_CardinalityType
  <2> QED BY <1>4, <2>1
<1>6. SumFunctionOnSet(f, S) = h[S]
  BY DEF SumFunctionOnSet, FoldFunctionOnSet, MapThenFoldSet, SumStep, Pick, h
<1> QED BY <1>5, <1>6 DEF g

\* What the proofs below use of sums.
LEMMA SumType ==
  ASSUME NEW f, NEW S, IsFiniteSet(S), \A x \in S : f[x] \in Nat
  PROVE  SumFunctionOnSet(f, S) \in Nat
  BY SumIsUnits, UnitsFinite

LEMMA SumEmpty == ASSUME NEW f PROVE SumFunctionOnSet(f, {}) = 0
<1>1. Units(f, {}) = {}
  BY DEF Units
<1> QED BY <1>1, FS_EmptySet, SumIsUnits

LEMMA SumOne == ASSUME NEW f, NEW x, f[x] \in Nat PROVE SumFunctionOnSet(f, {x}) = f[x]
<1>1. IsFiniteSet({x}) /\ \A y \in {x} : f[y] \in Nat
  BY FS_Singleton
<1> QED BY <1>1, SumIsUnits, UnitsOne

LEMMA SumSplit ==
  ASSUME NEW f, NEW S, NEW T, IsFiniteSet(S), IsFiniteSet(T),
         \A x \in S \cup T : f[x] \in Nat, S \cap T = {}
  PROVE  SumFunctionOnSet(f, S \cup T) = SumFunctionOnSet(f, S) + SumFunctionOnSet(f, T)
<1>1. IsFiniteSet(S \cup T)
  BY FS_Union
<1> QED BY <1>1, UnitsAdd, SumIsUnits

LEMMA SumFewer ==
  ASSUME NEW f, NEW S, NEW T, IsFiniteSet(S), \A x \in S : f[x] \in Nat, T \subseteq S
  PROVE  SumFunctionOnSet(f, T) <= SumFunctionOnSet(f, S)
<1> DEFINE R == S \ T
<1>1. IsFiniteSet(R) /\ IsFiniteSet(T) /\ R \cap T = {} /\ S = R \cup T
  BY FS_Subset
<1>2. \A x \in R \cup T : f[x] \in Nat
  BY <1>1
<1> HIDE DEF R
<1>3. SumFunctionOnSet(f, S) = SumFunctionOnSet(f, R) + SumFunctionOnSet(f, T)
  BY <1>1, <1>2, SumSplit
<1>4. SumFunctionOnSet(f, R) \in Nat /\ SumFunctionOnSet(f, T) \in Nat
  BY <1>1, <1>2, SumType
<1> QED BY <1>3, <1>4

LEMMA SumSame ==
  ASSUME NEW f, NEW g, NEW S, IsFiniteSet(S), \A x \in S : f[x] \in Nat /\ g[x] = f[x]
  PROVE  SumFunctionOnSet(g, S) = SumFunctionOnSet(f, S)
<1>1. Units(f, S) = Units(g, S)
  BY DEF Units
<1>2. \A x \in S : g[x] \in Nat
  OBVIOUS
<1> QED BY <1>1, <1>2, SumIsUnits

(***************************************************************************)
(* Source maps: files and rows.  A row's file is there because the upload  *)
(* that wrote the row had published it: what is readable before the row is *)
(* has to be said of uploads too.  A deletion that may remove a file found *)
(* no row of it, and there is none still unless one was written meanwhile. *)
(***************************************************************************)
UploadRow == [pc : {"idle", "upsert"}, slot : Slot \cup {None}, hash : Hash \cup {None}]
DeletionRow == [pc : {"idle", "count", "remove"}, hash : Hash \cup {None}, overlap : BOOLEAN]

StoreTypes ==
  /\ frames \in Workload
  /\ sourcemaps \in [Slot -> Hash \cup {None}]
  /\ upload \in [Uploader -> UploadRow] /\ deletion \in [Deleter -> DeletionRow]

RowsOK == \A s \in Slot : sourcemaps[s] # None => sourcemaps[s] \in files \cup raced

UploadsOK ==
  \A u \in Uploader :
    IF upload[u].pc = "upsert"
      THEN upload[u].slot \in Slot /\ upload[u].hash \in Hash /\ upload[u].hash \in files \cup raced
      ELSE upload[u].hash = None

DeletionsOK ==
  \A d \in Deleter :
    /\ deletion[d].pc # "idle" => deletion[d].hash \in Hash
    /\ deletion[d].pc = "remove" /\ ~deletion[d].overlap => Unused(deletion[d].hash)

StoreInv == StoreTypes /\ RowsOK /\ UploadsOK /\ DeletionsOK

LEMMA MapConstants ==
  /\ Contents \in [Slot -> SUBSET Hash] /\ None \notin Slot /\ None \notin Hash
  /\ NoUpload \in UploadRow /\ NoUpload.pc = "idle" /\ NoUpload.hash = None
  /\ NoDeletion \in DeletionRow /\ NoDeletion.pc = "idle" /\ ~NoDeletion.overlap
  BY SourceMapsAssumption DEF NoUpload, UploadRow, NoDeletion, DeletionRow

\* What is referred to remains readable while the books on raced files are kept.
LEMMA StillReadable ==
  ASSUME NEW R, raced' = Missing(R), NEW h \in R,
         (\E s \in Slot : sourcemaps'[s] = h) \/ (\E u \in Uploader : upload'[u].hash = h)
  PROVE  h \in files' \cup raced'
  BY DEF Missing

\* The slots of a frame are slots.
LEMMA FrameSlots ==
  ASSUME StoreInv, NEW f \in frames
  PROVE  f.slots \in Seq(Slot) /\ f.script \in Script \cup {None} /\ \A s \in ToSet(f.slots) : s \in Slot
<1>1. f \in Frame
  BY SourceMapsAssumption DEF StoreInv, StoreTypes, RowsOK, UploadsOK, DeletionsOK
<1>2. f.slots \in Seq(Slot) /\ f.script \in Script \cup {None}
  BY <1>1 DEF Frame
<1>3. \A i \in DOMAIN f.slots : f.slots[i] \in Slot
  BY <1>2
<1> QED BY <1>2, <1>3 DEF ToSet

\* store.go publishes the file before the row is written.
LEMMA PublishKeeps ==
  ASSUME StoreInv, NEW u \in Uploader, NEW slot \in Slot, NEW hash \in Contents[slot],
         Publish(u, slot, hash)
  PROVE  StoreInv'
<1> DEFINE n == [pc |-> "upsert", slot |-> slot, hash |-> hash]
<1>1. /\ upload[u].pc = "idle" /\ files' = files \cup {hash} /\ upload' = [upload EXCEPT ![u] = n]
      /\ sourcemaps' = sourcemaps /\ raced' = Missing(raced) /\ frames' = frames /\ deletion' = deletion
  BY DEF Publish
<1>2. n \in UploadRow /\ n.pc = "upsert" /\ n.slot = slot /\ n.hash = hash /\ hash \in Hash
  BY MapConstants DEF UploadRow
<1> HIDE DEF n
<1>3. ASSUME NEW s \in Slot, sourcemaps'[s] # None PROVE sourcemaps'[s] \in files' \cup raced'
  <2>1. sourcemaps[s] \in files \cup raced /\ sourcemaps'[s] = sourcemaps[s]
    BY <1>1, <1>3 DEF StoreInv, StoreTypes, RowsOK, UploadsOK, DeletionsOK
  <2> QED BY <1>1, <2>1, StillReadable
<1>4. ASSUME NEW v \in Uploader
      PROVE  IF upload'[v].pc = "upsert"
               THEN upload'[v].slot \in Slot /\ upload'[v].hash \in Hash /\ upload'[v].hash \in files' \cup raced'
               ELSE upload'[v].hash = None
  <2>1. CASE v = u
    <3>1. upload'[v] = n
      BY <1>1, <2>1 DEF StoreInv, StoreTypes, RowsOK, UploadsOK, DeletionsOK
    <3> QED BY <1>1, <1>2, <3>1
  <2>2. CASE v # u
    <3>1. upload'[v] = upload[v]
      BY <1>1, <2>2 DEF StoreInv, StoreTypes, RowsOK, UploadsOK, DeletionsOK
    <3>2. upload[v].pc = "upsert" => upload'[v].hash \in files' \cup raced'
      BY <1>1, <3>1, StillReadable DEF StoreInv, StoreTypes, RowsOK, UploadsOK, DeletionsOK
    <3> QED BY <3>1, <3>2 DEF StoreInv, StoreTypes, RowsOK, UploadsOK, DeletionsOK
  <2> QED BY <2>1, <2>2
<1>5. upload' \in [Uploader -> UploadRow]
  BY <1>1, <1>2 DEF StoreInv, StoreTypes, RowsOK, UploadsOK, DeletionsOK
<1>8. StoreTypes'
  BY <1>1, <1>5 DEF StoreInv, StoreTypes
<1>9. RowsOK'
  BY <1>3 DEF RowsOK
<1>10. UploadsOK'
  BY <1>4 DEF UploadsOK
<1>11. DeletionsOK'
  BY <1>1 DEF StoreInv, DeletionsOK, Unused
<1> QED BY <1>8, <1>9, <1>10, <1>11 DEF StoreInv

\* The row is written: UpsertSourcemap.
LEMMA UpsertKeeps ==
  ASSUME StoreInv, NEW u \in Uploader, UpsertSourcemap(u)
  PROVE  StoreInv'
<1> DEFINE h == upload[u].hash
           z == upload[u].slot
<1>1. /\ upload[u].pc = "upsert" /\ sourcemaps' = [sourcemaps EXCEPT ![z] = h]
      /\ upload' = [upload EXCEPT ![u] = NoUpload] /\ files' = files
      /\ raced' = Missing(raced) /\ frames' = frames
      /\ deletion' = [d \in Deleter |-> IF deletion[d].pc = "remove" /\ deletion[d].hash = h
                                      THEN [deletion[d] EXCEPT !.overlap = TRUE] ELSE deletion[d]]
  BY DEF UpsertSourcemap
<1>2. h \in Hash /\ z \in Slot /\ h \in files \cup raced
  BY <1>1 DEF StoreInv, StoreTypes, RowsOK, UploadsOK, DeletionsOK
<1> HIDE DEF h, z
<1>3. ASSUME NEW s \in Slot, sourcemaps'[s] # None PROVE sourcemaps'[s] \in files' \cup raced'
  <2>1. sourcemaps'[s] \in files \cup raced
    BY <1>1, <1>2, <1>3 DEF StoreInv, StoreTypes, RowsOK, UploadsOK, DeletionsOK
  <2> QED BY <1>1, <2>1, StillReadable
<1>4. ASSUME NEW v \in Uploader
      PROVE  IF upload'[v].pc = "upsert"
               THEN upload'[v].slot \in Slot /\ upload'[v].hash \in Hash /\ upload'[v].hash \in files' \cup raced'
               ELSE upload'[v].hash = None
  <2>1. CASE v = u
    <3>1. upload'[v] = NoUpload
      BY <1>1, <2>1 DEF StoreInv, StoreTypes, RowsOK, UploadsOK, DeletionsOK
    <3> QED BY <3>1, MapConstants
  <2>2. CASE v # u
    <3>1. upload'[v] = upload[v]
      BY <1>1, <2>2 DEF StoreInv, StoreTypes, RowsOK, UploadsOK, DeletionsOK
    <3>2. upload[v].pc = "upsert" => upload'[v].hash \in files' \cup raced'
      BY <1>1, <3>1, StillReadable DEF StoreInv, StoreTypes, RowsOK, UploadsOK, DeletionsOK
    <3> QED BY <3>1, <3>2 DEF StoreInv, StoreTypes, RowsOK, UploadsOK, DeletionsOK
  <2> QED BY <2>1, <2>2
<1>5. ASSUME NEW d \in Deleter
      PROVE  /\ deletion'[d] \in DeletionRow
             /\ deletion'[d].pc # "idle" => deletion'[d].hash \in Hash
             /\ deletion'[d].pc = "remove" /\ ~deletion'[d].overlap => \A s \in Slot : sourcemaps'[s] # deletion'[d].hash
  <2>1. deletion[d] \in DeletionRow
    BY DEF StoreInv, StoreTypes, RowsOK, UploadsOK, DeletionsOK
  <2>2. CASE deletion[d].pc = "remove" /\ deletion[d].hash = h
    <3>1. deletion'[d] = [deletion[d] EXCEPT !.overlap = TRUE]
      BY <1>1, <2>2
    <3>2. deletion'[d] \in DeletionRow /\ deletion'[d].overlap /\ deletion'[d].hash = h
      BY <2>1, <2>2, <3>1 DEF DeletionRow
    <3> QED BY <1>2, <3>2
  <2>3. CASE ~ (deletion[d].pc = "remove" /\ deletion[d].hash = h)
    <3>1. deletion'[d] = deletion[d]
      BY <1>1, <2>3
    <3>2. ASSUME deletion[d].pc = "remove", ~deletion[d].overlap, NEW s \in Slot
          PROVE  sourcemaps'[s] # deletion[d].hash
      <4>1. sourcemaps[s] # deletion[d].hash /\ h # deletion[d].hash
        BY <2>3, <3>2 DEF StoreInv, StoreTypes, RowsOK, UploadsOK, DeletionsOK, Unused
      <4> QED BY <1>1, <4>1 DEF StoreInv, StoreTypes, RowsOK, UploadsOK, DeletionsOK
    <3> QED BY <2>1, <3>1, <3>2 DEF StoreInv, StoreTypes, RowsOK, UploadsOK, DeletionsOK, Unused
  <2> QED BY <2>2, <2>3
<1>6. sourcemaps' \in [Slot -> Hash \cup {None}] /\ upload' \in [Uploader -> UploadRow]
  BY <1>1, <1>2, MapConstants DEF StoreInv, StoreTypes, RowsOK, UploadsOK, DeletionsOK
<1>7. deletion' \in [Deleter -> DeletionRow]
  BY <1>1, <1>5
<1>8. StoreTypes'
  BY <1>1, <1>6, <1>7 DEF StoreInv, StoreTypes
<1>9. RowsOK'
  BY <1>3 DEF RowsOK
<1>10. UploadsOK'
  BY <1>4 DEF UploadsOK
<1>11. DeletionsOK'
  BY <1>5 DEF DeletionsOK, Unused
<1> QED BY <1>8, <1>9, <1>10, <1>11 DEF StoreInv

\* Steps that write no row and remove no file.
LEMMA StoreShrinks ==
  ASSUME StoreInv, frames' = frames, files' = files, raced' = Missing(raced) \/ raced' = raced,
         sourcemaps' \in [Slot -> Hash \cup {None}],
         \A s \in Slot : sourcemaps'[s] = sourcemaps[s] \/ sourcemaps'[s] = None,
         upload' \in [Uploader -> UploadRow],
         \A u \in Uploader : upload'[u] = upload[u] \/ upload'[u] = NoUpload,
         deletion' \in [Deleter -> DeletionRow],
         \A d \in Deleter : /\ deletion'[d].pc # "idle" => deletion'[d].hash \in Hash
                            /\ deletion'[d].pc = "remove" /\ ~deletion'[d].overlap => Unused(deletion'[d].hash)
  PROVE  StoreInv'
<1>1. ASSUME NEW s \in Slot, sourcemaps'[s] # None PROVE sourcemaps'[s] \in files' \cup raced'
  <2>1. sourcemaps'[s] \in files \cup raced
    BY <1>1 DEF StoreInv, StoreTypes, RowsOK, UploadsOK, DeletionsOK
  <2> QED BY <2>1, StillReadable
<1>2. ASSUME NEW v \in Uploader
      PROVE  IF upload'[v].pc = "upsert"
               THEN upload'[v].slot \in Slot /\ upload'[v].hash \in Hash /\ upload'[v].hash \in files' \cup raced'
               ELSE upload'[v].hash = None
  <2>1. CASE upload'[v] = NoUpload
    BY <2>1, MapConstants
  <2>2. CASE upload'[v] = upload[v]
    <3>1. upload[v].pc = "upsert" => upload'[v].hash \in files' \cup raced'
      BY <2>2, StillReadable DEF StoreInv, StoreTypes, RowsOK, UploadsOK, DeletionsOK
    <3> QED BY <2>2, <3>1 DEF StoreInv, StoreTypes, RowsOK, UploadsOK, DeletionsOK
  <2> QED BY <2>1, <2>2
<1>3. ASSUME NEW d \in Deleter, Unused(deletion'[d].hash), deletion'[d].hash \in Hash
      PROVE  \A s \in Slot : sourcemaps'[s] # deletion'[d].hash
  BY <1>3, MapConstants DEF Unused
<1>8. StoreTypes'
  BY DEF StoreInv, StoreTypes
<1>9. RowsOK'
  BY <1>1 DEF RowsOK
<1>10. UploadsOK'
  BY <1>2 DEF UploadsOK
<1>11. DeletionsOK'
  BY <1>3 DEF DeletionsOK, Unused
<1> QED BY <1>8, <1>9, <1>10, <1>11 DEF StoreInv

LEMMA DeleteKeeps ==
  ASSUME StoreInv, NEW d \in Deleter, NEW slot \in Slot, DeleteSourcemap(d, slot)
  PROVE  StoreInv'
<1> DEFINE n == [NoDeletion EXCEPT !.pc = "count", !.hash = sourcemaps[slot]]
<1>1. /\ sourcemaps[slot] # None /\ sourcemaps' = [sourcemaps EXCEPT ![slot] = None]
      /\ deletion' = [deletion EXCEPT ![d] = n] /\ UNCHANGED <<files, upload, frames>>
      /\ raced' = Missing(raced)
  BY DEF DeleteSourcemap
<1>2. n \in DeletionRow /\ n.pc = "count" /\ n.hash \in Hash
  BY <1>1 DEF StoreInv, StoreTypes, RowsOK, UploadsOK, DeletionsOK, DeletionRow, NoDeletion
<1> HIDE DEF n
<1>3. sourcemaps' \in [Slot -> Hash \cup {None}]
      /\ \A s \in Slot : sourcemaps'[s] = sourcemaps[s] \/ sourcemaps'[s] = None
  BY <1>1 DEF StoreInv, StoreTypes, RowsOK, UploadsOK, DeletionsOK
<1>4. deletion' \in [Deleter -> DeletionRow]
      /\ \A e \in Deleter : /\ deletion'[e].pc # "idle" => deletion'[e].hash \in Hash
                            /\ deletion'[e].pc = "remove" /\ ~deletion'[e].overlap => Unused(deletion'[e].hash)
  BY <1>1, <1>2 DEF StoreInv, StoreTypes, RowsOK, UploadsOK, DeletionsOK
<1> QED BY <1>1, <1>3, <1>4, StoreShrinks DEF StoreInv, StoreTypes, RowsOK, UploadsOK, DeletionsOK

\* The count of other rows: CountSourcemapsByHash.
LEMMA CountKeeps ==
  ASSUME StoreInv, NEW d \in Deleter, NEW fails \in BOOLEAN, CountSourcemapsByHash(d, fails)
  PROVE  StoreInv'
<1> DEFINE n == IF Unused(deletion[d].hash) /\ ~fails THEN [deletion[d] EXCEPT !.pc = "remove"] ELSE NoDeletion
<1>1. /\ deletion[d].pc = "count" /\ deletion' = [deletion EXCEPT ![d] = n]
      /\ UNCHANGED <<frames, sourcemaps, files, upload, raced>>
  BY DEF CountSourcemapsByHash
<1>2. /\ n \in DeletionRow /\ (n.pc # "idle" => n.hash \in Hash)
      /\ n.pc = "remove" => Unused(n.hash)
  BY <1>1, MapConstants DEF StoreInv, StoreTypes, RowsOK, UploadsOK, DeletionsOK, DeletionRow
<1> HIDE DEF n
<1>4. deletion' \in [Deleter -> DeletionRow]
      /\ \A e \in Deleter : /\ deletion'[e].pc # "idle" => deletion'[e].hash \in Hash
                            /\ deletion'[e].pc = "remove" /\ ~deletion'[e].overlap => Unused(deletion'[e].hash)
  BY <1>1, <1>2 DEF StoreInv, StoreTypes, RowsOK, UploadsOK, DeletionsOK
<1> QED BY <1>1, <1>4, StoreShrinks DEF StoreInv, StoreTypes, RowsOK, UploadsOK, DeletionsOK

\* The file goes, from under those who came to need it if there are any.
LEMMA RemoveKeeps ==
  ASSUME StoreInv, NEW d \in Deleter, RemoveFile(d)
  PROVE  StoreInv'
<1> DEFINE h == deletion[d].hash
           R == IF deletion[d].overlap \/ \E u \in Uploader : upload[u].hash = h
                  THEN raced \cup {h} ELSE raced
<1>1. /\ deletion[d].pc = "remove" /\ files' = files \ {h} /\ deletion' = [deletion EXCEPT ![d] = NoDeletion]
      /\ UNCHANGED <<sourcemaps, upload, frames>> /\ raced' = Missing(R)
  BY DEF RemoveFile
<1>2. ASSUME NEW k, k \in files \cup raced,
             (\E s \in Slot : sourcemaps[s] = k) \/ (\E u \in Uploader : upload[u].hash = k)
      PROVE  k \in files' \cup raced'
  <2>1. CASE k # h
    <3>1. k \in files' \/ k \in R
      BY <1>1, <1>2, <2>1
    <3> HIDE DEF R
    <3> QED BY <1>1, <1>2, <3>1, StillReadable
  <2>2. CASE k = h
    <3>1. k \in R
      BY <1>1, <1>2, <2>2 DEF StoreInv, StoreTypes, RowsOK, UploadsOK, DeletionsOK, Unused
    <3> HIDE DEF R
    <3> QED BY <1>1, <1>2, <3>1, StillReadable
  <2> QED BY <2>1, <2>2
<1> HIDE DEF R, h
<1>3. ASSUME NEW s \in Slot, sourcemaps'[s] # None PROVE sourcemaps'[s] \in files' \cup raced'
  BY <1>1, <1>2, <1>3 DEF StoreInv, StoreTypes, RowsOK, UploadsOK, DeletionsOK
<1>4. ASSUME NEW v \in Uploader
      PROVE  IF upload'[v].pc = "upsert"
               THEN upload'[v].slot \in Slot /\ upload'[v].hash \in Hash /\ upload'[v].hash \in files' \cup raced'
               ELSE upload'[v].hash = None
  BY <1>1, <1>2 DEF StoreInv, StoreTypes, RowsOK, UploadsOK, DeletionsOK
<1>5. deletion' \in [Deleter -> DeletionRow]
      /\ \A e \in Deleter : /\ deletion'[e].pc # "idle" => deletion'[e].hash \in Hash
                            /\ deletion'[e].pc = "remove" /\ ~deletion'[e].overlap => \A s \in Slot : sourcemaps'[s] # deletion'[e].hash
  BY <1>1, MapConstants DEF StoreInv, StoreTypes, RowsOK, UploadsOK, DeletionsOK, Unused
<1>8. StoreTypes'
  BY <1>1, <1>5 DEF StoreInv, StoreTypes
<1>9. RowsOK'
  BY <1>3 DEF RowsOK
<1>10. UploadsOK'
  BY <1>4 DEF UploadsOK
<1>11. DeletionsOK'
  BY <1>5 DEF DeletionsOK, Unused
<1> QED BY <1>8, <1>9, <1>10, <1>11 DEF StoreInv

LEMMA StoreInvInit == Init => StoreInv
  BY MapConstants DEF Init, StoreInv, StoreTypes, RowsOK, UploadsOK, DeletionsOK

\* Readers and caches leave the store alone.
LEMMA StoreInvStep == StoreInv /\ [Next]_vars => StoreInv'
<1> SUFFICES ASSUME StoreInv, [Next]_vars PROVE StoreInv'
  OBVIOUS
<1>1. ASSUME NEW u \in Uploader, UploadFails(u) PROVE StoreInv'
  <2>1. /\ upload' = [upload EXCEPT ![u] = NoUpload] /\ UNCHANGED <<sourcemaps, files, frames, deletion>>
        /\ raced' = Missing(raced)
    BY <1>1 DEF UploadFails
  <2> QED BY <2>1, MapConstants, StoreShrinks DEF StoreInv, StoreTypes, RowsOK, UploadsOK, DeletionsOK
<1>2. ASSUME UNCHANGED <<frames, sourcemaps, files, upload, deletion, raced>> PROVE StoreInv'
  BY <1>2 DEF StoreInv, StoreTypes, RowsOK, UploadsOK, DeletionsOK, Unused
<1>3. ASSUME NEW r \in Reader, Read(r) PROVE UNCHANGED <<frames, storeVars>>
  <2>1. ASSUME NEW frame \in frames, NEW verifies \in BOOLEAN, Begin(r, frame, verifies)
        PROVE  UNCHANGED <<frames, storeVars>>
    BY <2>1 DEF Begin
  <2>2. ASSUME NEW lines \in {"lines", "no lines"}, NEW cancelled \in BOOLEAN, Fetched(r, lines, cancelled)
        PROVE  UNCHANGED <<frames, storeVars>>
    BY <2>2 DEF Fetched
  <2>3. CASE GetSourcemap(r) \/ NoMap(r) \/ CacheHit(r) \/ CacheMiss(r) \/ TakeGate(r) \/ ReadFile(r)
    BY <2>3 DEF GetSourcemap, NoMap, CacheHit, CacheMiss, TakeGate, ReadFile
  <2>4. CASE Parse(r) \/ ParseFails(r) \/ LinesCached(r) \/ JoinFlight(r) \/ TooManyFlights(r)
             \/ StartFlight(r) \/ Cancel(r)
    BY <2>4 DEF Parse, ParseFails, LinesCached, JoinFlight, TooManyFlights, StartFlight, Cancel
  <2> QED BY <1>3, <2>1, <2>2, <2>3, <2>4 DEF Read
<1>4. ASSUME NEW url \in Script, LinesExpire(url) PROVE UNCHANGED <<frames, storeVars>>
  BY <1>4 DEF LinesExpire
<1>5. CASE Store
  BY <1>1, <1>5, PublishKeeps, UpsertKeeps, DeleteKeeps, CountKeeps, RemoveKeeps DEF Store
<1> QED BY <1>2, <1>3, <1>4, <1>5 DEF Next, vars, storeVars

\* MapsReadable: a row's map can be read.
THEOREM MapsReadableHolds == Spec => []MapsReadable
<1>1. StoreInv => MapsReadable
  BY DEF StoreInv, StoreTypes, RowsOK, UploadsOK, DeletionsOK, MapsReadable
<1> QED BY <1>1, StoreInvInit, StoreInvStep, PTL DEF Spec

(***************************************************************************)
(* Sequences without repetition, and what a cache keeps of one.            *)
(***************************************************************************)
LEMMA MembersFinite ==
  ASSUME NEW X, NEW s \in Seq(X)
  PROVE  ToSet(s) \subseteq X /\ IsFiniteSet(ToSet(s))
<1> DEFINE T == ToSet(s)
           n == Len(s)
<1>1. n \in Nat /\ DOMAIN s = 1 .. n /\ \A i \in 1 .. n : s[i] \in X
  OBVIOUS
<1>2. T \subseteq X
  BY <1>1 DEF ToSet
<1>3. s \in Surjection(1 .. n, T)
  <2>1. s \in [1 .. n -> T]
    BY <1>1 DEF ToSet
  <2>2. \A t \in T : \E i \in 1 .. n : s[i] = t
    BY <1>1 DEF ToSet
  <2> HIDE DEF T, n
  <2> QED BY <2>1, <2>2 DEF Surjection
<1>4. IsFiniteSet(1 .. n)
  BY <1>1, IntervalSize
<1> HIDE DEF T, n
<1>5. IsFiniteSet(T)
  BY <1>3, <1>4, FS_Surjection
<1> QED BY <1>2, <1>5 DEF T

LEMMA AppendOnce ==
  ASSUME NEW X, NEW s \in Seq(X), IsInjective(s), NEW x \in X, x \notin ToSet(s)
  PROVE  /\ Append(s, x) \in Seq(X) /\ IsInjective(Append(s, x))
         /\ ToSet(Append(s, x)) = ToSet(s) \cup {x}
<1> DEFINE t == Append(s, x)
           n == Len(s)
<1>1. /\ t \in Seq(X) /\ DOMAIN t = 1 .. n + 1 /\ DOMAIN s = 1 .. n /\ n \in Nat
      /\ \A i \in 1 .. n : t[i] = s[i]
      /\ t[n + 1] = x
  OBVIOUS
<1> HIDE DEF t, n
<1>2. 1 .. n + 1 = (1 .. n) \cup {n + 1}
  BY <1>1
<1>3. ToSet(t) = ToSet(s) \cup {x}
  BY <1>1, <1>2 DEF ToSet
<1>4. \A i \in 1 .. n : s[i] # x
  BY <1>1 DEF ToSet
<1>5. IsInjective(t)
  BY <1>1, <1>2, <1>4 DEF IsInjective
<1> QED BY <1>1, <1>3, <1>5 DEF t

\* The same for the scripts whose lines are cached.
LEMMA ScriptAppended ==
  \A s \in Seq(Script), url \in Script :
    IsInjective(s) /\ url \notin ToSet(s)
      => /\ Append(s, url) \in Seq(Script) /\ IsInjective(Append(s, url))
         /\ ToSet(Append(s, url)) = ToSet(s) \cup {url}
<1> SUFFICES ASSUME NEW s \in Seq(Script), NEW url \in Script, IsInjective(s), url \notin ToSet(s)
             PROVE  /\ Append(s, url) \in Seq(Script) /\ IsInjective(Append(s, url))
                    /\ ToSet(Append(s, url)) = ToSet(s) \cup {url}
  OBVIOUS
<1> QED BY AppendOnce

LEMMA CacheLimits ==
  /\ CacheMax \in Nat /\ CacheBytes \in Nat
  /\ \A x \in Hash \cup Script : Size[x] \in Nat /\ Size[x] >= 1
<1>1. {CacheBytes, CacheMax, FlightMax} \subseteq Nat \ {0} /\ Size \in [Hash \cup Script -> Nat \ {0}]
  BY SourceMapsAssumption
<1>2. \A n \in Nat \ {0} : n \in Nat /\ n >= 1
  OBVIOUS
<1> QED BY <1>1, <1>2

\* What stays is a part of the order, the newest entries, and fits: with nothing
\* left it would.
LEMMA KeptFits ==
  ASSUME NEW X, NEW order \in Seq(X), IsInjective(order), NEW sizes, NEW kept, kept = Kept(order, sizes)
  PROVE  /\ kept \in Seq(X) /\ IsInjective(kept) /\ ToSet(kept) \subseteq ToSet(order)
         /\ Len(kept) <= CacheMax /\ SumFunctionOnSet(sizes, ToSet(kept)) <= CacheBytes
<1> DEFINE n == Len(order)
           rest(k) == SubSeq(order, k + 1, n)
           fits(s) == Len(s) <= CacheMax /\ SumFunctionOnSet(sizes, ToSet(s)) <= CacheBytes
           T == {k \in 0 .. n : fits(rest(k))}
<1>1. n \in Nat /\ DOMAIN order = 1 .. n /\ \A i \in 1 .. n : order[i] \in X
  OBVIOUS
<1>2. n \in T
  <2>1. rest(n) = <<>>
    <3>1. n + 1 \in Int /\ n \in Int /\ n < n + 1
      BY <1>1
    <3> HIDE DEF n
    <3> QED BY <3>1, SubSeqEmpty
  <2>2. ToSet(<<>>) = {} /\ Len(<<>>) = 0
    BY DEF ToSet
  <2>3. 0 <= CacheMax /\ 0 <= CacheBytes
    BY CacheLimits
  <2>4. fits(rest(n))
    BY <2>1, <2>2, <2>3, SumEmpty
  <2>5. n \in 0 .. n
    BY <1>1
  <2> QED BY <2>4, <2>5
<1> DEFINE m == Min(T)
<1>3. m \in T
  <2>1. T \in SUBSET Nat
    BY <1>1
  <2> HIDE DEF T
  <2>2. \E k \in T : \A l \in T : k <= l
    BY <1>2, <2>1, LeastNatural
  <2> QED BY <2>2 DEF Min
<1>4. kept = rest(m)
  BY DEF Kept
<1>5. m \in 0 .. n /\ fits(rest(m))
  BY <1>3
<1> HIDE DEF m, fits, T
<1>6. /\ kept \in Seq(X) /\ Len(kept) = n - m
      /\ \A i \in 1 .. n - m : kept[i] = order[m + i]
  <2>1. m + 1 \in Int /\ n \in Int /\ \A i \in m + 1 .. n : order[i] \in X
    BY <1>1, <1>5
  <2>2. /\ rest(m) \in Seq(X)
        /\ Len(rest(m)) = IF m + 1 <= n THEN n - (m + 1) + 1 ELSE 0
        /\ \A i \in 1 .. n - (m + 1) + 1 : rest(m)[i] = order[(m + 1) + i - 1]
    <3> HIDE DEF n
    <3> QED BY <2>1, SubSeqProperties
  <2> HIDE DEF n, rest
  <2>3. n - (m + 1) + 1 = n - m /\ (~ (m + 1 <= n) => n - m = 0)
        /\ \A i \in 1 .. n - m : (m + 1) + i - 1 = m + i
    BY <1>1, <1>5
  <2> QED BY <1>4, <2>2, <2>3
<1>7. DOMAIN kept = 1 .. n - m
  BY <1>6
<1>8. \A i \in 1 .. n - m : m + i \in 1 .. n
  BY <1>1, <1>5
<1>9. IsInjective(kept)
  <2> SUFFICES ASSUME NEW i \in DOMAIN kept, NEW j \in DOMAIN kept, kept[i] = kept[j] PROVE i = j
    BY DEF IsInjective
  <2>1. order[m + i] = order[m + j] /\ m + i \in DOMAIN order /\ m + j \in DOMAIN order
    BY <1>1, <1>6, <1>7, <1>8
  <2>2. m + i = m + j
    BY <2>1 DEF IsInjective
  <2> QED BY <1>1, <1>5, <1>7, <2>2
<1>10. ToSet(kept) \subseteq ToSet(order)
  BY <1>1, <1>6, <1>7, <1>8 DEF ToSet
<1>11. fits(kept)
  BY <1>4, <1>5
<1> QED BY <1>6, <1>9, <1>10, <1>11 DEF fits

(***************************************************************************)
(* Source maps: readers and caches.  A cache's order lists its entries     *)
(* once each, and its bytes are their sum, at every point where the mutex  *)
(* is free; what a reader holds of it is said of the reader, so that the   *)
(* entry it adds is new (the gate) or replaces one (the flight).           *)
(***************************************************************************)
ReaderRow ==
  [pc : {"idle", "lookup", "parsed", "queue", "gate", "parse", "lines", "wait", "fetch"},
   slots : Seq(Slot), script : Script \cup {None}, verifies : BOOLEAN,
   hash : Hash \cup {None}, got : Hash \cup {None}]

\* On the way to a map a reader has a hash, and the names it still may try.
ReaderOK(q) ==
  /\ q.pc \in {"parsed", "queue", "gate", "parse"} => q.hash \in Hash /\ q.slots # <<>>
  /\ q.pc \in {"lookup", "parsed", "queue", "gate", "parse"} => q.got = None
  /\ q.pc \in {"lines", "wait", "fetch"} => q.script \in Script
  /\ q.got \in Hash => q.got = q.hash

ReadersOK == reader \in [Reader -> ReaderRow] /\ \A r \in Reader : ReaderOK(reader[r])

AtGate(q) == q.pc \in {"gate", "parse"}

GateOK ==
  /\ parseGate \in Reader \cup {None}
  /\ \A r \in Reader : /\ AtGate(reader[r]) => parseGate = r /\ reader[r].hash \notin DOMAIN parsed
                       /\ parseGate = r => AtGate(reader[r])

\* An entry is its own key, because the key is the hash of its contents.
MapsOK ==
  /\ parsedOrder \in Seq(Hash) /\ IsInjective(parsedOrder) /\ ToSet(parsedOrder) = DOMAIN parsed
  /\ parsed = [k \in DOMAIN parsed |-> k]
  /\ parsedBytes = SumFunction(MapSizes(parsed))
  /\ Len(parsedOrder) <= CacheMax /\ parsedBytes <= CacheBytes

CachedLines == [lines : {"lines", "no lines"}, stale : BOOLEAN]

LinesOK ==
  /\ fileOrder \in Seq(Script) /\ IsInjective(fileOrder) /\ ToSet(fileOrder) = DOMAIN fileCache
  /\ fileCache \in [DOMAIN fileCache -> CachedLines]
  /\ fileBytes = SumFunction(LineSizes(fileCache))
  /\ Len(fileOrder) <= CacheMax /\ fileBytes <= CacheBytes
  /\ \A u \in DOMAIN fileCache : fileCache[u].lines = "no lines" => u \in refused

FlightsOK ==
  /\ \A u \in DOMAIN flights :
       flights[u] \in Reader /\ reader[flights[u]].pc = "fetch" /\ reader[flights[u]].script = u
  /\ \A r \in Reader : reader[r].pc = "wait" => reader[r].script \in DOMAIN flights

CacheInv == ReadersOK /\ GateOK /\ MapsOK /\ LinesOK /\ FlightsOK

\* Any part of a cache of maps weighs what its hashes do.
LEMMA MapWeights ==
  ASSUME NEW cache, NEW K \in SUBSET Hash, IsFiniteSet(K), K \subseteq DOMAIN cache,
         \A k \in K : cache[k] = k
  PROVE  SumFunctionOnSet(MapSizes(cache), K) = SumFunctionOnSet(Size, K)
<1> DEFINE f == MapSizes(cache)
<1>1. \A k \in K : Size[k] \in Nat /\ f[k] = Size[k]
  BY SourceMapsAssumption DEF MapSizes
<1> HIDE DEF f
<1>2. SumFunctionOnSet(f, K) = SumFunctionOnSet(Size, K)
  BY <1>1, SumSame
<1> QED BY <1>2 DEF f

\* parsedSourceMap caches a map that was not there and evicts the oldest ones.
LEMMA MapIsCached ==
  ASSUME MapsOK, NEW k \in Hash, k \notin DOMAIN parsed,
         NEW cache, cache = Put(parsed, k, k),
         NEW kept, kept = Kept(Append(parsedOrder, k), MapSizes(cache)),
         parsed' = Restrict(cache, ToSet(kept)), parsedOrder' = kept,
         parsedBytes' = parsedBytes + Size[k] - SumFunctionOnSet(MapSizes(cache), DOMAIN cache \ ToSet(kept))
  PROVE  MapsOK'
<1> DEFINE D == DOMAIN parsed
           E == D \cup {k}
           K == ToSet(kept)
           w(S) == SumFunctionOnSet(Size, S)
<1>1. D \subseteq Hash /\ IsFiniteSet(D) /\ parsedOrder \in Seq(Hash) /\ IsInjective(parsedOrder)
      /\ ToSet(parsedOrder) = D /\ \A x \in D : parsed[x] = x
  BY MembersFinite DEF MapsOK
<1>2. DOMAIN cache = E /\ \A x \in E : cache[x] = x
  BY <1>1 DEF Put
<1>3. IsFiniteSet(E) /\ E \subseteq Hash /\ IsFiniteSet({k})
  BY <1>1, FS_AddElement, FS_Singleton
<1>4. Append(parsedOrder, k) \in Seq(Hash) /\ IsInjective(Append(parsedOrder, k))
      /\ ToSet(Append(parsedOrder, k)) = E
  BY <1>1, AppendOnce
<1>5. /\ kept \in Seq(Hash) /\ IsInjective(kept) /\ K \subseteq E
      /\ Len(kept) <= CacheMax /\ SumFunctionOnSet(MapSizes(cache), K) <= CacheBytes
  BY <1>4, KeptFits
<1>6. DOMAIN parsed' = K /\ \A x \in K : parsed'[x] = x
  BY <1>2, <1>5 DEF Restrict
<1>7. parsed' = [x \in DOMAIN parsed' |-> x]
  BY <1>2, <1>5, <1>6 DEF Restrict
<1> DEFINE R == E \ K
<1>8. IsFiniteSet(K) /\ IsFiniteSet(R) /\ K \subseteq Hash /\ R \subseteq Hash /\ R \subseteq E
      /\ R \cap K = {} /\ E = R \cup K /\ D \cap {k} = {}
  BY <1>3, <1>5, FS_Subset
<1>9. \A S \in SUBSET Hash : \A x \in S : Size[x] \in Nat
  BY SourceMapsAssumption
<1>10. MapSizes(parsed) = [x \in D |-> Size[parsed[x]]]
  BY DEF MapSizes
<1>11. parsedBytes = w(D)
  <2>1. SumFunction(MapSizes(parsed)) = SumFunctionOnSet(MapSizes(parsed), D)
    BY <1>10 DEF SumFunction
  <2>2. SumFunctionOnSet(MapSizes(parsed), D) = w(D)
    BY <1>1, MapWeights
  <2> QED BY <2>1, <2>2 DEF MapsOK
<1>12. SumFunctionOnSet(MapSizes(cache), K) = w(K) /\ SumFunctionOnSet(MapSizes(cache), R) = w(R)
  BY <1>2, <1>5, <1>8, MapWeights
<1>13. w(E) = w(D) + Size[k]
  <2>1. w({k}) = Size[k]
    BY <1>9, SumOne
  <2>2. \A x \in D \cup {k} : Size[x] \in Nat
    BY <1>3, <1>9
  <2>3. w(D \cup {k}) = w(D) + w({k})
    <3> HIDE DEF D
    <3> QED BY <1>1, <1>3, <1>8, <2>2, SumSplit
  <2> QED BY <2>1, <2>3
<1>14. w(E) = w(R) + w(K)
  <2>1. \A x \in R \cup K : Size[x] \in Nat
    BY <1>8, <1>9
  <2>2. w(R \cup K) = w(R) + w(K)
    <3> HIDE DEF R, K
    <3> QED BY <1>8, <2>1, SumSplit
  <2> QED BY <1>8, <2>2
<1>15. w(D) \in Nat /\ w(R) \in Nat /\ w(K) \in Nat /\ Size[k] \in Nat
  <2>1. \A S \in SUBSET Hash : IsFiniteSet(S) => w(S) \in Nat
    BY <1>9, SumType
  <2> HIDE DEF w, D, R, K
  <2> QED BY <1>1, <1>8, <1>9, <2>1
<1>16. parsedBytes' = w(K)
  <2>1. parsedBytes' = w(D) + Size[k] - w(R)
    BY <1>2, <1>11, <1>12
  <2> HIDE DEF w, D, E, R, K
  <2> QED BY <1>13, <1>14, <1>15, <2>1
<1>17. SumFunction(MapSizes(parsed'))= w(K)
  <2>1. DOMAIN MapSizes(parsed') = K
    BY <1>6 DEF MapSizes
  <2>2. SumFunctionOnSet(MapSizes(parsed'), K) = w(K)
    BY <1>6, <1>8, MapWeights
  <2> QED BY <2>1, <2>2 DEF SumFunction
<1> QED BY <1>5, <1>6, <1>7, <1>12, <1>16, <1>17 DEF MapsOK

LEMMA Exchange ==
  ASSUME NEW a \in Nat, NEW b \in Nat, NEW v \in Nat
  PROVE  (a + b) - a + v = b + v /\ (a + b) - a + 0 = b
  OBVIOUS

LEMMA LineWeights ==
  ASSUME NEW cache, NEW u \in Script, u \in DOMAIN cache
  PROVE  LineSizes(cache)[u] = SizeOf(u, cache[u]) /\ SizeOf(u, cache[u]) \in Nat
  BY CacheLimits DEF LineSizes, SizeOf

\* cacheLines enters or replaces the lines of a script and evicts the oldest ones.
LEMMA LinesAreCached ==
  ASSUME LinesOK, NEW url \in Script, NEW lines \in {"lines", "no lines"}, cacheLines(url, lines),
         refused \subseteq refused', lines = "no lines" => url \in refused'
  PROVE  LinesOK'
<1> DEFINE entry == [lines |-> lines, stale |-> FALSE]
           cache == Put(fileCache, url, entry)
           order == IF url \in DOMAIN fileCache THEN fileOrder ELSE Append(fileOrder, url)
           kept == Kept(order, LineSizes(cache))
           D == DOMAIN fileCache
           E == D \cup {url}
           K == ToSet(kept)
           away == {u \in D : u = url \/ u \notin K}
           rest == K \ {url}
           f == LineSizes(cache)
           g == LineSizes(fileCache)
<1>1. CASE SizeOf(url, entry) > CacheBytes
  <2>1. UNCHANGED <<fileCache, fileOrder, fileBytes>>
    BY <1>1 DEF cacheLines
  <2> HIDE DEF entry
  <2> QED BY <2>1 DEF LinesOK
<1>2. CASE ~ (SizeOf(url, entry) > CacheBytes)
  <2>1. /\ fileCache' = Restrict(cache, K) /\ fileOrder' = kept
        /\ fileBytes' = fileBytes - SumFunctionOnSet(g, away) + (IF url \in K THEN SizeOf(url, entry) ELSE 0)
    BY <1>2 DEF cacheLines
  <2>2. D \subseteq Script /\ IsFiniteSet(D) /\ fileOrder \in Seq(Script) /\ IsInjective(fileOrder)
        /\ ToSet(fileOrder) = D /\ fileCache \in [D -> CachedLines] /\ fileBytes = SumFunction(g)
        /\ \A u \in D : fileCache[u].lines = "no lines" => u \in refused
    BY MembersFinite DEF LinesOK
  <2>3. entry \in CachedLines /\ entry.lines = lines
    BY DEF CachedLines
  <2> HIDE DEF entry
  <2>4. /\ DOMAIN cache = E /\ cache[url] = entry /\ \A x \in D : x # url => cache[x] = fileCache[x]
        /\ \A x \in E : cache[x] \in CachedLines
    BY <2>2, <2>3 DEF Put
  <2> HIDE DEF cache
  <2>5. order \in Seq(Script) /\ IsInjective(order) /\ ToSet(order) = E
    <3>1. CASE url \in D
      <4>1. order = fileOrder /\ E = D
        BY <3>1
      <4> QED BY <2>2, <4>1
    <3>2. CASE url \notin D
      <4>1. order = Append(fileOrder, url) /\ E = D \cup {url}
        BY <3>2
      <4> HIDE DEF D, E, order
      <4>2. fileOrder \in Seq(Script) /\ IsInjective(fileOrder) /\ url \notin ToSet(fileOrder)
        BY <2>2, <3>2
      <4>3. /\ Append(fileOrder, url) \in Seq(Script) /\ IsInjective(Append(fileOrder, url))
            /\ ToSet(Append(fileOrder, url)) = ToSet(fileOrder) \cup {url}
        BY <4>2, ScriptAppended
      <4> QED BY <2>2, <4>1, <4>3
    <3> QED BY <3>1, <3>2
  <2> HIDE DEF order
  <2>6. /\ kept \in Seq(Script) /\ IsInjective(kept) /\ K \subseteq E
        /\ Len(kept) <= CacheMax /\ SumFunctionOnSet(f, K) <= CacheBytes
    BY <2>5, KeptFits
  <2> HIDE DEF kept
  <2>7. /\ DOMAIN fileCache' = K /\ fileCache' \in [K -> CachedLines]
        /\ \A x \in K : fileCache'[x] = cache[x]
    BY <2>1, <2>4, <2>6 DEF Restrict
  <2>8. /\ E \subseteq Script /\ K \subseteq Script
        /\ \A x \in E : f[x] = SizeOf(x, cache[x]) /\ f[x] \in Nat
        /\ \A x \in D : g[x] = SizeOf(x, fileCache[x]) /\ g[x] \in Nat
        /\ \A x \in K : LineSizes(fileCache')[x] = f[x]
    <3>1. E \subseteq Script /\ K \subseteq Script
      BY <2>2, <2>6
    <3>2. \A x \in E : f[x] = SizeOf(x, cache[x]) /\ f[x] \in Nat
      BY <2>4, <3>1, LineWeights
    <3>3. \A x \in D : g[x] = SizeOf(x, fileCache[x]) /\ g[x] \in Nat
      BY <2>2, LineWeights
    <3>4. \A x \in K : LineSizes(fileCache')[x] = SizeOf(x, cache[x])
      BY <2>7 DEF LineSizes
    <3> HIDE DEF f, g
    <3> QED BY <2>6, <3>1, <3>2, <3>3, <3>4
  <2>9. DOMAIN g = D /\ DOMAIN LineSizes(fileCache') = K
    BY <2>7 DEF LineSizes
  <2> HIDE DEF f, g
  <2>10. /\ away \subseteq D /\ rest \subseteq D /\ away \cap rest = {} /\ D = away \cup rest
         /\ rest \subseteq K /\ K \subseteq E /\ url \notin rest
         /\ url \in K => K = rest \cup {url}
         /\ url \notin K => K = rest
    BY <2>6
  <2>11. /\ IsFiniteSet(away) /\ IsFiniteSet(rest) /\ IsFiniteSet({url})
    BY <2>2, <2>10, FS_Subset, FS_Singleton
  <2>12. IsFiniteSet(K)
    BY <2>6, MembersFinite
  <2>13. \A x \in K : f[x] \in Nat
    BY <2>8, <2>10
  <2>14. url \in E
    OBVIOUS
  <2> HIDE DEF D, E, K, away, rest
  <2>15. fileBytes = SumFunctionOnSet(g, away) + SumFunctionOnSet(g, rest)
    <3>1. \A x \in away \cup rest : g[x] \in Nat
      BY <2>8, <2>10
    <3>2. SumFunctionOnSet(g, away \cup rest) = SumFunctionOnSet(g, away) + SumFunctionOnSet(g, rest)
      BY <2>10, <2>11, <3>1, SumSplit
    <3> QED BY <2>2, <2>9, <2>10, <3>2 DEF SumFunction
  <2>16. SumFunctionOnSet(f, rest) = SumFunctionOnSet(g, rest)
    <3>1. \A x \in rest : g[x] \in Nat /\ f[x] = g[x]
      BY <2>4, <2>8, <2>10
    <3> QED BY <2>11, <3>1, SumSame
  <2>17. /\ url \in K => SumFunctionOnSet(f, K) = SumFunctionOnSet(f, rest) + f[url]
         /\ url \notin K => SumFunctionOnSet(f, K) = SumFunctionOnSet(f, rest)
    <3>1. ASSUME url \in K PROVE SumFunctionOnSet(f, K) = SumFunctionOnSet(f, rest) + f[url]
      <4>1. \A x \in rest \cup {url} : f[x] \in Nat
        BY <2>10, <2>13, <3>1
      <4>2. rest \cap {url} = {}
        BY <2>10
      <4>3. SumFunctionOnSet(f, rest \cup {url}) = SumFunctionOnSet(f, rest) + SumFunctionOnSet(f, {url})
        BY <2>11, <4>1, <4>2, SumSplit
      <4>4. SumFunctionOnSet(f, {url}) = f[url]
        BY <4>1, SumOne
      <4>5. K = rest \cup {url}
        BY <2>10, <3>1
      <4> QED BY <4>3, <4>4, <4>5
    <3> QED BY <2>10, <3>1
  <2>18. fileBytes' = SumFunctionOnSet(f, K)
    <3>1. SumFunctionOnSet(g, away) \in Nat /\ SumFunctionOnSet(g, rest) \in Nat
      <4>1. (\A x \in away : g[x] \in Nat) /\ (\A x \in rest : g[x] \in Nat)
        BY <2>8, <2>10
      <4> QED BY <2>11, <4>1, SumType
    <3>2. f[url] = SizeOf(url, entry) /\ f[url] \in Nat
      BY <2>4, <2>8, <2>14
    <3>3. fileBytes' = fileBytes - SumFunctionOnSet(g, away) + (IF url \in K THEN f[url] ELSE 0)
      BY <2>1, <3>2
    <3>4. /\ url \in K => fileBytes' = fileBytes - SumFunctionOnSet(g, away) + f[url]
          /\ url \notin K => fileBytes' = fileBytes - SumFunctionOnSet(g, away) + 0
      BY <3>3
    <3>5. ASSUME url \in K PROVE fileBytes' = SumFunctionOnSet(g, rest) + f[url]
      BY <2>15, <3>1, <3>2, <3>4, <3>5, Exchange
    <3>6. ASSUME url \notin K PROVE fileBytes' = SumFunctionOnSet(g, rest)
      BY <2>15, <3>1, <3>4, <3>6, Exchange
    <3> QED BY <2>16, <2>17, <3>5, <3>6
  <2>19. SumFunction(LineSizes(fileCache')) = SumFunctionOnSet(f, K)
    <3>1. SumFunctionOnSet(LineSizes(fileCache'), K) = SumFunctionOnSet(f, K)
      BY <2>8, <2>12, <2>13, SumSame
    <3> QED BY <2>9, <3>1 DEF SumFunction
  <2>20. ASSUME NEW x \in K, fileCache'[x].lines = "no lines" PROVE x \in refused'
    <3>1. CASE x = url
      BY <2>3, <2>4, <2>7, <2>20, <3>1
    <3>2. CASE x # url
      <4>1. x \in D /\ fileCache'[x] = fileCache[x]
        BY <2>4, <2>7, <2>10, <3>2 DEF E
      <4> QED BY <2>2, <2>20, <4>1
    <3> QED BY <3>1, <3>2
  <2>21. K = ToSet(kept)
    BY DEF K
  <2> QED BY <2>1, <2>6, <2>7, <2>18, <2>19, <2>20, <2>21 DEF LinesOK
<1> QED BY <1>1, <1>2

\* One reader moved.
Moved(r) ==
  /\ reader' \in [Reader -> ReaderRow]
  /\ \A q \in Reader : q # r => reader'[q] = reader[q]
  /\ ReaderOK(reader'[r])

LEMMA ReadersMove ==
  ASSUME ReadersOK, NEW r \in Reader, Moved(r)
  PROVE  ReadersOK'
  BY DEF ReadersOK, Moved

LEMMA IdleReader ==
  /\ NoReader \in ReaderRow /\ ReaderOK(NoReader) /\ NoReader.pc = "idle" /\ None \notin Hash /\ None \notin Reader
<1>1. None \notin Hash /\ None \notin Reader
  BY SourceMapsAssumption
<1>2. <<>> \in Seq(Slot)
  OBVIOUS
<1> QED BY <1>1, <1>2 DEF NoReader, ReaderRow, ReaderOK

\* A reader ends with the map it looked up, if any.
LEMMA Ends ==
  ASSUME ReadersOK, NEW r \in Reader, NEW result, result \in Hash => result = reader[r].hash
  PROVE  /\ Ended(r, result) \in ReaderRow /\ ReaderOK(Ended(r, result)) /\ Ended(r, result).pc = "idle"
<1> DEFINE n == [NoReader EXCEPT !.got = result, !.hash = reader[r].hash]
<1>1. CASE result \in Hash
  <2>1. reader[r].hash \in Hash
    BY <1>1
  <2>2. /\ n \in ReaderRow /\ n.pc = "idle" /\ n.got = n.hash
    <3>1. NoReader \in ReaderRow /\ NoReader.pc = "idle"
      BY IdleReader
    <3> QED BY <1>1, <2>1, <3>1 DEF ReaderRow
  <2>3. Ended(r, result) = n
    BY <1>1 DEF Ended
  <2> HIDE DEF n
  <2> QED BY <2>2, <2>3 DEF ReaderOK
<1>2. CASE result \notin Hash
  BY <1>2, IdleReader DEF Ended
<1> QED BY <1>1, <1>2

LEMMA GotMoves ==
  ASSUME ReadersOK, NEW r \in Reader, NEW result, result \in Hash => result = reader[r].hash,
         reader' = Got(r, result)
  PROVE  Moved(r) /\ reader'[r].pc = "idle"
<1>1. reader' = [reader EXCEPT ![r] = Ended(r, result)]
  BY DEF Got
<1>2. reader' \in [Reader -> ReaderRow] /\ reader'[r] = Ended(r, result)
      /\ \A q \in Reader : q # r => reader'[q] = reader[q]
  BY <1>1, Ends DEF ReadersOK
<1> QED BY <1>2, Ends DEF Moved

LEMMA ServedMoves ==
  ASSUME ReadersOK, NEW r \in Reader, reader[r].hash \in Hash, NEW placed \in BOOLEAN,
         reader' = Served(r, reader[r].hash, placed)
  PROVE  Moved(r) /\ reader'[r].pc \in {"idle", "lines"}
<1>1. CASE reader' = Got(r, reader[r].hash)
  BY <1>1, GotMoves
<1>2. CASE reader' # Got(r, reader[r].hash)
  <2> DEFINE n == [reader[r] EXCEPT !.pc = "lines", !.got = reader[r].hash]
  <2>1. /\ reader' = [reader EXCEPT ![r].pc = "lines", ![r].got = reader[r].hash]
        /\ reader[r].script # None
    BY <1>2 DEF Served
  <2>2. reader[r] \in ReaderRow /\ reader[r].script \in Script
    BY <2>1 DEF ReadersOK, ReaderRow
  <2>3. reader' = [reader EXCEPT ![r] = n]
    BY <2>1 DEF ReadersOK, ReaderRow
  <2>4. n \in ReaderRow /\ n.pc = "lines" /\ n.got = n.hash /\ n.script \in Script
    BY <2>2 DEF ReaderRow
  <2> HIDE DEF n
  <2>5. ReaderOK(n)
    BY <2>4 DEF ReaderOK
  <2> QED BY <2>3, <2>4, <2>5 DEF Moved, ReadersOK
<1> QED BY <1>1, <1>2

\* A reader that only goes on to another place.
LEMMA PlaceMoves ==
  ASSUME ReadersOK, NEW r \in Reader,
         NEW p \in {"parsed", "queue", "gate", "parse", "lines", "wait", "fetch"},
         reader' = [reader EXCEPT ![r].pc = p],
         p \in {"parsed", "queue", "gate", "parse"} =>
           reader[r].hash \in Hash /\ reader[r].slots # <<>> /\ reader[r].got = None,
         p \in {"lines", "wait", "fetch"} => reader[r].script \in Script
  PROVE  Moved(r) /\ reader'[r].pc = p /\ reader'[r].hash = reader[r].hash /\ reader'[r].script = reader[r].script
<1> DEFINE n == [reader[r] EXCEPT !.pc = p]
<1>1. reader[r] \in ReaderRow /\ ReaderOK(reader[r])
  BY DEF ReadersOK
<1>2. reader' = [reader EXCEPT ![r] = n]
  BY DEF ReadersOK
<1>3. /\ n \in ReaderRow /\ n.pc = p /\ n.hash = reader[r].hash /\ n.got = reader[r].got
      /\ n.slots = reader[r].slots /\ n.script = reader[r].script
  BY <1>1 DEF ReaderRow
<1> HIDE DEF n
<1>4. ReaderOK(n)
  BY <1>1, <1>3 DEF ReaderOK
<1> QED BY <1>2, <1>3, <1>4 DEF Moved, ReadersOK

\* A reader whose map cannot be had tries its next name or ends.
LEMMA UnreadableMoves ==
  ASSUME ReadersOK, NEW r \in Reader, AtGate(reader[r]), reader' = Unreadable(r)
  PROVE  Moved(r) /\ reader'[r].pc \in {"idle", "lookup"}
<1>1. CASE reader[r].verifies
  <2>1. "unreadable" \notin Hash
    BY SourceMapsAssumption
  <2> QED BY <1>1, <2>1, GotMoves DEF Unreadable
<1>2. CASE ~reader[r].verifies
  <2> DEFINE n == [reader[r] EXCEPT !.pc = "lookup", !.slots = Tail(reader[r].slots), !.hash = None]
  <2>1. reader[r] \in ReaderRow /\ reader[r].slots # <<>> /\ reader[r].got = None
    BY DEF ReadersOK, ReaderOK, AtGate
  <2>2. reader' = [reader EXCEPT ![r].pc = "lookup", ![r].slots = Tail(@), ![r].hash = None]
    BY <1>2 DEF Unreadable
  <2>3. reader' = [reader EXCEPT ![r] = n]
    BY <2>1, <2>2 DEF ReadersOK, ReaderRow
  <2>4. Tail(reader[r].slots) \in Seq(Slot)
    BY <2>1 DEF ReaderRow
  <2>5. n \in ReaderRow /\ n.pc = "lookup" /\ n.got = None
    BY <2>1, <2>4 DEF ReaderRow
  <2> HIDE DEF n
  <2>6. ReaderOK(n)
    BY <2>5, IdleReader DEF ReaderOK
  <2> QED BY <2>3, <2>5, <2>6 DEF Moved, ReadersOK
<1> QED BY <1>1, <1>2

\* A move away from gate and flights, or between places there that nobody else uses.
LEMMA PlainMove ==
  ASSUME CacheInv, NEW r \in Reader, Moved(r), UNCHANGED <<parsedVars, lineVars>>,
         reader[r].pc \notin {"gate", "parse", "fetch"}, reader'[r].pc \notin {"gate", "parse", "fetch"},
         reader'[r].pc = "wait" => reader'[r].script \in DOMAIN flights
  PROVE  CacheInv'
<1>1. ReadersOK' /\ reader' \in [Reader -> ReaderRow] /\ \A q \in Reader : q # r => reader'[q] = reader[q]
  BY ReadersMove DEF CacheInv, Moved
<1>2. GateOK'
  BY <1>1 DEF CacheInv, GateOK, AtGate, parsedVars
<1>3. MapsOK' /\ LinesOK'
  BY DEF CacheInv, MapsOK, LinesOK, parsedVars, lineVars, MapSizes, LineSizes, SizeOf
<1>4. FlightsOK'
  BY <1>1 DEF CacheInv, FlightsOK, lineVars
<1> QED BY <1>1, <1>2, <1>3, <1>4 DEF CacheInv

\* The gate is left, with or without a map in the cache.
LEMMA GateMove ==
  ASSUME CacheInv, NEW r \in Reader, Moved(r), UNCHANGED lineVars, MapsOK',
         AtGate(reader[r]), reader'[r].pc \notin {"gate", "parse", "fetch", "wait"}, parseGate' = None
  PROVE  CacheInv'
<1>1. ReadersOK' /\ reader' \in [Reader -> ReaderRow] /\ \A q \in Reader : q # r => reader'[q] = reader[q]
  BY ReadersMove DEF CacheInv, Moved
<1>2. \A q \in Reader : ~AtGate(reader'[q])
  BY <1>1 DEF CacheInv, GateOK, AtGate
<1>3. GateOK'
  BY <1>2, IdleReader DEF GateOK
<1>4. LinesOK'
  BY DEF CacheInv, LinesOK, lineVars, LineSizes, SizeOf
<1>5. FlightsOK'
  BY <1>1 DEF CacheInv, FlightsOK, lineVars, AtGate
<1> QED BY <1>1, <1>3, <1>4, <1>5 DEF CacheInv

LEMMA BeginCaches ==
  ASSUME StoreInv, CacheInv, NEW r \in Reader, NEW frame \in frames, NEW verifies \in BOOLEAN,
         Begin(r, frame, verifies)
  PROVE  CacheInv'
<1> DEFINE n == [NoReader EXCEPT !.pc = "lookup", !.slots = frame.slots, !.script = frame.script,
                                 !.verifies = verifies]
<1>1. /\ reader[r].pc = "idle" /\ reader' = [reader EXCEPT ![r] = n]
      /\ UNCHANGED <<parsedVars, lineVars>>
  BY DEF Begin
<1>2. frame.slots \in Seq(Slot) /\ frame.script \in Script \cup {None}
  BY FrameSlots
<1>3. n \in ReaderRow /\ n.pc = "lookup" /\ n.got = None
  <2>1. NoReader \in ReaderRow /\ NoReader.got = None
    BY IdleReader DEF NoReader
  <2> QED BY <1>2, <2>1 DEF ReaderRow
<1> HIDE DEF n
<1>4. ReaderOK(n)
  BY <1>3, IdleReader DEF ReaderOK
<1>5. Moved(r) /\ reader'[r].pc = "lookup"
  BY <1>1, <1>3, <1>4 DEF CacheInv, ReadersOK, Moved
<1> QED BY <1>1, <1>5, PlainMove

LEMMA LookupCaches ==
  ASSUME StoreInv, CacheInv, NEW r \in Reader, GetSourcemap(r)
  PROVE  CacheInv'
<1> DEFINE s == Head(reader[r].slots)
           hash == sourcemaps[s]
<1>1. reader[r].pc = "lookup" /\ reader[r].slots # <<>> /\ UNCHANGED <<parsedVars, lineVars>>
  BY DEF GetSourcemap
<1>2. reader[r] \in ReaderRow /\ ReaderOK(reader[r])
  BY DEF CacheInv, ReadersOK
<1>3. reader[r].got = None
  BY <1>1, <1>2 DEF ReaderOK
<1>4. s \in Slot /\ Tail(reader[r].slots) \in Seq(Slot)
  BY <1>1, <1>2 DEF ReaderRow
<1>5. hash \in Hash \cup {None}
  BY <1>4 DEF StoreInv, StoreTypes
<1>6. CASE hash = None
  <2> DEFINE n == [reader[r] EXCEPT !.slots = Tail(reader[r].slots)]
  <2>1. reader' = [reader EXCEPT ![r].slots = Tail(@)]
    BY <1>6 DEF GetSourcemap
  <2>2. reader' = [reader EXCEPT ![r] = n]
    BY <1>2, <2>1 DEF CacheInv, ReadersOK
  <2>3. n \in ReaderRow /\ n.pc = "lookup" /\ n.got = None
    BY <1>1, <1>2, <1>3, <1>4 DEF ReaderRow
  <2> HIDE DEF n
  <2>4. ReaderOK(n)
    BY <2>3, IdleReader DEF ReaderOK
  <2>5. Moved(r) /\ reader'[r].pc = "lookup"
    BY <2>2, <2>3, <2>4 DEF CacheInv, ReadersOK, Moved
  <2> QED BY <1>1, <2>5, PlainMove
<1>7. CASE hash # None
  <2> DEFINE n == [reader[r] EXCEPT !.pc = "parsed", !.hash = hash]
  <2>1. reader' = [reader EXCEPT ![r].pc = "parsed", ![r].hash = hash]
    BY <1>7 DEF GetSourcemap
  <2>2. reader' = [reader EXCEPT ![r] = n]
    BY <1>2, <2>1 DEF CacheInv, ReadersOK
  <2>3. hash \in Hash
    BY <1>5, <1>7
  <2> HIDE DEF hash
  <2>4. n \in ReaderRow /\ n.pc = "parsed" /\ n.got = None /\ n.hash \in Hash /\ n.slots # <<>>
    BY <1>1, <1>2, <1>3, <2>3 DEF ReaderRow
  <2> HIDE DEF n
  <2>5. ReaderOK(n)
    BY <2>4, IdleReader DEF ReaderOK
  <2>6. Moved(r) /\ reader'[r].pc = "parsed"
    BY <2>2, <2>4, <2>5 DEF CacheInv, ReadersOK, Moved
  <2> QED BY <1>1, <2>6, PlainMove
<1> QED BY <1>6, <1>7

\* What a reader may end with besides a map.
LEMMA NoHash == \A result \in {"lines", "no lines", "no map", "unreadable", "cancelled"} : result \notin Hash
  BY SourceMapsAssumption

\* The script of a reader, if it has one, is a script.
LEMMA ItsScript ==
  ASSUME CacheInv, NEW r \in Reader
  PROVE  /\ reader[r] \in ReaderRow /\ ReaderOK(reader[r])
         /\ reader[r].script # None => reader[r].script \in Script
  BY DEF CacheInv, ReadersOK, ReaderRow

LEMMA NoMapCaches ==
  ASSUME CacheInv, NEW r \in Reader, NoMap(r)
  PROVE  CacheInv'
<1>1. reader[r].pc = "lookup" /\ UNCHANGED <<parsedVars, lineVars>>
  BY DEF NoMap
<1>2. CASE reader' = Got(r, "no map")
  <2>1. Moved(r) /\ reader'[r].pc = "idle"
    BY <1>2, NoHash, GotMoves DEF CacheInv
  <2> QED BY <1>1, <2>1, PlainMove
<1>3. CASE reader' # Got(r, "no map")
  <2>1. reader' = [reader EXCEPT ![r].pc = "lines"] /\ reader[r].script # None
    BY <1>3 DEF NoMap
  <2>2. Moved(r) /\ reader'[r].pc = "lines"
    BY <2>1, ItsScript, PlaceMoves DEF CacheInv
  <2> QED BY <1>1, <2>2, PlainMove
<1> QED BY <1>2, <1>3

\* What the cache has for a hash is the map of that hash.
LEMMA CachedIsCurrent ==
  ASSUME CacheInv, NEW r \in Reader, Key(r) \in DOMAIN parsed
  PROVE  parsed[Key(r)] = reader[r].hash
  BY DEF CacheInv, MapsOK, Key

LEMMA HitCaches ==
  ASSUME CacheInv, NEW r \in Reader, CacheHit(r)
  PROVE  CacheInv'
<1>1. PICK placed \in BOOLEAN : reader' = Served(r, parsed[Key(r)], placed)
  BY DEF CacheHit
<1>2. reader[r].pc = "parsed" /\ Key(r) \in DOMAIN parsed /\ UNCHANGED <<parsedVars, lineVars>>
  BY DEF CacheHit
<1>3. reader[r].hash \in Hash
  BY <1>2, ItsScript DEF ReaderOK
<1>4. reader' = Served(r, reader[r].hash, placed)
  BY <1>1, <1>2, CachedIsCurrent
<1>5. Moved(r) /\ reader'[r].pc \in {"idle", "lines"}
  BY <1>3, <1>4, ServedMoves DEF CacheInv
<1> QED BY <1>2, <1>5, PlainMove

LEMMA MissCaches ==
  ASSUME CacheInv, NEW r \in Reader, CacheMiss(r)
  PROVE  CacheInv'
<1>1. /\ reader[r].pc = "parsed" /\ reader' = [reader EXCEPT ![r].pc = "queue"]
      /\ UNCHANGED <<parsedVars, lineVars>>
  BY DEF CacheMiss
<1>2. reader[r].hash \in Hash /\ reader[r].slots # <<>> /\ reader[r].got = None
  BY <1>1, ItsScript DEF ReaderOK
<1>3. Moved(r) /\ reader'[r].pc = "queue"
  BY <1>1, <1>2, PlaceMoves DEF CacheInv
<1> QED BY <1>1, <1>3, PlainMove

\* Caches that stand still stay sound.
LEMMA CachesStay ==
  ASSUME CacheInv, UNCHANGED <<parsed, parsedOrder, parsedBytes, lineVars>>
  PROVE  MapsOK' /\ LinesOK'
  BY DEF CacheInv, MapsOK, LinesOK, lineVars, MapSizes, LineSizes, SizeOf

\* The flights stand still, and with them those who fetch and wait.
LEMMA FlightsStay ==
  ASSUME CacheInv, NEW r \in Reader, Moved(r), flights' = flights,
         reader[r].pc # "fetch", reader'[r].pc # "wait"
  PROVE  FlightsOK'
  BY DEF CacheInv, FlightsOK, Moved

LEMMA TakeGateCaches ==
  ASSUME CacheInv, NEW r \in Reader, TakeGate(r)
  PROVE  CacheInv'
<1>1. /\ reader[r].pc = "queue" /\ parseGate = None /\ UNCHANGED lineVars
      /\ UNCHANGED <<parsed, parsedOrder, parsedBytes>>
  BY DEF TakeGate
<1>2. reader[r].hash \in Hash /\ reader[r].slots # <<>> /\ reader[r].got = None
  BY <1>1, ItsScript DEF ReaderOK
<1>3. CASE CachedMeanwhile(r)
  <2>1. PICK placed \in BOOLEAN : reader' = Served(r, parsed[Key(r)], placed)
    BY <1>3 DEF TakeGate
  <2>2. parseGate' = parseGate
    BY <1>3 DEF TakeGate
  <2>3. reader' = Served(r, reader[r].hash, placed)
    BY <1>3, <2>1, CachedIsCurrent DEF CachedMeanwhile
  <2>4. Moved(r) /\ reader'[r].pc \in {"idle", "lines"}
    BY <1>2, <2>3, ServedMoves DEF CacheInv
  <2> QED BY <1>1, <2>2, <2>4, PlainMove DEF parsedVars
<1>4. CASE ~CachedMeanwhile(r)
  <2>1. reader' = [reader EXCEPT ![r].pc = "gate"] /\ parseGate' = r
    BY <1>4 DEF TakeGate
  <2>2. Moved(r) /\ reader'[r].pc = "gate" /\ reader'[r].hash = reader[r].hash
    BY <1>2, <2>1, PlaceMoves DEF CacheInv
  <2>3. ReadersOK' /\ MapsOK' /\ LinesOK'
    BY <1>1, <2>2, ReadersMove, CachesStay DEF CacheInv
  <2>4. GateOK'
    <3>1. \A q \in Reader : q # r => ~AtGate(reader'[q])
      BY <1>1, <2>2, IdleReader DEF CacheInv, GateOK, Moved
    <3>2. AtGate(reader'[r]) /\ reader'[r].hash \notin DOMAIN parsed'
      BY <1>1, <1>4, <2>2 DEF AtGate, CachedMeanwhile, Key
    <3> QED BY <2>1, <3>1, <3>2 DEF GateOK
  <2>5. FlightsOK'
    BY <1>1, <2>2, FlightsStay DEF lineVars
  <2> QED BY <2>3, <2>4, <2>5 DEF CacheInv
<1> QED BY <1>3, <1>4

LEMMA ReadFileCaches ==
  ASSUME CacheInv, NEW r \in Reader, ReadFile(r)
  PROVE  CacheInv'
<1>1. /\ reader[r].pc = "gate" /\ UNCHANGED lineVars /\ UNCHANGED <<parsed, parsedOrder, parsedBytes>>
  BY DEF ReadFile
<1>2. MapsOK' /\ LinesOK' /\ AtGate(reader[r])
  BY <1>1, CachesStay DEF AtGate
<1>3. CASE reader[r].hash \in files
  <2>1. reader' = [reader EXCEPT ![r].pc = "parse"] /\ parseGate' = parseGate
    BY <1>3 DEF ReadFile
  <2>2. reader[r].hash \in Hash /\ reader[r].slots # <<>> /\ reader[r].got = None
    BY <1>1, ItsScript DEF ReaderOK
  <2>3. Moved(r) /\ reader'[r].pc = "parse" /\ reader'[r].hash = reader[r].hash
    BY <2>1, <2>2, PlaceMoves DEF CacheInv
  <2>4. ReadersOK'
    BY <2>3, ReadersMove DEF CacheInv
  <2>5. GateOK'
    BY <1>1, <2>1, <2>3 DEF CacheInv, GateOK, AtGate, Moved
  <2>6. FlightsOK'
    BY <1>1, <2>3, FlightsStay DEF lineVars
  <2> QED BY <1>2, <2>4, <2>5, <2>6 DEF CacheInv
<1>4. CASE reader[r].hash \notin files
  <2>1. reader' = Unreadable(r) /\ parseGate' = None
    BY <1>4 DEF ReadFile
  <2>2. Moved(r) /\ reader'[r].pc \in {"idle", "lookup"}
    BY <1>2, <2>1, UnreadableMoves DEF CacheInv
  <2> QED BY <1>1, <1>2, <2>1, <2>2, GateMove
<1> QED BY <1>3, <1>4

LEMMA ParseFailsCaches ==
  ASSUME CacheInv, NEW r \in Reader, ParseFails(r)
  PROVE  CacheInv'
<1>1. /\ AtGate(reader[r]) /\ reader' = Unreadable(r) /\ parseGate' = None
      /\ UNCHANGED lineVars /\ UNCHANGED <<parsed, parsedOrder, parsedBytes>>
  BY DEF ParseFails, AtGate
<1>2. MapsOK'
  BY <1>1, CachesStay
<1>3. Moved(r) /\ reader'[r].pc \in {"idle", "lookup"}
  BY <1>1, UnreadableMoves DEF CacheInv
<1> QED BY <1>1, <1>2, <1>3, GateMove

LEMMA ParseCaches ==
  ASSUME CacheInv, NEW r \in Reader, Parse(r)
  PROVE  CacheInv'
<1> DEFINE k == reader[r].hash
           cache == Put(parsed, k, k)
           kept == Kept(Append(parsedOrder, k), MapSizes(cache))
<1>1. reader[r].pc = "parse" /\ parseGate' = None /\ UNCHANGED lineVars
  BY DEF Parse
<1>2. PICK placed \in BOOLEAN : reader' = Served(r, k, placed)
  BY DEF Parse
<1>3. AtGate(reader[r]) /\ k \in Hash /\ k \notin DOMAIN parsed
  BY <1>1, ItsScript DEF AtGate, ReaderOK, CacheInv, GateOK
<1>4. MapsOK'
  <2>1. CASE Size[k] > CacheBytes
    <3>1. UNCHANGED <<parsed, parsedOrder, parsedBytes>>
      BY <2>1 DEF Parse
    <3> QED BY <1>1, <3>1, CachesStay
  <2>2. CASE ~ (Size[k] > CacheBytes)
    <3>1. /\ parsed' = Restrict(cache, ToSet(kept)) /\ parsedOrder' = kept
          /\ parsedBytes' = parsedBytes + Size[k] - SumFunctionOnSet(MapSizes(cache), DOMAIN cache \ ToSet(kept))
      BY <2>2 DEF Parse, Key
    <3> HIDE DEF k
    <3>2. MapsOK
      BY DEF CacheInv
    <3> QED BY <1>3, <3>1, <3>2, MapIsCached
  <2> QED BY <2>1, <2>2
<1>5. Moved(r) /\ reader'[r].pc \in {"idle", "lines"}
  BY <1>2, <1>3, ServedMoves DEF CacheInv
<1> QED BY <1>1, <1>3, <1>4, <1>5, GateMove

LEMMA LinesCaches ==
  ASSUME CacheInv, NEW r \in Reader, LinesCached(r) \/ JoinFlight(r) \/ TooManyFlights(r)
  PROVE  CacheInv'
<1>1. CASE LinesCached(r)
  <2> DEFINE lines == fileCache[reader[r].script].lines
  <2>1. /\ reader[r].pc = "lines" /\ reader' = Got(r, lines) /\ UNCHANGED <<parsedVars, lineVars>>
        /\ reader[r].script \in DOMAIN fileCache
    BY <1>1 DEF LinesCached, Fresh
  <2>2. lines \in {"lines", "no lines"}
    BY <2>1 DEF CacheInv, LinesOK, CachedLines
  <2> HIDE DEF lines
  <2>3. Moved(r) /\ reader'[r].pc = "idle"
    BY <2>1, <2>2, NoHash, GotMoves DEF CacheInv
  <2> QED BY <2>1, <2>3, PlainMove
<1>2. CASE JoinFlight(r)
  <2>1. /\ reader[r].pc = "lines" /\ reader' = [reader EXCEPT ![r].pc = "wait"]
        /\ reader[r].script \in DOMAIN flights /\ UNCHANGED <<parsedVars, lineVars>>
    BY <1>2 DEF JoinFlight
  <2>2. reader[r].script \in Script
    BY <2>1, ItsScript DEF ReaderOK
  <2>3. Moved(r) /\ reader'[r].pc = "wait" /\ reader'[r].script = reader[r].script
    BY <2>1, <2>2, PlaceMoves DEF CacheInv
  <2> QED BY <2>1, <2>3, PlainMove
<1>3. CASE TooManyFlights(r)
  <2>1. reader[r].pc = "lines" /\ reader' = Got(r, "no lines") /\ UNCHANGED <<parsedVars, lineVars>>
    BY <1>3 DEF TooManyFlights
  <2>2. Moved(r) /\ reader'[r].pc = "idle"
    BY <2>1, NoHash, GotMoves DEF CacheInv
  <2> QED BY <2>1, <2>2, PlainMove
<1> QED BY <1>1, <1>2, <1>3

\* A move that touches neither gate nor parsed maps.
LEMMA GateStays ==
  ASSUME CacheInv, UNCHANGED parsedVars, NEW R, R \subseteq Reader,
         \A q \in Reader \ R : reader'[q] = reader[q],
         \A q \in R : ~AtGate(reader[q]) /\ ~AtGate(reader'[q])
  PROVE  GateOK' /\ MapsOK'
<1>1. GateOK'
  BY DEF CacheInv, GateOK, parsedVars
<1>2. MapsOK'
  BY DEF CacheInv, MapsOK, parsedVars, MapSizes
<1> QED BY <1>1, <1>2

LEMMA StartCaches ==
  ASSUME CacheInv, NEW r \in Reader, StartFlight(r)
  PROVE  CacheInv'
<1> DEFINE url == reader[r].script
<1>1. /\ reader[r].pc = "lines" /\ url \notin DOMAIN flights /\ flights' = Put(flights, url, r)
      /\ reader' = [reader EXCEPT ![r].pc = "fetch"]
      /\ UNCHANGED parsedVars /\ UNCHANGED <<fileCache, fileOrder, fileBytes, refused>>
  BY DEF StartFlight
<1>2. url \in Script
  BY <1>1, ItsScript DEF ReaderOK
<1>3. Moved(r) /\ reader'[r].pc = "fetch" /\ reader'[r].script = url
  BY <1>1, <1>2, PlaceMoves DEF CacheInv
<1>4. ReadersOK'
  BY <1>3, ReadersMove DEF CacheInv
<1>5. GateOK' /\ MapsOK'
  <2>1. \A q \in Reader \ {r} : reader'[q] = reader[q]
    BY <1>3 DEF Moved
  <2>2. \A q \in {r} : ~AtGate(reader[q]) /\ ~AtGate(reader'[q])
    BY <1>1, <1>3 DEF AtGate
  <2> DEFINE R == {r}
  <2>3. R \subseteq Reader /\ (\A q \in Reader \ R : reader'[q] = reader[q])
        /\ \A q \in R : ~AtGate(reader[q]) /\ ~AtGate(reader'[q])
    BY <2>1, <2>2
  <2> HIDE DEF R
  <2> QED BY <1>1, <2>3, GateStays
<1>6. LinesOK'
  BY <1>1 DEF CacheInv, LinesOK, LineSizes, SizeOf
<1>7. FlightsOK'
  <2>1. DOMAIN flights' = DOMAIN flights \cup {url} /\ flights'[url] = r
        /\ \A u \in DOMAIN flights : flights'[u] = flights[u]
    BY <1>1 DEF Put
  <2>2. ASSUME NEW u \in DOMAIN flights'
        PROVE  flights'[u] \in Reader /\ reader'[flights'[u]].pc = "fetch" /\ reader'[flights'[u]].script = u
    <3>1. CASE u = url
      BY <1>3, <2>1, <3>1
    <3>2. CASE u # url
      <4>1. /\ u \in DOMAIN flights /\ flights'[u] = flights[u] /\ flights[u] \in Reader
            /\ reader[flights[u]].pc = "fetch" /\ reader[flights[u]].script = u
        BY <2>1, <2>2, <3>2 DEF CacheInv, FlightsOK
      <4>2. flights[u] # r
        BY <1>1, <4>1
      <4> QED BY <1>3, <4>1, <4>2 DEF Moved
    <3> QED BY <3>1, <3>2
  <2>3. ASSUME NEW q \in Reader, reader'[q].pc = "wait" PROVE reader'[q].script \in DOMAIN flights'
    <3>1. q # r /\ reader'[q] = reader[q]
      BY <1>3, <2>3 DEF Moved
    <3> QED BY <2>1, <2>3, <3>1 DEF CacheInv, FlightsOK
  <2> QED BY <2>2, <2>3 DEF FlightsOK
<1> QED BY <1>4, <1>5, <1>6, <1>7 DEF CacheInv

\* Lines that become old are still lines.
LEMMA ExpireCaches ==
  ASSUME CacheInv, NEW url \in Script, LinesExpire(url)
  PROVE  CacheInv'
<1>1. /\ url \in DOMAIN fileCache /\ fileCache' = [fileCache EXCEPT ![url].stale = TRUE]
      /\ UNCHANGED <<reader, parsedVars, fileOrder, fileBytes, flights, refused>>
  BY DEF LinesExpire, Fresh
<1>2. fileCache \in [DOMAIN fileCache -> CachedLines]
  BY DEF CacheInv, LinesOK
<1>3. /\ DOMAIN fileCache' = DOMAIN fileCache /\ fileCache' \in [DOMAIN fileCache -> CachedLines]
      /\ \A u \in DOMAIN fileCache : fileCache'[u].lines = fileCache[u].lines
  BY <1>1, <1>2 DEF CachedLines
<1>4. LineSizes(fileCache') = LineSizes(fileCache)
  <2>1. \A u \in DOMAIN fileCache : SizeOf(u, fileCache'[u]) = SizeOf(u, fileCache[u])
    BY <1>3 DEF SizeOf
  <2> QED BY <1>3, <2>1 DEF LineSizes
<1>5. LinesOK'
  BY <1>1, <1>3, <1>4 DEF CacheInv, LinesOK
<1>6. ReadersOK' /\ GateOK' /\ MapsOK' /\ FlightsOK'
  BY <1>1 DEF CacheInv, ReadersOK, GateOK, MapsOK, FlightsOK, parsedVars, MapSizes
<1> QED BY <1>5, <1>6 DEF CacheInv

\* The end of a fetch: its owner and those who waited go, and its flight with them.
LEMMA FetchedCaches ==
  ASSUME CacheInv, NEW r \in Reader, NEW lines \in {"lines", "no lines"}, NEW cancelled \in BOOLEAN,
         Fetched(r, lines, cancelled)
  PROVE  CacheInv'
<1> DEFINE url == reader[r].script
           R == {q \in Reader : q = r \/ (reader[q].pc = "wait" /\ reader[q].script = url)}
<1>1. /\ reader[r].pc = "fetch" /\ UNCHANGED parsedVars
      /\ IF ~cancelled THEN cacheLines(url, lines) ELSE UNCHANGED <<fileCache, fileOrder, fileBytes>>
      /\ flights' = Restrict(flights, DOMAIN flights \ {url})
      /\ refused' = IF ~cancelled /\ lines = "no lines" THEN refused \cup {url} ELSE refused
      /\ reader' = [q \in Reader |-> IF q = r \/ (reader[q].pc = "wait" /\ reader[q].script = url)
                                       THEN Ended(q, lines) ELSE reader[q]]
  BY DEF Fetched, KeepsLines
<1>2. url \in Script /\ R \subseteq Reader
  BY <1>1, ItsScript DEF ReaderOK
<1>3. /\ \A q \in R : reader'[q] \in ReaderRow /\ ReaderOK(reader'[q]) /\ reader'[q].pc = "idle"
      /\ \A q \in Reader \ R : reader'[q] = reader[q]
  <2>1. ASSUME NEW q \in R PROVE reader'[q] \in ReaderRow /\ ReaderOK(reader'[q]) /\ reader'[q].pc = "idle"
    <3>1. reader'[q] = Ended(q, lines)
      BY <1>1
    <3>2. lines \notin Hash /\ "cancelled" \notin Hash
      BY NoHash
    <3>3. ReadersOK /\ q \in Reader
      BY DEF CacheInv
    <3> HIDE DEF R
    <3> QED BY <3>1, <3>2, <3>3, Ends
  <2>2. ASSUME NEW q \in Reader \ R PROVE reader'[q] = reader[q]
    BY <1>1
  <2> QED BY <2>1, <2>2
<1>4. \A q \in R : reader[q].pc \in {"fetch", "wait"}
  BY <1>1
<1>5. ReadersOK'
  <2>1. \A q \in Reader : reader'[q] \in ReaderRow /\ ReaderOK(reader'[q])
    <3> HIDE DEF R
    <3> QED BY <1>3 DEF CacheInv, ReadersOK
  <2> QED BY <1>1, <2>1 DEF ReadersOK
<1>6. GateOK' /\ MapsOK'
  <2>1. \A q \in R : ~AtGate(reader[q]) /\ ~AtGate(reader'[q])
    BY <1>3, <1>4 DEF AtGate
  <2> HIDE DEF R
  <2> QED BY <1>1, <1>2, <1>3, <2>1, GateStays
<1>7. LinesOK'
  <2>1. refused \subseteq refused' /\ (~cancelled /\ lines = "no lines" => url \in refused')
    BY <1>1
  <2>2. CASE cancelled
    <3>1. UNCHANGED <<fileCache, fileOrder, fileBytes>>
      BY <1>1, <2>2
    <3> QED BY <2>1, <3>1 DEF CacheInv, LinesOK, LineSizes, SizeOf
  <2>3. CASE ~cancelled
    <3>1. cacheLines(url, lines) /\ LinesOK
      BY <1>1, <2>3 DEF CacheInv
    <3> HIDE DEF url
    <3> QED BY <1>2, <2>1, <2>3, <3>1, LinesAreCached
  <2> QED BY <2>2, <2>3
<1>8. FlightsOK'
  <2>1. DOMAIN flights' = DOMAIN flights \ {url} /\ \A u \in DOMAIN flights' : flights'[u] = flights[u]
    BY <1>1 DEF Restrict
  <2>2. ASSUME NEW u \in DOMAIN flights'
        PROVE  flights'[u] \in Reader /\ reader'[flights'[u]].pc = "fetch" /\ reader'[flights'[u]].script = u
    <3>1. /\ u # url /\ flights'[u] = flights[u] /\ flights[u] \in Reader
          /\ reader[flights[u]].pc = "fetch" /\ reader[flights[u]].script = u
      BY <2>1, <2>2 DEF CacheInv, FlightsOK
    <3>2. flights[u] \notin R
      BY <3>1
    <3> QED BY <1>3, <3>1, <3>2
  <2>3. ASSUME NEW q \in Reader, reader'[q].pc = "wait" PROVE reader'[q].script \in DOMAIN flights'
    <3>1. q \notin R /\ reader'[q] = reader[q]
      BY <1>3, <2>3
    <3>2. reader[q].script # url /\ reader[q].script \in DOMAIN flights
      BY <2>3, <3>1 DEF CacheInv, FlightsOK
    <3> QED BY <2>1, <3>1, <3>2
  <2> QED BY <2>2, <2>3 DEF FlightsOK
<1> QED BY <1>5, <1>6, <1>7, <1>8 DEF CacheInv

LEMMA CancelCaches ==
  ASSUME CacheInv, NEW r \in Reader, Cancel(r)
  PROVE  CacheInv'
<1>1. /\ reader[r].pc \notin {"idle", "fetch"} /\ reader' = Got(r, "cancelled")
      /\ parseGate' = IF parseGate = r THEN None ELSE parseGate
      /\ UNCHANGED <<parsed, parsedOrder, parsedBytes>> /\ UNCHANGED lineVars
  BY DEF Cancel
<1>2. Moved(r) /\ reader'[r].pc = "idle"
  BY <1>1, NoHash, GotMoves DEF CacheInv
<1>3. CASE parseGate = r
  <2>1. AtGate(reader[r])
    BY <1>3 DEF CacheInv, GateOK
  <2>2. MapsOK' /\ parseGate' = None
    BY <1>1, <1>3, CachesStay
  <2> QED BY <1>1, <1>2, <2>1, <2>2, GateMove
<1>4. CASE parseGate # r
  <2>1. ~AtGate(reader[r])
    BY <1>4 DEF CacheInv, GateOK
  <2>2. UNCHANGED parsedVars
    BY <1>1, <1>4 DEF parsedVars
  <2> QED BY <1>1, <1>2, <2>1, <2>2, PlainMove DEF AtGate
<1> QED BY <1>3, <1>4

LEMMA CacheInvInit == Init => CacheInv
<1> SUFFICES ASSUME Init PROVE CacheInv
  OBVIOUS
<1>1. /\ reader = [r \in Reader |-> NoReader] /\ parsed = <<>> /\ parsedOrder = <<>> /\ parsedBytes = 0
      /\ parseGate = None /\ fileCache = <<>> /\ fileOrder = <<>> /\ fileBytes = 0 /\ flights = <<>>
  BY DEF Init
<1>2. ReadersOK
  BY <1>1, IdleReader DEF ReadersOK
<1>3. GateOK
  BY <1>1, IdleReader DEF GateOK, AtGate
<1>4. DOMAIN <<>> = {} /\ ToSet(<<>>) = {} /\ IsInjective(<<>>) /\ Len(<<>>) = 0
  BY DEF ToSet, IsInjective
<1>5. 0 <= CacheMax /\ 0 <= CacheBytes
  BY CacheLimits
<1>6. MapsOK
  <2>1. parsed = [k \in DOMAIN parsed |-> k] /\ parsedOrder \in Seq(Hash)
    BY <1>1
  <2>2. SumFunction(MapSizes(parsed)) = 0
    <3>1. DOMAIN MapSizes(parsed) = {}
      BY <1>1, <1>4 DEF MapSizes
    <3> QED BY <3>1, SumEmpty DEF SumFunction
  <2> QED BY <1>1, <1>4, <1>5, <2>1, <2>2 DEF MapsOK
<1>7. LinesOK
  <2>1. fileCache \in [DOMAIN fileCache -> CachedLines] /\ fileOrder \in Seq(Script)
    BY <1>1
  <2>2. SumFunction(LineSizes(fileCache)) = 0
    <3>1. DOMAIN LineSizes(fileCache) = {}
      BY <1>1, <1>4 DEF LineSizes
    <3> QED BY <3>1, SumEmpty DEF SumFunction
  <2> QED BY <1>1, <1>4, <1>5, <2>1, <2>2 DEF LinesOK
<1>8. FlightsOK
  BY <1>1, <1>4, IdleReader DEF FlightsOK
<1> QED BY <1>2, <1>3, <1>6, <1>7, <1>8 DEF CacheInv

LEMMA CacheInvStep == StoreInv /\ CacheInv /\ [Next]_vars => CacheInv'
<1> SUFFICES ASSUME StoreInv, CacheInv, [Next]_vars PROVE CacheInv'
  OBVIOUS
<1>1. ASSUME UNCHANGED <<reader, parsedVars, lineVars>> PROVE CacheInv'
  <2>1. MapsOK' /\ LinesOK'
    BY <1>1, CachesStay DEF parsedVars
  <2>2. ReadersOK' /\ GateOK' /\ FlightsOK'
    BY <1>1 DEF CacheInv, ReadersOK, GateOK, FlightsOK, parsedVars, lineVars
  <2> QED BY <2>1, <2>2 DEF CacheInv
<1>2. CASE Store
  <2>1. ASSUME NEW u \in Uploader, NEW s \in Slot, NEW h \in Contents[s], Publish(u, s, h)
        PROVE  UNCHANGED <<reader, parsedVars, lineVars>>
    BY <2>1 DEF Publish
  <2>2. ASSUME NEW u \in Uploader, UpsertSourcemap(u) \/ UploadFails(u)
        PROVE  UNCHANGED <<reader, parsedVars, lineVars>>
    BY <2>2 DEF UpsertSourcemap, UploadFails
  <2>3. ASSUME NEW d \in Deleter, NEW s \in Slot, DeleteSourcemap(d, s)
        PROVE  UNCHANGED <<reader, parsedVars, lineVars>>
    BY <2>3 DEF DeleteSourcemap
  <2>4. ASSUME NEW d \in Deleter, NEW fails \in BOOLEAN, CountSourcemapsByHash(d, fails)
        PROVE  UNCHANGED <<reader, parsedVars, lineVars>>
    BY <2>4 DEF CountSourcemapsByHash
  <2>5. ASSUME NEW d \in Deleter, RemoveFile(d) PROVE UNCHANGED <<reader, parsedVars, lineVars>>
    BY <2>5 DEF RemoveFile
  <2> QED BY <1>1, <1>2, <2>1, <2>2, <2>3, <2>4, <2>5 DEF Store
<1>3. ASSUME NEW r \in Reader, Read(r) PROVE CacheInv'
  BY <1>3, BeginCaches, LookupCaches, NoMapCaches, HitCaches, MissCaches, TakeGateCaches,
     ReadFileCaches, ParseCaches, ParseFailsCaches, LinesCaches, StartCaches, FetchedCaches,
     CancelCaches DEF Read
<1>4. CASE UNCHANGED vars
  BY <1>1, <1>4 DEF vars
<1> QED BY <1>2, <1>3, <1>4, ExpireCaches DEF Next

\* The inductive invariant of readers and caches.
THEOREM CacheInvHolds == Spec => [](StoreInv /\ CacheInv)
  BY StoreInvInit, StoreInvStep, CacheInvInit, CacheInvStep, PTL DEF Spec

\* CachesTrustworthy: a reader gets the map of the row it looked up, caches keep
\* to their limits and books, and no one waits for nobody.
THEOREM CachesTrustworthyHolds == Spec => []CachesTrustworthy
<1>1. CacheInv => CachesTrustworthy
  <2> SUFFICES ASSUME CacheInv PROVE CachesTrustworthy
    OBVIOUS
  <2>1. ServedCurrent
    BY DEF CacheInv, ReadersOK, ReaderOK, ServedCurrent
  <2>2. CachesSound
    BY IdleReader DEF CacheInv, GateOK, MapsOK, LinesOK, FlightsOK, CachesSound, AtGate
  <2> QED BY <2>1, <2>2 DEF CachesTrustworthy
<1> QED BY <1>1, CacheInvHolds, PTL

(***************************************************************************)
(* Lists of rows: their parts, and the order by age.                       *)
(***************************************************************************)
\* A list without repetition, whose members are those of S.
Lists(s, S) == s \in Seq(S) /\ IsInjective(s) /\ ToSet(s) = S

LEMMA ListLength ==
  ASSUME NEW S, NEW s, Lists(s, S)
  PROVE  IsFiniteSet(S) /\ Cardinality(S) = Len(s) /\ Len(s) \in Nat
<1> DEFINE n == Len(s)
           I == 1 .. n
<1>1. n \in Nat /\ s \in [I -> S] /\ DOMAIN s = I
  BY DEF Lists
<1>2. s \in Surjection(I, S)
  <2>1. \A x \in S : \E i \in I : s[i] = x
    BY <1>1 DEF Lists, ToSet
  <2> HIDE DEF I, n
  <2> QED BY <1>1, <2>1 DEF Surjection
<1>3. s \in Injection(I, S)
  <2> HIDE DEF I, n
  <2> QED BY <1>1 DEF Lists, Injection
<1>4. IsFiniteSet(I) /\ Cardinality(I) = n
  BY <1>1, IntervalSize
<1> HIDE DEF I, n
<1>5. IsFiniteSet(S) /\ (Cardinality(S) = Cardinality(I) <=> s \in Injection(I, S))
  BY <1>2, <1>4, FS_Surjection
<1> QED BY <1>1, <1>3, <1>4, <1>5 DEF n

LEMMA PermutationLists ==
  ASSUME NEW S, IsFiniteSet(S), NEW s \in SetToSeqs(S)
  PROVE  Lists(s, S)
<1> DEFINE n == Cardinality(S)
           I == 1 .. n
<1>1. n \in Nat
  BY FS_CardinalityType
<1>2. s \in [I -> S] /\ \A i, j \in I : i # j => s[i] # s[j]
  BY DEF SetToSeqs
<1> HIDE DEF n
<1>3. s \in Seq(S) /\ DOMAIN s = I
  BY <1>1, <1>2
<1>4. IsInjective(s)
  BY <1>2, <1>3 DEF IsInjective
<1>5. ToSet(s) \subseteq S
  BY <1>2, <1>3 DEF ToSet
<1>6. Lists(s, ToSet(s))
  <2>1. s \in Seq(ToSet(s))
    <3>1. s \in [I -> ToSet(s)]
      BY <1>2, <1>3 DEF ToSet
    <3> QED BY <1>1, <3>1
  <2> QED BY <1>4, <2>1 DEF Lists
<1>7. Cardinality(ToSet(s)) = n
  <2>1. Len(s) = n
    BY <1>1, <1>3
  <2> QED BY <1>6, <2>1, ListLength
<1>8. ToSet(s) = S
  BY <1>5, <1>7, FS_Subset DEF n
<1> QED BY <1>3, <1>4, <1>8 DEF Lists

\* The beginning of a list.
LEMMA FirstOfList ==
  ASSUME NEW S, NEW s, Lists(s, S), NEW n \in Nat, NEW T, T = ToSet(First(s, n))
  PROVE  /\ Lists(First(s, n), T) /\ T \subseteq S
         /\ Len(First(s, n)) = IF Len(s) < n THEN Len(s) ELSE n
         /\ Len(First(s, n)) = Len(s) => T = S
<1> DEFINE l == Len(s)
           m == IF l < n THEN l ELSE n
           f == First(s, n)
<1>1. l \in Nat /\ DOMAIN s = 1 .. l /\ \A i \in 1 .. l : s[i] \in S
  BY DEF Lists
<1>2. m \in Nat /\ m <= l
  BY <1>1
<1>3. f = SubSeq(s, 1, m)
  BY DEF First
<1> HIDE DEF m, f
<1>4. /\ f \in Seq(S) /\ Len(f) = m /\ \A i \in 1 .. m : f[i] = s[i]
  <2>1. 1 \in Int /\ m \in Int /\ \A i \in 1 .. m : s[i] \in S
    BY <1>1, <1>2
  <2>2. /\ SubSeq(s, 1, m) \in Seq(S) /\ Len(SubSeq(s, 1, m)) = IF 1 <= m THEN m - 1 + 1 ELSE 0
        /\ \A i \in 1 .. m - 1 + 1 : SubSeq(s, 1, m)[i] = s[1 + i - 1]
    BY <2>1, SubSeqProperties
  <2>3. m - 1 + 1 = m /\ (~ (1 <= m) => m = 0) /\ \A i \in 1 .. m : 1 + i - 1 = i
    BY <1>2
  <2> QED BY <1>3, <2>2, <2>3
<1>5. DOMAIN f = 1 .. m
  BY <1>4
<1>6. \A i \in 1 .. m : i \in 1 .. l
  BY <1>1, <1>2
<1>7. IsInjective(f)
  BY <1>1, <1>4, <1>5, <1>6 DEF Lists, IsInjective
<1>8. T = {f[i] : i \in 1 .. m}
  BY <1>5 DEF ToSet, f
<1>9. T \subseteq S
  BY <1>1, <1>4, <1>6, <1>8
<1>10. f \in Seq(T)
  <2>1. f \in [1 .. m -> T]
    BY <1>4, <1>5, <1>8
  <2> QED BY <1>2, <2>1
<1>11. ToSet(f) = T
  BY DEF f
<1>12. ASSUME m = l PROVE T = S
  <2>1. S = {s[i] : i \in 1 .. l}
    BY <1>1 DEF Lists, ToSet
  <2> QED BY <1>4, <1>8, <1>12, <2>1
<1> QED BY <1>4, <1>7, <1>9, <1>10, <1>11, <1>12 DEF Lists, f, m

LEMMA FunctionSeq ==
  ASSUME NEW S, NEW n \in Nat, NEW f \in [1 .. n -> S]
  PROVE  f \in Seq(S)
  OBVIOUS

LEMMA Shifted ==
  ASSUME NEW l \in Nat, NEW n \in Nat, n <= l
  PROVE  /\ l - (n + 1) + 1 = l - n /\ l - n \in Nat /\ (~ (n + 1 <= l) => l - n = 0)
         /\ \A i \in 1 .. l - n : (n + 1) + i - 1 = n + i /\ n + i \in 1 .. l
         /\ \A i \in 1 .. l : ~ (i <= n) => i - n \in 1 .. l - n /\ n + (i - n) = i
  OBVIOUS

\* And its rest.
LEMMA RestOfList ==
  ASSUME NEW S, NEW s, Lists(s, S), NEW n \in Nat, n <= Len(s),
         NEW rest, rest = SubSeq(s, n + 1, Len(s)), NEW T, T = ToSet(First(s, n))
  PROVE  /\ Lists(rest, S \ T) /\ Len(rest) = Len(s) - n
<1> DEFINE l == Len(s)
<1>1. l \in Nat /\ n <= l /\ DOMAIN s = 1 .. l /\ \A i \in 1 .. l : s[i] \in S
  BY DEF Lists
<1>2. /\ rest \in Seq(S) /\ Len(rest) = l - n /\ \A i \in 1 .. l - n : rest[i] = s[n + i]
  <2>1. n + 1 \in Int /\ l \in Int /\ \A i \in n + 1 .. l : s[i] \in S
    BY <1>1
  <2>2. /\ rest \in Seq(S)
        /\ Len(rest) = IF n + 1 <= l THEN l - (n + 1) + 1 ELSE 0
        /\ \A i \in 1 .. l - (n + 1) + 1 : rest[i] = s[(n + 1) + i - 1]
    <3> HIDE DEF l
    <3>1. rest = SubSeq(s, n + 1, l)
      BY DEF l
    <3> QED BY <2>1, <3>1, SubSeqProperties
  <2> HIDE DEF l
  <2>3. l - (n + 1) + 1 = l - n /\ (~ (n + 1 <= l) => l - n = 0)
        /\ \A i \in 1 .. l - n : (n + 1) + i - 1 = n + i
    BY <1>1, Shifted
  <2> QED BY <2>2, <2>3
<1>3. DOMAIN rest = 1 .. l - n
  BY <1>2
<1>4. /\ \A i \in 1 .. l - n : n + i \in 1 .. l
      /\ \A i \in 1 .. l : ~ (i <= n) => i - n \in 1 .. l - n /\ n + (i - n) = i
  BY <1>1, Shifted
<1>5. \A i \in 1 .. l : i <= n <=> s[i] \in T
  <2>1. First(s, n) = SubSeq(s, 1, n)
    <3>1. ~ (Len(s) < n)
      BY <1>1
    <3> QED BY <3>1 DEF First
  <2>2. \A i \in 1 .. n : s[i] \in S
    BY <1>1
  <2>3. /\ Len(SubSeq(s, 1, n)) = IF 1 <= n THEN n - 1 + 1 ELSE 0
        /\ SubSeq(s, 1, n) \in Seq(S)
        /\ \A i \in 1 .. n - 1 + 1 : SubSeq(s, 1, n)[i] = s[1 + i - 1]
    BY <2>2, SubSeqProperties
  <2>4. n - 1 + 1 = n /\ (~ (1 <= n) => n = 0) /\ \A i \in 1 .. n : 1 + i - 1 = i
    OBVIOUS
  <2>5. DOMAIN First(s, n) = 1 .. n /\ \A i \in 1 .. n : First(s, n)[i] = s[i]
    BY <2>1, <2>3, <2>4
  <2>6. T = {s[i] : i \in 1 .. n}
    BY <2>5 DEF ToSet
  <2>7. ASSUME NEW i \in 1 .. l, i <= n PROVE s[i] \in T
    <3>1. i \in 1 .. n
      BY <2>7
    <3> QED BY <2>6, <3>1
  <2>8. ASSUME NEW i \in 1 .. l, s[i] \in T PROVE i <= n
    <3>1. PICK j \in 1 .. n : s[j] = s[i]
      BY <2>6, <2>8
    <3>2. j \in 1 .. l
      BY <1>1
    <3>3. j = i
      BY <1>1, <3>1, <3>2 DEF Lists, IsInjective
    <3> QED BY <3>1, <3>3
  <2> QED BY <2>7, <2>8
<1>6. IsInjective(rest)
  <2> SUFFICES ASSUME NEW i \in DOMAIN rest, NEW j \in DOMAIN rest, rest[i] = rest[j] PROVE i = j
    BY DEF IsInjective
  <2>1. s[n + i] = s[n + j] /\ n + i \in DOMAIN s /\ n + j \in DOMAIN s
    BY <1>1, <1>2, <1>3, <1>4
  <2>2. n + i = n + j
    BY <2>1 DEF Lists, IsInjective
  <2> QED BY <1>1, <1>3, <2>2
<1>7. ToSet(rest) = S \ T
  <2>1. ASSUME NEW x \in ToSet(rest) PROVE x \in S \ T
    <3>1. PICK i \in 1 .. l - n : x = rest[i]
      BY <1>3 DEF ToSet
    <3>2. n + i \in 1 .. l /\ ~ (n + i <= n) /\ x = s[n + i]
      <4>1. x = s[n + i] /\ n + i \in 1 .. l
        BY <1>2, <1>4, <3>1
      <4>2. ~ (n + i <= n)
        BY <1>1, <3>1
      <4> QED BY <4>1, <4>2
    <3> QED BY <1>1, <1>5, <3>2
  <2>2. ASSUME NEW x \in S \ T PROVE x \in ToSet(rest)
    <3>1. PICK i \in 1 .. l : x = s[i]
      BY <1>1 DEF Lists, ToSet
    <3>2. i - n \in 1 .. l - n /\ n + (i - n) = i
      BY <1>4, <1>5, <3>1
    <3>3. rest[i - n] = x
      BY <1>2, <3>1, <3>2
    <3> QED BY <1>3, <3>2, <3>3 DEF ToSet
  <2> QED BY <2>1, <2>2
<1>8. rest \in Seq(S \ T)
  <2>1. rest \in [1 .. l - n -> S \ T]
    <3>1. rest \in [1 .. l - n -> S]
      <4>1. rest \in [1 .. Len(rest) -> S]
        BY <1>2, LenProperties
      <4> QED BY <1>2, <4>1
    <3>2. \A i \in 1 .. l - n : rest[i] \in S \ T
      BY <1>3, <1>7 DEF ToSet
    <3> QED BY <3>1, <3>2
  <2>2. l - n \in Nat
    BY <1>1
  <2> QED BY <2>1, <2>2, FunctionSeq
<1> QED BY <1>2, <1>6, <1>7, <1>8 DEF Lists

Sorted(t, s) == \A i, j \in DOMAIN s : i < j => Before(t, s[i], <<t[s[j]].at, s[j]>>)

\* Of rows that are there one is the oldest.
LEMMA OldestRow ==
  ASSUME NEW t, NEW S, S # {}, \A r \in S : r \in Nat /\ t[r].at \in Nat
  PROVE  \E u \in S : \A r \in S : r # u => Before(t, u, <<t[r].at, r>>)
<1> DEFINE A == {t[r].at : r \in S}
<1>1. PICK a \in A : \A b \in A : a <= b
  <2>1. A \in SUBSET Nat /\ A # {}
    OBVIOUS
  <2> HIDE DEF A
  <2> QED BY <2>1, LeastNatural
<1> DEFINE B == {r \in S : t[r].at = a}
<1>2. PICK u \in B : \A r \in B : u <= r
  <2>1. B \in SUBSET Nat /\ B # {}
    BY <1>1
  <2> HIDE DEF B
  <2> QED BY <2>1, LeastNatural
<1>3. ASSUME NEW r \in S, r # u PROVE Before(t, u, <<t[r].at, r>>)
  <2>1. u \in Nat /\ r \in Nat /\ a \in Nat /\ t[r].at \in Nat /\ t[u].at = a
    BY <1>1, <1>2
  <2>2. a <= t[r].at
    BY <1>1
  <2>3. t[r].at = a => u < r
    <3>1. ASSUME t[r].at = a PROVE u <= r
      BY <1>2, <3>1
    <3> QED BY <1>3, <2>1, <3>1
  <2> QED BY <2>1, <2>2, <2>3 DEF Before
<1> QED BY <1>2, <1>3

\* Rows can be put in their order: by least counterexample.
LEMMA SortExists ==
  ASSUME NEW t, NEW S, IsFiniteSet(S), \A r \in S : r \in Nat /\ t[r].at \in Nat
  PROVE  \E q \in SetToSeqs(S) : Sorted(t, q)
<1> DEFINE Bad == {n \in Nat : \E s \in SUBSET S : Cardinality(s) = n /\ ~ \E q \in SetToSeqs(s) : Sorted(t, q)}
<1>1. Bad = {}
  <2> SUFFICES ASSUME Bad # {} PROVE FALSE
    OBVIOUS
  <2>1. PICK m \in Bad : \A n \in Bad : m <= n
    <3>1. Bad \in SUBSET Nat
      OBVIOUS
    <3> HIDE DEF Bad
    <3> QED BY <3>1, LeastNatural
  <2>2. PICK s \in SUBSET S : Cardinality(s) = m /\ ~ \E q \in SetToSeqs(s) : Sorted(t, q)
    BY <2>1
  <2>3. m \in Nat
    BY <2>1
  <2>4. s # {}
    <3> SUFFICES ASSUME s = {} PROVE FALSE
      OBVIOUS
    <3>1. Cardinality(s) = 0
      BY FS_EmptySet
    <3> DEFINE q == [i \in 1 .. 0 |-> 0]
    <3>2. q \in SetToSeqs(s) /\ Sorted(t, q)
      BY <3>1 DEF SetToSeqs, Sorted
    <3> QED BY <2>2, <3>2
  <2>5. PICK u \in s : \A r \in s : r # u => Before(t, u, <<t[r].at, r>>)
    BY <2>4, OldestRow
  <2> DEFINE k == m - 1
             rest == s \ {u}
  <2>6. rest \in SUBSET S /\ Cardinality(rest) = k /\ k \in Nat /\ k + 1 = m
    <3>1. IsFiniteSet(s) /\ IsFiniteSet(rest)
      BY FS_Subset
    <3>2. Cardinality(rest) \in Nat
      BY <3>1, FS_CardinalityType
    <3>3. Cardinality(rest) = Cardinality(s) - 1
      BY <3>1, FS_RemoveElement
    <3> QED BY <2>2, <2>3, <3>2, <3>3
  <2>7. PICK p \in SetToSeqs(rest) : Sorted(t, p)
    <3>1. ~(m <= k)
      BY <2>3
    <3>2. k \notin Bad
      BY <2>1, <3>1
    <3> QED BY <2>6, <3>2
  <2> HIDE DEF k
  <2>8. p \in [1 .. k -> rest] /\ \A i, j \in 1 .. k : i # j => p[i] # p[j]
    BY <2>6, <2>7 DEF SetToSeqs
  <2> DEFINE q == [i \in 1 .. m |-> IF i = 1 THEN u ELSE p[i - 1]]
  <2>9. \A i \in 1 .. m : i # 1 => i - 1 \in 1 .. k
    BY <2>3, <2>6
  <2>10. q \in [1 .. m -> s] /\ q[1] = u /\ (\A i \in 1 .. m : i # 1 => q[i] = p[i - 1] /\ q[i] \in rest)
    <3>1. \A i \in 1 .. m : i # 1 => p[i - 1] \in rest
      BY <2>8, <2>9
    <3>2. 1 \in 1 .. m
      BY <2>3, <2>6
    <3> QED BY <3>1, <3>2
  <2> HIDE DEF q
  <2>11. \A i, j \in 1 .. m : i # j => q[i] # q[j]
    <3> SUFFICES ASSUME NEW i \in 1 .. m, NEW j \in 1 .. m, i # j PROVE q[i] # q[j]
      OBVIOUS
    <3>1. CASE i = 1
      BY <2>10, <3>1
    <3>2. CASE j = 1
      BY <2>10, <3>2
    <3>3. CASE i # 1 /\ j # 1
      <4>1. i - 1 \in 1 .. k /\ j - 1 \in 1 .. k /\ i - 1 # j - 1
        BY <2>9, <3>3
      <4> QED BY <2>8, <2>10, <3>3, <4>1
    <3> QED BY <3>1, <3>2, <3>3
  <2>12. q \in SetToSeqs(s)
    BY <2>2, <2>10, <2>11 DEF SetToSeqs
  <2>13. Sorted(t, q)
    <3> SUFFICES ASSUME NEW i \in 1 .. m, NEW j \in 1 .. m, i < j
                 PROVE  Before(t, q[i], <<t[q[j]].at, q[j]>>)
      BY <2>10 DEF Sorted
    <3>1. j # 1 /\ j - 1 \in 1 .. k
      BY <2>9
    <3>2. CASE i = 1
      BY <2>5, <2>10, <3>1, <3>2
    <3>3. CASE i # 1
      <4>1. i - 1 \in 1 .. k /\ i - 1 < j - 1
        BY <2>9, <3>3
      <4>2. Before(t, p[i - 1], <<t[p[j - 1]].at, p[j - 1]>>)
        BY <2>7, <2>8, <3>1, <4>1 DEF Sorted
      <4> QED BY <2>10, <3>1, <3>3, <4>2
    <3> QED BY <3>2, <3>3
  <2> QED BY <2>2, <2>12, <2>13
<1>2. Cardinality(S) \in Nat
  BY FS_CardinalityType
<1> QED BY <1>1, <1>2

LEMMA OldestFirstLists ==
  ASSUME NEW t, NEW S, IsFiniteSet(S), \A r \in S : r \in Nat /\ t[r].at \in Nat
  PROVE  Lists(OldestFirst(t, S), S) /\ Sorted(t, OldestFirst(t, S))
<1>1. OldestFirst(t, S) \in SetToSeqs(S) /\ Sorted(t, OldestFirst(t, S))
  BY SortExists DEF OldestFirst, Sorted
<1> QED BY <1>1, PermutationLists

(***************************************************************************)
(* Retention.  A pass works from what it saw when it began.  What keeps it *)
(* right is that the rows it knew, those in the table and those that left  *)
(* since, only become more: what was past the limit among them still is.   *)
(***************************************************************************)
Known == Over(gone, rows)

TableOK ==
  /\ policy \in Policy /\ now \in 0 .. MaxTime
  /\ DOMAIN rows \subseteq Row /\ IsFiniteSet(DOMAIN rows) /\ rows \in [DOMAIN rows -> RowRecord]
  /\ DOMAIN gone \subseteq Row /\ IsFiniteSet(DOMAIN gone) /\ gone \in [DOMAIN gone -> RowRecord]
  /\ DOMAIN rows \cap DOMAIN gone = {}
  /\ policy # "cron" => (\A r \in DOMAIN rows : rows[r].ended) /\ \A r \in DOMAIN gone : gone[r].ended
  /\ policy = "rows" => (\A r \in DOMAIN rows : rows[r].group = 1) /\ \A r \in DOMAIN gone : gone[r].group = 1

WorkRow ==
  [pc : {"caught up", "behind", "failed", "drain", "delete", "list"}, mark : Int \X Int,
   doomed : Seq(Row), batch : Nat, total : Nat]

WorkOK == work \in [Worker -> WorkRow] /\ due \in [Worker -> SUBSET Row] /\ crossed \in [Worker -> BOOLEAN]

\* The mark of a pass lies within what is past the limit by now, and no row that was
\* past the limit at first lies beyond it.
DrainOK(w) ==
  LET mark == work[w].mark
  IN  /\ policy \in {"age", "cron", "rows"}
      /\ due[w] \subseteq Below(Known, mark)
      /\ policy # "rows" => mark[2] = 0 /\ mark[1] <= now - Age
      /\ policy = "rows" => \E b \in Excess(Known) : mark = <<Known[b].at, b + 1>>

Doomed(w) == ToSet(work[w].doomed)

\* A batch that is not full has everything that is left, unless another hand took rows.
BatchOK(w) ==
  /\ Lists(work[w].doomed, Doomed(w)) /\ Doomed(w) \subseteq Below(Known, work[w].mark)
  /\ ~crossed[w] => Doomed(w) \subseteq DOMAIN rows
  /\ ~crossed[w] /\ Len(work[w].doomed) < work[w].batch => due[w] \cap DOMAIN rows \subseteq Doomed(w)

AtMostIDs(n) == IF n < MaxIDs THEN n ELSE MaxIDs

\* What was deleted from a list and what is left of it make the list, and a list
\* that was not cut off had everything.
ListOK(w) ==
  /\ policy \in {"bytes", "firings", "tokens"}
  /\ Lists(work[w].doomed, Doomed(w)) /\ Doomed(w) \subseteq due[w] /\ IsFiniteSet(due[w])
  /\ policy = "tokens" => /\ work[w].mark[2] = 0 /\ work[w].mark[1] <= now
                          /\ due[w] \subseteq Below(Known, work[w].mark)
  /\ policy # "tokens" => due[w] \subseteq Excess(Known)
  /\ ~crossed[w] => /\ Doomed(w) \subseteq DOMAIN rows
                    /\ work[w].total + Len(work[w].doomed) = AtMostIDs(Cardinality(due[w]))
  /\ ~crossed[w] /\ Cardinality(due[w]) <= MaxIDs => due[w] \cap DOMAIN rows \subseteq Doomed(w)

PassOK(w) ==
  /\ work[w].pc \in {"drain", "delete"} => DrainOK(w)
  /\ work[w].pc = "delete" => BatchOK(w)
  /\ work[w].pc = "list" => ListOK(w)

RetentionInv == TableOK /\ WorkOK /\ \A w \in Worker : PassOK(w)

LEMMA RetentionConstants ==
  /\ MaxTime \in Nat /\ Age \in Nat /\ Limit \in Nat /\ MaxSize \in Nat \ {0}
  /\ MaxBatch \in Nat \ {0} /\ MaxIDs \in Nat \ {0} /\ "owner" \notin Worker
  /\ \A r \in Row : r \in Nat /\ r > 0
<1>1. Row \subseteq Nat \ {0} /\ {MaxTime, Age, Limit} \subseteq Nat
      /\ {MaxSize, MaxBatch, MaxIDs} \subseteq Nat \ {0} /\ "owner" \notin Worker
  BY RetentionAssumption
<1>2. \A n \in Nat \ {0} : n \in Nat /\ n > 0
  OBVIOUS
<1> QED BY <1>1, <1>2

\* The rows that a pass may know.
LEMMA KnownRows ==
  ASSUME TableOK
  PROVE  /\ DOMAIN Known = DOMAIN rows \cup DOMAIN gone /\ IsFiniteSet(DOMAIN Known)
         /\ DOMAIN Known \subseteq Row
         /\ \A r \in DOMAIN rows : Known[r] = rows[r]
         /\ \A r \in DOMAIN gone : Known[r] = gone[r]
         /\ \A r \in DOMAIN Known : /\ Known[r] \in RowRecord /\ r \in Nat /\ r > 0
                                    /\ policy # "cron" => Known[r].ended
                                    /\ policy = "rows" => Known[r].group = 1
<1>1. /\ DOMAIN Known = DOMAIN rows \cup DOMAIN gone
      /\ \A r \in DOMAIN gone : Known[r] = gone[r]
      /\ \A r \in DOMAIN rows : r \notin DOMAIN gone => Known[r] = rows[r]
  BY DEF Known, Over
<1>2. \A r \in DOMAIN rows : r \notin DOMAIN gone
  BY DEF TableOK
<1>3. DOMAIN rows \subseteq Row /\ DOMAIN gone \subseteq Row
      /\ IsFiniteSet(DOMAIN rows \cup DOMAIN gone)
  BY FS_Union DEF TableOK
<1>4. /\ \A r \in DOMAIN rows : /\ rows[r] \in RowRecord
                                /\ policy # "cron" => rows[r].ended
                                /\ policy = "rows" => rows[r].group = 1
      /\ \A r \in DOMAIN gone : /\ gone[r] \in RowRecord
                                /\ policy # "cron" => gone[r].ended
                                /\ policy = "rows" => gone[r].group = 1
  BY DEF TableOK
<1> HIDE DEF Known
<1>5. \A r \in DOMAIN Known : r \in Nat /\ r > 0
  BY <1>1, <1>3, RetentionConstants
<1> QED BY <1>1, <1>2, <1>3, <1>4, <1>5

LEMMA RowFields ==
  ASSUME NEW x \in RowRecord
  PROVE  x.at \in Nat /\ x.at <= MaxTime /\ x.size \in Nat
  BY RetentionConstants DEF RowRecord

\* t's rows are u's too, but for what happened to a run that had not ended.
Grows(t, u) == \A r \in DOMAIN t : r \in DOMAIN u /\ (t[r].ended => u[r] = t[r])

LEMMA BelowGrows ==
  ASSUME NEW t, NEW u, Grows(t, u), NEW mark
  PROVE  Below(t, mark) \subseteq Below(u, mark)
  BY DEF Grows, Below, Before

\* More rows never take one back below the limit: those that are newer still are.
LEMMA ExcessGrows ==
  ASSUME NEW t, NEW u, Grows(t, u), \A r \in DOMAIN t : t[r].ended,
         IsFiniteSet(DOMAIN u), \A r \in DOMAIN u : u[r].size \in Nat
  PROVE  Excess(t) \subseteq Excess(u)
<1> SUFFICES ASSUME NEW r \in Excess(t) PROVE r \in Excess(u)
  OBVIOUS
<1> DEFINE f == [s \in DOMAIN t |-> t[s].size]
           g == [s \in DOMAIN u |-> u[s].size]
           S == Upto(t, r)
           T == Upto(u, r)
<1>1. r \in DOMAIN t /\ r \in DOMAIN u /\ SumFunctionOnSet(f, S) > Limit
  BY DEF Excess, Running, Grows
<1>2. \A s \in DOMAIN t : s \in DOMAIN u /\ u[s] = t[s]
  BY DEF Grows
<1>3. S \subseteq T
  BY <1>1, <1>2 DEF Upto, Before
<1>4. S \subseteq DOMAIN t /\ T \subseteq DOMAIN u
  BY DEF Upto
<1>5. \A s \in S : g[s] \in Nat /\ f[s] = g[s]
  BY <1>2, <1>4
<1>6. \A s \in T : g[s] \in Nat
  BY <1>4
<1>7. Running(u, r) = SumFunctionOnSet(g, T)
  BY DEF Running
<1>8. IsFiniteSet(T) /\ IsFiniteSet(S)
  BY <1>3, <1>4, FS_Subset
<1> HIDE DEF f, g, S, T
<1>9. SumFunctionOnSet(f, S) = SumFunctionOnSet(g, S)
  BY <1>5, <1>8, SumSame
<1>10. SumFunctionOnSet(g, S) <= SumFunctionOnSet(g, T)
  BY <1>3, <1>6, <1>8, SumFewer
<1>11. SumFunctionOnSet(g, S) \in Nat /\ SumFunctionOnSet(g, T) \in Nat /\ Limit \in Nat
  BY <1>5, <1>6, <1>8, SumType, RetentionConstants
<1>12. Running(u, r) > Limit
  BY <1>1, <1>7, <1>9, <1>10, <1>11
<1> QED BY <1>1, <1>12 DEF Excess

\* What is past the limit in the table is so among the known rows.
LEMMA KnownGrows ==
  ASSUME TableOK
  PROVE  /\ Grows(rows, Known)
         /\ \A mark : Below(rows, mark) \subseteq Below(Known, mark)
         /\ policy # "cron" => Excess(rows) \subseteq Excess(Known)
<1>1. Grows(rows, Known)
  BY KnownRows DEF Grows
<1>2. \A r \in DOMAIN Known : Known[r].size \in Nat
  BY KnownRows, RowFields
<1>3. policy # "cron" => \A r \in DOMAIN rows : rows[r].ended
  BY DEF TableOK
<1> QED BY <1>1, <1>2, <1>3, KnownRows, BelowGrows, ExcessGrows

KnownTyped == IsFiniteSet(DOMAIN Known) /\ \A r \in DOMAIN Known : Known[r] \in RowRecord

LEMMA KnownIsTyped == TableOK => KnownTyped
BY KnownRows DEF KnownTyped

\* A pass keeps its bounds while the rows it knows only become more, and what it
\* counts on while no other hand takes rows.
LEMMA PassStays ==
  ASSUME TableOK, TableOK', WorkOK, NEW w \in Worker, PassOK(w),
         work'[w] = work[w], due'[w] = due[w], policy' = policy, now <= now',
         Grows(Known, Known'), DOMAIN rows' \cap DOMAIN Known \subseteq DOMAIN rows,
         ~ crossed'[w] => ~ crossed[w] /\ DOMAIN rows \subseteq DOMAIN rows'
  PROVE  PassOK(w)'
<1> DEFINE u == Known'
           mark == work[w].mark
<1>1. /\ Below(Known, mark) \subseteq Below(u, mark)
      /\ \A r \in DOMAIN Known : Known[r].ended => u[r] = Known[r]
  <2> HIDE DEF u, mark
  <2>1. Grows(Known, u)
    BY DEF u
  <2> QED BY <2>1, BelowGrows DEF Grows
<1>2. policy # "cron" => Excess(Known) \subseteq Excess(u)
  <2>1. IsFiniteSet(DOMAIN u) /\ \A r \in DOMAIN u : u[r] \in RowRecord
    <3>1. TableOK' => KnownTyped'
      BY KnownIsTyped, PTL
    <3> QED BY <3>1 DEF KnownTyped
  <2>2. \A r \in DOMAIN u : u[r].size \in Nat
    BY <2>1, RowFields
  <2>3. policy # "cron" => \A r \in DOMAIN Known : Known[r].ended
    BY KnownRows
  <2>4. Grows(Known, u)
    OBVIOUS
  <2> HIDE DEF u
  <2> QED BY <2>1, <2>2, <2>3, <2>4, ExcessGrows
<1>3. Below(Known, mark) \subseteq DOMAIN Known /\ Excess(Known) \subseteq DOMAIN Known
  BY DEF Below, Excess
<1>4. now \in Int /\ now' \in Int /\ Age \in Int /\ mark[1] \in Int
  <2>1. work[w] \in WorkRow
    BY DEF WorkOK
  <2>2. mark \in Int \X Int
    BY <2>1 DEF WorkRow
  <2>3. now \in 0 .. MaxTime /\ now' \in 0 .. MaxTime /\ MaxTime \in Nat /\ Age \in Nat
    BY RetentionConstants DEF TableOK
  <2> HIDE DEF mark
  <2> QED BY <2>2, <2>3
<1>5. (mark[1] <= now - Age => mark[1] <= now' - Age) /\ (mark[1] <= now => mark[1] <= now')
  <2> HIDE DEF mark
  <2> QED BY <1>4
<1>6. work[w].pc \in {"drain", "delete"} => DrainOK(w)' /\ due[w] \subseteq DOMAIN Known
  <2> SUFFICES ASSUME work[w].pc \in {"drain", "delete"}
               PROVE  DrainOK(w)' /\ due[w] \subseteq DOMAIN Known
    OBVIOUS
  <2>1. /\ policy \in {"age", "cron", "rows"} /\ due[w] \subseteq Below(Known, mark)
        /\ policy # "rows" => mark[2] = 0 /\ mark[1] <= now - Age
        /\ policy = "rows" => \E b \in Excess(Known) : mark = <<Known[b].at, b + 1>>
    BY DEF PassOK, DrainOK
  <2>2. policy = "rows" => \E b \in Excess(u) : mark = <<u[b].at, b + 1>>
    <3> HIDE DEF u, mark
    <3> SUFFICES ASSUME policy = "rows" PROVE \E b \in Excess(u) : mark = <<u[b].at, b + 1>>
      OBVIOUS
    <3>1. PICK b \in Excess(Known) : mark = <<Known[b].at, b + 1>>
      BY <2>1
    <3>2. b \in DOMAIN Known /\ Known[b].ended /\ b \in Excess(u)
      BY <1>2, <1>3, KnownRows
    <3> QED BY <1>1, <3>1, <3>2
  <2>3. due[w] \subseteq Below(u, mark) /\ (policy # "rows" => mark[2] = 0 /\ mark[1] <= now' - Age)
    BY <1>1, <1>5, <2>1
  <2> QED BY <1>3, <2>1, <2>2, <2>3 DEF DrainOK
<1>7. work[w].pc = "delete" => BatchOK(w)'
  <2> SUFFICES ASSUME work[w].pc = "delete" PROVE BatchOK(w)'
    OBVIOUS
  <2>1. /\ Lists(work[w].doomed, Doomed(w)) /\ Doomed(w) \subseteq Below(Known, mark)
        /\ ~crossed[w] => Doomed(w) \subseteq DOMAIN rows
        /\ ~crossed[w] /\ Len(work[w].doomed) < work[w].batch => due[w] \cap DOMAIN rows \subseteq Doomed(w)
    BY DEF PassOK, BatchOK
  <2>2. Doomed(w)' = Doomed(w) /\ due[w] \cap DOMAIN rows' \subseteq due[w] \cap DOMAIN rows
    BY <1>6 DEF Doomed
  <2> QED BY <1>1, <2>1, <2>2 DEF BatchOK
<1>8. work[w].pc = "list" => ListOK(w)'
  <2> SUFFICES ASSUME work[w].pc = "list" PROVE ListOK(w)'
    OBVIOUS
  <2>1. /\ policy \in {"bytes", "firings", "tokens"}
        /\ Lists(work[w].doomed, Doomed(w)) /\ Doomed(w) \subseteq due[w] /\ IsFiniteSet(due[w])
    BY DEF PassOK, ListOK
  <2>2. policy = "tokens" => /\ mark[2] = 0 /\ mark[1] <= now
                             /\ due[w] \subseteq Below(Known, mark)
    BY DEF PassOK, ListOK
  <2>3. policy # "tokens" => due[w] \subseteq Excess(Known)
    BY DEF PassOK, ListOK
  <2>4. /\ ~crossed[w] => /\ Doomed(w) \subseteq DOMAIN rows
                          /\ work[w].total + Len(work[w].doomed) = AtMostIDs(Cardinality(due[w]))
        /\ ~crossed[w] /\ Cardinality(due[w]) <= MaxIDs => due[w] \cap DOMAIN rows \subseteq Doomed(w)
    BY DEF PassOK, ListOK
  <2>5. Doomed(w)' = Doomed(w)
    BY DEF Doomed
  <2>6. due[w] \cap DOMAIN rows' \subseteq due[w] \cap DOMAIN rows
    BY <1>3, <2>2, <2>3
  <2>7. policy # "cron"
    BY <2>1
  <2>8. policy = "tokens" => mark[1] <= now' /\ due[w] \subseteq Below(u, mark)
    BY <1>1, <1>5, <2>2
  <2>9. policy # "tokens" => due[w] \subseteq Excess(u)
    BY <1>2, <2>3, <2>7
  <2> QED BY <2>1, <2>2, <2>4, <2>5, <2>6, <2>8, <2>9 DEF ListOK
<1> QED BY <1>6, <1>7, <1>8 DEF PassOK

\* Restricting the table and keeping what left.
LEMMA LeavingRows ==
  ASSUME TableOK, NEW R, NEW t, t = Restrict(rows, DOMAIN rows \ R),
         NEW g, g = Over(Restrict(rows, R \cap DOMAIN rows), gone)
  PROVE  /\ DOMAIN t = DOMAIN rows \ R /\ IsFiniteSet(DOMAIN t) /\ t \in [DOMAIN t -> RowRecord]
         /\ DOMAIN g = DOMAIN gone \cup (R \cap DOMAIN rows) /\ IsFiniteSet(DOMAIN g)
         /\ g \in [DOMAIN g -> RowRecord]
         /\ \A r \in DOMAIN t : t[r] = rows[r]
         /\ \A r \in DOMAIN g : g[r] = IF r \in DOMAIN rows THEN rows[r] ELSE gone[r]
         /\ Over(g, t) = Known
<1> DEFINE S == R \cap DOMAIN rows
           h == Restrict(rows, S)
<1>1. DOMAIN t = DOMAIN rows \ R /\ \A r \in DOMAIN t : t[r] = rows[r]
  BY DEF Restrict
<1>2. t = [r \in DOMAIN rows \ R |-> rows[r]]
  BY DEF Restrict
<1>3. DOMAIN h = S /\ \A r \in S : h[r] = rows[r]
  BY DEF Restrict
<1>4. DOMAIN rows \cap DOMAIN gone = {} /\ rows \in [DOMAIN rows -> RowRecord]
      /\ gone \in [DOMAIN gone -> RowRecord]
  BY DEF TableOK
<1>5. IsFiniteSet(DOMAIN t) /\ IsFiniteSet(DOMAIN gone \cup S)
  <2>1. IsFiniteSet(DOMAIN rows) /\ IsFiniteSet(DOMAIN gone) /\ DOMAIN rows \ R \subseteq DOMAIN rows
        /\ S \subseteq DOMAIN rows
    BY DEF TableOK
  <2> HIDE DEF S
  <2> QED BY <1>1, <2>1, FS_Subset, FS_Union
<1> HIDE DEF h
<1>6. g = [r \in S \cup DOMAIN gone |-> IF r \in S THEN h[r] ELSE gone[r]]
  BY <1>3 DEF Over, h
<1>7. DOMAIN g = S \cup DOMAIN gone /\ \A r \in DOMAIN g : g[r] = IF r \in S THEN h[r] ELSE gone[r]
  BY <1>6
<1>8. \A r \in DOMAIN g : g[r] = IF r \in DOMAIN rows THEN rows[r] ELSE gone[r]
  BY <1>3, <1>4, <1>7
<1>9. t \in [DOMAIN t -> RowRecord]
  BY <1>1, <1>2, <1>4
<1>10. g \in [DOMAIN g -> RowRecord]
  <2>1. \A r \in DOMAIN g : g[r] \in RowRecord
    BY <1>4, <1>7, <1>8
  <2>2. g = [r \in DOMAIN g |-> g[r]]
    BY <1>6
  <2> HIDE DEF S
  <2> QED BY <2>1, <2>2
<1>11. Over(g, t) = Known
  <2>1. Over(g, t) = [r \in DOMAIN g \cup DOMAIN t |-> IF r \in DOMAIN g THEN g[r] ELSE t[r]]
    BY DEF Over
  <2>2. Known = [r \in DOMAIN gone \cup DOMAIN rows |-> IF r \in DOMAIN gone THEN gone[r] ELSE rows[r]]
    BY DEF Known, Over
  <2>3. DOMAIN g \cup DOMAIN t = DOMAIN gone \cup DOMAIN rows
    BY <1>1, <1>7
  <2>4. \A r \in DOMAIN gone \cup DOMAIN rows :
           (IF r \in DOMAIN g THEN g[r] ELSE t[r]) = IF r \in DOMAIN gone THEN gone[r] ELSE rows[r]
    BY <1>1, <1>4, <1>7, <1>8
  <2> QED BY <2>1, <2>2, <2>3, <2>4
<1> QED BY <1>1, <1>5, <1>7, <1>8, <1>9, <1>10, <1>11

\* Rows leave, by a worker or by another hand.
LEMMA LeaveFacts ==
  ASSUME TableOK, WorkOK, NEW R, NEW w, Leave(R, w), policy' = policy, now' = now,
         work' \in [Worker -> WorkRow]
  PROVE  /\ TableOK' /\ WorkOK' /\ DOMAIN rows' = DOMAIN rows \ R
         /\ \A v \in Worker : work'[v].pc \notin Resting =>
              /\ Known' = Known /\ due'[v] = due[v]
              /\ ~ crossed'[v] => ~ crossed[v] /\ (v # w => R \cap DOMAIN rows = {})
<1> DEFINE pass == \E v \in Worker : work'[v].pc \notin Resting
           t == Restrict(rows, DOMAIN rows \ R)
           g == Over(Restrict(rows, R \cap DOMAIN rows), gone)
<1>1. rows' = t /\ (pass => gone' = g) /\ (~pass => gone' = <<>>)
  BY DEF Leave
<1>2. /\ DOMAIN t = DOMAIN rows \ R /\ IsFiniteSet(DOMAIN t) /\ t \in [DOMAIN t -> RowRecord]
      /\ DOMAIN g = DOMAIN gone \cup (R \cap DOMAIN rows) /\ IsFiniteSet(DOMAIN g)
      /\ g \in [DOMAIN g -> RowRecord]
      /\ \A r \in DOMAIN t : t[r] = rows[r]
      /\ \A r \in DOMAIN g : g[r] = IF r \in DOMAIN rows THEN rows[r] ELSE gone[r]
      /\ Over(g, t) = Known
  <2> HIDE DEF t, g
  <2> QED BY LeavingRows DEF t, g
<1>3. DOMAIN <<>> = {} /\ IsFiniteSet({})
  BY FS_EmptySet
<1>4. policy \in Policy /\ now \in 0 .. MaxTime /\ DOMAIN rows \subseteq Row /\ DOMAIN gone \subseteq Row
      /\ DOMAIN rows \cap DOMAIN gone = {}
      /\ (policy # "cron" => (\A r \in DOMAIN rows : rows[r].ended) /\ \A r \in DOMAIN gone : gone[r].ended)
      /\ (policy = "rows" => (\A r \in DOMAIN rows : rows[r].group = 1) /\ \A r \in DOMAIN gone : gone[r].group = 1)
  BY DEF TableOK
<1> HIDE DEF t, g, pass
<1>5. DOMAIN t \subseteq Row /\ DOMAIN g \subseteq Row /\ DOMAIN t \cap DOMAIN g = {}
  BY <1>2, <1>4
<1>6. policy # "cron" => (\A r \in DOMAIN t : t[r].ended) /\ \A r \in DOMAIN g : g[r].ended
  BY <1>2, <1>4
<1>7. policy = "rows" => (\A r \in DOMAIN t : t[r].group = 1) /\ \A r \in DOMAIN g : g[r].group = 1
  BY <1>2, <1>4
<1>9. WorkOK' /\ DOMAIN rows' = DOMAIN rows \ R
  <2>1. due' = [v \in Worker |-> IF work'[v].pc \in Resting THEN {} ELSE due[v]]
        /\ crossed' = [v \in Worker |-> /\ work'[v].pc \notin Resting
                                        /\ crossed[v] \/ (v # w /\ R \cap DOMAIN rows # {})]
    BY DEF Leave
  <2>2. due' \in [Worker -> SUBSET Row]
    BY <2>1 DEF WorkOK
  <2>3. crossed' \in [Worker -> BOOLEAN]
    <3> DEFINE c(v) == work'[v].pc \notin Resting /\ (crossed[v] \/ (v # w /\ R \cap DOMAIN rows # {}))
    <3>1. \A v \in Worker : c(v) \in BOOLEAN
      OBVIOUS
    <3>2. crossed' = [v \in Worker |-> c(v)]
      BY <2>1
    <3> HIDE DEF c
    <3> QED BY <3>1, <3>2
  <2> QED BY <1>1, <1>2, <2>2, <2>3 DEF WorkOK
<1>10. \A v \in Worker : work'[v].pc \notin Resting =>
         /\ due'[v] = due[v]
         /\ ~ crossed'[v] => ~ crossed[v] /\ (v # w => R \cap DOMAIN rows = {})
  BY DEF Leave
<1>11. CASE pass
  <2>1. TableOK'
    BY <1>1, <1>2, <1>4, <1>5, <1>6, <1>7, <1>11 DEF TableOK
  <2>2. Known' = Known
    BY <1>1, <1>2, <1>11 DEF Known
  <2> QED BY <2>1, <2>2, <1>9, <1>10
<1>12. CASE ~pass
  <2>1. gone' \in [{} -> RowRecord]
    BY <1>1, <1>12
  <2>2. TableOK'
    BY <1>1, <1>2, <1>3, <1>4, <1>5, <1>6, <1>7, <1>12, <2>1 DEF TableOK
  <2> QED BY <2>2, <1>9, <1>10, <1>12 DEF pass
<1> QED BY <1>11, <1>12

\* The other passes stay right while rows leave.
LEMMA OthersStay ==
  ASSUME TableOK, WorkOK, NEW R, NEW w, Leave(R, w), policy' = policy, now' = now,
         work' \in [Worker -> WorkRow], NEW v \in Worker, v # w, work'[v] = work[v], PassOK(v)
  PROVE  PassOK(v)'
<1>1. /\ TableOK' /\ DOMAIN rows' = DOMAIN rows \ R
      /\ work'[v].pc \notin Resting =>
              /\ Known' = Known /\ due'[v] = due[v]
              /\ ~ crossed'[v] => ~ crossed[v] /\ (v # w => R \cap DOMAIN rows = {})
  BY LeaveFacts
<1>2. CASE work'[v].pc \in Resting
  BY <1>2 DEF PassOK, Resting
<1>3. CASE work'[v].pc \notin Resting
  <2>1. Grows(Known, Known')
    BY <1>1, <1>3 DEF Grows
  <2>2. now <= now'
    BY DEF TableOK
  <2>3. ~ crossed'[v] => ~ crossed[v] /\ DOMAIN rows \subseteq DOMAIN rows'
    BY <1>1, <1>3
  <2>4. DOMAIN rows' \cap DOMAIN Known \subseteq DOMAIN rows
    BY <1>1
  <2> QED BY <1>1, <1>3, <2>1, <2>2, <2>3, <2>4, PassStays
<1> QED BY <1>2, <1>3

\* All passes stay when only the table or the clock changes.
LEMMA AllStay ==
  ASSUME RetentionInv, TableOK', UNCHANGED <<policy, work, gone, due, crossed>>, now <= now',
         Grows(Known, Known'), DOMAIN rows \subseteq DOMAIN rows',
         DOMAIN rows' \cap DOMAIN Known \subseteq DOMAIN rows
  PROVE  RetentionInv'
<1>1. ASSUME NEW v \in Worker PROVE PassOK(v)'
  BY <1>1, PassStays DEF RetentionInv
<1>2. WorkOK'
  BY DEF RetentionInv, WorkOK
<1> QED BY <1>1, <1>2 DEF RetentionInv

\* What arrives fits the policy.
LEMMA ArrivalsFit ==
  ASSUME TableOK, NEW row \in Arrivals
  PROVE  /\ row \in RowRecord
         /\ policy # "cron" => row.ended
         /\ policy = "rows" => row.group = 1
<1> DEFINE plain(t) == [at |-> t, size |-> 1, group |-> 1, ended |-> TRUE]
<1>1. now \in 0 .. MaxTime /\ MaxTime \in Nat /\ MaxSize \in Nat \ {0}
  BY RetentionConstants DEF TableOK
<1>2. policy \in {"age", "cron", "rows", "bytes", "firings", "tokens"}
  BY RetentionAssumption DEF TableOK
<1>3. \A t \in 0 .. MaxTime : plain(t) \in RowRecord /\ plain(t).ended /\ plain(t).group = 1
  BY <1>1 DEF RowRecord
<1>4. CASE policy = "age"
  <2>1. PICK t \in {now - 1, now} : t >= 0 /\ row = plain(t)
    BY <1>4 DEF Arrivals
  <2>2. t \in 0 .. MaxTime
    BY <1>1, <2>1
  <2> QED BY <1>3, <1>4, <2>1, <2>2
<1>5. CASE policy = "cron"
  <2>1. PICK e \in BOOLEAN : row = [plain(now) EXCEPT !.ended = e]
    BY <1>5 DEF Arrivals
  <2> QED BY <1>1, <1>5, <2>1 DEF RowRecord
<1>6. CASE policy = "rows"
  <2>1. PICK t \in 0 .. MaxTime : row = plain(t)
    BY <1>6 DEF Arrivals
  <2> QED BY <1>3, <1>6, <2>1
<1>7. CASE policy = "bytes"
  <2>1. PICK z \in 1 .. MaxSize : row = [plain(now) EXCEPT !.size = z]
    BY <1>7 DEF Arrivals
  <2> QED BY <1>1, <1>7, <2>1 DEF RowRecord
<1>8. CASE policy = "firings"
  <2>1. PICK g \in {1, 2} : row = [plain(now) EXCEPT !.group = g]
    BY <1>8 DEF Arrivals
  <2>2. plain(now) \in RowRecord /\ plain(now).ended
    BY <1>1, <1>3
  <2> HIDE DEF plain
  <2>3. row \in RowRecord /\ row.ended
    BY <2>1, <2>2 DEF RowRecord
  <2> QED BY <1>8, <2>3
<1>9. CASE policy = "tokens"
  <2>1. PICK t \in {now + 1} \cap 0 .. MaxTime : row = plain(t)
    BY <1>9 DEF Arrivals
  <2> QED BY <1>3, <1>9, <2>1
<1> QED BY <1>2, <1>4, <1>5, <1>6, <1>7, <1>8, <1>9

LEMMA InsertKeeps ==
  ASSUME RetentionInv, NEW r \in Row, Insert(r)
  PROVE  RetentionInv'
<1>1. PICK row \in Arrivals : rows' = Over([s \in {r} |-> row], rows)
  BY DEF Insert
<1>2. TableOK /\ r \notin DOMAIN rows \cup DOMAIN gone /\ UNCHANGED <<policy, now, work, gone, due, crossed>>
  BY DEF Insert, RetentionInv
<1>3. row \in RowRecord /\ (policy # "cron" => row.ended) /\ (policy = "rows" => row.group = 1)
  BY <1>2, ArrivalsFit
<1>4. rows' = [s \in {r} \cup DOMAIN rows |-> IF s = r THEN row ELSE rows[s]]
  BY <1>1 DEF Over
<1>5. DOMAIN rows' = {r} \cup DOMAIN rows /\ rows'[r] = row /\ \A s \in DOMAIN rows : rows'[s] = rows[s]
  BY <1>2, <1>4
<1>6. TableOK'
  <2>1. IsFiniteSet(DOMAIN rows')
    BY <1>2, <1>5, FS_AddElement DEF TableOK
  <2>2. rows' \in [DOMAIN rows' -> RowRecord]
    BY <1>2, <1>3, <1>4 DEF TableOK
  <2> QED BY <1>2, <1>3, <1>5, <2>1, <2>2 DEF TableOK
<1>7. DOMAIN Known = DOMAIN rows \cup DOMAIN gone
  BY <1>2, KnownRows
<1>8. Grows(Known, Known')
  <2>1. Known = [s \in DOMAIN gone \cup DOMAIN rows |-> IF s \in DOMAIN gone THEN gone[s] ELSE rows[s]]
    BY DEF Known, Over
  <2>2. Known' = [s \in DOMAIN gone \cup DOMAIN rows' |-> IF s \in DOMAIN gone THEN gone[s] ELSE rows'[s]]
    BY <1>2 DEF Known, Over
  <2> QED BY <1>5, <2>1, <2>2 DEF Grows
<1>9. now <= now'
  BY <1>2 DEF TableOK
<1>10. DOMAIN rows \subseteq DOMAIN rows' /\ DOMAIN rows' \cap DOMAIN Known \subseteq DOMAIN rows
  BY <1>2, <1>5, <1>7
<1> QED BY <1>2, <1>6, <1>8, <1>9, <1>10, AllStay

LEMMA FinishRunKeeps ==
  ASSUME RetentionInv, NEW r \in Row, FinishRun(r)
  PROVE  RetentionInv'
<1>1. TableOK /\ r \in DOMAIN rows /\ ~ rows[r].ended /\ UNCHANGED <<policy, now, work, gone, due, crossed>>
  BY DEF FinishRun, RetentionInv
<1> DEFINE n == [rows[r] EXCEPT !.ended = TRUE, !.at = now]
<1>2. rows \in [DOMAIN rows -> RowRecord] /\ now \in 0 .. MaxTime /\ policy = "cron"
  BY <1>1 DEF TableOK
<1>3. n \in RowRecord
  BY <1>1, <1>2 DEF RowRecord
<1>4. rows' = [rows EXCEPT ![r] = n]
  BY <1>1, <1>2 DEF FinishRun, RowRecord
<1> HIDE DEF n
<1>5. DOMAIN rows' = DOMAIN rows /\ rows' \in [DOMAIN rows -> RowRecord]
      /\ \A s \in DOMAIN rows : s # r => rows'[s] = rows[s]
  BY <1>2, <1>3, <1>4
<1>6. TableOK'
  BY <1>1, <1>2, <1>5 DEF TableOK
<1>7. Grows(Known, Known')
  <2>1. Known = [s \in DOMAIN gone \cup DOMAIN rows |-> IF s \in DOMAIN gone THEN gone[s] ELSE rows[s]]
    BY DEF Known, Over
  <2>2. Known' = [s \in DOMAIN gone \cup DOMAIN rows |-> IF s \in DOMAIN gone THEN gone[s] ELSE rows'[s]]
    BY <1>1, <1>5 DEF Known, Over
  <2> QED BY <1>1, <1>5, <2>1, <2>2 DEF Grows
<1>8. now <= now'
  BY <1>1, <1>2
<1> QED BY <1>1, <1>5, <1>6, <1>7, <1>8, AllStay

LEMMA TickKeeps ==
  ASSUME RetentionInv, Tick
  PROVE  RetentionInv'
<1>1. TableOK /\ now < MaxTime /\ now' = now + 1 /\ UNCHANGED <<policy, rows, work, gone, due, crossed>>
  BY DEF Tick, RetentionInv
<1>2. now \in 0 .. MaxTime /\ MaxTime \in Nat
  BY <1>1, RetentionConstants DEF TableOK
<1>3. now' \in 0 .. MaxTime /\ now <= now'
  BY <1>1, <1>2
<1>4. TableOK'
  BY <1>1, <1>3 DEF TableOK
<1>5. Known' = Known
  BY <1>1 DEF Known
<1> QED BY <1>1, <1>3, <1>4, <1>5, AllStay DEF Grows

LEMMA RemoveRowKeeps ==
  ASSUME RetentionInv, NEW r \in Row, RemoveRow(r)
  PROVE  RetentionInv'
<1> DEFINE R == {r}
<1>1. TableOK /\ WorkOK /\ UNCHANGED <<policy, now, work>> /\ Leave(R, "owner")
  BY DEF RemoveRow, RetentionInv
<1>2. work' \in [Worker -> WorkRow]
  BY <1>1 DEF WorkOK
<1> HIDE DEF R
<1>3. TableOK' /\ WorkOK'
  BY <1>1, <1>2, LeaveFacts
<1>4. ASSUME NEW v \in Worker PROVE PassOK(v)'
  <2>1. v # "owner"
    BY RetentionConstants
  <2>2. PassOK(v) /\ work'[v] = work[v]
    BY <1>1 DEF RetentionInv
  <2> QED BY <1>1, <1>2, <2>1, <2>2, OthersStay
<1> QED BY <1>3, <1>4 DEF RetentionInv

LEMMA NoMark == <<0, 0>> \in Int \X Int /\ 0 \in Nat
OBVIOUS

LEMMA RestIsWork ==
  ASSUME NEW said \in {"caught up", "behind", "failed", "drain", "delete", "list"}
  PROVE  Rest(said) \in WorkRow
<1>1. <<>> \in Seq(Row)
  BY EmptySeq
<1> QED BY <1>1, NoMark DEF Rest, WorkRow

\* However a pass ends, it leaves the others right.
LEMMA EndKeeps ==
  ASSUME RetentionInv, NEW w \in Worker, NEW said \in {"caught up", "behind", "failed"},
         EndPass(w, said), NEW R, Leave(R, w), UNCHANGED <<policy, now>>
  PROVE  RetentionInv'
<1>1. TableOK /\ WorkOK /\ work \in [Worker -> WorkRow]
  BY DEF RetentionInv, WorkOK
<1> DEFINE n == Rest(said)
<1>2. n \in WorkRow /\ n.pc = said
  BY RestIsWork DEF Rest
<1>3. work' = [work EXCEPT ![w] = n]
  BY DEF EndPass
<1> HIDE DEF n
<1>4. work' \in [Worker -> WorkRow] /\ work'[w] = n /\ \A v \in Worker : v # w => work'[v] = work[v]
  BY <1>1, <1>2, <1>3
<1>5. TableOK' /\ WorkOK'
  BY <1>1, <1>4, LeaveFacts
<1>6. ASSUME NEW v \in Worker PROVE PassOK(v)'
  <2>1. CASE v = w
    BY <1>2, <1>4, <2>1 DEF PassOK
  <2>2. CASE v # w
    <3>1. PassOK(v) /\ work'[v] = work[v]
      BY <1>4, <2>2 DEF RetentionInv
    <3> QED BY <1>1, <1>4, <2>2, <3>1, OthersStay
  <2> QED BY <2>1, <2>2
<1> QED BY <1>5, <1>6 DEF RetentionInv

LEMMA EndingsKeep ==
  ASSUME RetentionInv, NEW w \in Worker, BudgetEnds(w) \/ ListDone(w) \/ PassFails(w)
  PROVE  RetentionInv'
<1>1. CASE BudgetEnds(w)
  BY <1>1, EndKeeps DEF BudgetEnds
<1>2. CASE ListDone(w)
  <2> DEFINE said == IF policy # "tokens" /\ work[w].total >= MaxIDs THEN "behind" ELSE "caught up"
  <2>1. said \in {"caught up", "behind", "failed"} /\ EndPass(w, said) /\ Leave({}, w)
        /\ UNCHANGED <<policy, now>>
    BY <1>2 DEF ListDone
  <2> HIDE DEF said
  <2> QED BY <2>1, EndKeeps
<1>3. CASE PassFails(w)
  BY <1>3, EndKeeps DEF PassFails
<1> QED BY <1>1, <1>2, <1>3

LEMMA LimitInTable ==
  ASSUME TableOK
  PROVE  /\ PastLimit(rows) \subseteq DOMAIN rows /\ PastLimit(rows) \subseteq Row
         /\ IsFiniteSet(PastLimit(rows))
<1>1. PastLimit(rows) \subseteq DOMAIN rows
  BY DEF PastLimit, Excess, Below
<1>2. DOMAIN rows \subseteq Row /\ IsFiniteSet(DOMAIN rows)
  BY DEF TableOK
<1> QED BY <1>1, <1>2, FS_Subset

\* A pass begins.
LEMMA BeginFacts ==
  ASSUME RetentionInv, NEW w \in Worker, NEW task \in WorkRow, BeginPass(w, task)
  PROVE  /\ TableOK' /\ WorkOK' /\ Known' = Known /\ UNCHANGED <<policy, now, rows, gone>>
         /\ work'[w] = task /\ due'[w] = PastLimit(rows) /\ crossed'[w] = FALSE
         /\ \A v \in Worker : v # w => PassOK(v)'
<1>1. TableOK /\ WorkOK
  BY DEF RetentionInv
<1> DEFINE D == PastLimit(rows)
<1>2. /\ due' = [due EXCEPT ![w] = D] /\ crossed' = [crossed EXCEPT ![w] = FALSE]
      /\ work' = [work EXCEPT ![w] = task] /\ UNCHANGED <<policy, now, rows, gone>>
  BY DEF BeginPass
<1>3. D \in SUBSET Row
  BY <1>1, LimitInTable
<1> HIDE DEF D
<1>4. WorkOK'
  BY <1>1, <1>2, <1>3 DEF WorkOK
<1>5. /\ work'[w] = task /\ due'[w] = D /\ crossed'[w] = FALSE
      /\ \A v \in Worker : v # w => /\ work'[v] = work[v] /\ due'[v] = due[v]
                                    /\ crossed'[v] = crossed[v]
  BY <1>1, <1>2 DEF WorkOK
<1>6. TableOK' /\ Known' = Known
  BY <1>1, <1>2 DEF TableOK, Known
<1>7. now <= now' /\ Grows(Known, Known')
  BY <1>1, <1>2, <1>6 DEF TableOK, Grows
<1>8. ASSUME NEW v \in Worker, v # w PROVE PassOK(v)'
  <2>1. PassOK(v)
    BY DEF RetentionInv
  <2> QED BY <1>1, <1>2, <1>5, <1>6, <1>7, <1>8, <2>1, PassStays
<1> QED BY <1>2, <1>4, <1>5, <1>6, <1>8 DEF D

LEMMA BeginDrainKeeps ==
  ASSUME RetentionInv, NEW w \in Worker, BeginDrain(w)
  PROVE  RetentionInv'
<1> DEFINE task == [Rest("drain") EXCEPT !.mark = Cutoff]
<1>1. TableOK /\ policy \in {"age", "cron"} /\ BeginPass(w, task)
  BY DEF BeginDrain, RetentionInv
<1>2. Cutoff = <<now - Age, 0>> /\ now - Age \in Int
  BY <1>1, RetentionConstants DEF Cutoff, TableOK
<1>3. task \in WorkRow /\ task.pc = "drain" /\ task.mark = Cutoff
  <2>1. Rest("drain") \in WorkRow /\ Rest("drain").pc = "drain"
    BY RestIsWork DEF Rest
  <2>2. Cutoff \in Int \X Int
    BY <1>2
  <2> QED BY <2>1, <2>2 DEF WorkRow
<1> HIDE DEF task
<1>4. /\ TableOK' /\ WorkOK' /\ Known' = Known /\ UNCHANGED <<policy, now>>
      /\ work'[w] = task /\ due'[w] = PastLimit(rows) /\ \A v \in Worker : v # w => PassOK(v)'
  BY <1>1, <1>3, BeginFacts
<1>5. PastLimit(rows) \subseteq Below(Known, Cutoff)
  <2>1. ~ Ranked
    BY <1>1 DEF Ranked
  <2> QED BY <1>1, <2>1, KnownGrows DEF PastLimit
<1>6. DrainOK(w)'
  <2>1. Cutoff[2] = 0 /\ Cutoff[1] = now - Age /\ Cutoff[1] <= now - Age
    BY <1>2
  <2> QED BY <1>1, <1>3, <1>4, <1>5, <2>1 DEF DrainOK
<1>7. PassOK(w)'
  BY <1>3, <1>4, <1>6 DEF PassOK
<1> QED BY <1>4, <1>7 DEF RetentionInv

\* The boundary of the row cap is the newest row of the excess.
LEMMA BoundaryIsNewest ==
  ASSUME TableOK, Excess(rows) # {}
  PROVE  /\ Boundary \in Excess(rows) /\ rows[Boundary].at \in Nat
         /\ \A r \in Excess(rows) : Before(rows, r, <<rows[Boundary].at, Boundary + 1>>)
<1> DEFINE E == Excess(rows)
           s == OldestFirst(rows, E)
           l == Len(s)
<1>1. E \subseteq DOMAIN rows /\ IsFiniteSet(E) /\ \A r \in E : r \in Nat /\ rows[r].at \in Nat
  <2>1. E \subseteq DOMAIN rows
    BY DEF Excess
  <2>2. \A r \in DOMAIN rows : r \in Nat /\ rows[r] \in RowRecord
    BY RetentionConstants DEF TableOK
  <2>3. IsFiniteSet(DOMAIN rows)
    BY DEF TableOK
  <2> HIDE DEF E
  <2> QED BY <2>1, <2>2, <2>3, FS_Subset, RowFields
<1> HIDE DEF E
<1>2. Lists(s, E) /\ Sorted(rows, s)
  BY <1>1, OldestFirstLists
<1>3. l \in Nat /\ l # 0
  <2>1. Cardinality(E) = l /\ l \in Nat
    BY <1>2, ListLength
  <2>2. Cardinality(E) # 0
    BY <1>1, FS_EmptySet DEF E
  <2> QED BY <2>1, <2>2
<1>4. DOMAIN s = 1 .. l /\ Boundary = s[l]
  BY <1>2 DEF Lists, Boundary, Last, E
<1>5. l \in DOMAIN s /\ Boundary \in E
  <2>1. l \in DOMAIN s
    BY <1>3, <1>4
  <2> QED BY <1>2, <1>4, <2>1 DEF Lists, ToSet
<1> HIDE DEF s, l
<1>6. ASSUME NEW r \in E PROVE Before(rows, r, <<rows[Boundary].at, Boundary + 1>>)
  <2>1. PICK i \in DOMAIN s : s[i] = r
    BY <1>2 DEF Lists, ToSet
  <2>2. Boundary \in Nat /\ rows[Boundary].at \in Nat /\ r \in Nat /\ rows[r].at \in Nat
    BY <1>1, <1>5
  <2>3. CASE i = l
    <3>1. r = Boundary
      BY <1>4, <2>1, <2>3
    <3> QED BY <2>2, <3>1 DEF Before
  <2>4. CASE i # l
    <3>1. i < l
      BY <1>3, <1>4, <2>4
    <3>2. Before(rows, r, <<rows[Boundary].at, Boundary>>)
      BY <1>2, <1>4, <1>5, <2>1, <3>1 DEF Sorted
    <3> QED BY <2>2, <3>2 DEF Before
  <2> QED BY <2>3, <2>4
<1> QED BY <1>1, <1>5, <1>6 DEF E

LEMMA BeginRowCapKeeps ==
  ASSUME RetentionInv, NEW w \in Worker, BeginRowCap(w)
  PROVE  RetentionInv'
<1> DEFINE b == Boundary
           mark == <<rows[b].at, b + 1>>
           task == [Rest("drain") EXCEPT !.mark = mark]
<1>1. TableOK /\ policy = "rows" /\ Excess(rows) # {} /\ BeginPass(w, task)
  BY DEF BeginRowCap, RetentionInv
<1>2. /\ b \in Excess(rows) /\ rows[b].at \in Nat
      /\ \A r \in Excess(rows) : Before(rows, r, mark)
  BY <1>1, BoundaryIsNewest
<1>3. b \in DOMAIN rows /\ b \in Nat
  <2>1. b \in DOMAIN rows
    BY <1>2 DEF Excess
  <2> QED BY <1>1, <2>1, RetentionConstants DEF TableOK
<1> HIDE DEF b
<1>4. mark \in Int \X Int
  BY <1>2, <1>3
<1>5. task \in WorkRow /\ task.pc = "drain" /\ task.mark = mark
  <2>1. Rest("drain") \in WorkRow /\ Rest("drain").pc = "drain"
    BY RestIsWork DEF Rest
  <2> HIDE DEF mark
  <2> QED BY <1>4, <2>1 DEF WorkRow
<1> HIDE DEF task
<1>6. /\ TableOK' /\ WorkOK' /\ Known' = Known /\ UNCHANGED <<policy, now>>
      /\ work'[w] = task /\ due'[w] = PastLimit(rows) /\ \A v \in Worker : v # w => PassOK(v)'
  BY <1>1, <1>5, BeginFacts
<1>7. PastLimit(rows) \subseteq Below(Known, mark)
  <2>1. PastLimit(rows) = Excess(rows)
    BY <1>1 DEF PastLimit, Ranked
  <2>2. Excess(rows) \subseteq DOMAIN rows /\ \A r \in DOMAIN rows : rows[r].ended
    BY <1>1 DEF Excess, TableOK
  <2>3. Excess(rows) \subseteq Below(rows, mark)
    BY <1>2, <2>2 DEF Below
  <2> HIDE DEF mark
  <2> QED BY <1>1, <2>1, <2>3, KnownGrows
<1>8. b \in Excess(Known) /\ mark = <<Known[b].at, b + 1>>
  BY <1>1, <1>2, <1>3, KnownGrows, KnownRows
<1>9. DrainOK(w)'
  BY <1>1, <1>5, <1>6, <1>7, <1>8 DEF DrainOK
<1>10. PassOK(w)'
  BY <1>5, <1>6, <1>9 DEF PassOK
<1> QED BY <1>6, <1>10 DEF RetentionInv

LEMMA BeginListKeeps ==
  ASSUME RetentionInv, NEW w \in Worker, BeginList(w)
  PROVE  RetentionInv'
<1> DEFINE D == PastLimit(rows)
<1>1. TableOK /\ policy \in {"bytes", "firings", "tokens"}
  BY DEF BeginList, RetentionInv
<1>2. IsFiniteSet(D) /\ D \subseteq DOMAIN rows /\ D \subseteq Row
  BY <1>1, LimitInTable
<1>3. PICK list \in IF policy = "tokens" THEN SetToSeqs(D) ELSE {OldestFirst(rows, D)} :
        BeginPass(w, [Rest("list") EXCEPT !.doomed = First(list, MaxIDs), !.mark = Cutoff])
  BY DEF BeginList
<1> HIDE DEF D
<1>4. Lists(list, D)
  <2>1. CASE policy = "tokens"
    BY <1>2, <1>3, <2>1, PermutationLists
  <2>2. CASE policy # "tokens"
    <3>1. \A r \in D : r \in Nat /\ rows[r].at \in Nat
      <4>1. rows \in [DOMAIN rows -> RowRecord]
        BY <1>1 DEF TableOK
      <4>2. \A r \in D : r \in Nat /\ rows[r] \in RowRecord
        BY <1>2, <4>1, RetentionConstants
      <4> QED BY <4>2, RowFields
    <3>2. list = OldestFirst(rows, D)
      BY <1>3, <2>2
    <3> QED BY <1>2, <3>1, <3>2, OldestFirstLists
  <2> QED BY <2>1, <2>2
<1> DEFINE f == First(list, MaxIDs)
           T == ToSet(f)
           l == Len(list)
           task == [Rest("list") EXCEPT !.doomed = f, !.mark = Cutoff]
<1>5. MaxIDs \in Nat
  BY RetentionConstants
<1>6. /\ Lists(f, T) /\ T \subseteq D
      /\ Len(f) = IF l < MaxIDs THEN l ELSE MaxIDs
      /\ Len(f) = l => T = D
  <2> HIDE DEF T
  <2> QED BY <1>4, <1>5, FirstOfList DEF T
<1>7. Cardinality(D) = l /\ l \in Nat
  BY <1>4, ListLength
<1>8. /\ policy = "tokens" => Cutoff = <<now, 0>>
      /\ Cutoff \in Int \X Int /\ now \in Int
  <2>1. Cutoff = <<now, 0>> \/ Cutoff = <<now - Age, 0>>
    BY DEF Cutoff
  <2>2. policy = "tokens" => Cutoff = <<now, 0>>
    BY DEF Cutoff
  <2>3. now \in Int /\ now - Age \in Int
    BY <1>1, RetentionConstants DEF TableOK
  <2> QED BY <2>1, <2>2, <2>3
<1>9. task \in WorkRow /\ task.pc = "list" /\ task.mark = Cutoff /\ task.doomed = f /\ task.total = 0
  <2>1. Rest("list") \in WorkRow /\ Rest("list").pc = "list" /\ Rest("list").total = 0
    BY RestIsWork DEF Rest
  <2>2. f \in Seq(Row)
    <3>1. f \in Seq(T) /\ T \subseteq Row
      BY <1>2, <1>6 DEF Lists
    <3> HIDE DEF f, T
    <3> QED BY <3>1
  <2> HIDE DEF f
  <2> QED BY <1>8, <2>1, <2>2 DEF WorkRow
<1>10. BeginPass(w, task)
  BY <1>3
<1> HIDE DEF task, f, l
<1>11. /\ TableOK' /\ WorkOK' /\ Known' = Known /\ UNCHANGED <<policy, now, rows>>
       /\ work'[w] = task /\ due'[w] = D /\ \A v \in Worker : v # w => PassOK(v)'
  BY <1>9, <1>10, BeginFacts DEF D
<1>12. policy = "tokens" => D \subseteq Below(Known, Cutoff)
  BY <1>1, KnownGrows DEF D, PastLimit, Ranked
<1>13. policy # "tokens" => D \subseteq Excess(Known)
  BY <1>1, KnownGrows DEF D, PastLimit, Ranked
<1>14. ListOK(w)'
  <2>1. Doomed(w)' = T
    BY <1>9, <1>11 DEF Doomed
  <2>2. /\ policy = "tokens" => Cutoff[2] = 0 /\ Cutoff[1] <= now
    BY <1>8
  <2>3. task.total + Len(f) = AtMostIDs(Cardinality(D))
    <3>1. AtMostIDs(l) = Len(f) /\ Len(f) \in Nat
      BY <1>5, <1>6, <1>7 DEF AtMostIDs
    <3> QED BY <1>7, <1>9, <3>1
  <2>4. Cardinality(D) <= MaxIDs => T = D
    <3>1. l <= MaxIDs => Len(f) = l
      BY <1>5, <1>6, <1>7
    <3> QED BY <1>6, <1>7, <3>1
  <2> HIDE DEF T
  <2> QED BY <1>1, <1>2, <1>6, <1>9, <1>11, <1>12, <1>13, <2>1, <2>2, <2>3, <2>4 DEF ListOK
<1>15. PassOK(w)'
  BY <1>9, <1>11, <1>14 DEF PassOK
<1> QED BY <1>11, <1>15 DEF RetentionInv

\* What was past the limit and is still there lies below the mark.
LEMMA DueBelow ==
  ASSUME TableOK, NEW D, NEW mark, D \subseteq Below(Known, mark)
  PROVE  D \cap DOMAIN rows \subseteq Below(rows, mark)
BY KnownRows DEF Below, Before

LEMMA SelectBatchKeeps ==
  ASSUME RetentionInv, NEW w \in Worker, SelectBatch(w)
  PROVE  RetentionInv'
<1>1. TableOK /\ WorkOK /\ work[w].pc = "drain" /\ UNCHANGED <<policy, now, rows, gone, due, crossed>>
  BY DEF SelectBatch, RetentionInv
<1> DEFINE mark == work[w].mark
           S == Below(rows, mark)
<1>2. PICK batch \in 1 .. MaxBatch :
        work' = [work EXCEPT ![w].pc = "delete", ![w].batch = batch,
                             ![w].doomed = Selected(w, batch)]
  BY DEF SelectBatch
<1> DEFINE list == OldestFirst(rows, S)
           f == First(list, batch)
           T == ToSet(f)
           n == [work[w] EXCEPT !.pc = "delete", !.batch = batch, !.doomed = f]
<1>3. batch \in Nat
  BY RetentionConstants
<1>4. S \subseteq DOMAIN rows /\ IsFiniteSet(S) /\ S \subseteq Row /\ \A r \in S : r \in Nat /\ rows[r].at \in Nat
  <2>1. S \subseteq DOMAIN rows
    BY DEF Below
  <2>2. DOMAIN rows \subseteq Row /\ IsFiniteSet(DOMAIN rows) /\ rows \in [DOMAIN rows -> RowRecord]
    BY <1>1 DEF TableOK
  <2> HIDE DEF S
  <2>3. \A r \in S : r \in Nat /\ rows[r] \in RowRecord
    BY <2>1, <2>2, RetentionConstants
  <2> QED BY <2>1, <2>2, <2>3, FS_Subset, RowFields
<1> HIDE DEF S
<1>5. Lists(list, S)
  BY <1>4, OldestFirstLists
<1>6. /\ Lists(f, T) /\ T \subseteq S
      /\ Len(f) = IF Len(list) < batch THEN Len(list) ELSE batch
      /\ Len(f) = Len(list) => T = S
  <2> HIDE DEF T, list
  <2> QED BY <1>3, <1>5, FirstOfList DEF T
<1>7. n \in WorkRow /\ n.pc = "delete" /\ n.batch = batch /\ n.doomed = f /\ n.mark = mark
  <2>1. f \in Seq(Row)
    <3>1. f \in Seq(T) /\ T \subseteq Row
      BY <1>4, <1>6 DEF Lists
    <3> HIDE DEF f, T
    <3> QED BY <3>1
  <2>2. work[w] \in WorkRow
    BY <1>1 DEF WorkOK
  <2> HIDE DEF f
  <2> QED BY <1>3, <2>1, <2>2 DEF WorkRow
<1>8. work' = [work EXCEPT ![w] = n]
  <2>1. work \in [Worker -> WorkRow] /\ Selected(w, batch) = f
    BY <1>1 DEF WorkOK, Selected, S
  <2> HIDE DEF f
  <2> QED BY <1>2, <2>1 DEF WorkRow
<1> HIDE DEF n, f, list, mark
<1>9. /\ WorkOK' /\ work'[w] = n
      /\ \A v \in Worker : v # w => work'[v] = work[v]
  BY <1>1, <1>7, <1>8 DEF WorkOK
<1>10. TableOK' /\ Known' = Known
  BY <1>1 DEF TableOK, Known
<1>11. now <= now' /\ Grows(Known, Known')
  BY <1>1, <1>10 DEF TableOK, Grows
<1>12. ASSUME NEW v \in Worker, v # w PROVE PassOK(v)'
  <2>1. PassOK(v)
    BY DEF RetentionInv
  <2> QED BY <1>1, <1>9, <1>10, <1>11, <1>12, <2>1, PassStays
<1>13. DrainOK(w)
  BY <1>1 DEF RetentionInv, PassOK
<1>14. DrainOK(w)'
  BY <1>1, <1>7, <1>9, <1>10, <1>13 DEF DrainOK, mark
<1>15. BatchOK(w)'
  <2>1. Doomed(w)' = T
    BY <1>7, <1>9 DEF Doomed
  <2>2. S \subseteq Below(Known, mark)
    BY <1>1, KnownGrows DEF S
  <2>3. Len(f) < batch => T = S
    <3>1. Len(list) \in Nat
      BY <1>5, ListLength
    <3> QED BY <1>3, <1>6, <3>1
  <2>4. due[w] \cap DOMAIN rows \subseteq S
    <3>1. due[w] \subseteq Below(Known, mark)
      BY <1>13 DEF DrainOK, mark
    <3> QED BY <1>1, <3>1, DueBelow DEF S
  <2> HIDE DEF T
  <2> QED BY <1>1, <1>4, <1>6, <1>7, <1>9, <1>10, <2>1, <2>2, <2>3, <2>4 DEF BatchOK
<1>16. PassOK(w)'
  BY <1>7, <1>9, <1>14, <1>15 DEF PassOK
<1> QED BY <1>9, <1>10, <1>12, <1>16 DEF RetentionInv

LEMMA DeleteBatchKeeps ==
  ASSUME RetentionInv, NEW w \in Worker, DeleteBatch(w)
  PROVE  RetentionInv'
<1> DEFINE R == ToSet(work[w].doomed)
           k == Cardinality(R \cap DOMAIN rows)
           n == [work[w] EXCEPT !.pc = "drain", !.doomed = <<>>, !.batch = 0, !.total = @ + k]
<1>1. TableOK /\ WorkOK /\ work[w].pc = "delete" /\ UNCHANGED <<policy, now>> /\ Leave(R, w)
  BY DEF DeleteBatch, RetentionInv
<1>2. EndPass(w, "caught up") \/ work' = [work EXCEPT ![w] = n]
  <2>1. \/ EndPass(w, "caught up")
        \/ work' = [work EXCEPT ![w].pc = "drain", ![w].doomed = <<>>,
                                ![w].batch = 0, ![w].total = @ + k]
    <3> HIDE DEF n
    <3> QED BY DEF DeleteBatch
  <2> HIDE DEF k
  <2>2. work \in [Worker -> WorkRow]
    BY <1>1 DEF WorkOK
  <2> QED BY <2>1, <2>2 DEF WorkRow
<1>3. CASE EndPass(w, "caught up")
  <2> HIDE DEF R
  <2> QED BY <1>1, <1>3, EndKeeps
<1>4. CASE work' = [work EXCEPT ![w] = n]
  <2>1. k \in Nat
    <3>1. IsFiniteSet(DOMAIN rows)
      BY <1>1 DEF TableOK
    <3> HIDE DEF R
    <3> QED BY <3>1, FS_Subset, FS_CardinalityType
  <2> HIDE DEF k, R
  <2>2. n \in WorkRow /\ n.pc = "drain" /\ n.mark = work[w].mark
    <3>1. work[w] \in WorkRow
      BY <1>1 DEF WorkOK
    <3>2. <<>> \in Seq(Row)
      BY EmptySeq
    <3>3. work[w].total + k \in Nat
      <4>1. work[w].total \in Nat
        BY <3>1 DEF WorkRow
      <4> QED BY <2>1, <4>1
    <3> QED BY <3>1, <3>2, <3>3, NoMark DEF WorkRow
  <2> HIDE DEF n
  <2>3. work' \in [Worker -> WorkRow] /\ work'[w] = n /\ \A v \in Worker : v # w => work'[v] = work[v]
    BY <1>1, <1>4, <2>2 DEF WorkOK
  <2>4. TableOK' /\ WorkOK' /\ Known' = Known /\ due'[w] = due[w]
    BY <1>1, <2>2, <2>3, LeaveFacts DEF Resting
  <2>5. DrainOK(w)
    BY <1>1 DEF RetentionInv, PassOK
  <2>6. DrainOK(w)'
    BY <1>1, <2>2, <2>3, <2>4, <2>5 DEF DrainOK
  <2>7. ASSUME NEW v \in Worker, v # w PROVE PassOK(v)'
    <3>1. PassOK(v) /\ work'[v] = work[v]
      BY <2>3, <2>7 DEF RetentionInv
    <3> QED BY <1>1, <2>3, <2>7, <3>1, OthersStay
  <2>8. PassOK(w)'
    BY <2>2, <2>3, <2>6 DEF PassOK
  <2> QED BY <2>4, <2>7, <2>8 DEF RetentionInv
<1> QED BY <1>2, <1>3, <1>4

\* The next part of a list.
Part(w) == First(work[w].doomed, MaxBatch)
Listed(w) == {r \in ToSet(Part(w)) \cap DOMAIN rows : policy = "tokens" => r \in Below(rows, work[w].mark)}

LEMMA PartFacts ==
  ASSUME RetentionInv, NEW w \in Worker, work[w].pc = "list",
         NEW rest, rest = SubSeq(work[w].doomed, Len(Part(w)) + 1, Len(work[w].doomed))
  PROVE  /\ Lists(rest, Doomed(w) \ ToSet(Part(w)))
         /\ Len(work[w].doomed) \in Nat /\ Len(Part(w)) \in Nat
         /\ Len(rest) = Len(work[w].doomed) - Len(Part(w))
         /\ ToSet(Part(w)) \subseteq Doomed(w)
         /\ Listed(w) \subseteq ToSet(Part(w)) /\ Cardinality(Listed(w)) \in Nat
         /\ ~ crossed[w] => Listed(w) = ToSet(Part(w)) /\ Cardinality(Listed(w)) = Len(Part(w))
<1>1. TableOK /\ WorkOK /\ ListOK(w)
  BY DEF RetentionInv, PassOK
<1> DEFINE s == work[w].doomed
           p == Part(w)
           T == ToSet(p)
           l == Len(s)
           k == Len(p)
           D == Doomed(w)
<1>2. Lists(s, D) /\ MaxBatch \in Nat
  BY <1>1, RetentionConstants DEF ListOK
<1>3. p = First(s, MaxBatch)
  BY DEF Part
<1> HIDE DEF s, p, D, T
<1>4. Lists(p, T) /\ T \subseteq D /\ k = IF l < MaxBatch THEN l ELSE MaxBatch
  BY <1>2, <1>3, FirstOfList DEF T
<1>5. l \in Nat /\ k \in Nat /\ k <= l /\ IsFiniteSet(T) /\ Cardinality(T) = k
  <2>1. l \in Nat
    BY <1>2, ListLength
  <2>2. k \in Nat /\ IsFiniteSet(T) /\ Cardinality(T) = k
    BY <1>4, ListLength
  <2> QED BY <1>2, <1>4, <2>1, <2>2
<1>6. T = ToSet(First(s, k))
  <2>1. First(s, k) = SubSeq(s, 1, k)
    <3>1. ~ (l < k) \/ l = k
      BY <1>5
    <3> QED BY <3>1 DEF First
  <2>2. First(s, MaxBatch) = SubSeq(s, 1, k)
    BY <1>4 DEF First
  <2> QED BY <1>3, <2>1, <2>2 DEF T
<1>7. rest = SubSeq(s, k + 1, l)
  BY DEF s, p
<1>8. Lists(rest, D \ T) /\ Len(rest) = l - k
  <2> HIDE DEF k
  <2>1. k \in Nat /\ k <= Len(s) /\ rest = SubSeq(s, k + 1, Len(s)) /\ T = ToSet(First(s, k))
    BY <1>5, <1>6, <1>7
  <2> HIDE DEF l
  <2>2. Lists(rest, D \ T) /\ Len(rest) = Len(s) - k
    BY <1>2, <2>1, RestOfList, ZenonT(60)
  <2> QED BY <2>2 DEF l
<1>9. Listed(w) \subseteq T /\ Cardinality(Listed(w)) \in Nat
  <2>1. Listed(w) \subseteq T
    BY DEF Listed, T, p
  <2> QED BY <1>5, <2>1, FS_Subset, FS_CardinalityType
<1>10. ASSUME ~ crossed[w] PROVE Listed(w) = T
  <2>1. T \subseteq DOMAIN rows
    BY <1>1, <1>4, <1>10 DEF ListOK, D
  <2>2. policy = "tokens" => T \subseteq Below(rows, work[w].mark)
    <3>1. policy = "tokens" => due[w] \subseteq Below(Known, work[w].mark)
      BY <1>1 DEF ListOK
    <3>2. D \subseteq due[w]
      BY <1>1 DEF ListOK, D
    <3>3. policy = "tokens" => due[w] \cap DOMAIN rows \subseteq Below(rows, work[w].mark)
      BY <1>1, <3>1, DueBelow
    <3> QED BY <1>4, <2>1, <3>2, <3>3
  <2> QED BY <2>1, <2>2 DEF Listed, T, p
<1> QED BY <1>4, <1>5, <1>8, <1>9, <1>10 DEF s, p, T, D

\* What is counted is what is no longer listed.
LEMMA MovedOver ==
  \A t, c, l, k \in Nat : c = k => (t + c) + (l - k) = t + l
  OBVIOUS

LEMMA DeleteListedKeeps ==
  ASSUME RetentionInv, NEW w \in Worker, DeleteListed(w)
  PROVE  RetentionInv'
<1> DEFINE R == Listed(w)
           T == ToSet(Part(w))
           D == Doomed(w)
           c == Cardinality(R)
           l == Len(work[w].doomed)
           k == Len(Part(w))
           rest == SubSeq(work[w].doomed, Len(Part(w)) + 1, Len(work[w].doomed))
           n == [work[w] EXCEPT !.doomed = rest, !.total = @ + c]
<1>1. TableOK /\ WorkOK /\ work[w].pc = "list" /\ UNCHANGED <<policy, now>> /\ Leave(R, w)
  BY DEF DeleteListed, RetentionInv, Listed, Part
<1>2. ListOK(w)
  BY <1>1 DEF RetentionInv, PassOK
<1>3. /\ Lists(rest, D \ T) /\ l \in Nat /\ k \in Nat /\ Len(rest) = l - k
      /\ T \subseteq D /\ R \subseteq T /\ c \in Nat
      /\ ~ crossed[w] => R = T /\ c = k
  <2> HIDE DEF rest
  <2> QED BY <1>1, PartFacts DEF rest
<1>4. work[w] \in WorkRow /\ work[w].total \in Nat
  BY <1>1 DEF WorkOK, WorkRow
<1>5. work' = [work EXCEPT ![w] = n]
  <2>1. work' = [work EXCEPT ![w].doomed = SubSeq(@, k + 1, Len(@)), ![w].total = @ + c]
    BY DEF DeleteListed, Listed, Part
  <2> HIDE DEF k, c
  <2>2. work \in [Worker -> WorkRow]
    BY <1>1 DEF WorkOK
  <2> QED BY <2>1, <2>2 DEF WorkRow, k
<1> HIDE DEF R, c
<1>6. rest \in Seq(Row) /\ D \subseteq Row
  <2>1. D \subseteq Row
    BY <1>1, <1>2 DEF ListOK, WorkOK
  <2>2. rest \in Seq(D \ T) /\ D \ T \subseteq Row
    BY <1>3, <2>1 DEF Lists
  <2> HIDE DEF rest, D, T
  <2> QED BY <2>1, <2>2
<1> HIDE DEF rest
<1>7. n \in WorkRow /\ n.pc = "list" /\ n.mark = work[w].mark /\ n.doomed = rest
      /\ n.total = work[w].total + c
  <2>1. work[w].total + c \in Nat
    BY <1>3, <1>4
  <2> QED BY <1>1, <1>4, <1>6, <2>1 DEF WorkRow
<1> HIDE DEF n
<1>8. work' \in [Worker -> WorkRow] /\ work'[w] = n /\ \A v \in Worker : v # w => work'[v] = work[v]
  BY <1>1, <1>5, <1>7 DEF WorkOK
<1>9. /\ TableOK' /\ WorkOK' /\ Known' = Known /\ due'[w] = due[w] /\ DOMAIN rows' = DOMAIN rows \ R
      /\ ~ crossed'[w] => ~ crossed[w]
  BY <1>1, <1>7, <1>8, LeaveFacts DEF Resting
<1>10. ASSUME NEW v \in Worker, v # w PROVE PassOK(v)'
  <2>1. PassOK(v) /\ work'[v] = work[v]
    BY <1>8, <1>10 DEF RetentionInv
  <2> QED BY <1>1, <1>8, <1>10, <2>1, OthersStay
<1>11. ListOK(w)'
  <2>1. Doomed(w)' = D \ T
    BY <1>3, <1>7, <1>8 DEF Doomed, Lists
  <2>2. /\ policy \in {"bytes", "firings", "tokens"} /\ D \subseteq due[w] /\ IsFiniteSet(due[w])
        /\ policy = "tokens" => /\ work[w].mark[2] = 0 /\ work[w].mark[1] <= now
                                /\ due[w] \subseteq Below(Known, work[w].mark)
        /\ policy # "tokens" => due[w] \subseteq Excess(Known)
    BY <1>2 DEF ListOK
  <2>3. /\ ~ crossed[w] => /\ D \subseteq DOMAIN rows
                           /\ work[w].total + l = AtMostIDs(Cardinality(due[w]))
        /\ ~ crossed[w] /\ Cardinality(due[w]) <= MaxIDs => due[w] \cap DOMAIN rows \subseteq D
    BY <1>2 DEF ListOK
  <2>4. ~ crossed[w] => n.total + Len(rest) = work[w].total + l
    <3>1. work[w].total \in Nat /\ c \in Nat /\ l \in Nat /\ k \in Nat
      BY <1>3, <1>4
    <3> HIDE DEF l, k
    <3>2. c = k => (work[w].total + c) + (l - k) = work[w].total + l
      BY <3>1, MovedOver
    <3> QED BY <1>3, <1>7, <3>2
  <2>5. ~ crossed'[w] => /\ D \ T \subseteq DOMAIN rows'
                         /\ n.total + Len(rest) = AtMostIDs(Cardinality(due[w]))
    BY <1>3, <1>9, <2>3, <2>4
  <2>6. ~ crossed'[w] /\ Cardinality(due[w]) <= MaxIDs => due[w] \cap DOMAIN rows' \subseteq D \ T
    BY <1>3, <1>9, <2>3
  <2> HIDE DEF D, T, l, k
  <2>7. D \ T \subseteq due[w]
    BY <2>2
  <2> QED BY <1>1, <1>3, <1>7, <1>8, <1>9, <2>1, <2>2, <2>5, <2>6, <2>7 DEF ListOK
<1>12. PassOK(w)'
  BY <1>7, <1>8, <1>11 DEF PassOK
<1> QED BY <1>9, <1>10, <1>12 DEF RetentionInv

LEMMA NoRows == <<>> \in [{} -> RowRecord] /\ DOMAIN <<>> = {}
OBVIOUS

LEMMA RetentionInvInit == RetentionInit => RetentionInv
<1> SUFFICES ASSUME RetentionInit PROVE RetentionInv
  OBVIOUS
<1>1. policy \in Policy /\ now = 0 /\ rows = <<>> /\ gone = <<>>
      /\ work = [w \in Worker |-> Rest("caught up")]
      /\ due = [w \in Worker |-> {}] /\ crossed = [w \in Worker |-> FALSE]
  BY DEF RetentionInit
<1>2. TableOK
  <2>1. DOMAIN <<>> = {} /\ IsFiniteSet({})
    BY FS_EmptySet
  <2>2. rows \in [{} -> RowRecord] /\ gone \in [{} -> RowRecord] /\ DOMAIN rows = {} /\ DOMAIN gone = {}
    BY <1>1, NoRows
  <2>3. now \in 0 .. MaxTime
    <3>1. MaxTime \in Nat /\ now = 0
      BY <1>1, RetentionConstants
    <3> QED BY <3>1
  <2> QED BY <1>1, <2>1, <2>2, <2>3 DEF TableOK
<1>3. WorkOK
  <2>1. Rest("caught up") \in WorkRow
    BY RestIsWork
  <2> QED BY <1>1, <2>1 DEF WorkOK
<1>4. \A w \in Worker : PassOK(w)
  BY <1>1 DEF PassOK, Rest
<1> QED BY <1>2, <1>3, <1>4 DEF RetentionInv

LEMMA RetentionInvNext == RetentionInv /\ [RetentionNext]_retentionVars => RetentionInv'
<1> SUFFICES ASSUME RetentionInv, [RetentionNext]_retentionVars PROVE RetentionInv'
  OBVIOUS
<1>1. CASE UNCHANGED retentionVars
  <2>1. UNCHANGED <<policy, work, gone, due, crossed, now, rows>>
    BY <1>1 DEF retentionVars
  <2>2. TableOK' /\ Known' = Known /\ now <= now'
    BY <2>1 DEF RetentionInv, TableOK, Known
  <2> QED BY <2>1, <2>2, AllStay DEF Grows
<1>2. ASSUME NEW r \in Row, Insert(r) \/ FinishRun(r) \/ RemoveRow(r) PROVE RetentionInv'
  BY <1>2, InsertKeeps, FinishRunKeeps, RemoveRowKeeps
<1>3. ASSUME NEW w \in Worker, BeginDrain(w) \/ BeginRowCap(w) \/ BeginList(w) PROVE RetentionInv'
  BY <1>3, BeginDrainKeeps, BeginRowCapKeeps, BeginListKeeps
<1>4. ASSUME NEW w \in Worker, SelectBatch(w) \/ DeleteBatch(w) \/ DeleteListed(w) PROVE RetentionInv'
  BY <1>4, SelectBatchKeeps, DeleteBatchKeeps, DeleteListedKeeps
<1>5. ASSUME NEW w \in Worker, BudgetEnds(w) \/ ListDone(w) \/ PassFails(w) PROVE RetentionInv'
  BY <1>5, EndingsKeep
<1>6. CASE Tick
  BY <1>6, TickKeeps
<1> QED BY <1>1, <1>2, <1>3, <1>4, <1>5, <1>6 DEF RetentionNext

\* RetentionInv is inductive: what passes hold stays right whatever arrives, ends or
\* leaves meanwhile (worker.go: purgeByAge, purgeRowCap, purgeAlertFirings,
\* purgeProfilesStorageCap, purgeExpiredTokenTable).
THEOREM RetentionInvHolds == RetentionSpec => []RetentionInv
BY RetentionInvInit, RetentionInvNext, PTL DEF RetentionSpec

\* What is not newer than a row past the cap is past it too.
LEMMA OlderIsExcess ==
  ASSUME TableOK, policy = "rows", NEW b \in Excess(Known),
         NEW r \in Below(Known, <<Known[b].at, b + 1>>)
  PROVE  r \in Excess(Known)
<1> DEFINE t == Known
           f == [s \in DOMAIN t |-> t[s].size]
           S == Upto(t, b)
           T == Upto(t, r)
<1>1. /\ b \in DOMAIN t /\ r \in DOMAIN t /\ IsFiniteSet(DOMAIN t)
      /\ \A s \in DOMAIN t : t[s].at \in Nat /\ t[s].size \in Nat /\ s \in Nat /\ t[s].group = 1
  <2>1. b \in DOMAIN t /\ r \in DOMAIN t
    BY DEF Excess, Below
  <2> QED BY <2>1, KnownRows, RowFields
<1>2. Before(t, r, <<t[b].at, b + 1>>) /\ SumFunctionOnSet(f, S) > Limit
  BY DEF Below, Excess, Running
<1> HIDE DEF t
<1>3. S \subseteq T
  <2> SUFFICES ASSUME NEW s \in S PROVE s \in T
    OBVIOUS
  <2>1. s \in DOMAIN t /\ ~ Before(t, s, <<t[b].at, b>>)
    BY DEF Upto
  <2>2. ~ Before(t, s, <<t[r].at, r>>)
    BY <1>1, <1>2, <2>1 DEF Before
  <2> QED BY <1>1, <2>1, <2>2 DEF Upto
<1>4. S \subseteq DOMAIN t /\ T \subseteq DOMAIN t /\ IsFiniteSet(T) /\ IsFiniteSet(S)
  <2>1. S \subseteq DOMAIN t /\ T \subseteq DOMAIN t
    BY DEF Upto
  <2> QED BY <1>1, <2>1, FS_Subset
<1>5. \A s \in T : f[s] \in Nat
  BY <1>1, <1>4
<1>6. Running(t, r) = SumFunctionOnSet(f, T)
  BY DEF Running
<1> HIDE DEF f, S, T
<1>7. /\ SumFunctionOnSet(f, S) <= SumFunctionOnSet(f, T)
      /\ SumFunctionOnSet(f, S) \in Nat /\ SumFunctionOnSet(f, T) \in Nat /\ Limit \in Nat
  BY <1>3, <1>4, <1>5, SumFewer, SumType, RetentionConstants
<1>8. Running(t, r) > Limit
  BY <1>2, <1>6, <1>7
<1> QED BY <1>1, <1>8 DEF Excess, t

\* What a mark of whole instants takes is older than it.
LEMMA OlderThanMark ==
  ASSUME TableOK, NEW mark \in Int \X Int, NEW cut \in Int, mark[2] = 0, mark[1] <= cut,
         NEW r \in Below(Known, mark)
  PROVE  r \in Below(Known, <<cut, 0>>)
<1>1. r \in DOMAIN Known /\ Known[r].ended /\ Before(Known, r, mark)
  BY DEF Below
<1>2. r \in Nat /\ r > 0 /\ Known[r].at \in Nat
  BY <1>1, KnownRows, RowFields
<1>3. Known[r].at < cut
  <2>1. mark[1] \in Int
    OBVIOUS
  <2> QED BY <1>1, <1>2, <2>1 DEF Before
<1> QED BY <1>1, <1>2, <1>3 DEF Below, Before

LEMMA BatchExpired ==
  ASSUME RetentionInv, NEW w \in Worker, work[w].pc = "delete", NEW r \in Doomed(w)
  PROVE  r \in PastLimit(Known)
<1>1. TableOK /\ WorkOK /\ DrainOK(w) /\ BatchOK(w)
  BY DEF RetentionInv, PassOK
<1> DEFINE mark == work[w].mark
<1>2. r \in Below(Known, mark) /\ mark \in Int \X Int
  <2>1. work[w] \in WorkRow
    BY <1>1 DEF WorkOK
  <2>2. mark \in Int \X Int
    BY <2>1 DEF WorkRow
  <2> QED BY <1>1, <2>2 DEF BatchOK
<1> HIDE DEF mark
<1>3. CASE policy = "rows"
  <2>1. PICK b \in Excess(Known) : mark = <<Known[b].at, b + 1>>
    BY <1>1, <1>3 DEF DrainOK, mark
  <2>2. r \in Excess(Known)
    BY <1>1, <1>2, <1>3, <2>1, OlderIsExcess
  <2> QED BY <1>3, <2>2 DEF PastLimit, Ranked
<1>4. CASE policy # "rows"
  <2>1. policy \in {"age", "cron"} /\ mark[2] = 0 /\ mark[1] <= now - Age
    BY <1>1, <1>4 DEF DrainOK, mark
  <2>2. now - Age \in Int
    BY <1>1, RetentionConstants DEF TableOK
  <2>3. Cutoff = <<now - Age, 0>> /\ ~ Ranked
    BY <2>1 DEF Cutoff, Ranked
  <2> DEFINE cut == now - Age
  <2>4. r \in Below(Known, <<cut, 0>>)
    <3>1. cut \in Int /\ mark[1] <= cut
      BY <2>1, <2>2
    <3> HIDE DEF cut
    <3> QED BY <1>1, <1>2, <2>1, <3>1, OlderThanMark
  <2> QED BY <2>3, <2>4 DEF PastLimit
<1> QED BY <1>3, <1>4

LEMMA ListedExpired ==
  ASSUME RetentionInv, NEW w \in Worker, work[w].pc = "list", NEW r \in Listed(w)
  PROVE  r \in PastLimit(Known)
<1>1. TableOK /\ WorkOK /\ ListOK(w)
  BY DEF RetentionInv, PassOK
<1>2. r \in ToSet(Part(w)) /\ ToSet(Part(w)) \subseteq Doomed(w)
  BY PartFacts DEF Listed
<1>3. CASE policy = "tokens"
  <2> DEFINE mark == work[w].mark
  <2>1. r \in Below(Known, mark)
    BY <1>1, <1>3, KnownGrows DEF Listed
  <2>2. mark \in Int \X Int
    <3>1. work[w] \in WorkRow
      BY <1>1 DEF WorkOK
    <3> QED BY <3>1 DEF WorkRow
  <2>3. mark[2] = 0 /\ mark[1] <= now /\ now \in Int
    BY <1>1, <1>3, RetentionConstants DEF ListOK, TableOK
  <2> HIDE DEF mark
  <2>4. r \in Below(Known, <<now, 0>>)
    BY <1>1, <2>1, <2>2, <2>3, OlderThanMark
  <2> QED BY <1>3, <2>4 DEF PastLimit, Cutoff, Ranked
<1>4. CASE policy # "tokens"
  <2>1. due[w] \subseteq Excess(Known) /\ Doomed(w) \subseteq due[w] /\ policy \in {"bytes", "firings"}
    BY <1>1, <1>4 DEF ListOK
  <2> QED BY <1>2, <2>1 DEF PastLimit, Ranked
<1> QED BY <1>3, <1>4

LEMMA LeftRows ==
  ASSUME NEW R, NEW w, Leave(R, w)
  PROVE  DOMAIN rows' = DOMAIN rows \ R
BY DEF Leave, Restrict

\* Retention deletes only what is past its limit (worker.go: the cutoffs, the ranking
\* queries, and the comment on purgeRowCap about two workers at once).
THEOREM OnlyExpiredHolds == RetentionSpec => OnlyExpired
<1>1. ASSUME RetentionInv, [RetentionNext]_retentionVars
      PROVE  [ work' # work =>
                 \A r \in DOMAIN rows \ DOMAIN rows' : r \in PastLimit(Over(gone, rows)) ]_retentionVars
  <2> SUFFICES ASSUME work' # work, NEW r \in DOMAIN rows \ DOMAIN rows' PROVE r \in PastLimit(Known)
    BY DEF Known
  <2>1. CASE UNCHANGED retentionVars
    BY <2>1 DEF retentionVars
  <2>2. ASSUME NEW s \in Row, Insert(s) \/ FinishRun(s) \/ RemoveRow(s) PROVE FALSE
    BY <2>2 DEF Insert, FinishRun, RemoveRow
  <2>3. CASE Tick
    BY <2>3 DEF Tick
  <2>4. ASSUME NEW w \in Worker, BeginDrain(w) \/ BeginRowCap(w) \/ BeginList(w) \/ SelectBatch(w)
        PROVE  FALSE
    <3>1. rows' = rows
      BY <2>4 DEF BeginDrain, BeginRowCap, BeginList, BeginPass, SelectBatch
    <3> QED BY <3>1
  <2>5. ASSUME NEW w \in Worker, BudgetEnds(w) \/ ListDone(w) \/ PassFails(w) PROVE FALSE
    <3>1. Leave({}, w)
      BY <2>5 DEF BudgetEnds, ListDone, PassFails
    <3> QED BY <3>1, LeftRows
  <2>6. ASSUME NEW w \in Worker, DeleteBatch(w) PROVE r \in PastLimit(Known)
    <3>1. work[w].pc = "delete" /\ Leave(Doomed(w), w)
      BY <2>6 DEF DeleteBatch, Doomed
    <3>2. r \in Doomed(w)
      BY <3>1, LeftRows
    <3> QED BY <1>1, <3>1, <3>2, BatchExpired
  <2>7. ASSUME NEW w \in Worker, DeleteListed(w) PROVE r \in PastLimit(Known)
    <3>1. work[w].pc = "list" /\ Leave(Listed(w), w)
      BY <2>7 DEF DeleteListed, Listed, Part
    <3>2. r \in Listed(w)
      BY <3>1, LeftRows
    <3> QED BY <1>1, <3>1, <3>2, ListedExpired
  <2> QED BY <1>1, <2>1, <2>2, <2>3, <2>4, <2>5, <2>6, <2>7 DEF RetentionNext
<1> QED BY <1>1, RetentionInvHolds, PTL DEF RetentionSpec, OnlyExpired

\* A batch that came out short was the last.
LEMMA ShortBatchIsLast ==
  ASSUME RetentionInv, NEW w \in Worker, DeleteBatch(w), work'[w].pc = "caught up", ~ crossed[w]
  PROVE  due[w] \cap DOMAIN rows' = {}
<1> DEFINE k == Cardinality(Doomed(w) \cap DOMAIN rows)
<1>1. TableOK /\ WorkOK /\ work[w].pc = "delete" /\ Leave(Doomed(w), w)
  BY DEF DeleteBatch, RetentionInv, Doomed
<1>2. BatchOK(w)
  BY <1>1 DEF RetentionInv, PassOK
<1>3. Short(k, work[w].batch)
  <2> SUFFICES ASSUME ~ Short(k, work[w].batch) PROVE FALSE
    OBVIOUS
  <2>1. work' = [work EXCEPT ![w].pc = "drain", ![w].doomed = <<>>,
                             ![w].batch = 0, ![w].total = @ + k]
    BY DEF DeleteBatch, Doomed
  <2>2. work \in [Worker -> WorkRow]
    BY <1>1 DEF WorkOK
  <2> HIDE DEF k
  <2>3. work'[w].pc = "drain"
    BY <2>1, <2>2 DEF WorkRow
  <2> QED BY <2>3
<1>4. Lists(work[w].doomed, Doomed(w)) /\ Doomed(w) \subseteq DOMAIN rows
  BY <1>2 DEF BatchOK
<1>5. k = Len(work[w].doomed)
  <2>1. Doomed(w) \cap DOMAIN rows = Doomed(w)
    BY <1>4
  <2> QED BY <1>4, <2>1, ListLength
<1>6. due[w] \cap DOMAIN rows \subseteq Doomed(w)
  BY <1>2, <1>3, <1>5 DEF BatchOK, Short
<1> QED BY <1>1, <1>6, LeftRows

LEMMA BelowTheCut ==
  ASSUME NEW t \in Nat, NEW c \in Nat, MaxIDs \in Nat, t + 0 = AtMostIDs(c), ~ (t >= MaxIDs)
  PROVE  c <= MaxIDs
BY DEF AtMostIDs

\* A list that is done and was not cut off took everything.
LEMMA ListWasAll ==
  ASSUME RetentionInv, NEW w \in Worker, ListDone(w), work'[w].pc = "caught up", ~ crossed[w],
         policy = "tokens" => Cardinality(due[w]) <= MaxIDs
  PROVE  due[w] \cap DOMAIN rows' = {}
<1>1. TableOK /\ WorkOK /\ ListOK(w) /\ work[w].doomed = <<>> /\ Leave({}, w)
  BY DEF ListDone, RetentionInv, PassOK
<1>2. policy = "tokens" \/ ~ (work[w].total >= MaxIDs)
  <2> SUFFICES ASSUME policy # "tokens" /\ work[w].total >= MaxIDs PROVE FALSE
    OBVIOUS
  <2>1. work' = [work EXCEPT ![w] = Rest("behind")]
    BY DEF ListDone, EndPass
  <2>2. work'[w].pc = "behind"
    BY <1>1, <2>1 DEF WorkOK, Rest
  <2> QED BY <2>2
<1>3. Doomed(w) = {} /\ Len(work[w].doomed) = 0
  <2>1. Len(<<>>) = 0
    BY EmptySeq
  <2>2. ToSet(<<>>) = {}
    BY NoRows DEF ToSet
  <2> QED BY <1>1, <2>1, <2>2 DEF Doomed
<1>4. Cardinality(due[w]) <= MaxIDs
  <2>1. CASE policy = "tokens"
    BY <2>1
  <2>2. CASE policy # "tokens"
    <3>1. work[w].total + 0 = AtMostIDs(Cardinality(due[w])) /\ IsFiniteSet(due[w])
      BY <1>1, <1>3 DEF ListOK
    <3>2. Cardinality(due[w]) \in Nat /\ MaxIDs \in Nat
      BY <3>1, FS_CardinalityType, RetentionConstants
    <3>3. work[w].total \in Nat
      BY <1>1 DEF WorkOK, WorkRow
    <3> DEFINE c == Cardinality(due[w])
               t == work[w].total
    <3>4. t \in Nat /\ c \in Nat /\ MaxIDs \in Nat /\ t + 0 = AtMostIDs(c) /\ ~ (t >= MaxIDs)
      BY <1>2, <2>2, <3>1, <3>2, <3>3
    <3> HIDE DEF c, t
    <3>5. c <= MaxIDs
      BY <3>4, BelowTheCut
    <3> QED BY <3>5 DEF c
  <2> QED BY <2>1, <2>2
<1>5. due[w] \cap DOMAIN rows \subseteq Doomed(w)
  BY <1>1, <1>4 DEF ListOK
<1> QED BY <1>1, <1>3, <1>5, LeftRows

\* The pass of w comes to its end in one of two steps of its own.
LEMMA EndsCaughtUp ==
  ASSUME RetentionInv, [RetentionNext]_retentionVars, NEW w \in Worker,
         Working(w), work'[w].pc = "caught up"
  PROVE  DeleteBatch(w) \/ ListDone(w)
<1>1. work \in [Worker -> WorkRow] /\ work[w].pc \notin Resting
  BY DEF RetentionInv, WorkOK, Working
<1>2. work'[w] # work[w]
  BY <1>1 DEF Resting
<1>3. ASSUME work' = work PROVE FALSE
  BY <1>2, <1>3
<1>4. CASE UNCHANGED retentionVars
  BY <1>3, <1>4 DEF retentionVars
<1>5. ASSUME NEW s \in Row, Insert(s) \/ FinishRun(s) \/ RemoveRow(s) PROVE FALSE
  BY <1>3, <1>5 DEF Insert, FinishRun, RemoveRow
<1>6. CASE Tick
  BY <1>3, <1>6 DEF Tick
<1>7. ASSUME NEW v \in Worker, NEW n, work' = [work EXCEPT ![v] = n] PROVE v = w /\ n.pc = "caught up"
  <2>1. v = w
    BY <1>1, <1>2, <1>7
  <2> QED BY <1>1, <1>7, <2>1
<1>8. ASSUME NEW v \in Worker, BeginDrain(v) \/ BeginRowCap(v) \/ BeginList(v) PROVE FALSE
  <2>1. \E n : BeginPass(v, n)
    BY <1>8 DEF BeginDrain, BeginRowCap, BeginList
  <2>2. PICK n : work' = [work EXCEPT ![v] = n] /\ work[v].pc \in Resting
    BY <2>1 DEF BeginPass
  <2> QED BY <1>1, <1>7, <2>2
<1>9. ASSUME NEW v \in Worker, SelectBatch(v) PROVE FALSE
  <2>1. PICK batch \in 1 .. MaxBatch :
          work' = [work EXCEPT ![v].pc = "delete", ![v].batch = batch, ![v].doomed = Selected(v, batch)]
    BY <1>9 DEF SelectBatch
  <2> DEFINE n == [work[v] EXCEPT !.pc = "delete", !.batch = batch, !.doomed = Selected(v, batch)]
  <2>2. work' = [work EXCEPT ![v] = n]
    BY <1>1, <2>1 DEF WorkRow
  <2>3. n.pc = "delete"
    BY <1>1 DEF WorkRow
  <2> HIDE DEF n
  <2> QED BY <1>7, <2>2, <2>3
<1>10. ASSUME NEW v \in Worker, DeleteListed(v) PROVE FALSE
  <2>1. work[v].pc = "list" /\ work' = [work EXCEPT ![v].doomed = SubSeq(@, Len(Part(v)) + 1, Len(@)),
                               ![v].total = @ + Cardinality(Listed(v))]
    BY <1>10 DEF DeleteListed, Listed, Part
  <2> DEFINE n == [work[v] EXCEPT !.doomed = SubSeq(@, Len(Part(v)) + 1, Len(@)),
                                  !.total = @ + Cardinality(Listed(v))]
  <2>2. work' = [work EXCEPT ![v] = n]
    BY <1>1, <2>1 DEF WorkRow
  <2>3. n.pc = "list"
    BY <1>1, <2>1 DEF WorkRow
  <2> HIDE DEF n
  <2> QED BY <1>7, <2>2, <2>3
<1>11. ASSUME NEW v \in Worker, BudgetEnds(v) \/ PassFails(v) PROVE FALSE
  <2>1. \E said \in {"behind", "failed"} : EndPass(v, said)
    BY <1>11 DEF BudgetEnds, PassFails
  <2>2. PICK said \in {"behind", "failed"} : work' = [work EXCEPT ![v] = Rest(said)]
    BY <2>1 DEF EndPass
  <2>3. Rest(said).pc = "caught up"
    BY <1>7, <2>2
  <2> QED BY <2>3 DEF Rest
<1>12. ASSUME NEW v \in Worker, ListDone(v) PROVE v = w
  <2>1. \E said \in {"behind", "caught up"} : EndPass(v, said)
    BY <1>12 DEF ListDone
  <2> QED BY <1>7, <2>1 DEF EndPass
<1>13. ASSUME NEW v \in Worker, DeleteBatch(v) PROVE v = w
  <2> SUFFICES ASSUME v # w PROVE FALSE
    OBVIOUS
  <2>1. \/ EndPass(v, "caught up")
        \/ \E k : work' = [work EXCEPT ![v].pc = "drain", ![v].doomed = <<>>,
                                      ![v].batch = 0, ![v].total = @ + k]
    BY <1>13 DEF DeleteBatch
  <2>2. work'[w] = work[w]
    BY <1>1, <2>1 DEF EndPass
  <2> QED BY <1>2, <2>2
<1> QED BY <1>4, <1>5, <1>6, <1>8, <1>9, <1>10, <1>11, <1>12, <1>13 DEF RetentionNext

\* A pass that reports to have caught up leaves nothing of what was past the limit when
\* it began (worker.go: the loops that end with a short batch, and maxIDsPerPass).
THEOREM CaughtUpHolds == RetentionSpec => CaughtUp
<1>1. ASSUME RetentionInv, [RetentionNext]_retentionVars
      PROVE  [ \A w \in Worker :
                 /\ Working(w) /\ work'[w].pc = "caught up" /\ ~ crossed[w]
                 /\ policy = "tokens" => Cardinality(due[w]) <= MaxIDs
                 => due[w] \cap DOMAIN rows' = {} ]_retentionVars
  <2> SUFFICES ASSUME NEW w \in Worker,
                      Working(w), work'[w].pc = "caught up", ~ crossed[w],
                      policy = "tokens" => Cardinality(due[w]) <= MaxIDs
               PROVE  due[w] \cap DOMAIN rows' = {}
    OBVIOUS
  <2>1. DeleteBatch(w) \/ ListDone(w)
    BY <1>1, EndsCaughtUp
  <2> QED BY <1>1, <2>1, ShortBatchIsLast, ListWasAll
<1> QED BY <1>1, RetentionInvHolds, PTL DEF RetentionSpec, CaughtUp
=============================================================================
