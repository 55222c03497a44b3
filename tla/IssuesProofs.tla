---------------------------- MODULE IssuesProofs ----------------------------
(***************************************************************************)
(* The issue tables keep together, for every number of events, groupers,   *)
(* fingerprints and issues: an event stays with its fingerprint and is     *)
(* never ungrouped, and the row of an issue counts its events, however     *)
(* grouping, purges, merges, unmerges and the detector interleave.         *)
(*                                                                         *)
(* The invariant says of each transaction under way what its locks keep    *)
(* true until it commits: that is what the writes at its commit rely on.   *)
(*                                                                         *)
(* Then what is computed for an event from data of any length: where its   *)
(* frames are in the source (Positions) and which problem it is about      *)
(* (Fingerprints).  The definitions of it are recursive, over a number, a  *)
(* list or what is left to search.  For each it is shown that a function   *)
(* that meets its equation exists (Recursion), then what that function is  *)
(* at every argument.                                                      *)
(***************************************************************************)
EXTENDS Issues, Positions, Fingerprints, FiniteSetTheorems, FunctionTheorems, SequenceTheorems,
        WellFoundedInduction, TLAPS

\* A grouped event is stored, and its fingerprint belongs to its issue.
Links ==
  \A e \in Event :
    issueOf[e] # None => e \in events /\ fpOf[e] \in Fp /\ fps[fpOf[e]] = issueOf[e]

\* What a GroupEvent transaction knows: its event waits for it; the issue it has
\* found holds the fingerprint unless a purge has deleted it; and once it has
\* written, nobody else touches that issue or inserts that fingerprint.
TxFits(t) ==
  /\ t.pc # "idle" => t.ev \in events \ purge /\ issueOf[t.ev] = None /\ t.fp \in Fp
  /\ t.pc \in {"upsert", "commit"} /\ t.target # None =>
       t.target < nextId /\ (t.target \in Live => fps[t.fp] = t.target)
  /\ t.pc = "commit" => IF t.target = None THEN fps[t.fp] = None ELSE t.target \in Live

Transactions ==
  /\ \A g \in Grouper : TxFits(tx[g])
  /\ n1.pc # "idle" => n1.fp \in Fp

\* Two groupers have neither the same event nor the same new fingerprint.
Apart ==
  \A g, h \in Grouper : g # h =>
    /\ tx[g].pc # "idle" /\ tx[h].pc # "idle" => tx[g].ev # tx[h].ev
    /\ tx[g].pc = "commit" /\ tx[g].target = None /\ tx[h].pc = "commit" /\ tx[h].target = None
         => tx[g].fp # tx[h].fp

\* The elements of E that belong to an owner in S.
OwnedBy(E, owner, S) == {e \in E : owner[e] \in S}

\* A merge under way is alone with its issues, and its total is still what the
\* events of the merged issues demand.
MergeWaits ==
  merge.pc = "delete" =>
    /\ purge = {} /\ \A g \in Grouper : tx[g].pc = "idle"
    /\ merge.primary \in Live /\ merge.others \subseteq Live \ {merge.primary}
    /\ merge.total >= Cardinality(OwnedBy(events, issueOf, merge.others))
    /\ merge.others \cap counted = {} =>
         merge.total = Cardinality(OwnedBy(events, issueOf, merge.others))

IssuesInv == TypeOK /\ Links /\ Transactions /\ Apart /\ MergeWaits /\ IssueRowSound
-----------------------------------------------------------------------------
(* Sums.  SumFunctionOnSet is recursive over finite sets: that its defining *)
(* equation has a solution, and what the sum is, go by least counterexample. *)

\* A set of numbers that is not empty has a least element.
LEMMA LeastNatural ==
  ASSUME NEW T \in SUBSET Nat, T # {}
  PROVE  \E m \in T : \A n \in T : m <= n
<1>1. PICK m \in T : \A n \in T : ~ (<<n, m>> \in OpToRel(<, Nat))
  BY NatLessThanWellFounded, WFMin
<1>2. \A n \in T : ~ (n < m)
  BY <1>1 DEF OpToRel
<1> QED BY <1>2

\* What SumFunctionOnSet does with one set, given the sums of the smaller ones.
SomeOf(s) == CHOOSE x \in s : TRUE
SumStep(c, g, s) == IF s = {} THEN 0 ELSE c[SomeOf(s)] + g[s \ {SomeOf(s)}]
SumsOf(c, S) == CHOOSE g : g = [s \in SUBSET S |-> SumStep(c, g, s)]

\* The recursive definition of the sum has a solution: tables that are right for
\* the sets of up to n elements exist for every n.
LEMMA SumsExist ==
  ASSUME NEW c, NEW S, IsFiniteSet(S)
  PROVE  /\ SumFunctionOnSet(c, S) = SumsOf(c, S)[S]
         /\ \A s \in SUBSET S : SumsOf(c, S)[s] = SumStep(c, SumsOf(c, S), s)
<1> DEFINE Right(g, n) ==
             /\ g = [s \in SUBSET S |-> g[s]]
             /\ \A s \in SUBSET S : Cardinality(s) <= n => g[s] = SumStep(c, g, s)
           Bad == {n \in Nat : ~ \E g : Right(g, n)}
<1>1. \A s \in SUBSET S : IsFiniteSet(s) /\ Cardinality(s) \in Nat
                          /\ Cardinality(s) <= Cardinality(S)
  BY FS_Subset, FS_CardinalityType
<1>2. Bad = {}
  <2> SUFFICES ASSUME Bad # {} PROVE FALSE
    OBVIOUS
  <2>1. PICK m \in Bad : \A n \in Bad : m <= n
    <3>1. Bad \in SUBSET Nat
      OBVIOUS
    <3> HIDE DEF Bad
    <3> QED BY <3>1, LeastNatural
  <2>2. CASE m = 0
    <3> DEFINE g == [s \in SUBSET S |-> 0]
    <3>1. ASSUME NEW s \in SUBSET S, Cardinality(s) <= 0 PROVE g[s] = SumStep(c, g, s)
      <4>1. s = {}
        BY <1>1, <3>1, FS_EmptySet
      <4> QED BY <4>1 DEF SumStep
    <3>2. g = [s \in SUBSET S |-> g[s]]
      OBVIOUS
    <3> HIDE DEF g
    <3>3. Right(g, m)
      BY <2>2, <3>1, <3>2
    <3> QED BY <3>3
  <2>3. CASE m # 0
    <3>1. m \in Nat /\ m - 1 \in Nat /\ ~(m <= m - 1)
      BY <2>3
    <3>2. m - 1 \notin Bad
      BY <2>1, <3>1
    <3>3. PICK h : Right(h, m - 1)
      BY <3>1, <3>2
    <3> DEFINE g == [s \in SUBSET S |-> SumStep(c, h, s)]
    <3>4. ASSUME NEW s \in SUBSET S, Cardinality(s) <= m PROVE g[s] = SumStep(c, g, s)
      <4>1. CASE s = {}
        BY <4>1 DEF SumStep
      <4>2. CASE s # {}
        <5> DEFINE t == s \ {SomeOf(s)}
        <5>1. SomeOf(s) \in s
          BY <4>2 DEF SomeOf
        <5>2. t \in SUBSET S /\ Cardinality(t) <= m - 1
          BY <1>1, <3>1, <3>4, <5>1, FS_RemoveElement
        <5>3. g[t] = SumStep(c, h, t) /\ h[t] = SumStep(c, h, t)
          BY <3>3, <5>2
        <5> QED BY <4>2, <5>3 DEF SumStep
      <4> QED BY <4>1, <4>2
    <3>5. g = [s \in SUBSET S |-> g[s]]
      OBVIOUS
    <3> HIDE DEF g
    <3>6. Right(g, m)
      BY <3>4, <3>5
    <3> QED BY <3>6
  <2> QED BY <2>2, <2>3
<1>3. PICK g : Right(g, Cardinality(S))
  BY <1>1, <1>2
<1>4. \A s \in SUBSET S : g[s] = SumStep(c, g, s)
  BY <1>1, <1>3
<1>5. g = [s \in SUBSET S |-> SumStep(c, g, s)]
  BY <1>3, <1>4
<1>6. SumsOf(c, S) = [s \in SUBSET S |-> SumStep(c, SumsOf(c, S), s)]
  BY <1>5 DEF SumsOf
<1>7. SumFunctionOnSet(c, S) = SumsOf(c, S)[S]
  BY DEF SumFunctionOnSet, FoldFunctionOnSet, MapThenFoldSet, SumsOf, SumStep, SomeOf
<1> QED BY <1>6, <1>7

\* The sum of numbers that bound what each owner has bounds what they have
\* together, and is exact when the numbers are.
LEMMA SumCovers ==
  ASSUME NEW c, NEW S, IsFiniteSet(S), NEW E, IsFiniteSet(E), NEW owner,
         \A i \in S : c[i] \in Nat /\ c[i] >= Cardinality(OwnedBy(E, owner, {i}))
  PROVE  /\ SumFunctionOnSet(c, S) \in Nat
         /\ SumFunctionOnSet(c, S) >= Cardinality(OwnedBy(E, owner, S))
         /\ (\A i \in S : c[i] = Cardinality(OwnedBy(E, owner, {i}))) =>
              SumFunctionOnSet(c, S) = Cardinality(OwnedBy(E, owner, S))
<1> DEFINE g == SumsOf(c, S)
           Exact == \A i \in S : c[i] = Cardinality(OwnedBy(E, owner, {i}))
           Covers(s) == /\ g[s] \in Nat
                        /\ g[s] >= Cardinality(OwnedBy(E, owner, s))
                        /\ Exact => g[s] = Cardinality(OwnedBy(E, owner, s))
           Bad == {n \in Nat : \E s \in SUBSET S : Cardinality(s) = n /\ ~Covers(s)}
<1>1. \A s \in SUBSET S : IsFiniteSet(s) /\ Cardinality(s) \in Nat
  BY FS_Subset, FS_CardinalityType
<1>2. \A s : IsFiniteSet(OwnedBy(E, owner, s)) /\ Cardinality(OwnedBy(E, owner, s)) \in Nat
  <2> TAKE s
  <2>1. OwnedBy(E, owner, s) \subseteq E
    BY DEF OwnedBy
  <2> QED BY <2>1, FS_Subset, FS_CardinalityType
<1>3. \A s \in SUBSET S : g[s] = SumStep(c, g, s)
  BY SumsExist
<1>4. Bad = {}
  <2> SUFFICES ASSUME Bad # {} PROVE FALSE
    OBVIOUS
  <2>1. PICK m \in Bad : \A n \in Bad : m <= n
    <3>1. Bad \in SUBSET Nat
      OBVIOUS
    <3> HIDE DEF Bad
    <3> QED BY <3>1, LeastNatural
  <2>2. PICK s \in SUBSET S : Cardinality(s) = m /\ ~Covers(s)
    BY <2>1
  <2> HIDE DEF g, Bad
  <2>3. CASE s = {}
    <3>1. g[s] = 0
      BY <1>3, <2>3 DEF SumStep
    <3>2. OwnedBy(E, owner, s) = {}
      BY <2>3 DEF OwnedBy
    <3>3. Covers(s)
      BY <3>1, <3>2, FS_EmptySet
    <3> QED BY <2>2, <3>3
  <2>4. CASE s # {}
    <3> DEFINE i == SomeOf(s)
               t == s \ {i}
               P == OwnedBy(E, owner, {i})
               Q == OwnedBy(E, owner, t)
    <3>1. i \in s /\ i \in S
      BY <2>4 DEF SomeOf
    <3>2. t \in SUBSET S /\ Cardinality(t) = m - 1 /\ Cardinality(t) \in Nat
      BY <1>1, <2>2, <3>1, FS_RemoveElement
    <3>3. Covers(t)
      <4>1. m - 1 \notin Bad
        <5>1. ~(m <= m - 1)
          BY <2>1 DEF Bad
        <5> QED BY <2>1, <5>1
      <4>2. m - 1 \in Nat
        BY <3>2
      <4> QED BY <3>2, <4>1, <4>2 DEF Bad
    <3>4. g[s] = c[i] + g[t]
      BY <1>3, <2>4 DEF SumStep
    <3>5. OwnedBy(E, owner, s) = P \cup Q /\ P \cap Q = {}
      BY <3>1 DEF OwnedBy
    <3>6. Cardinality(OwnedBy(E, owner, s)) = Cardinality(P) + Cardinality(Q)
      <4> HIDE DEF P, Q
      <4>1. IsFiniteSet(P) /\ IsFiniteSet(Q) /\ Cardinality(P) \in Nat /\ Cardinality(Q) \in Nat
        BY <1>2 DEF P, Q
      <4>2. Cardinality(P \cup Q) = Cardinality(P) + Cardinality(Q) - Cardinality(P \cap Q)
        BY <4>1, FS_Union
      <4> QED BY <3>5, <4>1, <4>2, FS_EmptySet
    <3>7. Cardinality(P) \in Nat /\ Cardinality(Q) \in Nat
      BY <1>2
    <3>8. c[i] \in Nat /\ c[i] >= Cardinality(P) /\ (Exact => c[i] = Cardinality(P))
      BY <3>1
    <3> HIDE DEF i, t, Exact
    <3>9. Covers(s)
      BY <3>3, <3>4, <3>6, <3>7, <3>8
    <3> QED BY <2>2, <3>9
  <2> QED BY <2>3, <2>4
<1>5. Covers(S)
  BY <1>1, <1>4
<1> QED BY <1>5, SumsExist
-----------------------------------------------------------------------------
(* The parts of the state. *)

TxTypes ==
  /\ tx \in [Grouper -> Transaction] /\ n1 \in Transaction /\ n1Count \in 0 .. MaxN1
  /\ purge \subseteq events
  /\ merge \in [pc : {"idle", "delete"}, primary : IssueId \cup {None},
                others : SUBSET IssueId, total : Nat]

DataTypes ==
  /\ events \subseteq Event /\ nextId \in 1 .. (MaxIssues + 1)
  /\ Live \subseteq 1 .. (nextId - 1) /\ \A i \in Live : issues[i] \in IssueRow
  /\ issueOf \in [Event -> Live \cup {None}] /\ fpOf \in [Event -> Fp \cup {None}]
  /\ fps \in [Fp -> Live \cup {None}] /\ counted \subseteq IssueId

\* The snooze settings of one row.
RowSnooze(r) ==
  /\ r.status # "ignored" => r.until = None /\ r.limit = None
  /\ r.status = "ignored" /\ r.limit # None => r.ignored = 0 \/ r.ignored < r.limit
  /\ r.snoozeEnded => r.status = "open"

\* The types and the properties, part by part.
LEMMA Parts ==
  /\ TypeOK <=> TxTypes /\ DataTypes
  /\ SnoozeWellFormed <=> \A i \in Live : RowSnooze(issues[i])
BY DEF TypeOK, TxTypes, DataTypes, SnoozeWellFormed, RowSnooze

\* The same, of the next state.
LEMMA PartsNext ==
  /\ TypeOK' <=> TxTypes' /\ DataTypes'
  /\ SnoozeWellFormed' <=> \A i \in Live' : RowSnooze(issues'[i])
BY DEF TypeOK, TxTypes, DataTypes, SnoozeWellFormed, RowSnooze

\* Ids are numbers, None is not.
LEMMA Ids ==
  ASSUME DataTypes
  PROVE  /\ MaxIssues \in Nat /\ nextId \in Nat /\ nextId \notin Live /\ None \notin Live
         /\ \A i \in Live : i \in Nat /\ i < nextId /\ i \in IssueId /\ i # nextId
         /\ None \notin IssueId
<1>1. MaxIssues \in Nat /\ None \notin Nat
  BY IssuesAssumption
<1>2. nextId \in Nat /\ nextId <= MaxIssues + 1
  BY <1>1 DEF DataTypes
<1>3. \A i \in Live : i \in Nat /\ i >= 1 /\ i < nextId
  BY <1>2 DEF DataTypes
<1> QED BY <1>1, <1>2, <1>3 DEF IssueId

\* The events are finite, and so is every part of them.
LEMMA EventsFinite ==
  ASSUME DataTypes
  PROVE  /\ IsFiniteSet(events)
         /\ \A D \in SUBSET events : IsFiniteSet(D) /\ Cardinality(D) \in Nat
         /\ \A I : /\ OwnedBy(events, issueOf, I) \subseteq events
                   /\ Cardinality(OwnedBy(events, issueOf, I)) \in Nat
         /\ \A i : EventsOf(i) = OwnedBy(events, issueOf, {i}) /\ EventsOf(i) \subseteq events
                   /\ Cardinality(EventsOf(i)) \in Nat
<1>1. IsFiniteSet(events)
  BY IssuesAssumption, FS_Subset DEF DataTypes
<1>2. \A D \in SUBSET events : IsFiniteSet(D) /\ Cardinality(D) \in Nat
  BY <1>1, FS_Subset, FS_CardinalityType
<1>3. /\ \A I : OwnedBy(events, issueOf, I) \subseteq events
      /\ \A i : EventsOf(i) = OwnedBy(events, issueOf, {i}) /\ EventsOf(i) \subseteq events
  BY DEF OwnedBy, EventsOf
<1> QED BY <1>1, <1>2, <1>3

\* What the invariant says before the step, in the form the proofs use.
LEMMA Now ==
  ASSUME IssuesInv
  PROVE  /\ TxTypes /\ DataTypes /\ Links /\ Transactions /\ Apart /\ MergeWaits
         /\ \A i \in Live : /\ issues[i] \in IssueRow /\ RowSnooze(issues[i])
                            /\ issues[i].count >= Cardinality(EventsOf(i))
                            /\ i \notin counted => issues[i].count = Cardinality(EventsOf(i))
BY Parts DEF IssuesInv, IssueRowSound, CountMatchesEvents, DataTypes

\* A step of a transaction that writes nothing others can see.
LEMMA Quiet ==
  ASSUME IssuesInv, UNCHANGED data, TxTypes', Transactions', Apart', MergeWaits'
  PROVE  IssuesInv'
<1>1. DataTypes /\ Links /\ CountMatchesEvents /\ SnoozeWellFormed
  BY Parts DEF IssuesInv, IssueRowSound
<1>2. DataTypes'
  BY <1>1 DEF DataTypes, data, Live
<1>3. Links'
  BY <1>1 DEF Links, data
<1>4. CountMatchesEvents'
  BY <1>1 DEF CountMatchesEvents, EventsOf, data, Live
<1>5. SnoozeWellFormed'
  BY <1>1 DEF SnoozeWellFormed, data, Live
<1> QED BY <1>2, <1>3, <1>4, <1>5, PartsNext DEF IssuesInv, IssueRowSound
-----------------------------------------------------------------------------
(* The transactions before they commit. *)

\* The steps of a grouper up to its commit.
LEMMA GroupingKeeps ==
  ASSUME IssuesInv, NEW g \in Grouper,
         (\E e \in Event : GroupBegin(g, e)) \/ GroupLookup(g) \/ GroupUpsert(g) \/ GroupAbort(g)
  PROVE  IssuesInv'
<1>1. /\ TxTypes /\ DataTypes /\ Transactions /\ Apart /\ MergeWaits
      /\ tx[g] \in Transaction /\ TxFits(tx[g])
  BY Now DEF TxTypes, Transactions
<1> SUFFICES ASSUME NEW t \in Transaction, tx' = [tx EXCEPT ![g] = t],
                    UNCHANGED <<data, n1, n1Count, purge, merge>>,
                    merge.pc = "delete" => t.pc = "idle",
                    TxFits(t),
                    t.pc # "idle" => \A h \in Grouper : h # g /\ tx[h].pc # "idle" => tx[h].ev # t.ev,
                    t.pc = "commit" /\ t.target = None =>
                      \A h \in Grouper : h # g /\ tx[h].pc = "commit" /\ tx[h].target = None
                                           => tx[h].fp # t.fp
             PROVE  IssuesInv'
  <2> DEFINE Fits(t) ==
        /\ t \in Transaction /\ tx' = [tx EXCEPT ![g] = t]
        /\ merge.pc = "delete" => t.pc = "idle"
        /\ TxFits(t)
        /\ t.pc # "idle" => \A h \in Grouper : h # g /\ tx[h].pc # "idle" => tx[h].ev # t.ev
        /\ t.pc = "commit" /\ t.target = None =>
             \A h \in Grouper : h # g /\ tx[h].pc = "commit" /\ tx[h].target = None
                                  => tx[h].fp # t.fp
  <2>1. UNCHANGED <<data, n1, n1Count, purge, merge>>
    BY DEF GroupBegin, GroupLookup, GroupUpsert, GroupAbort
  <2>2. tx[g].pc # "idle" => merge.pc # "delete"
    BY <1>1 DEF MergeWaits
  <2>3. Idle \in Transaction /\ TxFits(Idle) /\ Idle.pc = "idle"
    BY DEF Idle, Transaction, TxFits
  <2>4. CASE \E e \in Event : GroupBegin(g, e)
    <3>1. PICK e \in Event : GroupBegin(g, e)
      BY <2>4
    <3>2. PICK f \in Fp : tx' = [tx EXCEPT ![g] = [Idle EXCEPT !.pc = "lookup", !.ev = e, !.fp = f]]
      BY <3>1, IssuesAssumption DEF GroupBegin
    <3> DEFINE t == [Idle EXCEPT !.pc = "lookup", !.ev = e, !.fp = f]
    <3>3. t \in Transaction /\ t.pc = "lookup" /\ t.ev = e /\ t.fp = f
      BY DEF Idle, Transaction
    <3>4. /\ merge.pc # "delete" /\ e \in events \ purge /\ issueOf[e] = None
          /\ \A h \in Grouper : tx[h].ev # e
      BY <3>1 DEF GroupBegin, MembershipExclusive, EventLocked
    <3> HIDE DEF t
    <3>5. TxFits(t)
      BY <3>3, <3>4 DEF TxFits
    <3>6. tx' = [tx EXCEPT ![g] = t]
      BY <3>2 DEF t
    <3>7. Fits(t)
      BY <3>3, <3>4, <3>5, <3>6
    <3> QED BY <2>1, <3>7
  <2>5. CASE GroupLookup(g)
    <3> DEFINE t == [tx[g] EXCEPT !.pc = "upsert", !.target = fps[tx[g].fp]]
    <3>1. tx[g].pc = "lookup" /\ tx' = [tx EXCEPT ![g] = t]
      BY <1>1, <2>5 DEF GroupLookup, TxTypes
    <3>2. tx[g].fp \in Fp /\ fps[tx[g].fp] \in Live \cup {None}
      BY <1>1, <3>1 DEF TxFits, DataTypes
    <3>3. /\ t \in Transaction /\ t.pc = "upsert" /\ t.ev = tx[g].ev /\ t.fp = tx[g].fp
          /\ t.target = fps[tx[g].fp]
      BY <1>1, <3>2, Ids DEF Transaction
    <3> HIDE DEF t
    <3>4. TxFits(t)
      BY <1>1, <3>1, <3>2, <3>3, Ids DEF TxFits
    <3>5. Fits(t)
      BY <1>1, <2>2, <3>1, <3>3, <3>4 DEF Apart
    <3> QED BY <2>1, <3>5
  <2>6. CASE GroupUpsert(g)
    <3>1. tx[g].pc = "upsert"
      BY <2>6 DEF GroupUpsert
    <3>2. CASE (Updates(tx[g]) \/ Inserts(tx[g])) /\ tx' = [tx EXCEPT ![g].pc = "commit"]
      <4> DEFINE t == [tx[g] EXCEPT !.pc = "commit"]
      <4>1. tx' = [tx EXCEPT ![g] = t]
        BY <1>1, <3>2 DEF TxTypes
      <4>2. /\ t \in Transaction /\ t.pc = "commit" /\ t.ev = tx[g].ev /\ t.fp = tx[g].fp
            /\ t.target = tx[g].target
        BY <1>1 DEF Transaction
      <4> HIDE DEF t
      <4>3. TxFits(t)
        BY <1>1, <3>1, <3>2, <4>2 DEF TxFits, Updates, Inserts
      <4>4. t.target = None =>
              \A h \in Grouper : tx[h].pc = "commit" /\ tx[h].target = None => tx[h].fp # t.fp
        BY <3>2, <4>2 DEF Updates, Inserts, FpLocked
      <4>5. \A h \in Grouper : h # g /\ tx[h].pc # "idle" => tx[h].ev # t.ev
        BY <1>1, <3>1, <4>2 DEF Apart
      <4>6. merge.pc # "delete"
        BY <2>2, <3>1
      <4>7. Fits(t)
        BY <4>1, <4>2, <4>3, <4>4, <4>5, <4>6
      <4> QED BY <2>1, <4>7
    <3>3. CASE Conflicts(tx[g]) /\ tx' = [tx EXCEPT ![g] = Retried(tx[g])]
      <4>1. CASE tx[g].tries = 0
        <5> DEFINE t == [tx[g] EXCEPT !.pc = "lookup", !.tries = 1]
        <5>1. tx' = [tx EXCEPT ![g] = t]
          BY <3>3, <4>1 DEF Retried
        <5>2. /\ t \in Transaction /\ t.pc = "lookup" /\ t.ev = tx[g].ev /\ t.fp = tx[g].fp
              /\ t.target = tx[g].target
          BY <1>1 DEF Transaction
        <5> HIDE DEF t
        <5>3. TxFits(t)
          BY <1>1, <3>1, <5>2 DEF TxFits
        <5>4. Fits(t)
          BY <1>1, <2>2, <3>1, <5>1, <5>2, <5>3 DEF Apart
        <5> QED BY <2>1, <5>4
      <4>2. CASE tx[g].tries # 0
        <5>1. Fits(Idle)
          BY <2>3, <3>3, <4>2 DEF Retried
        <5> QED BY <2>1, <5>1
      <4> QED BY <4>1, <4>2
    <3>4. CASE RowGone(tx[g]) /\ tx' = [tx EXCEPT ![g] = Idle]
      <4>1. Fits(Idle)
        BY <2>3, <3>4
      <4> QED BY <2>1, <4>1
    <3> QED BY <2>6, <3>2, <3>3, <3>4 DEF GroupUpsert
  <2>7. CASE GroupAbort(g)
    <3>1. Fits(Idle)
      BY <2>3, <2>7 DEF GroupAbort
    <3> QED BY <2>1, <3>1
  <2> QED BY <2>4, <2>5, <2>6, <2>7
<1>2. tx'[g] = t /\ \A h \in Grouper : h # g => tx'[h] = tx[h]
  BY <1>1 DEF TxTypes
<1>3. TxTypes'
  BY <1>1 DEF TxTypes, data
<1>4. \A q \in Transaction : TxFits(q) => TxFits(q)'
  BY DEF TxFits, data, Live
<1>5. Transactions'
  <2>1. ASSUME NEW h \in Grouper PROVE TxFits(tx[h])'
    BY <1>1, <1>2 DEF TxFits, data, Live, Transactions
  <2> QED BY <1>1, <2>1 DEF Transactions
<1>6. Apart'
  BY <1>1, <1>2 DEF Apart
<1>7. MergeWaits'
  BY <1>1, <1>2 DEF MergeWaits, data, Live
<1> QED BY <1>3, <1>5, <1>6, <1>7, Quiet

\* The detector before it writes.
LEMMA DetectorKeeps ==
  ASSUME IssuesInv, UNCHANGED <<data, tx, purge, merge>>,
         n1Count' \in 0 .. MaxN1, n1' \in Transaction, n1'.pc # "idle" => n1'.fp \in Fp
  PROVE  IssuesInv'
<1>1. TxTypes /\ Transactions /\ Apart /\ MergeWaits
  BY Now
<1>2. TxTypes'
  BY <1>1 DEF TxTypes, data
<1>3. Transactions'
  BY <1>1 DEF Transactions, TxFits, data, Live
<1>4. Apart' /\ MergeWaits'
  BY <1>1 DEF Apart, MergeWaits, data, Live
<1> QED BY <1>2, <1>3, <1>4, Quiet

\* The detector's next statement, when it does not write.
LEMMA DetectorReads ==
  ASSUME IssuesInv, (\E f \in N1Fp : N1Detect(f)) \/ N1Lookup
  PROVE  IssuesInv'
<1>1. /\ n1 \in Transaction /\ n1Count \in 0 .. MaxN1 /\ (n1.pc # "idle" => n1.fp \in Fp)
      /\ DataTypes
  BY Now DEF TxTypes, Transactions
<1>2. CASE \E f \in N1Fp : N1Detect(f)
  <2>1. PICK f \in N1Fp : N1Detect(f)
    BY <1>2
  <2>2. f \in Fp /\ n1' = [Idle EXCEPT !.pc = "lookup", !.fp = f]
    BY <2>1, IssuesAssumption DEF N1Detect
  <2>3. n1' \in Transaction /\ n1'.fp = f
    BY <2>2 DEF Idle, Transaction
  <2>4. /\ n1Count < MaxN1 /\ n1Count' = n1Count + 1
        /\ UNCHANGED <<data, tx, purge, merge>>
    BY <2>1 DEF N1Detect
  <2>5. n1Count' \in 0 .. MaxN1
    BY <1>1, <2>4, IssuesAssumption
  <2> QED BY <2>2, <2>3, <2>4, <2>5, DetectorKeeps
<1>3. CASE N1Lookup
  <2>1. /\ n1.pc = "lookup" /\ n1' = [n1 EXCEPT !.pc = "upsert", !.target = fps[n1.fp]]
        /\ UNCHANGED <<data, tx, n1Count, purge, merge>>
    BY <1>3 DEF N1Lookup
  <2>2. fps[n1.fp] \in IssueId \cup {None}
    BY <1>1, <2>1, Ids DEF DataTypes
  <2>3. n1' \in Transaction /\ n1'.fp = n1.fp
    BY <1>1, <2>1, <2>2 DEF Transaction
  <2> QED BY <1>1, <2>1, <2>3, DetectorKeeps
<1> QED BY <1>2, <1>3

\* The deletes of a purge, and its rollback.
LEMMA PurgeBegins ==
  ASSUME IssuesInv, (\E D \in SUBSET events : PurgeDelete(D)) \/ PurgeAbort
  PROVE  IssuesInv'
<1>1. TxTypes /\ Transactions /\ Apart /\ MergeWaits
  BY Now
<1>2. /\ UNCHANGED <<data, tx, n1, n1Count, merge>> /\ purge' \subseteq events
      /\ \A g \in Grouper : tx[g].ev \notin purge'
      /\ merge.pc = "delete" => purge' = {}
  BY <1>1 DEF PurgeDelete, PurgeAbort, EventLocked, MembershipExclusive
<1>3. TxTypes'
  BY <1>1, <1>2 DEF TxTypes, data
<1>4. Transactions'
  BY <1>1, <1>2 DEF Transactions, TxFits, data, Live
<1>5. Apart'
  BY <1>1, <1>2 DEF Apart
<1>6. MergeWaits'
  BY <1>1, <1>2 DEF MergeWaits, data, Live
<1> QED BY <1>2, <1>3, <1>4, <1>5, <1>6, Quiet

\* The aggregation of a merge, and its rollback: what the issues count together
\* covers their events.
LEMMA MergeBegins ==
  ASSUME IssuesInv,
         \/ \E p \in Live : \E M \in SUBSET (Live \ {p}) : MergeAggregate(p, M)
         \/ MergeAbort
  PROVE  IssuesInv'
<1>1. /\ TxTypes /\ DataTypes /\ Transactions /\ Apart /\ MergeWaits
  BY Now
<1>2. ASSUME UNCHANGED <<data, tx, n1, n1Count, purge>>, MergeWaits',
             merge' \in [pc : {"idle", "delete"}, primary : IssueId \cup {None},
                         others : SUBSET IssueId, total : Nat]
      PROVE  IssuesInv'
  <2>1. TxTypes'
    BY <1>1, <1>2 DEF TxTypes, data
  <2>2. Transactions' /\ Apart'
    BY <1>1, <1>2 DEF Transactions, TxFits, Apart, data, Live
  <2> QED BY <1>2, <2>1, <2>2, Quiet
<1>3. CASE \E p \in Live : \E M \in SUBSET (Live \ {p}) : MergeAggregate(p, M)
  <2>0. PICK p \in Live : \E M \in SUBSET (Live \ {p}) : MergeAggregate(p, M)
    BY <1>3
  <2>1. PICK M \in SUBSET (Live \ {p}) : MergeAggregate(p, M)
    BY <2>0
  <2> DEFINE c == [i \in Live |-> issues[i].count]
             total == SumFunctionOnSet(c, M)
  <2>2. /\ \A g \in Grouper : tx[g].pc = "idle"
        /\ purge = {}
        /\ merge' = [pc |-> "delete", primary |-> p, others |-> M, total |-> total]
        /\ UNCHANGED <<data, tx, n1, n1Count, purge>>
    BY <2>1 DEF MergeAggregate, MembershipHeld
  <2>3. IsFiniteSet(M)
    <3>1. M \subseteq 1 .. (nextId - 1) /\ nextId \in Int
      BY <1>1, Ids DEF DataTypes
    <3>2. IsFiniteSet(1 .. (nextId - 1))
      BY <3>1, FS_Interval
    <3> QED BY <3>1, <3>2, FS_Subset
  <2>4. \A i \in M : /\ c[i] \in Nat /\ c[i] >= Cardinality(OwnedBy(events, issueOf, {i}))
                     /\ i \notin counted => c[i] = Cardinality(OwnedBy(events, issueOf, {i}))
    BY <1>1, EventsFinite, Now DEF IssueRow
  <2> HIDE DEF c
  <2>5. /\ total \in Nat /\ total >= Cardinality(OwnedBy(events, issueOf, M))
        /\ M \cap counted = {} => total = Cardinality(OwnedBy(events, issueOf, M))
    <3>1. IsFiniteSet(events)
      BY <1>1, EventsFinite
    <3>2. \A i \in M : c[i] \in Nat /\ c[i] >= Cardinality(OwnedBy(events, issueOf, {i}))
      BY <2>4
    <3>3. /\ total \in Nat /\ total >= Cardinality(OwnedBy(events, issueOf, M))
          /\ (\A i \in M : c[i] = Cardinality(OwnedBy(events, issueOf, {i}))) =>
               total = Cardinality(OwnedBy(events, issueOf, M))
      <4> HIDE DEF total
      <4>1. SumFunctionOnSet(c, M) \in Nat
        BY <2>3, <3>1, <3>2, SumCovers
      <4>2. SumFunctionOnSet(c, M) >= Cardinality(OwnedBy(events, issueOf, M))
        BY <2>3, <3>1, <3>2, SumCovers
      <4> QED BY <2>3, <3>1, <3>2, <4>1, <4>2, SumCovers DEF total
    <3> QED BY <2>4, <3>3
  <2> HIDE DEF total
  <2>6. MergeWaits'
    BY <2>2, <2>5 DEF MergeWaits, data, Live
  <2>7. p \in IssueId /\ M \in SUBSET IssueId
    BY <1>1, Ids
  <2> QED BY <1>2, <2>2, <2>5, <2>6, <2>7
<1>4. CASE MergeAbort
  <2>1. merge' = NoMerge /\ UNCHANGED <<data, tx, n1, n1Count, purge>>
    BY <1>4 DEF MergeAbort
  <2> QED BY <1>2, <2>1 DEF MergeWaits, NoMerge
<1> QED BY <1>3, <1>4
-----------------------------------------------------------------------------
(* One row changes. *)

\* A new occurrence keeps the row well formed and counts one.
LEMMA OccurrenceFits ==
  ASSUME NEW r \in IssueRow, RowSnooze(r)
  PROVE  Occurrence(r) \in IssueRow /\ RowSnooze(Occurrence(r)) /\ Occurrence(r).count = r.count + 1
<1>1. \A l \in Limits : l \in Nat /\ l # None
  BY IssuesAssumption
<1>2. r.count \in Nat /\ r.ignored \in Nat /\ r.limit \in Limits \cup {None} /\ r.status \in Statuses
  BY DEF IssueRow
<1>3. /\ Occurrence(r).count = r.count + 1
      /\ Occurrence(r).status = IF Regresses(r) THEN "regressed" ELSE r.status
      /\ Occurrence(r).ignored = IF r.status = "ignored" /\ r.limit # None THEN r.ignored + 1
                                                                          ELSE r.ignored
      /\ Occurrence(r).until = IF SnoozeOver(r) THEN None ELSE r.until
      /\ Occurrence(r).limit = IF SnoozeOver(r) THEN None ELSE r.limit
      /\ Occurrence(r).snoozeEnded = FALSE
  BY DEF Occurrence, IssueRow
<1>4. Occurrence(r) \in IssueRow
  <2> DEFINE status == IF Regresses(r) THEN "regressed" ELSE r.status
             ignored == IF r.status = "ignored" /\ r.limit # None THEN r.ignored + 1 ELSE r.ignored
             until == IF SnoozeOver(r) THEN None ELSE r.until
             limit == IF SnoozeOver(r) THEN None ELSE r.limit
  <2>1. /\ status \in Statuses /\ ignored \in Nat /\ until \in {None, "future", "past"}
        /\ limit \in Limits \cup {None} /\ r.count + 1 \in Nat
    BY <1>2 DEF IssueRow, Statuses
  <2>2. Occurrence(r) = [r EXCEPT !.count = r.count + 1, !.ignored = ignored, !.status = status,
                                  !.until = until, !.limit = limit, !.snoozeEnded = FALSE]
    BY DEF Occurrence, IssueRow
  <2> HIDE DEF status, ignored, until, limit
  <2> QED BY <2>1, <2>2 DEF IssueRow
<1>5. RowSnooze(Occurrence(r))
  <2>1. CASE SnoozeOver(r)
    BY <1>3, <2>1 DEF RowSnooze, Regresses
  <2>2. CASE ~SnoozeOver(r) /\ r.status = "ignored"
    <3>1. ~Regresses(r)
      BY <2>2 DEF Regresses
    <3>2. r.limit # None => r.ignored + 1 < r.limit
      BY <1>1, <1>2, <2>2 DEF SnoozeOver
    <3> QED BY <1>3, <2>2, <3>1, <3>2 DEF RowSnooze
  <2>3. CASE ~SnoozeOver(r) /\ r.status # "ignored"
    BY <1>3, <2>3 DEF RowSnooze
  <2> QED BY <2>1, <2>2, <2>3
<1> QED BY <1>3, <1>4, <1>5

\* A row is replaced by one that is well formed and counts as many events, or
\* more when the issue is known to count N+1 occurrences.
LEMMA RowChanges ==
  ASSUME IssuesInv, NEW i \in Live, NEW r \in IssueRow, RowSnooze(r),
         issues' = [issues EXCEPT ![i] = r],
         r.count >= issues[i].count, i \notin counted' => r.count = issues[i].count,
         counted' \in {counted, counted \cup {i}},
         UNCHANGED <<events, issueOf, fpOf, fps, nextId, tx, purge, merge>>,
         n1' \in Transaction, n1'.pc # "idle" => n1'.fp \in Fp, n1Count' = n1Count
  PROVE  IssuesInv'
<1>1. /\ TxTypes /\ DataTypes /\ Links /\ Transactions /\ Apart /\ MergeWaits
      /\ \A j \in Live : /\ issues[j] \in IssueRow /\ RowSnooze(issues[j])
                         /\ issues[j].count >= Cardinality(EventsOf(j))
                         /\ j \notin counted => issues[j].count = Cardinality(EventsOf(j))
  BY Now
<1>2. Live' = Live /\ issues'[i] = r /\ \A j \in Live : j # i => issues'[j] = issues[j]
  BY DEF Live
<1>3. i \in IssueId
  BY <1>1, Ids
<1>4. TxTypes' /\ DataTypes'
  <2>1. TxTypes'
    BY <1>1 DEF TxTypes
  <2>2. counted' \subseteq IssueId /\ \A j \in Live : issues'[j] \in IssueRow
    BY <1>1, <1>2, <1>3 DEF DataTypes
  <2> QED BY <1>1, <1>2, <2>1, <2>2 DEF DataTypes
<1>5. Links' /\ Apart'
  BY <1>1 DEF Links, Apart
<1>6. Transactions'
  BY <1>1, <1>2 DEF Transactions, TxFits
<1>7. MergeWaits'
  BY <1>1, <1>2 DEF MergeWaits, OwnedBy
<1>8. \A j \in Live : EventsOf(j)' = EventsOf(j)
  BY DEF EventsOf
<1>9. CountMatchesEvents'
  <2> SUFFICES ASSUME NEW j \in Live
               PROVE  /\ issues'[j].count >= Cardinality(EventsOf(j))
                      /\ j \notin counted' => issues'[j].count = Cardinality(EventsOf(j))
    BY <1>2, <1>8 DEF CountMatchesEvents
  <2>1. Cardinality(EventsOf(j)) \in Nat /\ issues[j].count \in Nat /\ r.count \in Nat
    BY <1>1, EventsFinite DEF IssueRow
  <2>2. CASE j = i
    BY <1>1, <1>2, <2>1, <2>2
  <2>3. CASE j # i
    BY <1>1, <1>2, <2>1, <2>3
  <2> QED BY <2>2, <2>3
<1>10. SnoozeWellFormed'
  BY <1>1, <1>2, PartsNext
<1> QED BY <1>4, <1>5, <1>6, <1>7, <1>9, <1>10, PartsNext DEF IssuesInv, IssueRowSound

\* Users, the snooze job and the auto-resolve job.
LEMMA WorkflowKeeps == ASSUME IssuesInv, Workflow PROVE IssuesInv'
<1>1. PICK i \in Live :
        \/ \E status \in {"open", "resolved"} : UpdateIssueStatus(i, status, None, None)
        \/ \E until \in {None, "future"}, limit \in Limits \cup {None} :
             UpdateIssueStatus(i, "ignored", until, limit)
        \/ ExpireIgnored(i) \/ AutoResolve(i) \/ TimePasses(i)
  BY DEF Workflow
<1>2. /\ issues[i] \in IssueRow /\ RowSnooze(issues[i]) /\ TxTypes /\ DataTypes
      /\ n1 \in Transaction /\ (n1.pc # "idle" => n1.fp \in Fp)
      /\ issues[i].count \in Nat
  BY Now DEF TxTypes, Transactions, IssueRow
<1>3. UNCHANGED <<events, issueOf, fpOf, fps, nextId, tx, n1, n1Count, purge, merge, counted>>
  BY <1>1 DEF UpdateIssueStatus, ExpireIgnored, AutoResolve, TimePasses
<1> SUFFICES \E r \in IssueRow : /\ RowSnooze(r) /\ issues' = [issues EXCEPT ![i] = r]
                                 /\ r.count = issues[i].count
  <2>1. ASSUME NEW r \in IssueRow, RowSnooze(r), issues' = [issues EXCEPT ![i] = r],
               r.count = issues[i].count
        PROVE  IssuesInv'
    <3>1. r.count >= issues[i].count
      BY <1>2, <2>1
    <3> QED BY <1>2, <1>3, <2>1, <3>1, RowChanges
  <2> QED BY <2>1
<1>4. CASE \E status \in Statuses, until \in {None, "future"}, limit \in Limits \cup {None} :
             UpdateIssueStatus(i, status, until, limit)
  <2>1. PICK status \in Statuses, until \in {None, "future"}, limit \in Limits \cup {None} :
          UpdateIssueStatus(i, status, until, limit)
    BY <1>4
  <2> DEFINE r == [issues[i] EXCEPT !.status = status, !.ignored = 0, !.snoozeEnded = FALSE,
                     !.until = IF status = "ignored" THEN until ELSE None,
                     !.limit = IF status = "ignored" THEN limit ELSE None]
  <2>2. issues' = [issues EXCEPT ![i] = r]
    BY <2>1 DEF UpdateIssueStatus, Live
  <2>3. /\ r \in IssueRow /\ r.count = issues[i].count /\ r.status = status /\ r.ignored = 0
        /\ r.until = (IF status = "ignored" THEN until ELSE None)
        /\ r.limit = (IF status = "ignored" THEN limit ELSE None)
        /\ r.snoozeEnded = FALSE
    BY <1>2 DEF IssueRow
  <2>4. RowSnooze(r)
    BY <2>3 DEF RowSnooze
  <2> QED BY <2>2, <2>3, <2>4
<1>5. CASE ExpireIgnored(i)
  <2>1. issues' = [issues EXCEPT ![i] = Expired(issues[i])]
    BY <1>5 DEF ExpireIgnored, Live
  <2>2. /\ Expired(issues[i]) \in IssueRow /\ Expired(issues[i]).count = issues[i].count
        /\ Expired(issues[i]).status = "open" /\ Expired(issues[i]).until = None
        /\ Expired(issues[i]).limit = None
    BY <1>2 DEF Expired, IssueRow, Statuses
  <2> QED BY <2>1, <2>2 DEF RowSnooze
<1>6. CASE AutoResolve(i)
  <2> DEFINE r == [issues[i] EXCEPT !.status = "resolved", !.snoozeEnded = FALSE]
  <2>1. issues' = [issues EXCEPT ![i] = r] /\ issues[i].status # "ignored"
    BY <1>6 DEF AutoResolve, Live
  <2>2. /\ r \in IssueRow /\ r.count = issues[i].count /\ r.status = "resolved"
        /\ r.until = issues[i].until /\ r.limit = issues[i].limit /\ r.snoozeEnded = FALSE
    BY <1>2 DEF IssueRow, Statuses
  <2> QED BY <1>2, <2>1, <2>2 DEF RowSnooze
<1>7. CASE TimePasses(i)
  <2> DEFINE r == [issues[i] EXCEPT !.until = "past"]
  <2>1. issues' = [issues EXCEPT ![i] = r] /\ issues[i].until = "future"
    BY <1>7 DEF TimePasses, Live
  <2>2. /\ r \in IssueRow /\ r.count = issues[i].count /\ r.status = issues[i].status
        /\ r.limit = issues[i].limit /\ r.ignored = issues[i].ignored
        /\ r.snoozeEnded = issues[i].snoozeEnded
    BY <1>2 DEF IssueRow
  <2>3. issues[i].status = "ignored"
    BY <1>2, <2>1, IssuesAssumption DEF RowSnooze
  <2> QED BY <1>2, <2>1, <2>2, <2>3 DEF RowSnooze
<1>8. {"open", "resolved", "ignored"} \subseteq Statuses
  BY DEF Statuses
<1> QED BY <1>1, <1>4, <1>5, <1>6, <1>7, <1>8
-----------------------------------------------------------------------------
(* Events are stored and linked, issues are created. *)

\* A stored event waits without an issue.
LEMMA StoreKeeps == ASSUME IssuesInv, NEW e \in Event, StoreEvent(e) PROVE IssuesInv'
<1>1. /\ TxTypes /\ DataTypes /\ Links /\ Transactions /\ Apart /\ MergeWaits
      /\ CountMatchesEvents /\ SnoozeWellFormed
  BY Now DEF IssuesInv, IssueRowSound
<1>2. /\ e \notin events /\ events' = events \cup {e}
      /\ UNCHANGED <<issueOf, fpOf, fps, issues, nextId, tx, n1, n1Count, purge, merge, counted>>
      /\ Live' = Live
  BY DEF StoreEvent, Live
<1>3. issueOf[e] = None
  BY <1>1, <1>2 DEF Links
<1>4. TxTypes' /\ DataTypes'
  BY <1>1, <1>2 DEF TxTypes, DataTypes
<1>5. Links' /\ Apart'
  BY <1>1, <1>2 DEF Links, Apart
<1>6. Transactions'
  BY <1>1, <1>2 DEF Transactions, TxFits
<1>7. \A j \in Live : EventsOf(j)' = EventsOf(j)
  BY <1>1, <1>2, <1>3, Ids DEF EventsOf
<1>8. MergeWaits'
  <2>1. ASSUME NEW I \in SUBSET Live
        PROVE  OwnedBy(events', issueOf', I) = OwnedBy(events, issueOf, I)
    BY <1>1, <1>2, <1>3, Ids DEF OwnedBy
  <2>2. merge.pc = "delete" =>
          OwnedBy(events', issueOf', merge.others) = OwnedBy(events, issueOf, merge.others)
    BY <1>1, <2>1 DEF MergeWaits
  <2> QED BY <1>1, <1>2, <2>2 DEF MergeWaits
<1>9. CountMatchesEvents' /\ SnoozeWellFormed'
  BY <1>1, <1>2, <1>7 DEF CountMatchesEvents, SnoozeWellFormed
<1> QED BY <1>4, <1>5, <1>6, <1>8, <1>9, PartsNext DEF IssuesInv, IssueRowSound

\* The tables after an issue was created.
LEMMA IssueAdded ==
  ASSUME IssuesInv, NEW r \in IssueRow, NEW f \in Fp, AddIssue(r, f)
  PROVE  /\ Live' = Live \cup {nextId} /\ nextId' = nextId + 1
         /\ issues'[nextId] = r /\ \A j \in Live : issues'[j] = issues[j]
         /\ fps' = [fps EXCEPT ![f] = nextId] /\ fps' \in [Fp -> Live' \cup {None}]
         /\ nextId' \in 1 .. (MaxIssues + 1) /\ Live' \subseteq 1 .. (nextId' - 1)
         /\ \A j \in Live' : issues'[j] \in IssueRow
         /\ nextId \in IssueId
<1>1. DataTypes
  BY Now
<1>2. /\ nextId <= MaxIssues /\ nextId' = nextId + 1 /\ fps' = [fps EXCEPT ![f] = nextId]
      /\ issues' = [i \in Live \cup {nextId} |-> IF i = nextId THEN r ELSE issues[i]]
  BY DEF AddIssue
<1>3. Live' = Live \cup {nextId}
  BY <1>2 DEF Live
<1>4. issues'[nextId] = r /\ \A j \in Live : issues'[j] = issues[j]
  BY <1>1, <1>2, Ids
<1>5. nextId' \in 1 .. (MaxIssues + 1) /\ nextId \in IssueId
  BY <1>1, <1>2, Ids DEF IssueId, DataTypes
<1>6. Live' \subseteq 1 .. (nextId' - 1)
  BY <1>1, <1>2, <1>3, <1>5, Ids DEF DataTypes
<1>7. fps' \in [Fp -> Live' \cup {None}]
  BY <1>1, <1>2, <1>3 DEF DataTypes
<1>8. \A j \in Live' : issues'[j] \in IssueRow
  BY <1>1, <1>3, <1>4 DEF DataTypes
<1> QED BY <1>2, <1>3, <1>4, <1>5, <1>6, <1>7, <1>8

\* A new issue of either kind.
LEMMA NewIssueFits ==
  ASSUME NEW kind \in {"error", "n1_query"}, NEW n \in Nat
  PROVE  NewIssue(kind, n) \in IssueRow /\ RowSnooze(NewIssue(kind, n)) /\ NewIssue(kind, n).count = n
BY DEF NewIssue, IssueRow, RowSnooze, Statuses

\* The commit of GroupEvent: its event is linked, and counted where it is linked.
LEMMA GroupCommitKeeps ==
  ASSUME IssuesInv, NEW g \in Grouper, GroupCommit(g)
  PROVE  IssuesInv'
<1> DEFINE t == tx[g]
           i == IF t.target = None THEN nextId ELSE t.target
<1>1. /\ TxTypes /\ DataTypes /\ Links /\ Transactions /\ Apart /\ MergeWaits
      /\ \A j \in Live : /\ issues[j] \in IssueRow /\ RowSnooze(issues[j])
                         /\ issues[j].count >= Cardinality(EventsOf(j))
                         /\ j \notin counted => issues[j].count = Cardinality(EventsOf(j))
  BY Now
<1>2. /\ t.pc = "commit" /\ t \in Transaction /\ TxFits(t)
      /\ issueOf' = [issueOf EXCEPT ![t.ev] = i]
      /\ fpOf' = [fpOf EXCEPT ![t.ev] = t.fp]
      /\ tx' = [tx EXCEPT ![g] = Idle]
      /\ UNCHANGED <<events, n1, n1Count, purge, merge, counted>>
  BY <1>1 DEF GroupCommit, TxTypes, Transactions
<1>3. /\ t.ev \in events /\ t.ev \in Event /\ issueOf[t.ev] = None /\ t.fp \in Fp
      /\ merge.pc = "idle"
  BY <1>1, <1>2 DEF TxFits, DataTypes, MergeWaits, TxTypes
<1>4. /\ tx' \in [Grouper -> Transaction] /\ tx'[g].pc = "idle"
      /\ \A h \in Grouper : h # g => tx'[h] = tx[h]
  BY <1>1, <1>2 DEF TxTypes, Idle, Transaction
<1>5. TxTypes' /\ MergeWaits' /\ Apart'
  BY <1>1, <1>2, <1>3, <1>4 DEF TxTypes, MergeWaits, Apart
\* What the two ways of committing have in common.
<1>6. ASSUME i \in Live', Live \subseteq Live', i \notin Live => t.target = None,
             fps'[t.fp] = i, \A f \in Fp : f = t.fp \/ fps'[f] = fps[f],
             t.target # None => fps[t.fp] = t.target,
             t.target = None => fps[t.fp] = None,
             nextId' \in 1 .. (MaxIssues + 1), nextId <= nextId',
             Live' \subseteq 1 .. (nextId' - 1),
             \A j \in Live' : j \in Live \/ j = i,
             \A j \in Live' : issues'[j] \in IssueRow /\ RowSnooze(issues'[j]),
             \A j \in Live : j # i => issues'[j] = issues[j],
             issues'[i].count = (IF t.target = None THEN 0 ELSE issues[i].count) + 1,
             t.target = None => i \notin Live /\ i = nextId, t.target # None => i \in Live,
             fps' \in [Fp -> Live' \cup {None}]
      PROVE  IssuesInv'
  <2>1. DataTypes'
    <3>1. issueOf' \in [Event -> Live' \cup {None}] /\ fpOf' \in [Event -> Fp \cup {None}]
      BY <1>1, <1>2, <1>3, <1>6 DEF DataTypes
    <3> QED BY <1>1, <1>2, <1>6, <3>1 DEF DataTypes
  <2>2. Links'
    <3> SUFFICES ASSUME NEW e \in Event, issueOf'[e] # None
                 PROVE  e \in events /\ fpOf'[e] \in Fp /\ fps'[fpOf'[e]] = issueOf'[e]
      BY <1>2 DEF Links
    <3>1. CASE e = t.ev
      BY <1>1, <1>2, <1>3, <1>6, <3>1 DEF DataTypes
    <3>2. CASE e # t.ev
      <4>1. issueOf'[e] = issueOf[e] /\ fpOf'[e] = fpOf[e]
        BY <1>1, <1>2, <3>2 DEF DataTypes
      <4>2. e \in events /\ fpOf[e] \in Fp /\ fps[fpOf[e]] = issueOf[e]
        BY <1>1, <4>1 DEF Links
      <4>3. fpOf[e] = t.fp => fps[t.fp] = i
        BY <1>6, <4>1, <4>2
      <4> QED BY <1>6, <4>1, <4>2, <4>3
    <3> QED BY <3>1, <3>2
  <2>3. Transactions'
    <3> SUFFICES ASSUME NEW h \in Grouper PROVE TxFits(tx[h])'
      BY <1>1, <1>2 DEF Transactions, TxTypes
    <3>1. CASE h = g
      BY <1>4, <3>1 DEF TxFits
    <3>2. CASE h # g
      <4> DEFINE q == tx[h]
      <4>1. tx'[h] = q /\ TxFits(q) /\ q \in Transaction
        BY <1>1, <1>4, <3>2 DEF Transactions, TxTypes
      <4>2. q.pc # "idle" => q.ev # t.ev /\ issueOf'[q.ev] = None
        BY <1>1, <1>2, <1>3, <3>2, <4>1 DEF Apart, TxFits, DataTypes
      <4>3. q.pc = "commit" /\ q.target = None /\ t.target = None => q.fp # t.fp
        BY <1>1, <1>2, <3>2 DEF Apart
      <4>4. q.target # None /\ q.target < nextId => q.target # nextId /\ q.target < nextId'
        <5>1. q.target # None => q.target \in Nat
          BY <4>1 DEF Transaction, IssueId
        <5> QED BY <1>1, <1>6, <5>1, Ids
      <4> HIDE DEF q
      <4>5. /\ q.pc # "idle" => q.ev \in events' \ purge' /\ issueOf'[q.ev] = None /\ q.fp \in Fp
        BY <1>2, <4>1, <4>2 DEF TxFits
      <4>6. q.pc \in {"upsert", "commit"} /\ q.target # None =>
              q.target < nextId' /\ (q.target \in Live' => fps'[q.fp] = q.target)
        BY <1>6, <4>1, <4>4 DEF TxFits
      <4>7. q.pc = "commit" => IF q.target = None THEN fps'[q.fp] = None ELSE q.target \in Live'
        BY <1>6, <4>1, <4>3, <4>5 DEF TxFits
      <4> QED BY <4>1, <4>5, <4>6, <4>7 DEF TxFits
    <3> QED BY <3>1, <3>2
  <2>4. CountMatchesEvents'
    <3> SUFFICES ASSUME NEW j \in Live'
                 PROVE  /\ issues'[j].count >= Cardinality(EventsOf(j)')
                        /\ j \notin counted => issues'[j].count = Cardinality(EventsOf(j)')
      BY <1>2 DEF CountMatchesEvents
    <3>0. j # None
      <4>1. j \in 1 .. (nextId' - 1) /\ nextId' \in 1 .. (MaxIssues + 1)
        BY <1>6
      <4>2. MaxIssues \in Nat /\ None \notin Nat
        BY IssuesAssumption
      <4>3. j \in Nat
        BY <4>1, <4>2
      <4> QED BY <4>2, <4>3
    <3>1. EventsOf(j)' = IF j = i THEN EventsOf(j) \cup {t.ev} ELSE EventsOf(j)
      <4>1. \A e \in events : issueOf'[e] = IF e = t.ev THEN i ELSE issueOf[e]
        BY <1>1, <1>2, <1>3 DEF DataTypes
      <4> QED BY <1>2, <1>3, <3>0, <4>1 DEF EventsOf
    <3>2. IsFiniteSet(EventsOf(j)) /\ Cardinality(EventsOf(j)) \in Nat
      BY <1>1, EventsFinite
    <3>3. CASE j # i
      BY <1>1, <1>6, <3>1, <3>3
    <3>4. CASE j = i
      <4>1. t.ev \notin EventsOf(j)
        BY <1>3, <3>0 DEF EventsOf
      <4>2. Cardinality(EventsOf(j)') = Cardinality(EventsOf(j)) + 1
        BY <3>1, <3>2, <3>4, <4>1, FS_AddElement
      <4>3. CASE t.target = None
        <5>1. EventsOf(j) = {}
          <6>1. j \notin Live
            BY <1>6, <3>4, <4>3
          <6> QED BY <1>1, <3>0, <6>1 DEF EventsOf, DataTypes
        <5>2. issues'[j].count = 1
          BY <1>6, <3>4, <4>3
        <5> QED BY <4>2, <5>1, <5>2, FS_EmptySet
      <4>4. CASE t.target # None
        <5>1. j \in Live /\ issues[j].count \in Nat
          BY <1>1, <1>6, <3>4, <4>4 DEF IssueRow
        <5>2. issues'[j].count = issues[j].count + 1
          BY <1>6, <3>4, <4>4
        <5> QED BY <1>1, <3>2, <4>2, <5>1, <5>2
      <4> QED BY <4>3, <4>4
    <3> QED BY <3>3, <3>4
  <2>5. SnoozeWellFormed'
    BY <1>6, PartsNext
  <2> QED BY <1>5, <2>1, <2>2, <2>3, <2>4, <2>5, PartsNext DEF IssuesInv, IssueRowSound
<1>7. CASE t.target = None
  <2>1. AddIssue(NewIssue("error", 1), t.fp)
    BY <1>7 DEF GroupCommit
  <2>2. /\ NewIssue("error", 1) \in IssueRow /\ RowSnooze(NewIssue("error", 1))
        /\ NewIssue("error", 1).count = 1
    BY NewIssueFits
  <2>3. /\ Live' = Live \cup {nextId} /\ nextId' = nextId + 1
        /\ issues'[nextId] = NewIssue("error", 1) /\ \A j \in Live : issues'[j] = issues[j]
        /\ fps' = [fps EXCEPT ![t.fp] = nextId] /\ fps' \in [Fp -> Live' \cup {None}]
        /\ nextId' \in 1 .. (MaxIssues + 1) /\ Live' \subseteq 1 .. (nextId' - 1)
        /\ \A j \in Live' : issues'[j] \in IssueRow
    BY <1>3, <2>1, <2>2, IssueAdded
  <2>4. fps[t.fp] = None /\ nextId \notin Live /\ nextId \in Nat /\ nextId <= nextId'
    BY <1>1, <1>2, <1>7, <2>3, Ids DEF TxFits
  <2>5. fps'[t.fp] = nextId /\ \A f \in Fp : f = t.fp \/ fps'[f] = fps[f]
    BY <1>1, <1>3, <2>3 DEF DataTypes
  <2>6. \A j \in Live' : RowSnooze(issues'[j])
    BY <1>1, <2>2, <2>3
  <2>7. i = nextId
    BY <1>7
  <2> HIDE DEF i
  <2> QED BY <1>6, <1>7, <2>2, <2>3, <2>4, <2>5, <2>6, <2>7
<1>8. CASE t.target # None
  <2>1. issues' = [issues EXCEPT ![t.target] = Occurrence(issues[t.target])]
        /\ UNCHANGED <<fps, nextId>>
    BY <1>8 DEF GroupCommit, Live
  <2>2. t.target \in Live /\ fps[t.fp] = t.target
    BY <1>2, <1>8 DEF TxFits
  <2>3. Live' = Live /\ issues'[t.target] = Occurrence(issues[t.target])
        /\ \A j \in Live : j # t.target => issues'[j] = issues[j]
    BY <2>1, <2>2 DEF Live
  <2>4. \A j \in Live : issues'[j] \in IssueRow /\ RowSnooze(issues'[j])
    BY <1>1, <2>2, <2>3, OccurrenceFits
  <2>5. issues'[t.target].count = issues[t.target].count + 1
    BY <1>1, <2>2, <2>3, OccurrenceFits
  <2>6. i = t.target
    BY <1>8
  <2>7. /\ nextId \in 1 .. (MaxIssues + 1) /\ nextId <= nextId /\ Live \subseteq 1 .. (nextId - 1)
        /\ fps \in [Fp -> Live \cup {None}]
    BY <1>1, Ids DEF DataTypes
  <2> HIDE DEF i
  <2> QED BY <1>6, <1>8, <2>1, <2>2, <2>3, <2>4, <2>5, <2>6, <2>7
<1> QED BY <1>7, <1>8

\* The detector's write.
LEMMA DetectorWrites == ASSUME IssuesInv, N1Upsert PROVE IssuesInv'
<1>1. /\ TxTypes /\ DataTypes /\ Links /\ Transactions /\ Apart /\ MergeWaits
      /\ n1 \in Transaction /\ n1.pc = "upsert" /\ n1.fp \in Fp
      /\ CountMatchesEvents /\ SnoozeWellFormed
      /\ \A j \in Live : issues[j] \in IssueRow /\ RowSnooze(issues[j])
  BY Now DEF TxTypes, Transactions, N1Upsert, IssuesInv, IssueRowSound
<1>2. UNCHANGED <<events, issueOf, fpOf, tx, n1Count, purge, merge>>
  BY DEF N1Upsert
<1>3. Idle \in Transaction /\ Idle.pc = "idle"
  BY DEF Idle, Transaction
<1>4. CASE Conflicts(n1) /\ n1' = Retried(n1) /\ UNCHANGED <<issues, fps, nextId, counted>>
  <2>1. n1' \in Transaction /\ (n1'.pc # "idle" => n1'.fp \in Fp)
    <3>1. CASE n1.tries = 0
      BY <1>1, <1>4, <3>1 DEF Retried, Transaction
    <3>2. CASE n1.tries # 0
      BY <1>3, <1>4, <3>2 DEF Retried
    <3> QED BY <3>1, <3>2
  <2> QED BY <1>1, <1>2, <1>4, <2>1, DetectorKeeps DEF TxTypes, data
<1>5. CASE RowGone(n1) /\ n1' = Idle /\ UNCHANGED <<issues, fps, nextId, counted>>
  BY <1>1, <1>2, <1>3, <1>5, DetectorKeeps DEF TxTypes, data
<1>6. CASE /\ Updates(n1)
           /\ issues' = [issues EXCEPT ![n1.target] = Occurrence(@)]
           /\ counted' = counted \cup {n1.target}
           /\ n1' = Idle
           /\ UNCHANGED <<fps, nextId>>
  <2> DEFINE r == Occurrence(issues[n1.target])
  <2>1. n1.target \in Live /\ issues' = [issues EXCEPT ![n1.target] = r]
    BY <1>6 DEF Updates, Live
  <2>2. /\ r \in IssueRow /\ RowSnooze(r) /\ r.count = issues[n1.target].count + 1
        /\ issues[n1.target].count \in Nat
    BY <1>1, <2>1, OccurrenceFits DEF IssueRow
  <2> HIDE DEF r
  <2>3. r.count >= issues[n1.target].count
    BY <2>2
  <2> QED BY <1>2, <1>3, <1>6, <2>1, <2>2, <2>3, RowChanges
<1>7. CASE /\ Inserts(n1)
           /\ AddIssue(NewIssue("n1_query", 1), n1.fp)
           /\ counted' = counted \cup {nextId}
           /\ n1' = Idle
  <2>1. /\ NewIssue("n1_query", 1) \in IssueRow /\ RowSnooze(NewIssue("n1_query", 1))
        /\ NewIssue("n1_query", 1).count = 1
    BY NewIssueFits
  <2>2. /\ Live' = Live \cup {nextId} /\ nextId' = nextId + 1
        /\ issues'[nextId] = NewIssue("n1_query", 1) /\ \A j \in Live : issues'[j] = issues[j]
        /\ fps' = [fps EXCEPT ![n1.fp] = nextId] /\ fps' \in [Fp -> Live' \cup {None}]
        /\ nextId' \in 1 .. (MaxIssues + 1) /\ Live' \subseteq 1 .. (nextId' - 1)
        /\ \A j \in Live' : issues'[j] \in IssueRow
        /\ nextId \in IssueId
    BY <1>1, <1>7, <2>1, IssueAdded
  <2>3. /\ fps[n1.fp] = None /\ nextId \notin Live /\ nextId \in Nat
        /\ fps'[n1.fp] = nextId /\ \A f \in Fp : f = n1.fp \/ fps'[f] = fps[f]
    BY <1>1, <1>7, <2>2, Ids DEF Inserts, DataTypes
  <2>4. TxTypes'
    BY <1>1, <1>2, <1>3, <1>7 DEF TxTypes
  <2>5. DataTypes'
    BY <1>1, <1>2, <1>7, <2>2 DEF DataTypes
  <2>6. Links'
    BY <1>1, <1>2, <2>3, Ids DEF Links
  <2>7. Transactions'
    <3>1. ASSUME NEW h \in Grouper PROVE TxFits(tx[h])'
      <4> DEFINE q == tx[h]
      <4>1. TxFits(q) /\ q \in Transaction /\ tx'[h] = q
        BY <1>1, <1>2 DEF Transactions, TxTypes
      <4>2. q.pc = "commit" /\ q.target = None => q.fp # n1.fp
        BY <1>7 DEF Inserts, FpLocked
      <4>3. q.target # None /\ q.target < nextId => q.target # nextId /\ q.target < nextId'
        <5>1. q.target # None => q.target \in Nat
          BY <4>1 DEF Transaction, IssueId
        <5> QED BY <2>2, <2>3, <5>1
      <4> HIDE DEF q
      <4>4. q.pc # "idle" => q.ev \in events' \ purge' /\ issueOf'[q.ev] = None /\ q.fp \in Fp
        BY <1>2, <4>1 DEF TxFits
      <4>5. q.pc \in {"upsert", "commit"} /\ q.target # None =>
              q.target < nextId' /\ (q.target \in Live' => fps'[q.fp] = q.target)
        BY <2>2, <2>3, <4>1, <4>3 DEF TxFits
      <4>6. q.pc = "commit" => IF q.target = None THEN fps'[q.fp] = None ELSE q.target \in Live'
        BY <2>2, <2>3, <4>1, <4>2 DEF TxFits
      <4> QED BY <4>1, <4>4, <4>5, <4>6 DEF TxFits
    <3>2. n1'.pc = "idle"
      BY <1>3, <1>7
    <3> QED BY <3>1, <3>2 DEF Transactions
  <2>8. Apart'
    BY <1>1, <1>2 DEF Apart
  <2>9. MergeWaits'
    BY <1>1, <1>2, <1>7, <2>2, <2>3 DEF MergeWaits
  <2>10. CountMatchesEvents'
    <3> SUFFICES ASSUME NEW j \in Live'
                 PROVE  /\ issues'[j].count >= Cardinality(EventsOf(j)')
                        /\ j \notin counted' => issues'[j].count = Cardinality(EventsOf(j)')
      BY DEF CountMatchesEvents
    <3>1. EventsOf(j)' = EventsOf(j)
      BY <1>2 DEF EventsOf
    <3>2. CASE j \in Live
      BY <1>1, <1>7, <2>2, <3>1, <3>2 DEF CountMatchesEvents
    <3>3. CASE j = nextId
      <4>1. EventsOf(j) = {}
        BY <1>1, <2>3, <3>3, IssuesAssumption DEF EventsOf, DataTypes
      <4> QED BY <1>7, <2>1, <2>2, <3>1, <3>3, <4>1, FS_EmptySet
    <3> QED BY <2>2, <3>2, <3>3
  <2>11. SnoozeWellFormed'
    BY <1>1, <2>1, <2>2, PartsNext
  <2> QED BY <2>4, <2>5, <2>6, <2>7, <2>8, <2>9, <2>10, <2>11, PartsNext DEF IssuesInv, IssueRowSound
<1> QED BY <1>4, <1>5, <1>6, <1>7 DEF N1Upsert
-----------------------------------------------------------------------------
(* Purges, merges and unmerges commit. *)

\* The larger of a number and zero.
LEMMA MaxZero ==
  ASSUME NEW n \in Int
  PROVE  Max({n, 0}) = IF n >= 0 THEN n ELSE 0
<1>1. \E x \in {n, 0} : \A y \in {n, 0} : x >= y
  OBVIOUS
<1>2. Max({n, 0}) \in {n, 0} /\ \A y \in {n, 0} : Max({n, 0}) >= y
  BY <1>1 DEF Max
<1> QED BY <1>2

\* An issue that loses its last event to a purge may go; no event that stays
\* loses its issue.
LEMMA PurgeUnlinks ==
  ASSUME DataTypes, Links, PurgeCommit
  PROVE  \A e \in Event : issueOf'[e] = IF e \in purge THEN None ELSE issueOf[e]
<1>1. \A e \in events : issueOf[e] \in PurgedIssues => e \in purge
  BY DEF PurgedIssues, Emptied, Remaining, EventsOf
<1>2. \A e \in Event : issueOf'[e] = IF e \in purge \/ issueOf[e] \in PurgedIssues
                                      THEN None ELSE issueOf[e]
  BY DEF PurgeCommit
<1> QED BY <1>1, <1>2 DEF Links

\* The commit of a purge.
LEMMA PurgeCommitKeeps == ASSUME IssuesInv, PurgeCommit PROVE IssuesInv'
<1>1. /\ TxTypes /\ DataTypes /\ Links /\ Transactions /\ Apart /\ MergeWaits
      /\ purge \subseteq events
      /\ \A j \in Live : /\ issues[j] \in IssueRow /\ RowSnooze(issues[j])
                         /\ issues[j].count \in Nat
                         /\ issues[j].count >= Cardinality(EventsOf(j))
                         /\ j \notin counted => issues[j].count = Cardinality(EventsOf(j))
  BY Now DEF TxTypes, IssueRow
<1>2. /\ purge # {} /\ merge.pc # "delete"
      /\ \A i \in Affected : ~RowLocked(i)
      /\ issues' = [i \in Live \ PurgedIssues |->
                      IF i \in Affected THEN [issues[i] EXCEPT !.count = PurgedCount(i)]
                                        ELSE issues[i]]
      /\ fps' = [f \in Fp |-> Unlink(PurgedIssues, f)]
      /\ events' = events \ purge /\ purge' = {}
      /\ UNCHANGED <<fpOf, nextId, tx, n1, n1Count, merge, counted>>
      /\ issueOf' \in [Event -> {issueOf[e] : e \in Event} \cup {None}]
  BY <1>1 DEF PurgeCommit, MergeWaits
<1>3. \A e \in Event : issueOf'[e] = IF e \in purge THEN None ELSE issueOf[e]
  BY <1>1, PurgeUnlinks
<1>4. Live' = Live \ PurgedIssues /\ PurgedIssues \subseteq Affected
  BY <1>2 DEF Live, PurgedIssues
<1>5. \A e \in Event : issueOf'[e] # None => issueOf[e] \in Live'
  <2> SUFFICES ASSUME NEW e \in Event, issueOf'[e] # None PROVE issueOf[e] \notin PurgedIssues
    BY <1>1, <1>3, <1>4 DEF DataTypes
  <2>1. e \in events /\ e \notin purge
    BY <1>1, <1>3 DEF Links
  <2> QED BY <2>1 DEF PurgedIssues, Emptied, Remaining, EventsOf
<1>6. \A f \in Fp : fps'[f] = IF fps[f] \in PurgedIssues THEN None ELSE fps[f]
  BY <1>2 DEF Unlink
<1>7. ASSUME NEW j \in Live'
      PROVE  /\ issues'[j] \in IssueRow /\ RowSnooze(issues'[j])
             /\ issues'[j].count >= Cardinality(EventsOf(j)')
             /\ j \notin counted => issues'[j].count = Cardinality(EventsOf(j)')
  <2> DEFINE lost == EventsOf(j) \cap purge
  <2>1. j \in Live /\ j # None
    BY <1>1, <1>4, Ids
  <2>2. EventsOf(j)' = EventsOf(j) \ purge
    BY <1>1, <1>2, <1>3, <2>1 DEF EventsOf, DataTypes
  <2>3. /\ Cardinality(EventsOf(j)') = Cardinality(EventsOf(j)) - Cardinality(lost)
        /\ Cardinality(EventsOf(j)') \in Nat /\ Cardinality(EventsOf(j)) \in Nat
        /\ Cardinality(lost) \in Nat
    <3>1. IsFiniteSet(EventsOf(j)) /\ EventsOf(j) \subseteq events
      BY <1>1, EventsFinite
    <3>2. lost \subseteq events /\ EventsOf(j) \ purge \subseteq events
      BY <3>1
    <3> QED BY <1>1, <2>2, <3>1, <3>2, EventsFinite, FS_Difference
  <2>4. CASE j \notin Affected
    <3>1. lost = {}
      BY <2>1, <2>4 DEF Affected, EventsOf
    <3>2. issues'[j] = issues[j]
      BY <1>2, <1>4, <2>4
    <3>3. Cardinality(lost) = 0
      BY <3>1, FS_EmptySet
    <3> HIDE DEF lost
    <3>4. Cardinality(EventsOf(j)') = Cardinality(EventsOf(j))
      BY <2>3, <3>3
    <3> QED BY <1>1, <2>1, <3>2, <3>4
  <2>5. CASE j \in Affected
    <3>1. issues'[j] = [issues[j] EXCEPT !.count = PurgedCount(j)]
      BY <1>2, <1>4, <2>5
    <3>2. /\ PurgedCount(j) \in Nat /\ PurgedCount(j) >= Cardinality(EventsOf(j)')
          /\ j \notin counted => PurgedCount(j) = Cardinality(EventsOf(j)')
      <4>1. CASE Emptied(j)
        <5>1. Cardinality(EventsOf(j)') = 0
          BY <2>2, <4>1, FS_EmptySet DEF Emptied, Remaining
        <5> QED BY <4>1, <5>1 DEF PurgedCount
      <4>2. CASE ~Emptied(j)
        <5>1. PurgedCount(j) = Max({issues[j].count - Cardinality(lost), 0})
          BY <4>2 DEF PurgedCount
        <5> HIDE DEF lost
        <5>2. issues[j].count - Cardinality(lost) \in Int
              /\ issues[j].count - Cardinality(lost) >= 0
          BY <1>1, <2>1, <2>3
        <5>3. PurgedCount(j) = issues[j].count - Cardinality(lost)
          BY <5>1, <5>2, MaxZero
        <5> QED BY <1>1, <2>1, <2>3, <5>2, <5>3
      <4> QED BY <4>1, <4>2
    <3>3. /\ issues'[j] \in IssueRow /\ issues'[j].count = PurgedCount(j)
          /\ issues'[j].status = issues[j].status /\ issues'[j].until = issues[j].until
          /\ issues'[j].limit = issues[j].limit /\ issues'[j].ignored = issues[j].ignored
          /\ issues'[j].snoozeEnded = issues[j].snoozeEnded
      BY <1>1, <2>1, <3>1, <3>2 DEF IssueRow
    <3> QED BY <1>1, <2>1, <3>2, <3>3 DEF RowSnooze
  <2> QED BY <2>4, <2>5
<1>8. TxTypes'
  BY <1>1, <1>2 DEF TxTypes
<1>9. DataTypes'
  <2>1. issueOf' \in [Event -> Live' \cup {None}]
    BY <1>2, <1>3, <1>5
  <2>2. fps' \in [Fp -> Live' \cup {None}]
    BY <1>1, <1>2, <1>4, <1>6 DEF DataTypes
  <2> QED BY <1>1, <1>2, <1>4, <1>7, <2>1, <2>2 DEF DataTypes
<1>10. Links'
  <2> SUFFICES ASSUME NEW e \in Event, issueOf'[e] # None
               PROVE  e \in events' /\ fpOf[e] \in Fp /\ fps'[fpOf[e]] = issueOf'[e]
    BY <1>2 DEF Links
  <2>1. issueOf'[e] = issueOf[e] /\ issueOf[e] # None /\ e \notin purge
    BY <1>3
  <2>2. e \in events /\ fpOf[e] \in Fp /\ fps[fpOf[e]] = issueOf[e]
    BY <1>1, <2>1 DEF Links
  <2>3. issueOf[e] \notin PurgedIssues
    BY <1>4, <1>5
  <2> QED BY <1>2, <1>6, <2>1, <2>2, <2>3
<1>11. Transactions'
  <2>1. ASSUME NEW h \in Grouper PROVE TxFits(tx[h])'
    <3> DEFINE q == tx[h]
    <3>1. TxFits(q) /\ q \in Transaction /\ tx'[h] = q
      BY <1>1, <1>2 DEF Transactions, TxTypes
    <3>2. q.pc = "commit" /\ q.target # None => q.target \notin PurgedIssues
      BY <1>2, <1>4 DEF RowLocked
    <3>3. None \notin PurgedIssues
      BY <1>4 DEF Affected
    <3> HIDE DEF q
    <3>4. q.pc # "idle" => q.ev \in events' \ purge' /\ issueOf'[q.ev] = None /\ q.fp \in Fp
      BY <1>1, <1>2, <1>3, <3>1 DEF TxFits, DataTypes
    <3>5. q.pc \in {"upsert", "commit"} /\ q.target # None =>
            q.target < nextId' /\ (q.target \in Live' => fps'[q.fp] = q.target)
      BY <1>2, <1>4, <1>6, <3>1, <3>4 DEF TxFits
    <3>6. q.pc = "commit" => IF q.target = None THEN fps'[q.fp] = None ELSE q.target \in Live'
      BY <1>4, <1>6, <3>1, <3>2, <3>3, <3>4 DEF TxFits
    <3> QED BY <3>1, <3>4, <3>5, <3>6 DEF TxFits
  <2> QED BY <1>1, <1>2, <2>1 DEF Transactions
<1>12. Apart' /\ MergeWaits'
  BY <1>1, <1>2 DEF Apart, MergeWaits
<1>13. CountMatchesEvents' /\ SnoozeWellFormed'
  BY <1>2, <1>7, PartsNext DEF CountMatchesEvents
<1> QED BY <1>8, <1>9, <1>10, <1>11, <1>12, <1>13, PartsNext DEF IssuesInv, IssueRowSound

\* The commit of a merge: the primary takes fingerprints, events and counts.
LEMMA MergeCommitKeeps == ASSUME IssuesInv, MergeCommit PROVE IssuesInv'
<1> DEFINE p == merge.primary
           O == merge.others
<1>1. /\ TxTypes /\ DataTypes /\ Links /\ Transactions /\ Apart /\ MergeWaits
      /\ p \in Live /\ O \subseteq Live \ {p} /\ merge.total \in Nat
      /\ merge.total >= Cardinality(OwnedBy(events, issueOf, O))
      /\ O \cap counted = {} => merge.total = Cardinality(OwnedBy(events, issueOf, O))
      /\ purge = {} /\ \A g \in Grouper : tx[g].pc = "idle"
      /\ \A j \in Live : /\ issues[j] \in IssueRow /\ RowSnooze(issues[j])
                         /\ issues[j].count \in Nat
                         /\ issues[j].count >= Cardinality(EventsOf(j))
                         /\ j \notin counted => issues[j].count = Cardinality(EventsOf(j))
  BY Now DEF MergeCommit, MergeWaits, TxTypes, IssueRow
<1>2. /\ fps' = [f \in Fp |-> IF fps[f] \in O THEN p ELSE fps[f]]
      /\ issueOf' = [e \in Event |-> IF issueOf[e] \in O THEN p ELSE issueOf[e]]
      /\ issues' = [i \in Live \ O |->
                      IF i = p THEN [issues[i] EXCEPT !.count = @ + merge.total] ELSE issues[i]]
      /\ counted' = IF counted \cap O # {} THEN counted \cup {p} ELSE counted
      /\ merge' = NoMerge
      /\ UNCHANGED <<events, fpOf, nextId, tx, n1, n1Count, purge>>
  BY DEF MergeCommit, MergedFps
<1>3. Live' = Live \ O /\ p \in Live' /\ p # None /\ None \notin O /\ p \in IssueId
  BY <1>1, <1>2, Ids DEF Live
<1>4. TxTypes'
  BY <1>1, <1>2, IssuesAssumption DEF TxTypes, NoMerge
<1>5. ASSUME NEW j \in Live'
      PROVE  /\ issues'[j] \in IssueRow /\ RowSnooze(issues'[j])
             /\ issues'[j].count >= Cardinality(EventsOf(j)')
             /\ j \notin counted' => issues'[j].count = Cardinality(EventsOf(j)')
  <2>1. j \in Live /\ j \notin O /\ j # None /\ Cardinality(EventsOf(j)) \in Nat
    BY <1>1, <1>3, Ids, EventsFinite
  <2>2. CASE j # p
    <3>1. issues'[j] = issues[j]
      BY <1>2, <1>3, <2>2
    <3>2. EventsOf(j)' = EventsOf(j)
      BY <1>1, <1>2, <2>1, <2>2 DEF EventsOf, DataTypes
    <3> QED BY <1>1, <1>2, <2>1, <3>1, <3>2
  <2>3. CASE j = p
    <3> DEFINE taken == OwnedBy(events, issueOf, O)
    <3>1. issues'[j] = [issues[j] EXCEPT !.count = issues[j].count + merge.total]
      BY <1>2, <1>3, <2>3
    <3>2. EventsOf(j)' = EventsOf(j) \cup taken /\ EventsOf(j) \cap taken = {}
      BY <1>1, <1>2, <2>1, <2>3 DEF EventsOf, OwnedBy, DataTypes
    <3>3. /\ Cardinality(EventsOf(j)') = Cardinality(EventsOf(j)) + Cardinality(taken)
          /\ Cardinality(taken) \in Nat
      <4>1. IsFiniteSet(EventsOf(j)) /\ IsFiniteSet(taken) /\ Cardinality(taken) \in Nat
        BY <1>1, EventsFinite
      <4> HIDE DEF taken
      <4>2. Cardinality(EventsOf(j) \cup taken)
              = Cardinality(EventsOf(j)) + Cardinality(taken) - Cardinality(EventsOf(j) \cap taken)
        BY <4>1, FS_Union
      <4> QED BY <2>1, <3>2, <4>1, <4>2, FS_EmptySet
    <3> HIDE DEF taken
    <3>4. /\ issues'[j] \in IssueRow /\ issues'[j].count = issues[j].count + merge.total
          /\ issues'[j].status = issues[j].status /\ issues'[j].until = issues[j].until
          /\ issues'[j].limit = issues[j].limit /\ issues'[j].ignored = issues[j].ignored
          /\ issues'[j].snoozeEnded = issues[j].snoozeEnded
      BY <1>1, <2>1, <3>1 DEF IssueRow
    <3>5. RowSnooze(issues'[j])
      BY <1>1, <2>1, <3>4 DEF RowSnooze
    <3>6. /\ merge.total >= Cardinality(taken)
          /\ j \notin counted' => /\ merge.total = Cardinality(taken)
                                  /\ issues[j].count = Cardinality(EventsOf(j))
      BY <1>1, <1>2, <2>1, <2>3 DEF taken
    <3> QED BY <1>1, <2>1, <3>3, <3>4, <3>5, <3>6
  <2> QED BY <2>2, <2>3
<1>6. DataTypes'
  <2>1. issueOf' \in [Event -> Live' \cup {None}] /\ fps' \in [Fp -> Live' \cup {None}]
    BY <1>1, <1>2, <1>3 DEF DataTypes
  <2>2. counted' \subseteq IssueId
    BY <1>1, <1>2, <1>3 DEF DataTypes
  <2> QED BY <1>1, <1>2, <1>3, <1>5, <2>1, <2>2 DEF DataTypes
<1>7. Links'
  <2> SUFFICES ASSUME NEW e \in Event, issueOf'[e] # None
               PROVE  e \in events /\ fpOf[e] \in Fp /\ fps'[fpOf[e]] = issueOf'[e]
    BY <1>2 DEF Links
  <2>1. issueOf[e] # None
    BY <1>2, <1>3
  <2>2. e \in events /\ fpOf[e] \in Fp /\ fps[fpOf[e]] = issueOf[e]
    BY <1>1, <2>1 DEF Links
  <2> QED BY <1>2, <2>2
<1>8. Transactions' /\ Apart'
  BY <1>1, <1>2 DEF Transactions, TxFits, Apart
<1>9. MergeWaits'
  BY <1>2 DEF MergeWaits, NoMerge
<1>10. CountMatchesEvents' /\ SnoozeWellFormed'
  BY <1>5, PartsNext DEF CountMatchesEvents
<1> QED BY <1>4, <1>6, <1>7, <1>8, <1>9, <1>10, PartsNext DEF IssuesInv, IssueRowSound

\* There is a numbering of a finite set from any number on.
LEMMA Numbering ==
  ASSUME NEW F, IsFiniteSet(F), F # {}, NEW a \in Nat
  PROVE  Injection(F, a .. (a + Cardinality(F) - 1)) # {}
<1> DEFINE n == Cardinality(F)
           ids == a .. (a + n - 1)
<1>1. n \in Nat /\ n # 0
  BY FS_CardinalityType, FS_EmptySet
<1> HIDE DEF n
<1>2. IsFiniteSet(ids) /\ Cardinality(ids) = n
  <2>1. a \in Int /\ a + n - 1 \in Int /\ ~(a > a + n - 1) /\ (a + n - 1) - a + 1 = n
    BY <1>1
  <2> QED BY <2>1, FS_Interval
<1> HIDE DEF ids
<1>3. ExistsBijection(F, ids)
  BY <1>2, FS_SameCardinalityBij DEF n
<1>4. Injection(F, ids) # {}
  BY <1>3 DEF ExistsBijection, Bijection
<1> QED BY <1>4 DEF ids, n

\* An unmerge: each fingerprint takes its events to an issue of its own.
LEMMA UnmergeKeeps ==
  ASSUME IssuesInv, NEW i \in Live, NEW F \in SUBSET Fp, UnmergeFingerprints(i, F)
  PROVE  IssuesInv'
<1> DEFINE ids == nextId .. (nextId + Cardinality(F) - 1)
           new == CHOOSE m \in Injection(F, ids) : TRUE
           moved(f) == {e \in EventsOf(i) : fpOf[e] = f}
           all == UNION {moved(f) : f \in F}
<1>1. /\ TxTypes /\ DataTypes /\ Links /\ Transactions /\ Apart /\ MergeWaits
      /\ \A j \in Live : /\ issues[j] \in IssueRow /\ RowSnooze(issues[j])
                         /\ issues[j].count \in Nat
                         /\ issues[j].count >= Cardinality(EventsOf(j))
                         /\ j \notin counted => issues[j].count = Cardinality(EventsOf(j))
  BY Now DEF IssueRow
<1>2. /\ \A g \in Grouper : tx[g].pc = "idle"
      /\ purge = {} /\ merge.pc = "idle" /\ F # {} /\ \A f \in F : fps[f] = i
      /\ nextId + Cardinality(F) - 1 <= MaxIssues /\ nextId' = nextId + Cardinality(F)
      /\ UNCHANGED <<events, fpOf, tx, n1, n1Count, purge, merge, counted>>
  BY DEF UnmergeFingerprints, MembershipHeld, MembershipExclusive
<1>3. /\ issues' = [j \in Live \cup Range(new) |->
           IF j \in Range(new)
             THEN NewIssue(issues[i].kind, Cardinality(moved(Inverse(new, F, Range(new))[j])))
           ELSE IF j = i THEN [issues[i] EXCEPT !.count = Max({issues[i].count - Cardinality(all), 0})]
           ELSE issues[j]]
      /\ fps' = [f \in Fp |-> IF f \in F THEN new[f] ELSE fps[f]]
      /\ issueOf' = [e \in Event |-> IF e \in all THEN new[fpOf[e]] ELSE issueOf[e]]
  BY DEF UnmergeFingerprints
<1>4. IsFiniteSet(F) /\ Cardinality(F) \in Nat /\ nextId \in Nat /\ MaxIssues \in Nat
  BY <1>1, IssuesAssumption, FS_Subset, FS_CardinalityType, Ids
<1>5. new \in [F -> ids] /\ \A f, h \in F : new[f] = new[h] => f = h
  <2>1. new \in Injection(F, ids)
    BY <1>2, <1>4, Numbering
  <2> QED BY <2>1 DEF Injection, IsInjective
<1> HIDE DEF new
<1>6. /\ \A f \in F : new[f] \in Range(new)
      /\ \A j \in Range(new) : \E f \in F : j = new[f]
  BY <1>5 DEF Range
<1>7. \A j \in Range(new) : j \in Nat /\ j >= nextId /\ j < nextId' /\ j \in IssueId
  <2>1. \A j \in ids : j \in Nat /\ j >= nextId /\ j < nextId' /\ j \in IssueId
    BY <1>1, <1>2, <1>4 DEF DataTypes, IssueId
  <2> QED BY <1>5, <1>6, <2>1
<1>8. \A j \in Range(new) : j \notin Live /\ j # None
  BY <1>1, <1>4, <1>7, Ids, IssuesAssumption
<1>9. all = {e \in EventsOf(i) : fpOf[e] \in F}
  OBVIOUS
<1> DEFINE Of(j) == Inverse(new, F, Range(new))[j]
<1>10. \A f \in F : Of(new[f]) = f
  <2> SUFFICES ASSUME NEW f \in F PROVE Of(new[f]) = f
    OBVIOUS
  <2>1. Of(new[f]) = CHOOSE h \in F : new[f] \in Range(new) => new[h] = new[f]
    BY <1>6 DEF Inverse
  <2>2. \E h \in F : new[f] \in Range(new) => new[h] = new[f]
    OBVIOUS
  <2>3. Of(new[f]) \in F /\ new[Of(new[f])] = new[f]
    BY <1>6, <2>1, <2>2
  <2> QED BY <1>5, <2>3
<1> HIDE DEF Of
<1>11. Live' = Live \cup Range(new)
  BY <1>3 DEF Live
<1>12. /\ \A f \in F : issues'[new[f]] = NewIssue(issues[i].kind, Cardinality(moved(f)))
       /\ issues'[i] = [issues[i] EXCEPT !.count = Max({issues[i].count - Cardinality(all), 0})]
       /\ \A j \in Live : j # i => issues'[j] = issues[j]
  <2>1. \A j \in Live : j \notin Range(new)
    BY <1>8
  <2>2. ASSUME NEW f \in F
        PROVE  issues'[new[f]] = NewIssue(issues[i].kind, Cardinality(moved(f)))
    <3>1. issues'[new[f]] = NewIssue(issues[i].kind, Cardinality(moved(Of(new[f]))))
      BY <1>3, <1>6 DEF Of
    <3> QED BY <1>10, <3>1
  <2> HIDE DEF all, moved
  <2> QED BY <1>3, <2>1, <2>2
<1>13. \A e \in Event : /\ e \in all => issueOf'[e] = new[fpOf[e]] /\ new[fpOf[e]] \in Range(new)
                        /\ e \notin all => issueOf'[e] = issueOf[e]
  BY <1>3, <1>6, <1>9
<1>14. all \subseteq events /\ all \subseteq Event /\ \A e \in all : issueOf[e] = i /\ fpOf[e] \in F
  BY <1>1, <1>9 DEF EventsOf, DataTypes
<1> HIDE DEF all
\* The three kinds of issues.
<1>15. ASSUME NEW f \in F
       PROVE  /\ issues'[new[f]] \in IssueRow /\ RowSnooze(issues'[new[f]])
              /\ issues'[new[f]].count = Cardinality({e \in events : issueOf'[e] = new[f]})
              /\ issues'[new[f]].count \in Nat
  <2>1. {e \in events : issueOf'[e] = new[f]} = moved(f)
    <3>1. ASSUME NEW e \in events, issueOf'[e] = new[f] PROVE e \in moved(f)
      <4>1. e \in all
        BY <1>1, <1>6, <1>8, <1>13, <3>1 DEF DataTypes
      <4>2. new[fpOf[e]] = new[f] /\ fpOf[e] \in F
        BY <1>13, <1>14, <3>1, <4>1
      <4> QED BY <1>5, <1>9, <4>1, <4>2
    <3>2. ASSUME NEW e \in moved(f) PROVE e \in events /\ issueOf'[e] = new[f]
      BY <1>9, <1>13, <1>14
    <3> QED BY <3>1, <3>2 DEF EventsOf
  <2>3. Cardinality(moved(f)) \in Nat
    BY <1>1, EventsFinite
  <2>4. issues[i].kind \in {"error", "n1_query"}
    BY <1>1 DEF IssueRow
  <2> DEFINE n == Cardinality(moved(f))
  <2>5. issues'[new[f]] = NewIssue(issues[i].kind, n) /\ n \in Nat
    BY <1>12, <2>3
  <2>6. n = Cardinality({e \in events : issueOf'[e] = new[f]})
    BY <2>1
  <2> HIDE DEF n
  <2> QED BY <2>4, <2>5, <2>6, NewIssueFits
<1>16. ASSUME NEW j \in Live
       PROVE  /\ issues'[j] \in IssueRow /\ RowSnooze(issues'[j])
              /\ issues'[j].count >= Cardinality(EventsOf(j)')
              /\ j \notin counted => issues'[j].count = Cardinality(EventsOf(j)')
  <2>1. j # None /\ j \notin Range(new) /\ Cardinality(EventsOf(j)) \in Nat
    BY <1>1, <1>8, Ids, EventsFinite
  <2>2. CASE j # i
    <3>1. EventsOf(j)' = EventsOf(j)
      BY <1>1, <1>2, <1>13, <1>14, <2>1, <2>2 DEF EventsOf, DataTypes
    <3> QED BY <1>1, <1>12, <2>2, <3>1
  <2>3. CASE j = i
    <3>1. EventsOf(j)' = EventsOf(j) \ all
      BY <1>1, <1>2, <1>13, <1>14, <2>1, <2>3 DEF EventsOf, DataTypes
    <3>2. EventsOf(j) \cap all = all
      BY <1>9, <2>3
    <3>3. /\ Cardinality(EventsOf(j)') = Cardinality(EventsOf(j)) - Cardinality(all)
          /\ Cardinality(all) \in Nat /\ Cardinality(EventsOf(j)') \in Nat
      <4>1. IsFiniteSet(EventsOf(j)) /\ EventsOf(j) \ all \subseteq events
        BY <1>1, EventsFinite
      <4>2. Cardinality(EventsOf(j) \ all) \in Nat /\ Cardinality(all) \in Nat
        BY <1>1, <1>14, <4>1, EventsFinite
      <4>3. Cardinality(EventsOf(j) \ all) = Cardinality(EventsOf(j)) - Cardinality(EventsOf(j) \cap all)
        BY <4>1, FS_Difference
      <4> QED BY <3>1, <3>2, <4>2, <4>3
    <3> DEFINE c == issues[j].count - Cardinality(all)
    <3>4. c \in Int /\ c >= Cardinality(EventsOf(j)') /\ c >= 0
          /\ (j \notin counted => c = Cardinality(EventsOf(j)'))
      BY <1>1, <2>1, <3>3
    <3>5. issues'[j] = [issues[j] EXCEPT !.count = Max({c, 0})]
      BY <1>12, <2>3
    <3> HIDE DEF c
    <3>6. Max({c, 0}) = c /\ c \in Nat
      BY <3>4, MaxZero
    <3>7. /\ issues'[j] \in IssueRow /\ issues'[j].count = c
          /\ issues'[j].status = issues[j].status /\ issues'[j].until = issues[j].until
          /\ issues'[j].limit = issues[j].limit /\ issues'[j].ignored = issues[j].ignored
          /\ issues'[j].snoozeEnded = issues[j].snoozeEnded
      BY <1>1, <3>5, <3>6 DEF IssueRow
    <3> QED BY <1>1, <3>4, <3>7 DEF RowSnooze
  <2> QED BY <2>2, <2>3
<1>17. \A j \in Live' : /\ issues'[j] \in IssueRow /\ RowSnooze(issues'[j])
                        /\ issues'[j].count >= Cardinality(EventsOf(j)')
                        /\ j \notin counted => issues'[j].count = Cardinality(EventsOf(j)')
  <2> SUFFICES ASSUME NEW j \in Live'
               PROVE  /\ issues'[j] \in IssueRow /\ RowSnooze(issues'[j])
                      /\ issues'[j].count >= Cardinality(EventsOf(j)')
                      /\ j \notin counted => issues'[j].count = Cardinality(EventsOf(j)')
    OBVIOUS
  <2>1. CASE j \in Live
    BY <1>16, <2>1
  <2>2. CASE j \in Range(new)
    <3>1. PICK f \in F : j = new[f]
      BY <1>6, <2>2
    <3>2. EventsOf(j)' = {e \in events : issueOf'[e] = j}
      BY <1>2 DEF EventsOf
    <3>3. /\ issues'[j] \in IssueRow /\ RowSnooze(issues'[j]) /\ issues'[j].count \in Nat
          /\ issues'[j].count = Cardinality({e \in events : issueOf'[e] = j})
      BY <1>15, <3>1
    <3> QED BY <3>2, <3>3
  <2> QED BY <1>11, <2>1, <2>2
<1>18. DataTypes'
  <2>1. issueOf' \in [Event -> Live' \cup {None}] /\ fps' \in [Fp -> Live' \cup {None}]
    BY <1>1, <1>3, <1>6, <1>11, <1>13 DEF DataTypes
  <2>2. Live' \subseteq 1 .. (nextId' - 1) /\ nextId' \in 1 .. (MaxIssues + 1)
    <3>1. nextId' \in 1 .. (MaxIssues + 1)
      BY <1>1, <1>2, <1>4 DEF DataTypes
    <3>2. \A j \in Live : j \in 1 .. (nextId' - 1)
      BY <1>1, <1>2, <1>4 DEF DataTypes
    <3>3. \A j \in Range(new) : j \in 1 .. (nextId' - 1)
      BY <1>2, <1>4, <1>7 DEF IssueId
    <3> QED BY <1>11, <3>1, <3>2, <3>3
  <2> QED BY <1>1, <1>2, <1>17, <2>1, <2>2 DEF DataTypes
<1>19. Links'
  <2> SUFFICES ASSUME NEW e \in Event, issueOf'[e] # None
               PROVE  e \in events /\ fpOf[e] \in Fp /\ fps'[fpOf[e]] = issueOf'[e]
    BY <1>2 DEF Links
  <2>1. CASE e \in all
    BY <1>3, <1>13, <1>14, <2>1
  <2>2. CASE e \notin all
    <3>1. issueOf'[e] = issueOf[e] /\ e \in events /\ fpOf[e] \in Fp /\ fps[fpOf[e]] = issueOf[e]
      BY <1>1, <1>13, <2>2 DEF Links
    <3>2. fpOf[e] \notin F
      BY <1>2, <1>9, <2>2, <3>1 DEF EventsOf
    <3> QED BY <1>3, <3>1, <3>2
  <2> QED BY <2>1, <2>2
<1>20. TxTypes' /\ Transactions' /\ Apart' /\ MergeWaits'
  BY <1>1, <1>2 DEF TxTypes, Transactions, TxFits, Apart, MergeWaits
<1>21. CountMatchesEvents' /\ SnoozeWellFormed'
  BY <1>2, <1>17, PartsNext DEF CountMatchesEvents
<1> QED BY <1>18, <1>19, <1>20, <1>21, PartsNext DEF IssuesInv, IssueRowSound
-----------------------------------------------------------------------------
(* The theorems. *)

\* There is nothing yet.
LEMMA IssuesInit == Init => IssuesInv
<1> SUFFICES ASSUME Init PROVE IssuesInv
  OBVIOUS
<1>1. Live = {}
  BY DEF Init, Live
<1>2. TypeOK
  BY <1>1, IssuesAssumption DEF Init, TypeOK, Idle, NoMerge, Transaction, IssueId
<1>3. Links /\ Transactions /\ Apart /\ MergeWaits
  BY DEF Init, Links, Transactions, TxFits, Apart, MergeWaits, Idle, NoMerge
<1>4. IssueRowSound
  BY <1>1 DEF IssueRowSound, CountMatchesEvents, SnoozeWellFormed
<1> QED BY <1>2, <1>3, <1>4 DEF IssuesInv

\* Every step keeps the invariant.
LEMMA IssuesNext == IssuesInv /\ [Next]_vars => IssuesInv'
<1> SUFFICES ASSUME IssuesInv, [Next]_vars PROVE IssuesInv'
  OBVIOUS
<1>1. CASE UNCHANGED vars
  <2>1. TxTypes' /\ Transactions' /\ Apart' /\ MergeWaits' /\ UNCHANGED data
    BY <1>1, Now DEF vars, data, TxTypes, Transactions, TxFits, Apart, MergeWaits, Live
  <2> QED BY <2>1, Quiet
<1>2. ASSUME NEW e \in Event, StoreEvent(e) PROVE IssuesInv'
  BY <1>2, StoreKeeps
<1>3. ASSUME NEW g \in Grouper, Group(g) PROVE IssuesInv'
  BY <1>3, GroupingKeeps, GroupCommitKeeps DEF Group
<1>4. CASE Detector
  BY <1>4, DetectorReads, DetectorWrites DEF Detector
<1>5. CASE Retention
  BY <1>5, PurgeBegins, PurgeCommitKeeps DEF Retention
<1>6. CASE Membership
  BY <1>6, MergeBegins, MergeCommitKeeps, UnmergeKeeps DEF Membership
<1>7. CASE Workflow
  BY <1>7, WorkflowKeeps
<1> QED BY <1>1, <1>2, <1>3, <1>4, <1>5, <1>6, <1>7 DEF Next

\* The invariant holds throughout.
THEOREM IssuesInvHolds == Spec => []IssuesInv
  BY IssuesInit, IssuesNext, PTL DEF Spec

\* The issue of an event is the issue of its fingerprint, and exists.
THEOREM EventsFollowFingerprintHolds == Spec => []EventsFollowFingerprint
<1>1. IssuesInv => EventsFollowFingerprint
  <2> SUFFICES ASSUME IssuesInv PROVE EventsFollowFingerprint
    OBVIOUS
  <2>1. DataTypes /\ Links
    BY Now
  <2> QED BY <2>1 DEF EventsFollowFingerprint, DataTypes, Links
<1> QED BY <1>1, IssuesInvHolds, PTL

\* The row of an issue tells the truth about its events and its snooze.
THEOREM IssueRowSoundHolds == Spec => []IssueRowSound
<1>1. IssuesInv => IssueRowSound
  BY DEF IssuesInv
<1> QED BY <1>1, IssuesInvHolds, PTL

\* A grouped event that stays stored stays grouped: only a purge, a merge and an
\* unmerge rewrite the link, and the purge keeps the issues of what it leaves.
THEOREM NeverUngroupedHolds == Spec => NeverUngrouped
<1> DEFINE Step == \A e \in events \cap events' : issueOf[e] # None => issueOf'[e] # None
<1>1. IssuesInv /\ [Next]_vars => [Step]_vars
  <2> SUFFICES ASSUME IssuesInv, IssuesInv', Next, NEW e \in events \cap events', issueOf[e] # None
               PROVE  issueOf'[e] # None
    BY IssuesNext
  <2>1. /\ DataTypes /\ Links /\ TxTypes /\ Transactions /\ MergeWaits /\ e \in Event
    BY Now DEF DataTypes
  <2>2. CASE PurgeCommit
    <3>1. e \notin purge
      BY <2>2 DEF PurgeCommit
    <3> QED BY <2>1, <2>2, <3>1, PurgeUnlinks
  <2>3. CASE MergeCommit
    <3>1. merge.primary # None
      BY <2>1, <2>3, Ids DEF MergeCommit, MergeWaits
    <3> QED BY <2>1, <2>3, <3>1 DEF MergeCommit
  <2>4. ASSUME NEW g \in Grouper, GroupCommit(g) PROVE issueOf'[e] # None
    <3>1. tx[g].pc = "commit" /\ TxFits(tx[g])
      BY <2>1, <2>4 DEF GroupCommit, Transactions
    <3>2. tx[g].ev # e
      BY <3>1 DEF TxFits
    <3> QED BY <2>1, <2>4, <3>2 DEF GroupCommit, DataTypes
  <2>5. ASSUME NEW i \in Live, NEW F \in SUBSET Fp, UnmergeFingerprints(i, F)
        PROVE  issueOf'[e] # None
    <3> DEFINE a == nextId
               ids == a .. (a + Cardinality(F) - 1)
               new == CHOOSE m \in Injection(F, ids) : TRUE
    <3>1. IsFiniteSet(F) /\ F # {} /\ a \in Nat
      BY <2>1, <2>5, IssuesAssumption, FS_Subset, Ids DEF UnmergeFingerprints
    <3>2. new \in Injection(F, ids)
      BY <3>1, Numbering
    <3>3. \A f \in F : new[f] # None
      BY <3>1, <3>2, IssuesAssumption DEF Injection
    <3>4. issueOf' = [x \in Event |->
             IF x \in UNION {{y \in EventsOf(i) : fpOf[y] = f} : f \in F} THEN new[fpOf[x]]
                                                                          ELSE issueOf[x]]
      BY <2>5 DEF UnmergeFingerprints
    <3> HIDE DEF new
    <3> QED BY <2>1, <3>3, <3>4
  <2>6. CASE UNCHANGED issueOf
    BY <2>6
  <2> QED BY <2>2, <2>3, <2>4, <2>5, <2>6
      DEF Next, StoreEvent, Group, GroupBegin, GroupLookup, GroupUpsert, GroupAbort, Detector,
          N1Detect, N1Lookup, N1Upsert, Retention, PurgeDelete, PurgeAbort, Membership,
          MergeAggregate, MergeAbort, Workflow, UpdateIssueStatus, ExpireIgnored, AutoResolve,
          TimePasses, data
<1> QED BY <1>1, IssuesInvHolds, PTL DEF Spec, NeverUngrouped

(***************************************************************************)
(* Recursive functions.  Where every value follows from values of smaller  *)
(* rank, a function that meets the equation exists.                        *)
(***************************************************************************)
LEMMA IntervalSize ==
  ASSUME NEW n \in Nat
  PROVE  IsFiniteSet(1 .. n) /\ Cardinality(1 .. n) = n
<1>1. IsFiniteSet(1 .. n) /\ Cardinality(1 .. n) = IF 1 > n THEN 0 ELSE n - 1 + 1
  BY FS_Interval
<1>2. (IF 1 > n THEN 0 ELSE n - 1 + 1) = n
  OBVIOUS
<1> QED BY <1>1, <1>2

\* A set of numbers that has 0 and, with each of its numbers, the next, has them all.
LEMMA AllNaturals ==
  ASSUME NEW T \in SUBSET Nat, 0 \in T, \A n \in T : n + 1 \in T
  PROVE  T = Nat
<1> SUFFICES ASSUME Nat \ T # {} PROVE FALSE
  OBVIOUS
<1>1. PICK m \in Nat \ T : \A n \in Nat \ T : m <= n
  <2> DEFINE U == Nat \ T
  <2>1. U \in SUBSET Nat /\ U # {}
    OBVIOUS
  <2> HIDE DEF U
  <2>2. \E m \in U : \A n \in U : m <= n
    BY <2>1, LeastNatural
  <2> QED BY <2>2 DEF U
<1>2. m # 0 /\ m - 1 \in Nat /\ ~ (m <= m - 1)
  BY <1>1
<1>3. m - 1 \in T
  BY <1>1, <1>2
<1>4. (m - 1) + 1 \in T
  BY <1>3
<1> QED BY <1>1, <1>4

\* h meets the equation at every argument of rank below n.
Meets(h, S, rank, step, n) == \A x \in S : rank[x] < n => h[x] = step[<<x, h>>]

\* step[<<x, h>>], the value at x where the others are those of h, asks h only for
\* values of smaller rank.
Recursive(S, V, rank, step) ==
  /\ V # {} /\ rank \in [S -> Nat] /\ step \in [S \X [S -> V] -> V]
  /\ \A x \in S : \A g, h \in [S -> V] :
       (\A y \in S : rank[y] < rank[x] => g[y] = h[y]) => step[<<x, g>>] = step[<<x, h>>]

LEMMA Recursion ==
  ASSUME NEW S, NEW V, NEW rank, NEW step, Recursive(S, V, rank, step)
  PROVE  \E f \in [S -> V] : \A x \in S : f[x] = step[<<x, f>>]
<1> DEFINE F == [S -> V]
           Some == {n \in Nat : \E f \in F : Meets(f, S, rank, step, n)}
           One == {n \in Nat : \A g, h \in F :
                     Meets(g, S, rank, step, n) /\ Meets(h, S, rank, step, n)
                       => \A x \in S : rank[x] < n => g[x] = h[x]}
<1> USE DEF Recursive
<1>1. Some = Nat
  <2>1. 0 \in Some
    <3>1. PICK v \in V : TRUE
      OBVIOUS
    <3>2. [x \in S |-> v] \in F
      OBVIOUS
    <3>3. Meets([x \in S |-> v], S, rank, step, 0)
      BY DEF Meets
    <3> QED BY <3>2, <3>3
  <2>2. ASSUME NEW n \in Some PROVE n + 1 \in Some
    <3>1. PICK f \in F : Meets(f, S, rank, step, n)
      OBVIOUS
    <3> DEFINE g == [x \in S |-> IF rank[x] < n + 1 THEN step[<<x, f>>] ELSE f[x]]
    <3>2. g \in F
      OBVIOUS
    <3>3. \A x \in S : rank[x] < n => g[x] = f[x]
      BY <3>1 DEF Meets
    <3>4. \A x \in S : rank[x] < n + 1 => g[x] = step[<<x, f>>]
      OBVIOUS
    <3> HIDE DEF g
    <3>5. ASSUME NEW x \in S, rank[x] < n + 1 PROVE g[x] = step[<<x, g>>]
      <4>1. \A y \in S : rank[y] < rank[x] => g[y] = f[y]
        BY <3>3, <3>5
      <4>2. step[<<x, g>>] = step[<<x, f>>]
        BY <3>2, <4>1
      <4> QED BY <3>4, <3>5, <4>2
    <3>6. Meets(g, S, rank, step, n + 1)
      BY <3>5 DEF Meets
    <3> QED BY <3>2, <3>6
  <2> HIDE DEF Some
  <2>3. Some \in SUBSET Nat
    BY DEF Some
  <2> QED BY <2>1, <2>2, <2>3, AllNaturals
<1>2. One = Nat
  <2>1. 0 \in One
    OBVIOUS
  <2>2. ASSUME NEW n \in One PROVE n + 1 \in One
    <3> SUFFICES ASSUME NEW g \in F, NEW h \in F, Meets(g, S, rank, step, n + 1),
                        Meets(h, S, rank, step, n + 1), NEW x \in S, rank[x] < n + 1
                 PROVE  g[x] = h[x]
      OBVIOUS
    <3>1. Meets(g, S, rank, step, n) /\ Meets(h, S, rank, step, n)
      BY DEF Meets
    <3>2. \A y \in S : rank[y] < n => g[y] = h[y]
      BY <3>1
    <3>3. \A y \in S : rank[y] < rank[x] => g[y] = h[y]
      BY <3>2
    <3>4. step[<<x, g>>] = step[<<x, h>>]
      BY <3>3
    <3> QED BY <3>4 DEF Meets
  <2> HIDE DEF One
  <2>3. One \in SUBSET Nat
    BY DEF One
  <2> QED BY <2>1, <2>2, <2>3, AllNaturals
<1> DEFINE at(n) == CHOOSE f \in F : Meets(f, S, rank, step, n)
           f == [x \in S |-> at(rank[x] + 1)[x]]
<1>3. ASSUME NEW n \in Nat PROVE at(n) \in F /\ Meets(at(n), S, rank, step, n)
  BY <1>1
<1> HIDE DEF at
<1>4. f \in F
  <2>1. \A x \in S : rank[x] + 1 \in Nat
    OBVIOUS
  <2> QED BY <1>3, <2>1
<1>5. ASSUME NEW x \in S PROVE f[x] = step[<<x, f>>]
  <2> DEFINE n == rank[x] + 1
             h == at(n)
  <2>1. n \in Nat /\ h \in F /\ Meets(h, S, rank, step, n) /\ f[x] = h[x]
    BY <1>3
  <2>2. ASSUME NEW y \in S, rank[y] < rank[x] PROVE f[y] = h[y]
    <3> DEFINE m == rank[y] + 1
    <3>1. m \in Nat /\ m <= n /\ rank[y] < m
      BY <2>2
    <3>2. f[y] = at(m)[y]
      OBVIOUS
    <3> HIDE DEF m, h, n, f
    <3>3. at(m) \in F /\ Meets(at(m), S, rank, step, m)
      BY <1>3, <3>1
    <3>4. Meets(h, S, rank, step, m)
      <4>1. \A z \in S : rank[z] < m => rank[z] < n
        BY <2>1, <3>1
      <4> QED BY <2>1, <4>1 DEF Meets
    <3>5. m \in One
      BY <1>2, <3>1
    <3>6. h[y] = at(m)[y]
      BY <2>1, <3>1, <3>3, <3>4, <3>5
    <3> QED BY <3>2, <3>6
  <2>3. rank[x] < n
    OBVIOUS
  <2> HIDE DEF h, n
  <2>4. h[x] = step[<<x, h>>]
    BY <2>1, <2>3 DEF Meets
  <2> HIDE DEF f
  <2>5. step[<<x, f>>] = step[<<x, h>>]
    BY <1>4, <2>1, <2>2
  <2> QED BY <2>1, <2>4, <2>5
<1> HIDE DEF f
<1> QED BY <1>4, <1>5

LEMMA StrongNaturals ==
  ASSUME NEW T \in SUBSET Nat, \A n \in Nat : (\A m \in Nat : m < n => m \in T) => n \in T
  PROVE  T = Nat
<1> DEFINE U == {n \in Nat : \A m \in Nat : m < n => m \in T}
<1>1. 0 \in U
  OBVIOUS
<1>2. ASSUME NEW n \in U PROVE n + 1 \in U
  <2>1. n \in T
    OBVIOUS
  <2>2. \A m \in Nat : m < n + 1 => m < n \/ m = n
    OBVIOUS
  <2> QED BY <2>1, <2>2
<1>3. U \in SUBSET Nat
  OBVIOUS
<1>4. U = Nat
  <2> HIDE DEF U
  <2> QED BY <1>1, <1>2, <1>3, AllNaturals
<1> QED BY <1>4

(***************************************************************************)
(* Numbers as digits.                                                      *)
(***************************************************************************)
Digit == 0 .. 63

\* The rest of a number is a smaller number.
LEMMA DigitSteps ==
  ASSUME NEW v \in Nat
  PROVE  /\ v % 32 \in 0 .. 31 /\ v \div 32 \in Nat /\ v = (v % 32) + 32 * (v \div 32)
         /\ v < 32 => v \in 0 .. 31 /\ v % 32 = v
         /\ ~ (v < 32) => v \div 32 < v
         /\ 32 + (v % 32) \in 32 .. 63 /\ (32 + (v % 32)) % 32 = v % 32
  OBVIOUS

LEMMA DigitsDef ==
  \A v \in Nat :
    Digits[v] = IF v < 32 THEN <<v>> ELSE <<32 + (v % 32)>> \o Digits[v \div 32]
<1> DEFINE V == Seq(Digit)
           rank == [v \in Nat |-> v]
           step == [a \in Nat \X [Nat -> V] |->
                      IF a[1] < 32 THEN <<a[1]>> ELSE <<32 + (a[1] % 32)>> \o (a[2])[a[1] \div 32]]
<1>1. V # {} /\ rank \in [Nat -> Nat]
  BY EmptySeq
<1>2. ASSUME NEW v \in Nat, NEW h \in [Nat -> V]
      PROVE  /\ step[<<v, h>>] = IF v < 32 THEN <<v>> ELSE <<32 + (v % 32)>> \o h[v \div 32]
             /\ step[<<v, h>>] \in V
  <2>1. step[<<v, h>>] = IF v < 32 THEN <<v>> ELSE <<32 + (v % 32)>> \o h[v \div 32]
    OBVIOUS
  <2>2. h[v \div 32] \in Seq(Digit)
    BY DigitSteps
  <2>3. v < 32 => <<v>> \in Seq(Digit)
    BY DigitSteps DEF Digit
  <2>4. <<32 + (v % 32)>> \in Seq(Digit)
    BY DigitSteps DEF Digit
  <2>5. <<32 + (v % 32)>> \o h[v \div 32] \in Seq(Digit)
    BY <2>2, <2>4, ConcatProperties
  <2> QED BY <2>1, <2>3, <2>5
<1>3. step \in [Nat \X [Nat -> V] -> V]
  <2>1. \A a \in Nat \X [Nat -> V] : a = <<a[1], a[2]>> /\ a[1] \in Nat /\ a[2] \in [Nat -> V]
    OBVIOUS
  <2>2. \A a \in Nat \X [Nat -> V] : step[a] \in V
    <3> HIDE DEF step, V
    <3> QED BY <1>2, <2>1
  <2> QED BY <2>2
<1> HIDE DEF step, V
<1>4. \A v \in Nat : \A g, h \in [Nat -> V] :
        (\A u \in Nat : rank[u] < rank[v] => g[u] = h[u]) => step[<<v, g>>] = step[<<v, h>>]
  <2> SUFFICES ASSUME NEW v \in Nat, NEW g \in [Nat -> V], NEW h \in [Nat -> V],
                      \A u \in Nat : u < v => g[u] = h[u]
               PROVE  step[<<v, g>>] = step[<<v, h>>]
    OBVIOUS
  <2>1. ~ (v < 32) => g[v \div 32] = h[v \div 32]
    BY DigitSteps
  <2> QED BY <1>2, <2>1
<1>5. PICK f \in [Nat -> V] : \A v \in Nat : f[v] = step[<<v, f>>]
  <2>1. Recursive(Nat, V, rank, step)
    BY <1>1, <1>3, <1>4 DEF Recursive
  <2> HIDE DEF rank
  <2> QED BY <2>1, Recursion
<1>6. f = [v \in Nat |-> IF v < 32 THEN <<v>> ELSE <<32 + (v % 32)>> \o f[v \div 32]]
  BY <1>2, <1>5
<1>7. Digits = [v \in Nat |-> IF v < 32 THEN <<v>> ELSE <<32 + (v % 32)>> \o Digits[v \div 32]]
  BY <1>6 DEF Digits
<1> QED BY <1>7

\* The digits of one number: the last one says that it is the last.
Word(d) ==
  /\ d \in Seq(Digit) /\ Len(d) \in Nat /\ Len(d) >= 1 /\ d[Len(d)] < 32
  /\ \A i \in 1 .. Len(d) : i < Len(d) => d[i] >= 32

LEMMA PutBefore ==
  ASSUME NEW x \in Digit, NEW w \in Seq(Digit)
  PROVE  /\ <<x>> \o w \in Seq(Digit) /\ Len(<<x>> \o w) = Len(w) + 1 /\ Len(w) \in Nat
         /\ (<<x>> \o w)[1] = x /\ \A i \in 1 .. Len(w) : (<<x>> \o w)[i + 1] = w[i]
  OBVIOUS

LEMMA DigitsAreWords == \A v \in Nat : Word(Digits[v])
<1> DEFINE T == {v \in Nat : Word(Digits[v])}
<1>1. ASSUME NEW v \in Nat, \A u \in Nat : u < v => u \in T PROVE v \in T
  <2>1. CASE v < 32
    <3>1. Digits[v] = <<v>>
      BY <2>1, DigitsDef
    <3>2. v \in Digit
      BY <2>1 DEF Digit
    <3>3. <<v>> \in Seq(Digit) /\ Len(<<v>>) = 1 /\ <<v>>[1] = v
      BY <3>2
    <3>4. Word(<<v>>)
      BY <2>1, <3>3 DEF Word
    <3> QED BY <3>1, <3>4
  <2>2. CASE ~ (v < 32)
    <3> DEFINE x == 32 + (v % 32)
               w == Digits[v \div 32]
               d == <<x>> \o w
    <3>1. Digits[v] = d
      BY <2>2, DigitsDef
    <3>2. x \in Digit /\ x >= 32 /\ Word(w)
      <4>1. x \in Digit /\ x >= 32
        BY DigitSteps DEF Digit
      <4>2. v \div 32 \in Nat /\ v \div 32 < v
        BY <2>2, DigitSteps
      <4> QED BY <1>1, <4>1, <4>2
    <3> HIDE DEF x, w
    <3>3. /\ d \in Seq(Digit) /\ Len(d) = Len(w) + 1 /\ Len(w) \in Nat
          /\ d[1] = x /\ \A i \in 1 .. Len(w) : d[i + 1] = w[i]
      BY <3>2, PutBefore DEF Word
    <3> HIDE DEF d
    <3>4. ASSUME NEW i \in 1 .. Len(d), i < Len(d) PROVE d[i] >= 32
      <4>1. CASE i = 1
        BY <3>2, <3>3, <4>1
      <4>2. CASE i # 1
        <5>1. i - 1 \in 1 .. Len(w) /\ i - 1 < Len(w) /\ (i - 1) + 1 = i
          BY <3>3, <3>4, <4>2
        <5>2. d[i] = w[i - 1]
          BY <3>3, <5>1
        <5> QED BY <3>2, <5>1, <5>2 DEF Word
      <4> QED BY <4>1, <4>2
    <3>5. d[Len(d)] < 32
      <4>1. Len(w) \in 1 .. Len(w) /\ w[Len(w)] < 32
        BY <3>2 DEF Word
      <4> QED BY <3>3, <4>1
    <3>6. Len(d) \in Nat /\ Len(d) >= 1
      BY <3>3
    <3> QED BY <3>1, <3>3, <3>4, <3>5, <3>6 DEF Word
  <2> QED BY <2>1, <2>2
<1>2. T \in SUBSET Nat
  OBVIOUS
<1>3. T = Nat
  <2> HIDE DEF T
  <2> QED BY <1>1, <1>2, StrongNaturals
<1> QED BY <1>3

(***************************************************************************)
(* Reading numbers.                                                        *)
(***************************************************************************)
\* What decodeVLQ has accumulated from the end of a number down to a digit.
Bits(s, first, last) ==
  LET bits[i \in first .. last + 1] ==
        IF i > last THEN 0 ELSE (s[i] % 32) + 32 * bits[i + 1]
  IN  bits

Signed(n) == IF n % 2 = 1 THEN -(n \div 2) ELSE n \div 2

LEMMA DecodeIsBits ==
  ASSUME NEW s, NEW first, NEW last
  PROVE  decodeVLQ(s, first, last) = Signed(Bits(s, first, last)[first])
  BY DEF decodeVLQ, Bits, Signed

\* Where the digits of one number may lie.
Slice(s, first, last) ==
  s \in Seq(Digit) /\ first \in Nat /\ last \in Nat /\ 1 <= first /\ first <= last + 1 /\ last <= Len(s)

LEMMA SliceDigits ==
  ASSUME NEW s, NEW first, NEW last, Slice(s, first, last)
  PROVE  \A i \in first .. last + 1 :
           /\ i \in Nat /\ last + 1 - i \in Nat
           /\ ~ (i > last) => /\ i + 1 \in first .. last + 1 /\ s[i] \in Digit /\ s[i] % 32 \in Nat
                              /\ last + 1 - (i + 1) < last + 1 - i
<1> SUFFICES ASSUME NEW i \in first .. last + 1
             PROVE  /\ i \in Nat /\ last + 1 - i \in Nat
                    /\ ~ (i > last) => /\ i + 1 \in first .. last + 1 /\ s[i] \in Digit
                                       /\ s[i] % 32 \in Nat
                                       /\ last + 1 - (i + 1) < last + 1 - i
  OBVIOUS
<1>1. s \in Seq(Digit) /\ first \in Nat /\ last \in Nat /\ 1 <= first /\ last <= Len(s) /\ Len(s) \in Nat
  BY DEF Slice
<1>2. i \in Nat /\ last + 1 - i \in Nat /\ last + 1 - (i + 1) < last + 1 - i
  BY <1>1
<1>3. ~ (i > last) => i + 1 \in first .. last + 1 /\ i \in 1 .. Len(s)
  BY <1>1
<1>4. ~ (i > last) => s[i] \in Digit
  BY <1>1, <1>3, ElementOfSeq
<1>5. \A d \in Digit : d % 32 \in Nat
  BY DEF Digit
<1> QED BY <1>2, <1>3, <1>4, <1>5

LEMMA BitsDef ==
  ASSUME NEW s, NEW first, NEW last, Slice(s, first, last)
  PROVE  \A i \in first .. last + 1 :
           Bits(s, first, last)[i]
             = IF i > last THEN 0 ELSE (s[i] % 32) + 32 * Bits(s, first, last)[i + 1]
<1> DEFINE S == first .. last + 1
           rank == [i \in S |-> last + 1 - i]
           step == [a \in S \X [S -> Nat] |->
                      IF a[1] > last THEN 0 ELSE (s[a[1]] % 32) + 32 * (a[2])[a[1] + 1]]
<1>1. rank \in [S -> Nat] /\ Nat # {}
  BY SliceDigits
<1>2. ASSUME NEW i \in S, NEW h \in [S -> Nat]
      PROVE  /\ step[<<i, h>>] = IF i > last THEN 0 ELSE (s[i] % 32) + 32 * h[i + 1]
             /\ step[<<i, h>>] \in Nat
  <2>1. step[<<i, h>>] = IF i > last THEN 0 ELSE (s[i] % 32) + 32 * h[i + 1]
    OBVIOUS
  <2>2. ~ (i > last) => s[i] % 32 \in Nat /\ h[i + 1] \in Nat
    BY SliceDigits
  <2> HIDE DEF step
  <2> QED BY <2>1, <2>2
<1>3. step \in [S \X [S -> Nat] -> Nat]
  <2>1. \A a \in S \X [S -> Nat] : a = <<a[1], a[2]>> /\ a[1] \in S /\ a[2] \in [S -> Nat]
    OBVIOUS
  <2>2. \A a \in S \X [S -> Nat] : step[a] \in Nat
    <3> HIDE DEF step, S
    <3> QED BY <1>2, <2>1
  <2> QED BY <2>2
<1>4. ASSUME NEW i \in S, NEW g \in [S -> Nat], NEW h \in [S -> Nat],
             \A j \in S : rank[j] < rank[i] => g[j] = h[j]
      PROVE  step[<<i, g>>] = step[<<i, h>>]
  <2>1. ~ (i > last) => i + 1 \in S /\ rank[i + 1] < rank[i]
    BY SliceDigits
  <2>2. ~ (i > last) => g[i + 1] = h[i + 1]
    BY <1>4, <2>1
  <2> HIDE DEF step
  <2> QED BY <1>2, <2>2
<1>5. PICK f \in [S -> Nat] : \A i \in S : f[i] = step[<<i, f>>]
  <2> HIDE DEF rank, step, S
  <2>1. Recursive(S, Nat, rank, step)
    BY <1>1, <1>3, <1>4 DEF Recursive
  <2> QED BY <2>1, Recursion
<1>6. f = [i \in S |-> IF i > last THEN 0 ELSE (s[i] % 32) + 32 * f[i + 1]]
  <2> HIDE DEF step
  <2> QED BY <1>2, <1>5
<1>7. Bits(s, first, last) = [i \in S |-> IF i > last THEN 0
                                          ELSE (s[i] % 32) + 32 * Bits(s, first, last)[i + 1]]
  BY <1>6 DEF Bits
<1> HIDE DEF step, rank
<1> QED BY <1>7

\* Digits of the same value at another place, and another number before them, read
\* the same.
LEMMA BitsSame ==
  ASSUME NEW s, NEW f, NEW l, Slice(s, f, l), NEW t, NEW g, NEW d \in Nat, Slice(t, g, l + d)
  PROVE  \A i \in f .. l + 1 :
           i + d >= g /\ (\A j \in i .. l : t[j + d] = s[j])
             => Bits(s, f, l)[i] = Bits(t, g, l + d)[i + d]
<1> DEFINE T == {n \in Nat : \A i \in f .. l + 1 :
                   n = l + 1 - i /\ i + d >= g /\ (\A j \in i .. l : t[j + d] = s[j])
                     => Bits(s, f, l)[i] = Bits(t, g, l + d)[i + d]}
<1>1. f \in Nat /\ l \in Nat /\ g \in Nat /\ f <= l + 1
  BY DEF Slice
<1>2. ASSUME NEW n \in Nat, \A m \in Nat : m < n => m \in T PROVE n \in T
  <2> SUFFICES ASSUME NEW i \in f .. l + 1, n = l + 1 - i, i + d >= g,
                      \A j \in i .. l : t[j + d] = s[j]
               PROVE  Bits(s, f, l)[i] = Bits(t, g, l + d)[i + d]
    OBVIOUS
  <2>1. i \in Nat /\ i + d \in g .. (l + d) + 1 /\ (i > l <=> i + d > l + d)
    BY <1>1
  <2>2. Bits(s, f, l)[i] = IF i > l THEN 0 ELSE (s[i] % 32) + 32 * Bits(s, f, l)[i + 1]
    BY BitsDef
  <2>3. Bits(t, g, l + d)[i + d]
          = IF i + d > l + d THEN 0
            ELSE (t[i + d] % 32) + 32 * Bits(t, g, l + d)[(i + d) + 1]
    BY <2>1, BitsDef
  <2>4. CASE i > l
    BY <2>1, <2>2, <2>3, <2>4
  <2>5. CASE ~ (i > l)
    <3>1. /\ i + 1 \in f .. l + 1 /\ l + 1 - (i + 1) \in Nat /\ l + 1 - (i + 1) < n
          /\ (i + 1) + d >= g /\ (i + 1) + d = (i + d) + 1
      BY <1>1, <2>1, <2>5
    <3>2. \A j \in i + 1 .. l : t[j + d] = s[j]
      BY <1>1, <2>1
    <3>3. l + 1 - (i + 1) \in T
      BY <1>2, <3>1
    <3>4. Bits(s, f, l)[i + 1] = Bits(t, g, l + d)[(i + 1) + d]
      BY <3>1, <3>2, <3>3
    <3>5. t[i + d] = s[i]
      BY <1>1, <2>1, <2>5
    <3> QED BY <2>1, <2>2, <2>3, <2>5, <3>1, <3>4, <3>5
  <2> QED BY <2>4, <2>5
<1>3. T \in SUBSET Nat
  OBVIOUS
<1>4. T = Nat
  <2> HIDE DEF T
  <2> QED BY <1>2, <1>3, StrongNaturals
<1> SUFFICES ASSUME NEW i \in f .. l + 1, i + d >= g, \A j \in i .. l : t[j + d] = s[j]
             PROVE  Bits(s, f, l)[i] = Bits(t, g, l + d)[i + d]
  OBVIOUS
<1>5. l + 1 - i \in Nat
  BY <1>1
<1> QED BY <1>4, <1>5

LEMMA DecodeSame ==
  ASSUME NEW s, NEW f, NEW l, Slice(s, f, l), NEW t, NEW d \in Nat, Slice(t, f + d, l + d),
         \A j \in f .. l : t[j + d] = s[j]
  PROVE  decodeVLQ(t, f + d, l + d) = decodeVLQ(s, f, l)
<1>1. f \in f .. l + 1 /\ f + d >= f + d
  BY DEF Slice
<1>2. Bits(s, f, l)[f] = Bits(t, f + d, l + d)[f + d]
  BY <1>1, BitsSame
<1> QED BY <1>2, DecodeIsBits

\* A number is what its digits say.
LEMMA BitsOfDigits == \A v \in Nat : Bits(Digits[v], 1, Len(Digits[v]))[1] = v
<1> DEFINE T == {v \in Nat : Bits(Digits[v], 1, Len(Digits[v]))[1] = v}
<1>1. ASSUME NEW v \in Nat, \A u \in Nat : u < v => u \in T PROVE v \in T
  <2> DEFINE d == Digits[v]
             n == Len(d)
  <2>1. Word(d) /\ n \in Nat /\ n >= 1
    BY DigitsAreWords DEF Word
  <2> HIDE DEF d
  <2>2. Slice(d, 1, n)
    BY <2>1 DEF Word, Slice
  <2>3. 1 \in 1 .. n + 1 /\ ~ (1 > n)
    BY <2>1
  <2>4. Bits(d, 1, n)[1] = (d[1] % 32) + 32 * Bits(d, 1, n)[1 + 1]
    <3> HIDE DEF n
    <3> QED BY <2>2, <2>3, BitsDef
  <2>5. CASE v < 32
    <3>1. n = 1 /\ d[1] = v
      <4>1. d = <<v>>
        BY <2>5, DigitsDef DEF d
      <4> QED BY <4>1
    <3>2. 1 + 1 \in 1 .. n + 1 /\ 1 + 1 > n
      BY <3>1
    <3>3. Bits(d, 1, n)[1 + 1] = 0
      <4> HIDE DEF n
      <4> QED BY <2>2, <3>2, BitsDef
    <3>4. Bits(d, 1, n)[1] = v
      <4> HIDE DEF n
      <4> QED BY <2>4, <2>5, <3>1, <3>3, DigitSteps
    <3> QED BY <3>4 DEF d
  <2>6. CASE ~ (v < 32)
    <3> DEFINE u == v \div 32
               x == 32 + (v % 32)
               w == Digits[u]
               m == Len(w)
    <3>1. u \in Nat /\ u < v /\ x \in Digit /\ x % 32 = v % 32 /\ v = (v % 32) + 32 * u
      BY <2>6, DigitSteps DEF Digit
    <3>2. d = <<x>> \o w
      BY <2>6, DigitsDef DEF d
    <3> HIDE DEF u, x
    <3>3. Word(w)
      BY <3>1, DigitsAreWords
    <3>4. Bits(w, 1, m)[1] = u
      BY <1>1, <3>1
    <3> HIDE DEF w
    <3>5. n = m + 1 /\ d[1] = x /\ m \in Nat /\ m >= 1 /\ \A i \in 1 .. m : d[i + 1] = w[i]
      BY <3>1, <3>2, <3>3, PutBefore DEF Word
    <3>6. Slice(w, 1, m)
      BY <3>3 DEF Word, Slice
    <3>7. Bits(w, 1, m)[1] = Bits(d, 1, m + 1)[1 + 1]
      <4>1. 1 \in 1 .. m + 1 /\ 1 + 1 >= 1
        BY <3>5
      <4>2. Slice(d, 1, m + 1)
        BY <2>2, <3>5
      <4>3. \A j \in 1 .. m : d[j + 1] = w[j]
        BY <3>5
      <4>4. 1 \in Nat
        OBVIOUS
      <4> HIDE DEF m, n
      <4>5. \A i \in 1 .. m + 1 :
              i + 1 >= 1 /\ (\A j \in i .. m : d[j + 1] = w[j])
                => Bits(w, 1, m)[i] = Bits(d, 1, m + 1)[i + 1]
        BY <3>6, <4>2, <4>4, BitsSame
      <4> QED BY <4>1, <4>3, <4>5
    <3> HIDE DEF m, n
    <3>8. Bits(d, 1, n)[1] = (v % 32) + 32 * u
      BY <2>4, <3>1, <3>4, <3>5, <3>7
    <3> QED BY <3>1, <3>8 DEF d, n
  <2> QED BY <2>5, <2>6
<1>2. T \in SUBSET Nat
  OBVIOUS
<1>3. T = Nat
  <2> HIDE DEF T
  <2> QED BY <1>1, <1>2, StrongNaturals
<1> QED BY <1>3

\* decodeVLQ reads what a bundler wrote: every integer is spelled by a word, and the
\* word read back is that integer, whatever its sign and its number of digits
\* (parse.go: continuation bits, the sign in the lowest bit).
THEOREM DecodeVLQ ==
  ASSUME NEW n \in Int
  PROVE  Word(VLQ(n)) /\ decodeVLQ(VLQ(n), 1, Len(VLQ(n))) = n
<1> DEFINE v == IF n >= 0 THEN 2 * n ELSE 1 - 2 * n
<1>1. v \in Nat /\ Signed(v) = n
  BY DEF Signed
<1>2. VLQ(n) = Digits[v]
  BY DEF VLQ
<1> HIDE DEF v
<1> QED BY <1>1, <1>2, DigitsAreWords, BitsOfDigits, DecodeIsBits

(***************************************************************************)
(* Finite sets of numbers in order.                                        *)
(***************************************************************************)
Rank(S, x) == Cardinality({m \in S : m <= x})

LEMMA RankGrows ==
  ASSUME NEW S \in SUBSET Int, IsFiniteSet(S)
  PROVE  /\ \A x \in S : Rank(S, x) \in 1 .. Cardinality(S)
         /\ \A x, y \in S : x < y => Rank(S, x) < Rank(S, y)
         /\ \A x, y \in S : Rank(S, x) = Rank(S, y) => x = y
<1> DEFINE At(x) == {m \in S : m <= x}
<1>1. \A x \in S : /\ IsFiniteSet(At(x)) /\ Cardinality(At(x)) \in Nat /\ Cardinality(At(x)) # 0
                   /\ Cardinality(At(x)) <= Cardinality(S)
  <2> SUFFICES ASSUME NEW x \in S
               PROVE  /\ IsFiniteSet(At(x)) /\ Cardinality(At(x)) \in Nat /\ Cardinality(At(x)) # 0
                      /\ Cardinality(At(x)) <= Cardinality(S)
    OBVIOUS
  <2>1. At(x) \in SUBSET S /\ x \in At(x)
    OBVIOUS
  <2> HIDE DEF At
  <2>2. IsFiniteSet(At(x)) /\ Cardinality(At(x)) <= Cardinality(S)
    BY <2>1, FS_Subset
  <2> QED BY <2>1, <2>2, FS_CardinalityType, FS_EmptySet
<1>2. ASSUME NEW x \in S, NEW y \in S, x < y PROVE Cardinality(At(x)) < Cardinality(At(y))
  <2>1. At(x) \in SUBSET At(y) /\ y \in At(y) /\ y \notin At(x)
    <3>1. \A m \in S : m \in Int
      OBVIOUS
    <3>2. x \in Int /\ y \in Int
      BY <3>1
    <3>3. \A m \in Int : m <= x => m <= y
      BY <1>2, <3>2
    <3>4. \A m \in S : m <= x => m <= y
      BY <3>1, <3>3
    <3>5. y <= y /\ ~ (y <= x)
      BY <1>2, <3>2
    <3>6. At(x) \in SUBSET At(y)
      BY <3>4
    <3> QED BY <3>5, <3>6
  <2> HIDE DEF At
  <2>2. Cardinality(At(x)) <= Cardinality(At(y)) /\ Cardinality(At(x)) # Cardinality(At(y))
    BY <1>1, <2>1, FS_Subset
  <2> QED BY <1>1, <2>2
<1>3. Cardinality(S) \in Nat
  BY FS_CardinalityType
<1>4. \A x \in S : Rank(S, x) = Cardinality(At(x))
  BY DEF Rank
<1> HIDE DEF At
<1>5. \A x \in S : Rank(S, x) \in 1 .. Cardinality(S)
  BY <1>1, <1>3, <1>4
<1>6. \A x, y \in S : x < y => Rank(S, x) < Rank(S, y)
  BY <1>2, <1>4
<1>7. \A x, y \in S : Rank(S, x) = Rank(S, y) => x = y
  <2>1. \A x, y \in S : x < y \/ y < x \/ x = y
    OBVIOUS
  <2>2. \A x, y \in S : Rank(S, x) < Rank(S, y) => Rank(S, x) # Rank(S, y)
    BY <1>5
  <2> QED BY <1>6, <2>1, <2>2
<1> QED BY <1>5, <1>6, <1>7

\* q is an increasing enumeration of S.
SortedAs(S, q) ==
  /\ q \in Seq(S) /\ \A x \in S : \E k \in DOMAIN q : q[k] = x
  /\ \A i, j \in DOMAIN q : i < j => q[i] < q[j]

LEMMA AscendingSorted ==
  ASSUME NEW S \in SUBSET Int, IsFiniteSet(S)
  PROVE  SortedAs(S, Ascending(S)) /\ Len(Ascending(S)) = Cardinality(S)
<1> DEFINE n == Cardinality(S)
           q == Ascending(S)
           f == [x \in S |-> Rank(S, x)]
<1>1. n \in Nat
  BY FS_CardinalityType
<1>2. f \in [S -> 1 .. n] /\ \A x, y \in S : f[x] = f[y] => x = y
  BY RankGrows
<1>3. \A k \in 1 .. n : \E x \in S : f[x] = k
  <2>1. f \in Injection(S, 1 .. n)
    <3> HIDE DEF f, n
    <3> QED BY <1>2 DEF Injection, IsInjective
  <2>2. IsFiniteSet(1 .. n) /\ Cardinality(1 .. n) = n
    BY <1>1, IntervalSize
  <2> HIDE DEF f
  <2>3. f \in Surjection(S, 1 .. n)
    BY <2>1, <2>2, FS_Injection
  <2> QED BY <2>3 DEF Surjection
<1>4. \A k \in 1 .. n : q[k] \in S /\ Rank(S, q[k]) = k
  <2>1. \A k \in 1 .. n : q[k] = CHOOSE x \in S : Rank(S, x) = k
    BY DEF Ascending, Rank
  <2>2. \A k \in 1 .. n : \E x \in S : Rank(S, x) = k
    BY <1>3
  <2> HIDE DEF q, n
  <2> QED BY <2>1, <2>2
<1>5. q \in Seq(S) /\ DOMAIN q = 1 .. n /\ Len(q) = n
  <2>1. q = [k \in 1 .. n |-> CHOOSE x \in S : Rank(S, x) = k]
    BY DEF Ascending, Rank
  <2> HIDE DEF q, n
  <2>2. q \in [1 .. n -> S]
    BY <1>4, <2>1
  <2> QED BY <1>1, <2>2
<1> HIDE DEF q, n, f
<1>6. ASSUME NEW x \in S PROVE \E k \in DOMAIN q : q[k] = x
  <2> DEFINE k == Rank(S, x)
  <2>1. k \in 1 .. n
    BY RankGrows DEF n
  <2>2. Rank(S, q[k]) = k /\ q[k] \in S
    BY <1>4, <2>1
  <2>3. q[k] = x
    <3> DEFINE y == q[k]
    <3>1. y \in S /\ Rank(S, y) = Rank(S, x)
      BY <2>2
    <3> HIDE DEF y, k
    <3>2. y = x
      BY <3>1, RankGrows
    <3> QED BY <3>2 DEF y
  <2> QED BY <1>5, <2>1, <2>3
<1>7. ASSUME NEW i \in DOMAIN q, NEW j \in DOMAIN q, i < j PROVE q[i] < q[j]
  <2> DEFINE a == q[i]
             b == q[j]
  <2>1. i \in Int /\ j \in Int /\ a \in S /\ b \in S /\ Rank(S, a) = i /\ Rank(S, b) = j
    BY <1>1, <1>4, <1>5
  <2> HIDE DEF a, b
  <2>2. b < a => Rank(S, b) < Rank(S, a)
    BY <2>1, RankGrows
  <2>3. a # b /\ ~ (b < a)
    BY <1>7, <2>1, <2>2
  <2>4. a \in Int /\ b \in Int
    BY <2>1
  <2>5. a < b
    BY <2>3, <2>4
  <2> QED BY <2>5 DEF a, b
<1>8. SortedAs(S, q)
  BY <1>5, <1>6, <1>7 DEF SortedAs
<1> QED BY <1>5, <1>8 DEF q, n

\* There is only one.
LEMMA SortedOnce ==
  ASSUME NEW S \in SUBSET Int, NEW q, SortedAs(S, q)
  PROVE  IsFiniteSet(S) /\ Ascending(S) = q
<1> DEFINE n == Len(q)
<1>1. n \in Nat /\ q \in [1 .. n -> S] /\ DOMAIN q = 1 .. n
  BY DEF SortedAs
<1>2. \A i, j \in 1 .. n : (q[i] <= q[j] <=> i <= j) /\ (q[i] = q[j] => i = j)
  <2>1. \A i, j \in 1 .. n : i < j => q[i] < q[j]
    BY <1>1 DEF SortedAs
  <2>2. \A i \in 1 .. n : q[i] \in Int
    BY <1>1
  <2> HIDE DEF n
  <2> QED BY <1>1, <2>1, <2>2
<1> HIDE DEF n
<1>3. ASSUME NEW k \in 1 .. n
      PROVE  IsFiniteSet({m \in S : m <= q[k]}) /\ Rank(S, q[k]) = k
  <2> DEFINE A == {m \in S : m <= q[k]}
             f == [i \in 1 .. k |-> q[i]]
  <2>1. k \in Nat /\ IsFiniteSet(1 .. k) /\ Cardinality(1 .. k) = k /\ \A i \in 1 .. k : i \in 1 .. n /\ i <= k
    BY <1>1, IntervalSize
  <2>2. f \in [1 .. k -> A]
    BY <1>1, <1>2, <2>1
  <2>3. \A x \in A : \E i \in 1 .. k : f[i] = x
    <3> SUFFICES ASSUME NEW x \in A PROVE \E i \in 1 .. k : f[i] = x
      OBVIOUS
    <3>1. PICK i \in 1 .. n : q[i] = x
      BY <1>1 DEF SortedAs
    <3>2. i <= k
      BY <1>2, <3>1
    <3> QED BY <1>1, <3>1, <3>2
  <2>4. \A i, j \in 1 .. k : f[i] = f[j] => i = j
    BY <1>2, <2>1
  <2> HIDE DEF f
  <2>5. f \in Bijection(1 .. k, A)
    <3> HIDE DEF A
    <3> QED BY <2>2, <2>3, <2>4 DEF Bijection, Injection, Surjection, IsInjective
  <2>6. IsFiniteSet(A) /\ Cardinality(A) = k
    <3> HIDE DEF A
    <3>1. ExistsBijection(1 .. k, A)
      BY <2>5 DEF ExistsBijection
    <3> QED BY <2>1, <3>1, FS_Bijection
  <2> QED BY <2>6 DEF Rank
<1>4. IsFiniteSet(S) /\ Cardinality(S) = n
  <2>1. CASE n = 0
    <3>1. S = {}
      BY <1>1, <2>1 DEF SortedAs
    <3> QED BY <2>1, <3>1, FS_EmptySet
  <2>2. CASE n # 0
    <3>1. n \in 1 .. n
      BY <1>1, <2>2
    <3>2. \A x \in S : x <= q[n]
      <4> SUFFICES ASSUME NEW x \in S PROVE x <= q[n]
        OBVIOUS
      <4>1. PICK i \in 1 .. n : q[i] = x
        BY <1>1 DEF SortedAs
      <4>2. i <= n
        BY <1>1
      <4> QED BY <1>2, <3>1, <4>1, <4>2
    <3>3. S = {m \in S : m <= q[n]}
      BY <3>2
    <3> QED BY <1>3, <3>1, <3>3 DEF Rank
  <2> QED BY <2>1, <2>2
<1>5. \A k \in 1 .. n : q[k] = CHOOSE x \in S : Rank(S, x) = k
  <2> SUFFICES ASSUME NEW k \in 1 .. n PROVE q[k] = CHOOSE x \in S : Rank(S, x) = k
    OBVIOUS
  <2>1. q[k] \in S /\ Rank(S, q[k]) = k
    BY <1>1, <1>3
  <2>2. \A x \in S : Rank(S, x) = k => x = q[k]
    <3> DEFINE y == q[k]
    <3>1. y \in S /\ Rank(S, y) = k
      BY <2>1
    <3> HIDE DEF y
    <3>2. \A x \in S : Rank(S, x) = k => x = y
      BY <1>4, <3>1, RankGrows
    <3> QED BY <3>2 DEF y
  <2> QED BY <2>1, <2>2
<1>6. Ascending(S) = [k \in 1 .. n |-> CHOOSE x \in S : Rank(S, x) = k]
  BY <1>4 DEF Ascending, Rank
<1> QED BY <1>1, <1>4, <1>5, <1>6

(***************************************************************************)
(* Binary search.                                                          *)
(***************************************************************************)
\* Where a search of n segments stands.
SearchState(n) == [lo : 1 .. n + 1, hi : 0 .. n, found : 0 .. n]
Higher(s) == [s EXCEPT !.lo = (s.lo + s.hi) \div 2 + 1, !.found = (s.lo + s.hi) \div 2]
Lower(s) == [s EXCEPT !.hi = (s.lo + s.hi) \div 2 - 1]
Left(s) == IF s.lo > s.hi THEN 0 ELSE s.hi - s.lo + 1

\* How Found's search ends from each state.
Bisect(segs, col) ==
  LET n == Len(segs)
      bisect[s \in [lo : 1 .. n + 1, hi : 0 .. n, found : 0 .. n]] ==
        LET mid == (s.lo + s.hi) \div 2
        IN  IF s.lo > s.hi THEN s.found
            ELSE IF segs[mid].genCol <= col THEN bisect[[s EXCEPT !.lo = mid + 1, !.found = mid]]
            ELSE bisect[[s EXCEPT !.hi = mid - 1]]
  IN  bisect

LEMMA FoundIsBisect ==
  ASSUME NEW segs, NEW col
  PROVE  Found(segs, col) = Bisect(segs, col)[[lo |-> 1, hi |-> Len(segs), found |-> 0]]
  BY DEF Found, Bisect

LEMMA Middle ==
  ASSUME NEW lo \in Nat, NEW hi \in Nat, lo <= hi
  PROVE  (lo + hi) \div 2 \in Nat /\ lo <= (lo + hi) \div 2 /\ (lo + hi) \div 2 <= hi
  OBVIOUS

LEMMA SearchMoves ==
  ASSUME NEW n \in Nat, NEW s \in SearchState(n)
  PROVE  LET m == (s.lo + s.hi) \div 2
         IN  /\ Left(s) \in Nat /\ s.lo \in Nat /\ s.hi \in Nat /\ s.found \in 0 .. n
             /\ ~ (s.lo > s.hi) =>
                  /\ m \in 1 .. n /\ s.lo <= m /\ m <= s.hi
                  /\ Higher(s) \in SearchState(n) /\ Lower(s) \in SearchState(n)
                  /\ Left(Higher(s)) < Left(s) /\ Left(Lower(s)) < Left(s)
                  /\ Higher(s).lo = m + 1 /\ Higher(s).hi = s.hi /\ Higher(s).found = m
                  /\ Lower(s).lo = s.lo /\ Lower(s).hi = m - 1 /\ Lower(s).found = s.found
<1> DEFINE m == (s.lo + s.hi) \div 2
<1>1. s.lo \in 1 .. n + 1 /\ s.hi \in 0 .. n /\ s.found \in 0 .. n
  BY DEF SearchState
<1>2. s.lo \in Nat /\ s.hi \in Nat /\ Left(s) \in Nat
  BY <1>1 DEF Left
<1>3. ASSUME ~ (s.lo > s.hi) PROVE m \in 1 .. n /\ s.lo <= m /\ m <= s.hi
  <2>1. s.lo <= s.hi
    BY <1>2, <1>3
  <2>2. m \in Nat /\ s.lo <= m /\ m <= s.hi
    BY <1>2, <2>1, Middle
  <2> HIDE DEF m
  <2> QED BY <1>1, <2>2
<1> HIDE DEF m
<1>4. Higher(s) = [s EXCEPT !.lo = m + 1, !.found = m] /\ Lower(s) = [s EXCEPT !.hi = m - 1]
  BY DEF Higher, Lower, m
<1>5. ASSUME ~ (s.lo > s.hi)
      PROVE  /\ Higher(s) \in SearchState(n) /\ Lower(s) \in SearchState(n)
             /\ Higher(s).lo = m + 1 /\ Higher(s).hi = s.hi /\ Higher(s).found = m
             /\ Lower(s).lo = s.lo /\ Lower(s).hi = m - 1 /\ Lower(s).found = s.found
  <2>1. m + 1 \in 1 .. n + 1 /\ m \in 0 .. n /\ m - 1 \in 0 .. n
    BY <1>3, <1>5
  <2> QED BY <1>4, <2>1 DEF SearchState
<1>6. ASSUME ~ (s.lo > s.hi) PROVE Left(Higher(s)) < Left(s) /\ Left(Lower(s)) < Left(s)
  <2>1. Left(Higher(s)) = IF m + 1 > s.hi THEN 0 ELSE s.hi - (m + 1) + 1
    BY <1>5, <1>6 DEF Left
  <2>2. Left(Lower(s)) = IF s.lo > m - 1 THEN 0 ELSE (m - 1) - s.lo + 1
    BY <1>5, <1>6 DEF Left
  <2>3. Left(s) = s.hi - s.lo + 1
    BY <1>6 DEF Left
  <2> QED BY <1>2, <1>3, <1>6, <2>1, <2>2, <2>3
<1> QED BY <1>1, <1>2, <1>3, <1>5, <1>6 DEF m

LEMMA BisectDef ==
  ASSUME NEW segs, Len(segs) \in Nat, NEW col
  PROVE  \A s \in SearchState(Len(segs)) :
           Bisect(segs, col)[s] =
             IF s.lo > s.hi THEN s.found
             ELSE IF segs[(s.lo + s.hi) \div 2].genCol <= col THEN Bisect(segs, col)[Higher(s)]
             ELSE Bisect(segs, col)[Lower(s)]
<1> DEFINE n == Len(segs)
           S == SearchState(n)
           V == 0 .. n
           rank == [s \in S |-> Left(s)]
           step == [a \in S \X [S -> V] |->
                      IF a[1].lo > a[1].hi THEN a[1].found
                      ELSE IF segs[(a[1].lo + a[1].hi) \div 2].genCol <= col THEN (a[2])[Higher(a[1])]
                      ELSE (a[2])[Lower(a[1])]]
<1> USE DEF n
<1>1. V # {} /\ rank \in [S -> Nat]
  <2>1. \A s \in S : Left(s) \in Nat
    BY SearchMoves
  <2>2. 0 \in V
    OBVIOUS
  <2> QED BY <2>1, <2>2
<1> HIDE DEF n
<1>2. ASSUME NEW s \in S, NEW h \in [S -> V]
      PROVE  /\ step[<<s, h>>] = IF s.lo > s.hi THEN s.found
                                 ELSE IF segs[(s.lo + s.hi) \div 2].genCol <= col THEN h[Higher(s)]
                                 ELSE h[Lower(s)]
             /\ step[<<s, h>>] \in V
  <2>1. step[<<s, h>>] = IF s.lo > s.hi THEN s.found
                         ELSE IF segs[(s.lo + s.hi) \div 2].genCol <= col THEN h[Higher(s)]
                         ELSE h[Lower(s)]
    OBVIOUS
  <2>2. s.found \in V /\ (~ (s.lo > s.hi) => Higher(s) \in S /\ Lower(s) \in S)
    BY SearchMoves DEF n
  <2>3. ~ (s.lo > s.hi) => h[Higher(s)] \in V /\ h[Lower(s)] \in V
    BY <2>2
  <2> HIDE DEF step, V
  <2> QED BY <2>1, <2>2, <2>3
<1>3. step \in [S \X [S -> V] -> V]
  <2>1. \A a \in S \X [S -> V] : a = <<a[1], a[2]>> /\ a[1] \in S /\ a[2] \in [S -> V]
    OBVIOUS
  <2>2. \A a \in S \X [S -> V] : step[a] \in V
    <3> HIDE DEF step, S, V
    <3> QED BY <1>2, <2>1
  <2> QED BY <2>2
<1>4. ASSUME NEW s \in S, NEW g \in [S -> V], NEW h \in [S -> V],
             \A t \in S : rank[t] < rank[s] => g[t] = h[t]
      PROVE  step[<<s, g>>] = step[<<s, h>>]
  <2>1. ~ (s.lo > s.hi) => /\ Higher(s) \in S /\ Lower(s) \in S
                           /\ Left(Higher(s)) < Left(s) /\ Left(Lower(s)) < Left(s)
    BY SearchMoves DEF n
  <2>2. \A t \in S : rank[t] = Left(t)
    OBVIOUS
  <2> HIDE DEF step, rank, S, V
  <2>3. ~ (s.lo > s.hi) => g[Higher(s)] = h[Higher(s)] /\ g[Lower(s)] = h[Lower(s)]
    BY <1>4, <2>1, <2>2
  <2>4. step[<<s, g>>] = IF s.lo > s.hi THEN s.found
                         ELSE IF segs[(s.lo + s.hi) \div 2].genCol <= col THEN g[Higher(s)]
                         ELSE g[Lower(s)]
    BY <1>2
  <2>5. step[<<s, h>>] = IF s.lo > s.hi THEN s.found
                         ELSE IF segs[(s.lo + s.hi) \div 2].genCol <= col THEN h[Higher(s)]
                         ELSE h[Lower(s)]
    BY <1>2
  <2> QED BY <2>3, <2>4, <2>5
<1>5. PICK f \in [S -> V] : \A s \in S : f[s] = step[<<s, f>>]
  <2> HIDE DEF rank, step, S, V
  <2>1. Recursive(S, V, rank, step)
    BY <1>1, <1>3, <1>4 DEF Recursive
  <2> QED BY <2>1, Recursion
<1>6. f = [s \in S |-> IF s.lo > s.hi THEN s.found
                       ELSE IF segs[(s.lo + s.hi) \div 2].genCol <= col THEN f[Higher(s)]
                       ELSE f[Lower(s)]]
  <2> HIDE DEF step, S, V
  <2> QED BY <1>2, <1>5
<1>7. Bisect(segs, col) = [s \in S |-> IF s.lo > s.hi THEN s.found
                            ELSE IF segs[(s.lo + s.hi) \div 2].genCol <= col
                                 THEN Bisect(segs, col)[Higher(s)]
                            ELSE Bisect(segs, col)[Lower(s)]]
  <2> HIDE DEF step, rank, V
  <2> QED BY <1>6 DEF Bisect, SearchState, Higher, Lower, n
<1> HIDE DEF step, rank, V
<1> QED BY <1>7 DEF n

\* The binary search ends and finds the last segment at or before the column, for
\* lines of any length whose segments are in order: no segment at its edges or in
\* its middle is left out (Resolve in parse.go).
THEOREM FoundIsLast ==
  ASSUME NEW segs, Len(segs) \in Nat, NEW col \in Int,
         \A i \in 1 .. Len(segs) : segs[i].genCol \in Int,
         \A i, j \in 1 .. Len(segs) : i < j => segs[i].genCol < segs[j].genCol
  PROVE  /\ Found(segs, col) \in 0 .. Len(segs)
         /\ \A i \in 1 .. Len(segs) : segs[i].genCol <= col <=> i <= Found(segs, col)
<1> DEFINE n == Len(segs)
           S == SearchState(n)
           Splits(r) == r \in 0 .. n /\ \A i \in 1 .. n : segs[i].genCol <= col <=> i <= r
           Sound(s) == /\ s.found = s.lo - 1 /\ s.lo <= s.hi + 1
                       /\ \A i \in 1 .. n : /\ i < s.lo => segs[i].genCol <= col
                                            /\ s.hi < i => ~ (segs[i].genCol <= col)
           T == {k \in Nat : \A s \in S : Left(s) = k /\ Sound(s) => Splits(Bisect(segs, col)[s])}
<1>1. ASSUME NEW k \in Nat, \A m \in Nat : m < k => m \in T PROVE k \in T
  <2> SUFFICES ASSUME NEW s \in S, Left(s) = k, Sound(s) PROVE Splits(Bisect(segs, col)[s])
    OBVIOUS
  <2> DEFINE mid == (s.lo + s.hi) \div 2
  <2>1. Bisect(segs, col)[s] = IF s.lo > s.hi THEN s.found
                               ELSE IF segs[mid].genCol <= col THEN Bisect(segs, col)[Higher(s)]
                               ELSE Bisect(segs, col)[Lower(s)]
    BY BisectDef
  <2>2. /\ s.lo \in Nat /\ s.hi \in Nat /\ s.found \in 0 .. n
        /\ ~ (s.lo > s.hi) =>
             /\ mid \in 1 .. n /\ s.lo <= mid /\ mid <= s.hi
             /\ Higher(s) \in S /\ Lower(s) \in S /\ Left(Higher(s)) \in Nat /\ Left(Lower(s)) \in Nat
             /\ Left(Higher(s)) < Left(s) /\ Left(Lower(s)) < Left(s)
             /\ Higher(s).lo = mid + 1 /\ Higher(s).hi = s.hi /\ Higher(s).found = mid
             /\ Lower(s).lo = s.lo /\ Lower(s).hi = mid - 1 /\ Lower(s).found = s.found
    BY SearchMoves
  <2> HIDE DEF mid
  <2>3. CASE s.lo > s.hi
    <3>1. s.lo = s.hi + 1 /\ s.found = s.hi /\ s.found = s.lo - 1
      BY <2>2, <2>3
    <3>2. \A i \in 1 .. n : i <= s.found \/ ~ (i <= s.found)
      OBVIOUS
    <3>3. \A i \in 1 .. n : (i <= s.found <=> i < s.lo) /\ (~ (i <= s.found) <=> s.hi < i)
      BY <2>2, <3>1
    <3>4. Splits(s.found)
      BY <2>2, <3>3
    <3> QED BY <2>1, <2>3, <3>4
  <2>4. CASE ~ (s.lo > s.hi) /\ segs[mid].genCol <= col
    <3>1. \A i \in 1 .. n : i < mid + 1 => segs[i].genCol <= col
      <4> SUFFICES ASSUME NEW i \in 1 .. n, i < mid + 1 PROVE segs[i].genCol <= col
        OBVIOUS
      <4>1. i = mid \/ i < mid
        BY <2>2, <2>4
      <4>2. i < mid => segs[i].genCol < segs[mid].genCol
        BY <2>2, <2>4
      <4>3. segs[i].genCol \in Int /\ segs[mid].genCol \in Int
        BY <2>2, <2>4
      <4> QED BY <2>4, <4>1, <4>2, <4>3
    <3>2. Sound(Higher(s))
      <4>1. mid = (mid + 1) - 1 /\ mid + 1 <= s.hi + 1
        <5>1. mid \in Int /\ s.hi \in Int /\ mid <= s.hi
          BY <2>2, <2>4
        <5> QED BY <5>1
      <4> QED BY <2>2, <2>4, <3>1, <4>1
    <3>3. Splits(Bisect(segs, col)[Higher(s)])
      <4> HIDE DEF Sound, Splits, S
      <4> QED BY <1>1, <2>2, <2>4, <3>2
    <3> QED BY <2>1, <2>4, <3>3
  <2>5. CASE ~ (s.lo > s.hi) /\ ~ (segs[mid].genCol <= col)
    <3>1. \A i \in 1 .. n : mid - 1 < i => ~ (segs[i].genCol <= col)
      <4> SUFFICES ASSUME NEW i \in 1 .. n, mid - 1 < i PROVE ~ (segs[i].genCol <= col)
        OBVIOUS
      <4>1. i = mid \/ mid < i
        BY <2>2, <2>5
      <4>2. mid < i => segs[mid].genCol < segs[i].genCol
        BY <2>2, <2>5
      <4>3. segs[i].genCol \in Int /\ segs[mid].genCol \in Int
        BY <2>2, <2>5
      <4> QED BY <2>5, <4>1, <4>2, <4>3
    <3>2. Sound(Lower(s))
      <4>1. s.lo <= (mid - 1) + 1
        BY <2>2, <2>5
      <4> QED BY <2>2, <2>5, <3>1, <4>1
    <3>3. Splits(Bisect(segs, col)[Lower(s)])
      <4> HIDE DEF Sound, Splits, S
      <4> QED BY <1>1, <2>2, <2>5, <3>2
    <3> QED BY <2>1, <2>5, <3>3
  <2> QED BY <2>3, <2>4, <2>5
<1>2. T \in SUBSET Nat
  OBVIOUS
<1>3. T = Nat
  <2> HIDE DEF T
  <2> QED BY <1>1, <1>2, StrongNaturals
<1> DEFINE first == [lo |-> 1, hi |-> n, found |-> 0]
<1>4. first \in S /\ Sound(first) /\ Left(first) \in Nat
  <2>1. first.lo = 1 /\ first.hi = n /\ first.found = 0 /\ first \in S
    BY DEF SearchState
  <2>2. Left(first) \in Nat
    <3> HIDE DEF first
    <3> QED BY <2>1, SearchMoves
  <2>3. 0 = 1 - 1 /\ 1 <= n + 1 /\ \A i \in 1 .. n : ~ (i < 1) /\ ~ (n < i)
    OBVIOUS
  <2> QED BY <2>1, <2>2, <2>3
<1>5. Splits(Bisect(segs, col)[first])
  <2> HIDE DEF Sound, Splits, S, first
  <2> QED BY <1>3, <1>4
<1> QED BY <1>5, FoundIsBisect

(***************************************************************************)
(* The numbers of a segment.                                               *)
(***************************************************************************)
LEMMA Joined ==
  ASSUME NEW S, NEW s \in Seq(S), NEW t \in Seq(S)
  PROVE  /\ s \o t \in Seq(S) /\ Len(s) \in Nat /\ Len(t) \in Nat /\ Len(s \o t) = Len(s) + Len(t)
         /\ \A i \in 1 .. Len(s) : (s \o t)[i] = s[i]
         /\ \A i \in 1 .. Len(t) : (s \o t)[i + Len(s)] = t[i]
  OBVIOUS

LEMMA Added ==
  ASSUME NEW S, NEW s \in Seq(S), NEW x \in S
  PROVE  /\ Append(s, x) \in Seq(S) /\ Len(Append(s, x)) = Len(s) + 1 /\ Len(s) \in Nat
         /\ DOMAIN Append(s, x) = 1 .. Len(s) + 1 /\ DOMAIN s = 1 .. Len(s)
         /\ \A i \in 1 .. Len(s) : Append(s, x)[i] = s[i]
         /\ Append(s, x)[Len(s) + 1] = x
  OBVIOUS

LowIn(s) == {i \in DOMAIN s : s[i] < 32}
From(e, k) == IF k = 1 THEN 1 ELSE e[k - 1] + 1

LEMMA EndsSorted ==
  ASSUME NEW s \in Seq(Digit)
  PROVE  /\ LowIn(s) \in SUBSET (1 .. Len(s)) /\ IsFiniteSet(LowIn(s))
         /\ SortedAs(LowIn(s), Ends(s))
<1>1. Len(s) \in Nat /\ LowIn(s) \in SUBSET (1 .. Len(s))
  BY DEF LowIn
<1>2. IsFiniteSet(LowIn(s))
  BY <1>1, IntervalSize, FS_Subset
<1>3. LowIn(s) \in SUBSET Int
  BY <1>1
<1> QED BY <1>1, <1>2, <1>3, AscendingSorted DEF Ends, LowIn

LEMMA EndsSlice ==
  ASSUME NEW s \in Seq(Digit)
  PROVE  /\ Ends(s) \in Seq(1 .. Len(s)) /\ DOMAIN Ends(s) = 1 .. Len(Ends(s)) /\ Len(Ends(s)) \in Nat
         /\ \A k \in 1 .. Len(Ends(s)) : Slice(s, From(Ends(s), k), Ends(s)[k])
<1> DEFINE e == Ends(s)
           n == Len(e)
<1>1. SortedAs(LowIn(s), e) /\ LowIn(s) \in SUBSET (1 .. Len(s)) /\ Len(s) \in Nat
  BY EndsSorted
<1>2. e \in Seq(1 .. Len(s)) /\ DOMAIN e = 1 .. n /\ n \in Nat
  <2>1. e \in Seq(LowIn(s))
    BY <1>1 DEF SortedAs
  <2> HIDE DEF e
  <2> QED BY <1>1, <2>1
<1> HIDE DEF e
<1>3. ASSUME NEW k \in 1 .. n PROVE Slice(s, From(e, k), e[k])
  <2>1. e[k] \in 1 .. Len(s)
    BY <1>2
  <2>2. CASE k = 1
    <3>1. From(e, k) = 1
      BY <2>2 DEF From
    <3> QED BY <1>1, <2>1, <3>1 DEF Slice
  <2>3. CASE k # 1
    <3>1. k - 1 \in 1 .. n /\ k - 1 < k
      BY <1>2, <2>3
    <3>2. e[k - 1] < e[k] /\ e[k - 1] \in 1 .. Len(s)
      <4>1. k - 1 \in DOMAIN e /\ k \in DOMAIN e
        BY <1>2, <3>1
      <4>2. e[k - 1] < e[k]
        BY <1>1, <3>1, <4>1 DEF SortedAs
      <4> QED BY <1>2, <3>1, <4>2
    <3>3. From(e, k) = e[k - 1] + 1
      BY <2>3 DEF From
    <3> QED BY <1>1, <2>1, <3>2, <3>3 DEF Slice
  <2> QED BY <2>2, <2>3
<1> QED BY <1>2, <1>3 DEF e

LEMMA FieldsDef ==
  ASSUME NEW s
  PROVE  Fields(s) = [k \in DOMAIN Ends(s) |-> decodeVLQ(s, From(Ends(s), k), Ends(s)[k])]
  BY DEF Fields, From

\* The digits of whole numbers.
Closed(s) == s \in Seq(Digit) /\ (s # <<>> => s[Len(s)] < 32)

LEMMA ClosedEnds ==
  ASSUME NEW s, Closed(s)
  PROVE  From(Ends(s), Len(Ends(s)) + 1) = Len(s) + 1 /\ \A i \in DOMAIN Ends(s) : Ends(s)[i] <= Len(s)
<1> DEFINE e == Ends(s)
           n == Len(e)
<1>1. SortedAs(LowIn(s), e) /\ n \in Nat /\ DOMAIN e = 1 .. n /\ e \in Seq(1 .. Len(s)) /\ Len(s) \in Nat
  BY EndsSorted, EndsSlice DEF Closed
<1> HIDE DEF e
<1>2. \A i \in DOMAIN e : e[i] <= Len(s)
  BY <1>1
<1>3. CASE s = <<>>
  <2>1. n = 0
    <3>1. \A i \in 1 .. n : FALSE
      BY <1>1, <1>3
    <3>2. n # 0 => 1 \in 1 .. n
      BY <1>1
    <3> QED BY <3>1, <3>2
  <2> QED BY <1>2, <1>3, <2>1 DEF e, From
<1>4. CASE s # <<>>
  <2>1. Len(s) \in LowIn(s)
    BY <1>1, <1>4 DEF Closed, LowIn
  <2>2. PICK k \in DOMAIN e : e[k] = Len(s)
    BY <1>1, <2>1 DEF SortedAs
  <2>3. k = n
    <3> SUFFICES ASSUME k # n PROVE FALSE
      OBVIOUS
    <3>1. n \in DOMAIN e /\ k < n
      BY <1>1, <2>2
    <3>2. e[k] < e[n] /\ e[n] <= Len(s) /\ e[n] \in Int
      BY <1>1, <2>2, <3>1 DEF SortedAs
    <3> QED BY <1>1, <2>2, <3>2
  <2>4. n + 1 # 1 /\ (n + 1) - 1 = n
    BY <1>1, <2>2, <2>3
  <2> QED BY <1>2, <2>2, <2>3, <2>4 DEF e, From
<1> QED BY <1>3, <1>4

LEMMA EmptyReads == Closed(<<>>) /\ Ends(<<>>) = <<>> /\ Fields(<<>>) = <<>>
<1>1. Closed(<<>>)
  BY EmptySeq DEF Closed
<1>2. SortedAs(LowIn(<<>>), <<>>)
  <2>1. LowIn(<<>>) = {}
    BY DEF LowIn
  <2>2. <<>> \in Seq({})
    BY EmptySeq
  <2> QED BY <2>1, <2>2 DEF SortedAs
<1>3. LowIn(<<>>) \in SUBSET Int
  BY DEF LowIn
<1>4. Ends(<<>>) = <<>>
  <2>1. Ascending(LowIn(<<>>)) = <<>>
    BY <1>2, <1>3, SortedOnce
  <2> QED BY <2>1 DEF Ends, LowIn
<1>5. Fields(<<>>) = <<>>
  BY <1>4, FieldsDef
<1> QED BY <1>1, <1>4, <1>5

\* Digits that end no number add none.
LEMMA AddOpen ==
  ASSUME NEW s, Closed(s), NEW t \in Seq(Digit), \A i \in 1 .. Len(t) : ~ (t[i] < 32)
  PROVE  Ends(s \o t) = Ends(s) /\ Fields(s \o t) = Fields(s)
<1> DEFINE r == s \o t
           n == Len(s)
<1>1. s \in Seq(Digit)
  BY DEF Closed
<1>2. /\ r \in Seq(Digit) /\ n \in Nat /\ Len(t) \in Nat /\ Len(r) = n + Len(t)
      /\ \A i \in 1 .. n : r[i] = s[i]
      /\ \A i \in 1 .. Len(t) : r[i + n] = t[i]
  BY <1>1, Joined
<1> HIDE DEF r
<1>3. LowIn(r) = LowIn(s)
  <2>1. DOMAIN r = 1 .. n + Len(t) /\ DOMAIN s = 1 .. n
    BY <1>1, <1>2
  <2>2. \A i \in 1 .. n + Len(t) : i \notin 1 .. n => ~ (r[i] < 32)
    <3> SUFFICES ASSUME NEW i \in 1 .. n + Len(t), i \notin 1 .. n PROVE ~ (r[i] < 32)
      OBVIOUS
    <3>1. i - n \in 1 .. Len(t) /\ (i - n) + n = i
      BY <1>2
    <3> QED BY <1>2, <3>1
  <2>3. \A i \in 1 .. n : i \in 1 .. n + Len(t)
    BY <1>2
  <2> QED BY <1>2, <2>1, <2>2, <2>3 DEF LowIn
<1>4. Ends(r) = Ends(s)
  BY <1>3 DEF Ends, LowIn
<1>5. \A k \in DOMAIN Ends(s) : decodeVLQ(r, From(Ends(s), k), Ends(s)[k])
                                = decodeVLQ(s, From(Ends(s), k), Ends(s)[k])
  <2> SUFFICES ASSUME NEW k \in DOMAIN Ends(s)
               PROVE  decodeVLQ(r, From(Ends(s), k), Ends(s)[k])
                        = decodeVLQ(s, From(Ends(s), k), Ends(s)[k])
    OBVIOUS
  <2> DEFINE f == From(Ends(s), k)
             l == Ends(s)[k]
  <2>1. Slice(s, f, l)
    BY <1>1, EndsSlice
  <2> HIDE DEF f, l
  <2>2. f + 0 = f /\ l + 0 = l /\ \A j \in f .. l : j + 0 = j /\ j \in 1 .. n
    BY <1>2, <2>1 DEF Slice
  <2>3. Slice(r, f, l)
    BY <1>2, <2>1 DEF Slice
  <2>4. \A j \in f .. l : r[j + 0] = s[j]
    BY <1>2, <2>2
  <2>5. decodeVLQ(r, f + 0, l + 0) = decodeVLQ(s, f, l)
    <3>1. 0 \in Nat /\ Slice(r, f + 0, l + 0)
      BY <2>2, <2>3
    <3> QED BY <2>1, <2>4, <3>1, DecodeSame
  <2> QED BY <2>2, <2>5 DEF f, l
<1> QED BY <1>4, <1>5, FieldsDef DEF r

\* The digits of one more number add it.
LEMMA AddWord ==
  ASSUME NEW s, Closed(s), NEW w, Word(w)
  PROVE  /\ Closed(s \o w) /\ s \o w # <<>>
         /\ Ends(s \o w) = Append(Ends(s), Len(s \o w))
         /\ Fields(s \o w) = Append(Fields(s), decodeVLQ(w, 1, Len(w)))
<1> DEFINE r == s \o w
           n == Len(s)
           m == Len(w)
           e == Ends(s)
           c == Len(e)
<1>1. s \in Seq(Digit) /\ w \in Seq(Digit) /\ m \in Nat /\ m >= 1 /\ w[m] < 32
  BY DEF Closed, Word
<1>2. /\ r \in Seq(Digit) /\ n \in Nat /\ Len(r) = n + m
      /\ \A i \in 1 .. n : r[i] = s[i]
      /\ \A i \in 1 .. m : r[i + n] = w[i]
  BY <1>1, Joined
<1>3. r # <<>> /\ n + m # 0 /\ m \in 1 .. m /\ m + n = n + m
  BY <1>1, <1>2
<1>4. Closed(r)
  <2>1. r[n + m] = w[m]
    BY <1>2, <1>3
  <2> QED BY <1>1, <1>2, <2>1 DEF Closed
<1> HIDE DEF r, m
<1>5. LowIn(r) = LowIn(s) \cup {n + m} /\ n + m \notin LowIn(s)
  <2>1. DOMAIN r = 1 .. n + m /\ DOMAIN s = 1 .. n
    BY <1>1, <1>2
  <2>2. \A i \in 1 .. n + m : i \notin 1 .. n /\ i # n + m => ~ (r[i] < 32)
    <3> SUFFICES ASSUME NEW i \in 1 .. n + m, i \notin 1 .. n, i # n + m PROVE ~ (r[i] < 32)
      OBVIOUS
    <3>1. i - n \in 1 .. m /\ i - n < m /\ (i - n) + n = i
      <4>1. n \in Nat /\ m \in Nat /\ i \in Nat
        BY <1>1, <1>2
      <4>2. ~ (i <= n) /\ i <= n + m /\ i # n + m
        BY <4>1
      <4> QED BY <4>1, <4>2
    <3>2. w[i - n] >= 32 /\ w[i - n] \in Digit
      BY <1>1, <3>1 DEF Word, m
    <3>3. ~ (w[i - n] < 32)
      <4>1. \A x \in Digit : x >= 32 => ~ (x < 32)
        BY DEF Digit
      <4> QED BY <3>2, <4>1
    <3> QED BY <1>2, <3>1, <3>3
  <2>3. (\A i \in 1 .. n : i \in 1 .. n + m) /\ n + m \in 1 .. n + m /\ n + m \notin 1 .. n
    BY <1>1, <1>2
  <2>4. r[n + m] < 32
    BY <1>1, <1>2, <1>3
  <2> QED BY <1>2, <2>1, <2>2, <2>3, <2>4 DEF LowIn
<1>6. /\ SortedAs(LowIn(s), e) /\ c \in Nat /\ DOMAIN e = 1 .. c /\ e \in Seq(1 .. n)
      /\ \A i \in 1 .. c : e[i] <= n
  BY <1>1, EndsSorted, EndsSlice, ClosedEnds
<1> DEFINE g == Append(e, n + m)
<1>7. /\ g \in Seq(LowIn(r)) /\ Len(g) = c + 1 /\ DOMAIN g = 1 .. c + 1
      /\ (\A i \in 1 .. c : g[i] = e[i]) /\ g[c + 1] = n + m
  <2>1. e \in Seq(LowIn(r)) /\ n + m \in LowIn(r)
    <3> HIDE DEF e
    <3>1. e \in Seq(LowIn(s))
      BY <1>6 DEF SortedAs
    <3> QED BY <1>5, <3>1
  <2> HIDE DEF e
  <2> QED BY <2>1, Added
<1> HIDE DEF g, e, n
<1>8. SortedAs(LowIn(r), g)
  <2>1. \A x \in LowIn(r) : \E k \in DOMAIN g : g[k] = x
    <3> SUFFICES ASSUME NEW x \in LowIn(r) PROVE \E k \in DOMAIN g : g[k] = x
      OBVIOUS
    <3>1. CASE x = n + m
      BY <1>6, <1>7, <3>1
    <3>2. CASE x # n + m
      <4>1. PICK k \in DOMAIN e : e[k] = x
        BY <1>5, <1>6, <3>2 DEF SortedAs
      <4> QED BY <1>6, <1>7, <4>1
    <3> QED BY <3>1, <3>2
  <2>2. \A i, j \in DOMAIN g : i < j => g[i] < g[j]
    <3> SUFFICES ASSUME NEW i \in DOMAIN g, NEW j \in DOMAIN g, i < j PROVE g[i] < g[j]
      OBVIOUS
    <3>1. i \in 1 .. c /\ (j \in 1 .. c \/ j = c + 1)
      BY <1>6, <1>7
    <3>2. CASE j \in 1 .. c
      BY <1>6, <1>7, <3>1, <3>2 DEF SortedAs
    <3>3. CASE j = c + 1
      <4>1. g[i] = e[i] /\ g[j] = n + m
        BY <1>7, <3>1, <3>3
      <4>3. e[i] \in 1 .. n
        <5> DEFINE R == 1 .. n
        <5>1. e \in Seq(R) /\ i \in 1 .. Len(e)
          BY <1>6, <3>1
        <5> HIDE DEF R
        <5>2. e[i] \in R
          BY <5>1, ElementOfSeq
        <5> QED BY <5>2 DEF R
      <4>2. \A x \in 1 .. n : x < n + m
        BY <1>1, <1>2
      <4> QED BY <4>1, <4>2, <4>3
    <3> QED BY <3>1, <3>2, <3>3
  <2> QED BY <1>7, <2>1, <2>2 DEF SortedAs
<1>9. Ends(r) = g
  <2>1. LowIn(r) \in SUBSET Int
    BY <1>2 DEF LowIn
  <2> QED BY <1>8, <2>1, SortedOnce DEF Ends, LowIn
<1>10. \A k \in 1 .. c : decodeVLQ(r, From(g, k), g[k]) = decodeVLQ(s, From(e, k), e[k])
  <2> SUFFICES ASSUME NEW k \in 1 .. c
               PROVE  decodeVLQ(r, From(g, k), g[k]) = decodeVLQ(s, From(e, k), e[k])
    OBVIOUS
  <2> DEFINE f == From(e, k)
             l == e[k]
  <2>1. Slice(s, f, l)
    BY <1>1, EndsSlice DEF e
  <2>2. g[k] = l /\ From(g, k) = f
    <3>1. k # 1 => k - 1 \in 1 .. c
      BY <1>6
    <3> QED BY <1>7, <3>1 DEF From
  <2> HIDE DEF f, l
  <2>3. f + 0 = f /\ l + 0 = l /\ \A j \in f .. l : j + 0 = j /\ j \in 1 .. n
    BY <1>2, <2>1 DEF Slice, n
  <2>4. Slice(r, f + 0, l + 0) /\ 0 \in Nat
    BY <1>1, <1>2, <2>1, <2>3 DEF Slice, n
  <2>5. \A j \in f .. l : r[j + 0] = s[j]
    BY <1>2, <2>3
  <2>6. decodeVLQ(r, f + 0, l + 0) = decodeVLQ(s, f, l)
    BY <2>1, <2>4, <2>5, DecodeSame
  <2> QED BY <2>2, <2>3, <2>6 DEF f, l
<1>11. decodeVLQ(r, From(g, c + 1), g[c + 1]) = decodeVLQ(w, 1, m)
  <2>1. From(e, c + 1) = n + 1
    BY ClosedEnds DEF e, n
  <2>2. From(g, c + 1) = n + 1
    <3>1. c + 1 # 1 => (c + 1) - 1 \in 1 .. c
      BY <1>6
    <3> QED BY <1>7, <2>1, <3>1 DEF From
  <2>3. Slice(w, 1, m) /\ Slice(r, 1 + n, m + n)
    BY <1>1, <1>2 DEF Slice, m
  <2>4. \A j \in 1 .. m : r[j + n] = w[j]
    BY <1>2
  <2>5. decodeVLQ(r, 1 + n, m + n) = decodeVLQ(w, 1, m)
    <3> DEFINE a == 1
    <3>1. Slice(w, a, m) /\ Slice(r, a + n, m + n) /\ \A j \in a .. m : r[j + n] = w[j]
      BY <2>3, <2>4
    <3> HIDE DEF a
    <3>2. decodeVLQ(r, a + n, m + n) = decodeVLQ(w, a, m)
      BY <1>2, <3>1, DecodeSame
    <3> QED BY <3>2 DEF a
  <2>6. 1 + n = n + 1
    BY <1>2
  <2> QED BY <1>3, <1>7, <2>2, <2>5, <2>6
<1>12. Fields(s) = [k \in 1 .. c |-> decodeVLQ(s, From(e, k), e[k])]
  BY <1>6, FieldsDef DEF e
<1>13. Fields(r) = [k \in 1 .. c + 1 |-> decodeVLQ(r, From(g, k), g[k])]
  BY <1>7, <1>9, FieldsDef
<1>14. Fields(r) = Append(Fields(s), decodeVLQ(w, 1, m))
  <2> DEFINE F == Fields(s)
             x == decodeVLQ(w, 1, m)
  <2>1. F = [k \in 1 .. c |-> F[k]]
    BY <1>12
  <2>2. Fields(r) = [k \in 1 .. c + 1 |-> IF k = c + 1 THEN x ELSE F[k]]
    <3>1. \A k \in 1 .. c + 1 : k # c + 1 => k \in 1 .. c
      BY <1>6
    <3>2. \A k \in 1 .. c + 1 : decodeVLQ(r, From(g, k), g[k]) = IF k = c + 1 THEN x ELSE F[k]
      BY <1>10, <1>11, <1>12, <3>1
    <3> HIDE DEF x, F
    <3> QED BY <1>13, <3>2
  <2> HIDE DEF x, F
  <2>3. Append(F, x) = [k \in 1 .. c + 1 |-> IF k = c + 1 THEN x ELSE F[k]]
    <3> DEFINE V == {F[k] : k \in 1 .. c} \cup {x}
               A == Append(F, x)
    <3>1. F \in Seq(V) /\ Len(F) = c /\ c \in Nat /\ x \in V
      <4>1. F \in [1 .. c -> V] /\ x \in V
        BY <2>1
      <4> HIDE DEF V
      <4> QED BY <1>6, <4>1
    <3> HIDE DEF V
    <3>2. /\ A \in Seq(V) /\ DOMAIN A = 1 .. c + 1 /\ A[c + 1] = x
          /\ \A k \in 1 .. c : A[k] = F[k]
      BY <3>1, Added
    <3>3. A = [k \in 1 .. c + 1 |-> A[k]]
      <4> HIDE DEF A
      <4>1. A = [k \in DOMAIN A |-> A[k]]
        BY <3>2
      <4> QED BY <3>2, <4>1
    <3>4. \A k \in 1 .. c + 1 : A[k] = IF k = c + 1 THEN x ELSE F[k]
      <4>1. \A k \in 1 .. c + 1 : k # c + 1 => k \in 1 .. c
        BY <1>6
      <4> QED BY <3>2, <4>1
    <3> HIDE DEF A
    <3> QED BY <3>3, <3>4 DEF A
  <2> QED BY <2>2, <2>3 DEF x, F
<1>15. Len(r) = n + m
  BY <1>2
<1> QED BY <1>3, <1>4, <1>9, <1>14, <1>15 DEF g, e, r, m

LEMMA WordReads ==
  ASSUME NEW g \in Int
  PROVE  /\ Closed(VLQ(g)) /\ VLQ(g) # <<>> /\ VLQ(g) \in Seq(Digit)
         /\ Ends(VLQ(g)) = <<Len(VLQ(g))>> /\ Fields(VLQ(g)) = <<g>>
<1> DEFINE w == VLQ(g)
<1>1. Word(w) /\ decodeVLQ(w, 1, Len(w)) = g
  BY DecodeVLQ
<1> HIDE DEF w
<1>2. w \in Seq(Digit) /\ <<>> \o w = w
  BY <1>1, ConcatEmptySeq DEF Word
<1>3. /\ Closed(<<>> \o w) /\ <<>> \o w # <<>>
      /\ Ends(<<>> \o w) = Append(Ends(<<>>), Len(<<>> \o w))
      /\ Fields(<<>> \o w) = Append(Fields(<<>>), g)
  BY <1>1, EmptyReads, AddWord
<1>4. Append(<<>>, g) = <<g>> /\ Append(<<>>, Len(w)) = <<Len(w)>>
  OBVIOUS
<1> QED BY <1>2, <1>3, <1>4, EmptyReads DEF w

LEMMA MoreReads ==
  ASSUME NEW s, Closed(s), NEW g \in Int
  PROVE  /\ Closed(s \o VLQ(g)) /\ s \o VLQ(g) # <<>>
         /\ Ends(s \o VLQ(g)) = Append(Ends(s), Len(s \o VLQ(g)))
         /\ Fields(s \o VLQ(g)) = Append(Fields(s), g)
<1> DEFINE w == VLQ(g)
<1>1. Word(w) /\ decodeVLQ(w, 1, Len(w)) = g
  BY DecodeVLQ
<1> HIDE DEF w
<1>2. /\ Closed(s \o w) /\ s \o w # <<>>
      /\ Ends(s \o w) = Append(Ends(s), Len(s \o w))
      /\ Fields(s \o w) = Append(Fields(s), decodeVLQ(w, 1, Len(w)))
  BY <1>1, AddWord
<1> QED BY <1>1, <1>2 DEF w

\* The digits of a token with a source, without its name.
Four(g, a, b, c) == ((VLQ(g) \o VLQ(a)) \o VLQ(b)) \o VLQ(c)

\* f is the n numbers of e and x.
GrowsWith(e, f, n, m, x) ==
  e \in Seq(Int) /\ x \in Int /\ n \in Nat /\ m = n + 1 /\ Len(e) = n /\ f = Append(e, x)

LEMMA GrowsBy ==
  ASSUME NEW e, NEW f, NEW n, NEW m, NEW x, GrowsWith(e, f, n, m, x)
  PROVE  f \in Seq(Int) /\ Len(f) = Len(e) + 1 /\ f[m] = x /\ \A i \in 1 .. n : f[i] = e[i]
<1>1. /\ e \in Seq(Int) /\ x \in Int /\ n \in Nat /\ m = n + 1 /\ Len(e) = n
      /\ f = Append(e, x)
  BY DEF GrowsWith
<1> QED BY <1>1, Added

LEMMA FourReads ==
  ASSUME NEW g \in Int, NEW a \in Int, NEW b \in Int, NEW c \in Int
  PROVE  LET s == Four(g, a, b, c)
             F == Fields(s)
         IN  /\ Closed(s) /\ s # <<>> /\ Len(Ends(s)) = 4 /\ Ends(s) \in Seq(Int)
             /\ F \in Seq(Int) /\ Len(F) = 4 /\ F[1] = g /\ F[2] = a /\ F[3] = b /\ F[4] = c
<1> DEFINE s1 == VLQ(g)
           s2 == s1 \o VLQ(a)
           s3 == s2 \o VLQ(b)
           s4 == s3 \o VLQ(c)
<1>1. /\ Closed(s1) /\ Ends(s1) \in Seq(Int) /\ Len(Ends(s1)) = 1
      /\ Fields(s1) \in Seq(Int) /\ Len(Fields(s1)) = 1 /\ Fields(s1)[1] = g
  <2>1. Closed(s1) /\ Ends(s1) = <<Len(s1)>> /\ Fields(s1) = <<g>> /\ s1 \in Seq(Digit)
    BY WordReads
  <2> HIDE DEF s1
  <2> QED BY <2>1
<1> HIDE DEF s1
<1>2. /\ Closed(s2) /\ Ends(s2) \in Seq(Int) /\ Len(Ends(s2)) = 2
      /\ Fields(s2) \in Seq(Int) /\ Len(Fields(s2)) = 2 /\ Fields(s2)[1] = g /\ Fields(s2)[2] = a
  <2>1. Closed(s2) /\ Ends(s2) = Append(Ends(s1), Len(s2)) /\ Fields(s2) = Append(Fields(s1), a)
    BY <1>1, MoreReads
  <2>2. Len(s2) \in Int
    BY <2>1 DEF Closed
  <2> HIDE DEF s2
  <2>3. GrowsWith(Ends(s1), Ends(s2), 1, 2, Len(s2)) /\ GrowsWith(Fields(s1), Fields(s2), 1, 2, a)
    BY <1>1, <2>1, <2>2 DEF GrowsWith
  <2>4. Ends(s2) \in Seq(Int) /\ Len(Ends(s2)) = Len(Ends(s1)) + 1
    BY <2>3, GrowsBy
  <2>5. /\ Fields(s2) \in Seq(Int) /\ Len(Fields(s2)) = Len(Fields(s1)) + 1 /\ Fields(s2)[2] = a
        /\ \A i \in 1 .. 1 : Fields(s2)[i] = Fields(s1)[i]
    BY <2>3, GrowsBy
  <2> QED BY <1>1, <2>1, <2>4, <2>5
<1> HIDE DEF s2
<1>3. /\ Closed(s3) /\ Ends(s3) \in Seq(Int) /\ Len(Ends(s3)) = 3
      /\ Fields(s3) \in Seq(Int) /\ Len(Fields(s3)) = 3
      /\ Fields(s3)[1] = g /\ Fields(s3)[2] = a /\ Fields(s3)[3] = b
  <2>1. Closed(s3) /\ Ends(s3) = Append(Ends(s2), Len(s3)) /\ Fields(s3) = Append(Fields(s2), b)
    BY <1>2, MoreReads
  <2>2. Len(s3) \in Int
    BY <2>1 DEF Closed
  <2> HIDE DEF s3
  <2>3. GrowsWith(Ends(s2), Ends(s3), 2, 3, Len(s3)) /\ GrowsWith(Fields(s2), Fields(s3), 2, 3, b)
    BY <1>2, <2>1, <2>2 DEF GrowsWith
  <2>4. Ends(s3) \in Seq(Int) /\ Len(Ends(s3)) = Len(Ends(s2)) + 1
    BY <2>3, GrowsBy
  <2>5. /\ Fields(s3) \in Seq(Int) /\ Len(Fields(s3)) = Len(Fields(s2)) + 1 /\ Fields(s3)[3] = b
        /\ \A i \in 1 .. 2 : Fields(s3)[i] = Fields(s2)[i]
    BY <2>3, GrowsBy
  <2> QED BY <1>2, <2>1, <2>4, <2>5
<1> HIDE DEF s3
<1>4. /\ Closed(s4) /\ s4 # <<>> /\ Ends(s4) \in Seq(Int) /\ Len(Ends(s4)) = 4
      /\ Fields(s4) \in Seq(Int) /\ Len(Fields(s4)) = 4
      /\ Fields(s4)[1] = g /\ Fields(s4)[2] = a /\ Fields(s4)[3] = b /\ Fields(s4)[4] = c
  <2>1. /\ Closed(s4) /\ s4 # <<>> /\ Ends(s4) = Append(Ends(s3), Len(s4))
        /\ Fields(s4) = Append(Fields(s3), c)
    BY <1>3, MoreReads
  <2>2. Len(s4) \in Int
    BY <2>1 DEF Closed
  <2> HIDE DEF s4
  <2>3. GrowsWith(Ends(s3), Ends(s4), 3, 4, Len(s4)) /\ GrowsWith(Fields(s3), Fields(s4), 3, 4, c)
    BY <1>3, <2>1, <2>2 DEF GrowsWith
  <2>4. Ends(s4) \in Seq(Int) /\ Len(Ends(s4)) = Len(Ends(s3)) + 1
    BY <2>3, GrowsBy
  <2>5. /\ Fields(s4) \in Seq(Int) /\ Len(Fields(s4)) = Len(Fields(s3)) + 1 /\ Fields(s4)[4] = c
        /\ \A i \in 1 .. 3 : Fields(s4)[i] = Fields(s3)[i]
    BY <2>3, GrowsBy
  <2> QED BY <1>3, <2>1, <2>4, <2>5
<1>5. s4 = Four(g, a, b, c)
  BY DEF s1, s2, s3, Four
<1> HIDE DEF s4
<1> QED BY <1>4, <1>5

\* What a segment tells: the move of the generated column and, if it has a source,
\* those of the source, line and column.
Tells(s, g, sourced, d) ==
  /\ s # <<>> /\ ~ Malformed(s) /\ Len(Fields(s)) \in Nat /\ Fields(s)[1] = g
  /\ (sourced => ~ (Len(Fields(s)) < 4) /\ \A i \in 1 .. 3 : Fields(s)[i + 1] = d[i])
  /\ (~ sourced => Len(Fields(s)) < 4)

\* All of a token.
Five(g, a, b, c) == VLQ(g) \o (((VLQ(a) \o VLQ(b)) \o VLQ(c)) \o VLQ(20))

LEMMA Regroup ==
  ASSUME NEW S, NEW p \in Seq(S), NEW q \in Seq(S), NEW r \in Seq(S)
  PROVE  p \o q \in Seq(S) /\ p \o (q \o r) = (p \o q) \o r
  BY ConcatProperties, ConcatAssociative

LEMMA FiveIsFour ==
  ASSUME NEW g \in Int, NEW a \in Int, NEW b \in Int, NEW c \in Int
  PROVE  Five(g, a, b, c) = Four(g, a, b, c) \o VLQ(20)
<1> DEFINE u == VLQ(g)
           v == VLQ(a)
           w == VLQ(b)
           x == VLQ(c)
           y == VLQ(20)
<1>1. u \in Seq(Digit) /\ v \in Seq(Digit) /\ w \in Seq(Digit) /\ x \in Seq(Digit) /\ y \in Seq(Digit)
  BY WordReads
<1> HIDE DEF u, v, w, x, y
<1>3. u \o (((v \o w) \o x) \o y) = (((u \o v) \o w) \o x) \o y
  <2> DEFINE vw == v \o w
             vwx == vw \o x
  <2>1. vw \in Seq(Digit) /\ vwx \in Seq(Digit)
    BY <1>1, Regroup
  <2> HIDE DEF vw, vwx
  <2>2. u \o (vwx \o y) = (u \o vwx) \o y
    <3>1. u \in Seq(Digit) /\ vwx \in Seq(Digit) /\ y \in Seq(Digit)
      BY <1>1, <2>1
    <3> QED BY <3>1, Regroup
  <2>3. u \o (vw \o x) = (u \o vw) \o x
    <3>1. u \in Seq(Digit) /\ vw \in Seq(Digit) /\ x \in Seq(Digit)
      BY <1>1, <2>1
    <3> QED BY <3>1, Regroup
  <2>4. u \o (v \o w) = (u \o v) \o w
    BY <1>1, Regroup
  <2> QED BY <2>2, <2>3, <2>4 DEF vw, vwx
<1> QED BY <1>3 DEF Five, Four, u, v, w, x, y

\* Without its last digit a number does not end.
LEMMA OpenFront ==
  ASSUME NEW w, Word(w)
  PROVE  Front(w) \in Seq(Digit) /\ \A i \in 1 .. Len(Front(w)) : ~ (Front(w)[i] < 32)
<1> DEFINE n == Len(w)
           t == Front(w)
<1>1. w \in Seq(Digit) /\ n \in Nat /\ n >= 1
  BY DEF Word
<1>2. \A i \in 1 .. n - 1 : i \in 1 .. n /\ i < n
  BY <1>1
<1>3. t \in Seq(Digit) /\ Len(t) = n - 1 /\ \A i \in 1 .. n - 1 : t[i] = w[i]
  <2>1. t = SubSeq(w, 1, n - 1)
    BY DEF Front
  <2>2. n - 1 \in Int /\ \A i \in 1 .. n - 1 : w[i] \in Digit
    BY <1>1, <1>2
  <2> HIDE DEF t, n
  <2>3. /\ SubSeq(w, 1, n - 1) \in Seq(Digit)
        /\ Len(SubSeq(w, 1, n - 1)) = IF 1 <= n - 1 THEN (n - 1) - 1 + 1 ELSE 0
        /\ \A i \in 1 .. (n - 1) - 1 + 1 : SubSeq(w, 1, n - 1)[i] = w[1 + i - 1]
    BY <2>2, SubSeqProperties
  <2>4. /\ (IF 1 <= n - 1 THEN (n - 1) - 1 + 1 ELSE 0) = n - 1 /\ (n - 1) - 1 + 1 = n - 1
        /\ \A i \in 1 .. n - 1 : 1 + i - 1 = i
    BY <1>1
  <2> QED BY <2>1, <2>3, <2>4
<1>4. \A x \in Digit : x >= 32 => ~ (x < 32)
  BY DEF Digit
<1> HIDE DEF t, n
<1>5. \A i \in 1 .. n - 1 : w[i] >= 32 /\ w[i] \in Digit
  BY <1>1, <1>2 DEF Word, n
<1> QED BY <1>3, <1>4, <1>5 DEF t

LEMMA FrontOf ==
  ASSUME NEW s \in Seq(Digit), NEW w, Word(w)
  PROVE  Front(s \o w) = s \o Front(w)
<1> DEFINE n == Len(s)
           m == Len(w)
<1>1. w \in Seq(Digit) /\ m \in Nat /\ m >= 1 /\ n \in Nat
  BY DEF Word
<1>2. Front(s \o w) = SubSeq(s \o w, 1, Len(s \o w) - 1) /\ Front(w) = SubSeq(w, 1, m - 1)
  BY DEF Front
<1> QED BY <1>1, <1>2

LEMMA PlainTells ==
  ASSUME NEW g \in Int
  PROVE  /\ \A d : Tells(VLQ(g), g, FALSE, d)
         /\ Front(VLQ(g)) = <<>> \/ Malformed(Front(VLQ(g)))
<1> DEFINE w == VLQ(g)
<1>1. w # <<>> /\ w \in Seq(Digit) /\ Ends(w) = <<Len(w)>> /\ Fields(w) = <<g>>
  BY WordReads
<1>2. Word(w)
  BY DecodeVLQ
<1> HIDE DEF w
<1>3. \A d : Tells(w, g, FALSE, d)
  <2>1. Len(Fields(w)) = 1 /\ Fields(w)[1] = g /\ Ends(w) # <<>> /\ Ends(w)[1] = Len(w) /\ Len(w) \in Nat
    BY <1>1
  <2>2. ~ Malformed(w)
    BY <2>1 DEF Malformed
  <2> QED BY <1>1, <2>1, <2>2 DEF Tells
<1>4. ASSUME Front(w) # <<>> PROVE Malformed(Front(w))
  <2> DEFINE t == Front(w)
  <2>1. t \in Seq(Digit) /\ \A i \in 1 .. Len(t) : ~ (t[i] < 32)
    BY <1>2, OpenFront
  <2>2. <<>> \o t = t
    BY <2>1, ConcatEmptySeq
  <2> HIDE DEF t
  <2>3. Ends(<<>> \o t) = Ends(<<>>)
    BY <2>1, EmptyReads, AddOpen
  <2>4. Ends(t) = <<>>
    BY <2>2, <2>3, EmptyReads
  <2> QED BY <1>4, <2>4 DEF Malformed, t
<1> QED BY <1>3, <1>4 DEF w

LEMMA SourcedTells ==
  ASSUME NEW g \in Int, NEW a \in Int, NEW b \in Int, NEW c \in Int
  PROVE  /\ Tells(Five(g, a, b, c), g, TRUE, <<a, b, c>>)
         /\ Tells(Front(Five(g, a, b, c)), g, TRUE, <<a, b, c>>)
<1> DEFINE s == Four(g, a, b, c)
           name == 20
           y == VLQ(name)
           r == s \o y
           t == Front(y)
           F == Fields(s)
           d == <<a, b, c>>
           All(f) == Len(f) \in Nat /\ ~ (Len(f) < 4) /\ f[1] = g /\ f[2] = a /\ f[3] = b /\ f[4] = c
<1>1. /\ Closed(s) /\ s # <<>> /\ Len(Ends(s)) = 4 /\ Ends(s) \in Seq(Int)
      /\ F \in Seq(Int) /\ Len(F) = 4 /\ F[1] = g /\ F[2] = a /\ F[3] = b /\ F[4] = c
  BY FourReads
<1>2. Five(g, a, b, c) = r
  BY FiveIsFour
<1>3. name \in Int
  OBVIOUS
<1> HIDE DEF s, name
<1>4. Word(y)
  BY <1>3, DecodeVLQ
<1>5. Closed(r) /\ Ends(r) = Append(Ends(s), Len(r)) /\ Fields(r) = Append(F, name) /\ r # <<>>
  BY <1>1, <1>3, MoreReads
<1>6. t \in Seq(Digit) /\ \A i \in 1 .. Len(t) : ~ (t[i] < 32)
  BY <1>4, OpenFront
<1>7. Front(r) = s \o t
  BY <1>1, <1>4, FrontOf DEF Closed
<1>8. s \in Seq(Digit)
  BY <1>1 DEF Closed
<1> HIDE DEF t, y
<1>9. Ends(s \o t) = Ends(s) /\ Fields(s \o t) = F /\ s \o t # <<>>
  <2>1. Len(s \o t) = Len(s) + Len(t) /\ Len(s) \in Nat /\ Len(t) \in Nat /\ Len(s) # 0
    BY <1>1, <1>6, <1>8, Joined
  <2>2. s \o t # <<>>
    BY <2>1
  <2> QED BY <1>1, <1>6, <2>2, AddOpen
<1> HIDE DEF r, F
<1>10. All(Fields(r)) /\ Len(Ends(r)) = 5
  <2>1. Len(r) \in Int
    BY <1>5 DEF Closed
  <2>2. GrowsWith(Ends(s), Ends(r), 4, 5, Len(r)) /\ GrowsWith(F, Fields(r), 4, 5, name)
    BY <1>1, <1>3, <1>5, <2>1 DEF GrowsWith
  <2>3. Len(Ends(r)) = Len(Ends(s)) + 1
    BY <2>2, GrowsBy
  <2>4. Len(Fields(r)) = Len(F) + 1 /\ \A i \in 1 .. 4 : Fields(r)[i] = F[i]
    BY <2>2, GrowsBy
  <2> QED BY <1>1, <2>3, <2>4
<1>11. All(F)
  BY <1>1
<1>12. ASSUME NEW f, All(f) PROVE Len(f) \in Nat /\ ~ (Len(f) < 4) /\ f[1] = g /\ \A i \in 1 .. 3 : f[i + 1] = d[i]
  <2>1. /\ f[1 + 1] = a /\ f[2 + 1] = b /\ f[3 + 1] = c
        /\ d[1] = a /\ d[2] = b /\ d[3] = c
    BY <1>12
  <2>2. \A i \in 1 .. 3 : i = 1 \/ i = 2 \/ i = 3
    OBVIOUS
  <2> HIDE DEF d
  <2> QED BY <1>12, <2>1, <2>2
<1> HIDE DEF d, All
<1>13. ~ Malformed(r) /\ ~ Malformed(s \o t)
  <2>1. ~ (5 < 4) /\ ~ (4 < 4) /\ Len(<<>>) # 5 /\ Len(<<>>) # 4
    OBVIOUS
  <2> QED BY <1>1, <1>9, <1>10, <2>1 DEF Malformed
<1>14. Tells(r, g, TRUE, d)
  BY <1>5, <1>10, <1>12, <1>13 DEF Tells
<1>15. Tells(s \o t, g, TRUE, d)
  BY <1>9, <1>11, <1>12, <1>13 DEF Tells
<1> QED BY <1>2, <1>7, <1>14, <1>15 DEF d

(***************************************************************************)
(* Positions in order.                                                     *)
(***************************************************************************)
Place == Nat \X Nat

LEMMA PlaceParts ==
  \A p \in Place : p = <<p[1], p[2]>> /\ p[1] \in Nat /\ p[2] \in Nat
  BY DEF Place

LEMMA OrderLaws ==
  ASSUME NEW p \in Place, NEW q \in Place, NEW r \in Place
  PROVE  /\ AtOrBefore(p, p) /\ (AtOrBefore(p, q) \/ AtOrBefore(q, p))
         /\ AtOrBefore(p, q) /\ AtOrBefore(q, r) => AtOrBefore(p, r)
         /\ AtOrBefore(p, q) /\ AtOrBefore(q, p) => p = q
<1>1. /\ p = <<p[1], p[2]>> /\ p[1] \in Nat /\ p[2] \in Nat
      /\ q = <<q[1], q[2]>> /\ q[1] \in Nat /\ q[2] \in Nat
      /\ r = <<r[1], r[2]>> /\ r[1] \in Nat /\ r[2] \in Nat
  BY PlaceParts
<1>2. AtOrBefore(p, p) /\ (AtOrBefore(p, q) \/ AtOrBefore(q, p))
  BY <1>1 DEF AtOrBefore
<1>3. AtOrBefore(p, q) /\ AtOrBefore(q, r) => AtOrBefore(p, r)
  BY <1>1 DEF AtOrBefore
<1>4. AtOrBefore(p, q) /\ AtOrBefore(q, p) => p = q
  <2> SUFFICES ASSUME AtOrBefore(p, q), AtOrBefore(q, p) PROVE p = q
    OBVIOUS
  <2>1. p[1] = q[1] /\ p[2] = q[2]
    BY <1>1 DEF AtOrBefore
  <2> QED BY <1>1, <2>1
<1> QED BY <1>2, <1>3, <1>4

LEMMA LastOnce ==
  ASSUME NEW S \in SUBSET Place, NEW p \in S, \A q \in S : AtOrBefore(q, p)
  PROVE  LastOf(S) = p
<1>1. \A r \in S : (\A q \in S : AtOrBefore(q, r)) => r = p
  BY OrderLaws
<1> QED BY <1>1 DEF LastOf

LEMMA LastExists ==
  ASSUME NEW S \in SUBSET Place, IsFiniteSet(S), S # {}
  PROVE  LastOf(S) \in S /\ \A q \in S : AtOrBefore(q, LastOf(S))
<1> DEFINE Above(p) == {q \in S : ~ AtOrBefore(q, p)}
           sizes == {Cardinality(Above(p)) : p \in S}
<1>1. \A p \in S : IsFiniteSet(Above(p)) /\ Cardinality(Above(p)) \in Nat
  <2> SUFFICES ASSUME NEW p \in S PROVE IsFiniteSet(Above(p)) /\ Cardinality(Above(p)) \in Nat
    OBVIOUS
  <2>1. Above(p) \in SUBSET S
    OBVIOUS
  <2> HIDE DEF Above
  <2> QED BY <2>1, FS_Subset, FS_CardinalityType
<1>2. PICK m \in sizes : \A n \in sizes : m <= n
  <2>1. sizes \in SUBSET Nat /\ sizes # {}
    BY <1>1
  <2> HIDE DEF sizes
  <2> QED BY <2>1, LeastNatural
<1>3. PICK p \in S : m = Cardinality(Above(p))
  OBVIOUS
<1>4. \A q \in S : AtOrBefore(q, p)
  <2> SUFFICES ASSUME NEW q \in S, ~ AtOrBefore(q, p) PROVE FALSE
    OBVIOUS
  <2>1. AtOrBefore(p, q)
    BY OrderLaws
  <2>2. \A r \in S : AtOrBefore(r, p) => AtOrBefore(r, q)
    BY <2>1, OrderLaws
  <2>3. AtOrBefore(q, q)
    BY OrderLaws
  <2>4. Above(q) \in SUBSET Above(p) /\ q \in Above(p) /\ q \notin Above(q)
    BY <2>2, <2>3
  <2>5. Cardinality(Above(q)) \in sizes
    OBVIOUS
  <2> HIDE DEF Above, sizes
  <2>6. /\ Cardinality(Above(q)) <= Cardinality(Above(p))
        /\ Cardinality(Above(p)) = Cardinality(Above(q)) => Above(p) = Above(q)
    BY <1>1, <2>4, FS_Subset
  <2> QED BY <1>1, <1>2, <1>3, <2>4, <2>5, <2>6
<1>5. LastOf(S) = p
  BY <1>4, LastOnce
<1> QED BY <1>4, <1>5

\* The greatest of finitely many numbers.
LEMMA MaxExists ==
  ASSUME NEW n \in Nat, NEW S \in SUBSET (0 .. n), S # {}
  PROVE  Max(S) \in S /\ \A x \in S : x <= Max(S)
<1> DEFINE below == {n - x : x \in S}
<1>1. PICK m \in below : \A y \in below : m <= y
  <2>1. below \in SUBSET Nat /\ below # {}
    <3>1. \A x \in S : n - x \in Nat
      OBVIOUS
    <3> QED BY <3>1
  <2> HIDE DEF below
  <2> QED BY <2>1, LeastNatural
<1>2. PICK x \in S : m = n - x
  OBVIOUS
<1>3. \A y \in S : x >= y
  <2> SUFFICES ASSUME NEW y \in S PROVE x >= y
    OBVIOUS
  <2>1. m <= n - y
    BY <1>1
  <2>2. x \in Nat /\ y \in Nat
    OBVIOUS
  <2> QED BY <1>2, <2>1, <2>2
<1>4. Max(S) \in S /\ \A y \in S : Max(S) >= y
  <2>1. \E z \in S : \A y \in S : z >= y
    BY <1>3
  <2> QED BY <2>1 DEF Max
<1>5. \A y \in S : Max(S) >= y => y <= Max(S)
  BY <1>4
<1> QED BY <1>4, <1>5

LEMMA MaxOnce ==
  ASSUME NEW S \in SUBSET Nat, NEW m \in S, \A x \in S : x <= m
  PROVE  Max(S) = m
<1>1. \A x \in S : m >= x
  OBVIOUS
<1>2. \A z \in S : (\A x \in S : z >= x) => z = m
  OBVIOUS
<1> QED BY <1>1, <1>2 DEF Max

(***************************************************************************)
(* Folds.                                                                  *)
(***************************************************************************)
\* f is the fold of the n steps of next from base, over every set of steps.
Folds(f, n, base, next) ==
  f = [s \in SUBSET (1 .. n) |->
         IF s = {} THEN base ELSE next[<<Max(s), f[s \ {Max(s)}]>>]]

FoldTypes(n, V, base, next) == n \in Nat /\ base \in V /\ next \in [(1 .. n) \X V -> V]

LEMMA FoldExists ==
  ASSUME NEW n, NEW V, NEW base, NEW next, FoldTypes(n, V, base, next)
  PROVE  \E f \in [SUBSET (1 .. n) -> V] : Folds(f, n, base, next)
<1> DEFINE D == 1 .. n
           S == SUBSET D
           rank == [s \in S |-> Cardinality(s)]
           step == [a \in S \X [S -> V] |->
                      IF a[1] = {} THEN base ELSE next[<<Max(a[1]), (a[2])[a[1] \ {Max(a[1])}]>>]]
<1>1. n \in Nat /\ base \in V /\ next \in [D \X V -> V]
  BY DEF FoldTypes
<1>2. IsFiniteSet(D)
  BY <1>1, IntervalSize
<1>3. \A s \in S : s # {} => Max(s) \in s /\ Max(s) \in D
  <2>1. \A s \in S : s \in SUBSET (0 .. n)
    BY <1>1
  <2> HIDE DEF D
  <2> QED BY <1>1, <2>1, MaxExists
<1> HIDE DEF D
<1>4. \A s \in S : IsFiniteSet(s) /\ Cardinality(s) \in Nat
  BY <1>2, FS_Subset, FS_CardinalityType
<1>5. \A s \in S : s # {} => /\ s \ {Max(s)} \in S
                             /\ Cardinality(s \ {Max(s)}) < Cardinality(s)
  <2> SUFFICES ASSUME NEW s \in S, s # {}
               PROVE  s \ {Max(s)} \in S /\ Cardinality(s \ {Max(s)}) < Cardinality(s)
    OBVIOUS
  <2> DEFINE x == Max(s)
  <2>1. x \in s
    BY <1>3
  <2> HIDE DEF x
  <2>2. Cardinality(s \ {x}) = Cardinality(s) - 1 /\ s \ {x} \in S
    BY <1>4, <2>1, FS_RemoveElement
  <2> QED BY <1>4, <2>2 DEF x
<1> HIDE DEF S
<1>6. V # {} /\ rank \in [S -> Nat]
  BY <1>1, <1>4
<1>7. ASSUME NEW s \in S, NEW h \in [S -> V]
      PROVE  /\ step[<<s, h>>] = IF s = {} THEN base ELSE next[<<Max(s), h[s \ {Max(s)}]>>]
             /\ step[<<s, h>>] \in V
  <2>1. step[<<s, h>>] = IF s = {} THEN base ELSE next[<<Max(s), h[s \ {Max(s)}]>>]
    OBVIOUS
  <2>2. s # {} => Max(s) \in D /\ h[s \ {Max(s)}] \in V
    BY <1>3, <1>5
  <2> HIDE DEF step
  <2> QED BY <1>1, <2>1, <2>2
<1>8. step \in [S \X [S -> V] -> V]
  <2>1. \A a \in S \X [S -> V] : a = <<a[1], a[2]>> /\ a[1] \in S /\ a[2] \in [S -> V]
    OBVIOUS
  <2>2. \A a \in S \X [S -> V] : step[a] \in V
    <3> HIDE DEF step
    <3> QED BY <1>7, <2>1
  <2> QED BY <2>2
<1>9. ASSUME NEW s \in S, NEW g \in [S -> V], NEW h \in [S -> V],
             \A t \in S : rank[t] < rank[s] => g[t] = h[t]
      PROVE  step[<<s, g>>] = step[<<s, h>>]
  <2>1. s # {} => g[s \ {Max(s)}] = h[s \ {Max(s)}]
    BY <1>5, <1>9
  <2> HIDE DEF step, rank
  <2> QED BY <1>7, <2>1
<1> HIDE DEF step, rank
<1>10. Recursive(S, V, rank, step)
  BY <1>6, <1>8, <1>9 DEF Recursive
<1>11. PICK f \in [S -> V] : \A s \in S : f[s] = step[<<s, f>>]
  BY <1>10, Recursion
<1>12. f = [s \in S |-> IF s = {} THEN base ELSE next[<<Max(s), f[s \ {Max(s)}]>>]]
  BY <1>7, <1>11
<1> QED BY <1>11, <1>12 DEF Folds, S, D

\* The first k of n steps, of which the last is k.
LEMMA FirstSteps ==
  ASSUME NEW n \in Nat, NEW k \in 1 .. n
  PROVE  /\ 1 .. k \in SUBSET (1 .. n) /\ 1 .. k # {} /\ Max(1 .. k) = k
         /\ (1 .. k) \ {k} = 1 .. k - 1 /\ k - 1 \in Nat
<1> DEFINE s == 1 .. k
<1>1. k \in Nat /\ k - 1 \in Nat /\ k \in s /\ (\A x \in s : x \in 1 .. n) /\ s \ {k} = 1 .. k - 1
  OBVIOUS
<1>2. s \in SUBSET Nat /\ \A x \in s : x <= k
  OBVIOUS
<1> HIDE DEF s
<1>3. Max(s) = k
  BY <1>1, <1>2, MaxOnce
<1> QED BY <1>1, <1>3 DEF s

\* f goes through the states a.
Run(f, a, n) ==
  f[{}] = a[0] /\ \A k \in 1 .. n : f[1 .. k - 1] = a[k - 1] => f[1 .. k] = a[k]

\* The fold of all steps is where a run of the steps ends.
LEMMA FoldRuns ==
  ASSUME NEW n \in Nat, NEW f, NEW a, Run(f, a, n)
  PROVE  f[1 .. n] = a[n]
<1> USE DEF Run
<1> DEFINE T == {k \in Nat : k <= n => f[1 .. k] = a[k]}
<1>1. 0 \in T
  <2>1. 1 .. 0 = {}
    OBVIOUS
  <2> QED BY <2>1
<1>2. ASSUME NEW k \in T PROVE k + 1 \in T
  <2> SUFFICES ASSUME k + 1 <= n PROVE f[1 .. k + 1] = a[k + 1]
    OBVIOUS
  <2>1. k \in Nat /\ k + 1 \in 1 .. n /\ (k + 1) - 1 = k /\ k <= n
    OBVIOUS
  <2>2. f[1 .. k] = a[k]
    BY <2>1
  <2> QED BY <2>1, <2>2
<1>3. T \in SUBSET Nat
  OBVIOUS
<1>4. T = Nat
  <2> HIDE DEF T
  <2> QED BY <1>1, <1>2, <1>3, AllNaturals
<1>5. n <= n
  OBVIOUS
<1> QED BY <1>4, <1>5

(***************************************************************************)
(* Parsing a line.                                                         *)
(***************************************************************************)
Triple == [1 .. 3 -> Int]
SegmentRow == [genCol : Int, hasSource : BOOLEAN, orig : Triple]
LineState == [gen : Int, orig : Triple, segs : Seq(SegmentRow)]

MovedTo(orig, sourced, d) == IF sourced THEN [i \in 1 .. 3 |-> orig[i] + d[i]] ELSE orig

\* What ParseSegment makes of a segment that tells g, sourced and d.
Recorded(acc, g, sourced, d) ==
  [gen |-> acc.gen + g, orig |-> MovedTo(acc.orig, sourced, d),
   segs |-> Append(acc.segs, [genCol |-> acc.gen + g, hasSource |-> sourced,
                              orig |-> MovedTo(acc.orig, sourced, d)])]

LEMMA ParseTells ==
  ASSUME NEW acc, NEW s, NEW g, NEW sourced \in BOOLEAN, NEW d, Tells(s, g, sourced, d)
  PROVE  ParseSegment(acc, s) = Recorded(acc, g, sourced, d)
<1> DEFINE f == Fields(s)
           orig == IF Len(f) < 4 THEN acc.orig ELSE [i \in 1 .. 3 |-> acc.orig[i] + f[i + 1]]
<1>1. /\ s # <<>> /\ Len(f) \in Nat /\ f[1] = g /\ (~ sourced => Len(f) < 4)
      /\ (sourced => ~ (Len(f) < 4) /\ \A i \in 1 .. 3 : f[i + 1] = d[i])
  BY DEF Tells
<1>2. ParseSegment(acc, s) =
        [gen |-> acc.gen + f[1], orig |-> orig,
         segs |-> Append(acc.segs, [genCol |-> acc.gen + f[1], hasSource |-> Len(f) >= 4, orig |-> orig])]
  BY <1>1 DEF ParseSegment
<1> HIDE DEF f
<1>3. orig = MovedTo(acc.orig, sourced, d)
  BY <1>1 DEF MovedTo
<1> HIDE DEF orig
<1>4. (Len(f) >= 4) = sourced
  <2>1. Len(f) >= 4 <=> ~ (Len(f) < 4)
    BY <1>1
  <2>2. CASE sourced
    BY <1>1, <2>1, <2>2
  <2>3. CASE ~ sourced
    BY <1>1, <2>1, <2>3
  <2> QED BY <2>2, <2>3
<1>5. [genCol |-> acc.gen + f[1], hasSource |-> Len(f) >= 4, orig |-> orig]
        = [genCol |-> acc.gen + g, hasSource |-> sourced, orig |-> MovedTo(acc.orig, sourced, d)]
  BY <1>1, <1>3, <1>4
<1> QED BY <1>1, <1>2, <1>3, <1>5 DEF Recorded

LEMMA ParseEmpty ==
  ASSUME NEW acc
  PROVE  ParseSegment(acc, <<>>) = acc
  BY DEF ParseSegment

LEMMA PutKeeps ==
  ASSUME NEW acc \in LineState, NEW g \in Int, NEW sourced \in BOOLEAN, NEW d \in Triple
  PROVE  Recorded(acc, g, sourced, d) \in LineState
<1>1. acc.gen \in Int /\ acc.orig \in Triple /\ acc.segs \in Seq(SegmentRow)
  BY DEF LineState
<1> DEFINE o == MovedTo(acc.orig, sourced, d)
           h == acc.gen + g
           x == [genCol |-> h, hasSource |-> sourced, orig |-> o]
<1>2. h \in Int
  BY <1>1
<1>3. o \in Triple
  <2>1. \A i \in 1 .. 3 : acc.orig[i] + d[i] \in Int
    BY <1>1 DEF Triple
  <2> QED BY <1>1, <2>1 DEF MovedTo, Triple
<1> HIDE DEF o, h
<1>4. x \in SegmentRow
  BY <1>2, <1>3 DEF SegmentRow
<1> HIDE DEF x
<1>5. Append(acc.segs, x) \in Seq(SegmentRow)
  BY <1>1, <1>4
<1>6. Recorded(acc, g, sourced, d) = [gen |-> h, orig |-> o, segs |-> Append(acc.segs, x)]
  BY DEF Recorded, h, o, x
<1> QED BY <1>2, <1>3, <1>5, <1>6 DEF LineState

\* The fold of ParseSegment over a line.
SegmentFold(line, base) ==
  LET iter[s \in SUBSET DOMAIN line] ==
        IF s = {} THEN base ELSE LET x == Max(s) IN ParseSegment(iter[s \ {x}], line[x])
  IN  iter

LEMMA LineIsFold ==
  ASSUME NEW line, NEW base
  PROVE  FoldLeft(ParseSegment, base, line) = SegmentFold(line, base)[DOMAIN line]
  BY DEF FoldLeft, MapThenFoldSet, SegmentFold

\* Each segment of the line tells something, or is empty.
Told(line, n, g, src, d) ==
  /\ n \in Nat /\ DOMAIN line = 1 .. n
  /\ g \in [1 .. n -> Int] /\ src \in [1 .. n -> BOOLEAN] /\ d \in [1 .. n -> Triple]
  /\ \A k \in 1 .. n : line[k] = <<>> \/ Tells(line[k], g[k], src[k], d[k])

LEMMA ToldKeeps ==
  ASSUME NEW line, NEW n, NEW g, NEW src, NEW d, Told(line, n, g, src, d),
         NEW k \in 1 .. n, NEW acc \in LineState
  PROVE  ParseSegment(acc, line[k]) \in LineState
<1> DEFINE h == g[k]
           b == src[k]
           e == d[k]
<1>1. h \in Int /\ b \in BOOLEAN /\ e \in Triple /\ (line[k] = <<>> \/ Tells(line[k], h, b, e))
  BY DEF Told
<1> HIDE DEF h, b, e
<1>2. CASE line[k] = <<>>
  BY <1>2, ParseEmpty
<1>3. CASE Tells(line[k], h, b, e)
  <2>1. ParseSegment(acc, line[k]) = Recorded(acc, h, b, e)
    BY <1>1, <1>3, ParseTells
  <2> QED BY <1>1, <2>1, PutKeeps
<1> QED BY <1>1, <1>2, <1>3

LEMMA SegmentFoldDef ==
  ASSUME NEW line, NEW n, NEW g, NEW src, NEW d, Told(line, n, g, src, d), NEW base \in LineState
  PROVE  \A s \in SUBSET (1 .. n) :
           SegmentFold(line, base)[s] =
             IF s = {} THEN base
             ELSE ParseSegment(SegmentFold(line, base)[s \ {Max(s)}], line[Max(s)])
<1> DEFINE D == 1 .. n
           V == LineState
           next == [a \in D \X V |-> ParseSegment(a[2], line[a[1]])]
<1>1. n \in Nat /\ DOMAIN line = D
  BY DEF Told
<1>2. ASSUME NEW k \in D, NEW acc \in V PROVE ParseSegment(acc, line[k]) \in V
  BY ToldKeeps
<1>3. next \in [D \X V -> V]
  <2>1. \A a \in D \X V : a[1] \in D /\ a[2] \in V
    OBVIOUS
  <2> HIDE DEF D, V
  <2> QED BY <1>2, <2>1
<1>4. \A k \in D, acc \in V : next[<<k, acc>>] = ParseSegment(acc, line[k])
  <2> HIDE DEF D, V
  <2> QED OBVIOUS
<1>5. \A s \in SUBSET D : s # {} => Max(s) \in D /\ s \ {Max(s)} \in SUBSET D
  <2>1. \A s \in SUBSET D : s # {} => Max(s) \in s
    <3>1. \A s \in SUBSET D : s \in SUBSET (0 .. n)
      BY <1>1
    <3> HIDE DEF D
    <3> QED BY <1>1, <3>1, MaxExists
  <2> HIDE DEF D
  <2> QED BY <2>1
<1> HIDE DEF next
<1>6. PICK f \in [SUBSET D -> V] : Folds(f, n, base, next)
  <2>1. FoldTypes(n, V, base, next)
    BY <1>1, <1>3 DEF FoldTypes
  <2> HIDE DEF V
  <2> QED BY <2>1, FoldExists
<1>7. f = [s \in SUBSET D |-> IF s = {} THEN base ELSE next[<<Max(s), f[s \ {Max(s)}]>>]]
  BY <1>6 DEF Folds
<1> HIDE DEF D, V
<1>8. f = [s \in SUBSET D |-> IF s = {} THEN base ELSE ParseSegment(f[s \ {Max(s)}], line[Max(s)])]
  <2>1. \A s \in SUBSET D : s # {} => Max(s) \in D /\ f[s \ {Max(s)}] \in V
    BY <1>5, <1>6
  <2>2. \A s \in SUBSET D : s # {} => next[<<Max(s), f[s \ {Max(s)}]>>]
                                        = ParseSegment(f[s \ {Max(s)}], line[Max(s)])
    BY <1>4, <2>1
  <2>3. \A s \in SUBSET D : f[s] = IF s = {} THEN base ELSE ParseSegment(f[s \ {Max(s)}], line[Max(s)])
    BY <1>7, <2>2
  <2>4. f = [s \in SUBSET D |-> f[s]]
    BY <1>6
  <2> QED BY <2>3, <2>4
<1>9. SegmentFold(line, base) =
        [s \in SUBSET D |-> IF s = {} THEN base
                            ELSE ParseSegment(SegmentFold(line, base)[s \ {Max(s)}], line[Max(s)])]
  BY <1>1, <1>8 DEF SegmentFold
<1> QED BY <1>9 DEF D

LEMMA LineTyped ==
  ASSUME NEW line, NEW n, NEW g, NEW src, NEW d, Told(line, n, g, src, d), NEW base \in LineState
  PROVE  FoldLeft(ParseSegment, base, line) \in LineState
<1> DEFINE f == SegmentFold(line, base)
           T == {k \in Nat : k <= n => f[1 .. k] \in LineState}
<1>1. n \in Nat /\ DOMAIN line = 1 .. n
  BY DEF Told
<1>2. \A s \in SUBSET (1 .. n) : f[s] = IF s = {} THEN base ELSE ParseSegment(f[s \ {Max(s)}], line[Max(s)])
  BY SegmentFoldDef
<1> HIDE DEF f
<1>3. 0 \in T
  <2>1. 1 .. 0 = {}
    OBVIOUS
  <2> QED BY <1>2, <2>1
<1>4. ASSUME NEW k \in T PROVE k + 1 \in T
  <2> SUFFICES ASSUME k + 1 <= n PROVE f[1 .. k + 1] \in LineState
    OBVIOUS
  <2> DEFINE m == k + 1
             s == 1 .. m
             t == 1 .. k
  <2>1. k \in Nat /\ m \in 1 .. n /\ m - 1 = k /\ k <= n
    BY <1>1
  <2>2. f[t] \in LineState
    BY <2>1
  <2> HIDE DEF m
  <2>3. s \in SUBSET (1 .. n) /\ s # {} /\ Max(s) = m /\ s \ {m} = t
    BY <1>1, <2>1, FirstSteps
  <2> HIDE DEF s, t
  <2>4. f[s] = ParseSegment(f[t], line[m])
    BY <1>2, <2>3
  <2>5. f[s] \in LineState
    BY <2>1, <2>2, <2>4, ToldKeeps
  <2> QED BY <2>5 DEF s, m
<1>5. T \in SUBSET Nat
  OBVIOUS
<1>6. T = Nat
  <2> HIDE DEF T
  <2> QED BY <1>3, <1>4, <1>5, AllNaturals
<1>7. n <= n
  BY <1>1
<1>8. f[1 .. n] \in LineState
  BY <1>1, <1>6, <1>7
<1> QED BY <1>1, <1>8, LineIsFold DEF f

\* The state of a line after its first k segments; gen and orig say what each makes
\* of the column and of the position in the source.
Segment(gen, src, orig, i) == [genCol |-> gen[i], hasSource |-> src[i], orig |-> orig[i]]
After(gen, src, orig, k) ==
  [gen |-> gen[k], orig |-> orig[k], segs |-> [i \in 1 .. k |-> Segment(gen, src, orig, i)]]

\* A line of m segments, and of one without digits after them if n > m.
Spells(line, n, m, gen, src, orig) ==
  /\ n \in Nat /\ m \in Nat /\ (n = m \/ n = m + 1) /\ DOMAIN line = 1 .. n
  /\ (n = m + 1 => line[n] = <<>>)
  /\ gen \in [0 .. m -> Int] /\ src \in [1 .. m -> BOOLEAN] /\ orig \in [0 .. m -> Triple]
  /\ gen[0] = 0 /\ \A k \in 1 .. m : ~ src[k] => orig[k] = orig[k - 1]
  /\ \A k \in 1 .. m : Tells(line[k], gen[k] - gen[k - 1], src[k],
                             [i \in 1 .. 3 |-> orig[k][i] - orig[k - 1][i]])

LEMMA AppendIs ==
  ASSUME NEW S, NEW k \in Nat, NEW s \in [1 .. k + 1 -> S]
  PROVE  Append([i \in 1 .. k |-> s[i]], s[k + 1]) = s
<1> DEFINE t == [i \in 1 .. k |-> s[i]]
           A == Append(t, s[k + 1])
<1>1. \A i \in 1 .. k : i \in 1 .. k + 1
  OBVIOUS
<1>2. t \in [1 .. k -> S] /\ s[k + 1] \in S
  BY <1>1
<1>3. t \in Seq(S) /\ Len(t) = k
  <2> HIDE DEF t
  <2> QED BY <1>2
<1>4. \A i \in 1 .. k : t[i] = s[i]
  OBVIOUS
<1> HIDE DEF t
<1>5. A \in Seq(S) /\ DOMAIN A = 1 .. k + 1 /\ A[k + 1] = s[k + 1] /\ \A i \in 1 .. k : A[i] = s[i]
  BY <1>2, <1>3, <1>4, Added
<1>6. \A i \in 1 .. k + 1 : A[i] = s[i]
  <2>1. \A i \in 1 .. k + 1 : i = k + 1 \/ i \in 1 .. k
    OBVIOUS
  <2> HIDE DEF A
  <2> QED BY <1>5, <2>1
<1>7. A = [i \in DOMAIN A |-> A[i]]
  BY <1>5
<1> HIDE DEF A
<1>8. A = s
  BY <1>5, <1>6, <1>7
<1> QED BY <1>8 DEF A, t

LEMMA LineParsed ==
  ASSUME NEW line, NEW n, NEW m, NEW gen, NEW src, NEW orig, Spells(line, n, m, gen, src, orig)
  PROVE  FoldLeft(ParseSegment, [gen |-> 0, orig |-> orig[0], segs |-> <<>>], line)
           = After(gen, src, orig, m)
<1> DEFINE base == [gen |-> 0, orig |-> orig[0], segs |-> <<>>]
           g == [k \in 1 .. n |-> IF k \in 1 .. m THEN gen[k] - gen[k - 1] ELSE 0]
           b == [k \in 1 .. n |-> IF k \in 1 .. m THEN src[k] ELSE FALSE]
           diff(k) == [i \in 1 .. 3 |-> orig[k][i] - orig[k - 1][i]]
           d == [k \in 1 .. n |-> IF k \in 1 .. m THEN diff(k) ELSE orig[0]]
           a == [k \in 0 .. n |-> After(gen, src, orig, IF k <= m THEN k ELSE m)]
           f == SegmentFold(line, base)
<1>1. /\ n \in Nat /\ m \in Nat /\ (n = m \/ n = m + 1) /\ DOMAIN line = 1 .. n
      /\ (n = m + 1 => line[n] = <<>>)
      /\ gen \in [0 .. m -> Int] /\ src \in [1 .. m -> BOOLEAN] /\ orig \in [0 .. m -> Triple]
      /\ gen[0] = 0 /\ (\A k \in 1 .. m : ~ src[k] => orig[k] = orig[k - 1])
      /\ \A k \in 1 .. m : Tells(line[k], gen[k] - gen[k - 1], src[k], diff(k))
  BY DEF Spells
<1>2. \A k \in 1 .. m : k \in 0 .. m /\ k - 1 \in 0 .. m
  BY <1>1
<1>3. \A k \in 1 .. m : gen[k] - gen[k - 1] \in Int /\ diff(k) \in Triple
  <2> SUFFICES ASSUME NEW k \in 1 .. m PROVE gen[k] - gen[k - 1] \in Int /\ diff(k) \in Triple
    OBVIOUS
  <2>1. gen[k] \in Int /\ gen[k - 1] \in Int /\ orig[k] \in Triple /\ orig[k - 1] \in Triple
    BY <1>1, <1>2
  <2> QED BY <2>1 DEF Triple
<1> HIDE DEF diff
<1>4. 0 \in 0 .. m /\ orig[0] \in Triple
  BY <1>1
<1>5. base \in LineState
  <2>1. <<>> \in Seq(SegmentRow)
    BY EmptySeq
  <2> QED BY <1>4, <2>1 DEF LineState
<1>6. Told(line, n, g, b, d)
  <2>1. g \in [1 .. n -> Int] /\ b \in [1 .. n -> BOOLEAN] /\ d \in [1 .. n -> Triple]
    BY <1>1, <1>3, <1>4
  <2>2. \A k \in 1 .. n : k \in 1 .. m \/ (k \notin 1 .. m /\ n = m + 1 /\ k = n)
    BY <1>1
  <2>3. \A k \in 1 .. n : line[k] = <<>> \/ Tells(line[k], g[k], b[k], d[k])
    BY <1>1, <2>2
  <2> HIDE DEF g, b, d
  <2> QED BY <1>1, <2>1, <2>3 DEF Told
<1> HIDE DEF g, b, d
<1>7. \A s \in SUBSET (1 .. n) : f[s] = IF s = {} THEN base ELSE ParseSegment(f[s \ {Max(s)}], line[Max(s)])
  <2> HIDE DEF base
  <2> QED BY <1>5, <1>6, SegmentFoldDef
<1>8. f[{}] = a[0]
  <2>1. f[{}] = base
    BY <1>7
  <2>2. a[0] = After(gen, src, orig, 0)
    BY <1>1
  <2>3. After(gen, src, orig, 0) = base
    <3>1. 1 .. 0 = {} /\ [i \in {} |-> Segment(gen, src, orig, i)] = <<>>
      OBVIOUS
    <3> QED BY <1>1, <3>1 DEF After
  <2> QED BY <2>1, <2>2, <2>3
<1> HIDE DEF f, base
<1>9. ASSUME NEW k \in 1 .. n, f[1 .. k - 1] = a[k - 1] PROVE f[1 .. k] = a[k]
  <2>1. /\ 1 .. k \in SUBSET (1 .. n) /\ 1 .. k # {} /\ Max(1 .. k) = k
        /\ (1 .. k) \ {k} = 1 .. k - 1 /\ k - 1 \in Nat
    BY <1>1, FirstSteps
  <2>2. f[1 .. k] = ParseSegment(a[k - 1], line[k])
    <3> DEFINE s == 1 .. k
               t == 1 .. k - 1
    <3>1. s \in SUBSET (1 .. n) /\ s # {} /\ Max(s) = k /\ s \ {k} = t /\ f[t] = a[k - 1]
      BY <1>9, <2>1
    <3> HIDE DEF s, t
    <3>2. f[s] = ParseSegment(f[t], line[k])
      BY <1>7, <3>1
    <3> QED BY <3>1, <3>2 DEF s
  <2>3. k \in 0 .. n /\ k - 1 \in 0 .. n
    BY <1>1
  <2>4. CASE k \in 1 .. m
    <3> DEFINE o == orig[k]
               p == orig[k - 1]
               h == gen[k]
               j == gen[k - 1]
               c == src[k]
               acc == After(gen, src, orig, k - 1)
    <3>1. a[k - 1] = acc /\ a[k] = After(gen, src, orig, k)
      BY <1>1, <2>3, <2>4
    <3>2. Tells(line[k], h - j, c, diff(k)) /\ c \in BOOLEAN
      BY <1>1, <2>4
    <3>3. h \in Int /\ j \in Int /\ o \in Triple /\ p \in Triple
      BY <1>1, <1>2, <2>4
    <3>4. ParseSegment(acc, line[k]) = Recorded(acc, h - j, c, diff(k))
      <4> HIDE DEF acc, h, j, c
      <4> QED BY <3>2, ParseTells
    <3>5. acc.gen = j /\ acc.orig = p /\ acc.segs = [i \in 1 .. k - 1 |-> Segment(gen, src, orig, i)]
      BY DEF After
    <3>6. j + (h - j) = h
      <4> HIDE DEF j, h
      <4> QED BY <3>3
    <3>7. MovedTo(p, c, diff(k)) = o
      <4>1. CASE ~ c
        <5>1. o = p
          BY <1>1, <2>4, <4>1
        <5> QED BY <4>1, <5>1 DEF MovedTo
      <4>2. CASE c
        <5>1. diff(k) = [i \in 1 .. 3 |-> o[i] - p[i]]
          BY DEF diff
        <5> HIDE DEF o, p, c
        <5>2. \A i \in 1 .. 3 : p[i] + (o[i] - p[i]) = o[i]
          BY <3>3 DEF Triple
        <5>3. o = [i \in 1 .. 3 |-> o[i]]
          BY <3>3 DEF Triple
        <5>4. [i \in 1 .. 3 |-> p[i] + diff(k)[i]] = [i \in 1 .. 3 |-> o[i]]
          BY <5>1, <5>2
        <5> QED BY <4>2, <5>3, <5>4 DEF MovedTo
      <4> QED BY <4>1, <4>2
    <3>8. Append(acc.segs, Segment(gen, src, orig, k)) = [i \in 1 .. k |-> Segment(gen, src, orig, i)]
      <4> DEFINE S == {Segment(gen, src, orig, i) : i \in 1 .. k}
                 s == [i \in 1 .. k |-> Segment(gen, src, orig, i)]
                 l == k - 1
      <4>1. s \in [1 .. k -> S] /\ s[k] = Segment(gen, src, orig, k)
        BY <2>1
      <4>2. l \in Nat /\ l + 1 = k /\ \A i \in 1 .. l : i \in 1 .. k
        BY <2>1
      <4>3. acc.segs = [i \in 1 .. l |-> s[i]]
        BY <3>5, <4>2
      <4> HIDE DEF S, s, l
      <4>4. Append([i \in 1 .. l |-> s[i]], s[l + 1]) = s
        BY <4>1, <4>2, AppendIs
      <4> QED BY <4>1, <4>2, <4>3, <4>4 DEF s
    <3>9. Segment(gen, src, orig, k) = [genCol |-> h, hasSource |-> c, orig |-> o]
      BY DEF Segment
    <3>10. After(gen, src, orig, k) = [gen |-> h, orig |-> o, segs |-> [i \in 1 .. k |-> Segment(gen, src, orig, i)]]
      BY DEF After
    <3> HIDE DEF acc, h, j, o, p, c
    <3>11. Recorded(acc, h - j, c, diff(k)) = After(gen, src, orig, k)
      BY <3>5, <3>6, <3>7, <3>8, <3>9, <3>10 DEF Recorded
    <3> QED BY <2>2, <3>1, <3>4, <3>11
  <2>5. CASE k \notin 1 .. m
    <3>1. n = m + 1 /\ k = n /\ k - 1 = m /\ ~ (k <= m) /\ m <= m
      BY <1>1, <2>5
    <3>2. line[k] = <<>>
      BY <1>1, <3>1
    <3>3. a[k - 1] = After(gen, src, orig, m) /\ a[k] = After(gen, src, orig, m)
      BY <2>3, <3>1
    <3> QED BY <2>2, <3>2, <3>3, ParseEmpty
  <2> QED BY <2>4, <2>5
<1>10. a[n] = After(gen, src, orig, m)
  <2>1. n \in 0 .. n /\ (n <= m => n = m)
    BY <1>1
  <2> QED BY <2>1
<1> HIDE DEF a
<1>11. f[1 .. n] = a[n]
  <2>1. Run(f, a, n)
    BY <1>8, <1>9 DEF Run
  <2> QED BY <1>1, <2>1, FoldRuns
<1> QED BY <1>1, <1>10, <1>11, LineIsFold DEF f, base

(***************************************************************************)
(* Parsing a text.                                                         *)
(***************************************************************************)
\* A line that takes the position in the source from o to p and has the segments segs.
LineReads(line, o, p, segs) ==
  \E l, m, gen, src, orig :
    /\ Spells(line, l, m, gen, src, orig) /\ orig[0] = o /\ orig[m] = p
    /\ segs = [i \in 1 .. m |-> Segment(gen, src, orig, i)]

LEMMA SpellsTold ==
  ASSUME NEW line, NEW n, NEW m, NEW gen, NEW src, NEW orig, Spells(line, n, m, gen, src, orig)
  PROVE  \E g, b, d : Told(line, n, g, b, d)
<1> DEFINE g == [k \in 1 .. n |-> IF k \in 1 .. m THEN gen[k] - gen[k - 1] ELSE 0]
           b == [k \in 1 .. n |-> IF k \in 1 .. m THEN src[k] ELSE FALSE]
           diff(k) == [i \in 1 .. 3 |-> orig[k][i] - orig[k - 1][i]]
           d == [k \in 1 .. n |-> IF k \in 1 .. m THEN diff(k) ELSE orig[0]]
<1>1. /\ n \in Nat /\ m \in Nat /\ (n = m \/ n = m + 1) /\ DOMAIN line = 1 .. n
      /\ (n = m + 1 => line[n] = <<>>)
      /\ gen \in [0 .. m -> Int] /\ src \in [1 .. m -> BOOLEAN] /\ orig \in [0 .. m -> Triple]
      /\ \A k \in 1 .. m : Tells(line[k], gen[k] - gen[k - 1], src[k], diff(k))
  BY DEF Spells
<1>2. \A k \in 1 .. m : k \in 0 .. m /\ k - 1 \in 0 .. m
  BY <1>1
<1>3. \A k \in 1 .. m : gen[k] - gen[k - 1] \in Int /\ diff(k) \in Triple
  <2> SUFFICES ASSUME NEW k \in 1 .. m PROVE gen[k] - gen[k - 1] \in Int /\ diff(k) \in Triple
    OBVIOUS
  <2>1. gen[k] \in Int /\ gen[k - 1] \in Int /\ orig[k] \in Triple /\ orig[k - 1] \in Triple
    BY <1>1, <1>2
  <2> QED BY <2>1 DEF Triple
<1> HIDE DEF diff
<1>4. 0 \in 0 .. m /\ orig[0] \in Triple
  BY <1>1
<1>5. g \in [1 .. n -> Int] /\ b \in [1 .. n -> BOOLEAN] /\ d \in [1 .. n -> Triple]
  <2>1. g \in [1 .. n -> Int]
    BY <1>3
  <2>2. b \in [1 .. n -> BOOLEAN]
    BY <1>1
  <2>3. d \in [1 .. n -> Triple]
    BY <1>3, <1>4
  <2> QED BY <2>1, <2>2, <2>3
<1>6. \A k \in 1 .. n : k \in 1 .. m \/ (k \notin 1 .. m /\ n = m + 1 /\ k = n)
  BY <1>1
<1>7. \A k \in 1 .. n : line[k] = <<>> \/ Tells(line[k], g[k], b[k], d[k])
  BY <1>1, <1>6
<1> HIDE DEF g, b, d
<1>8. Told(line, n, g, b, d)
  BY <1>1, <1>5, <1>7 DEF Told
<1> QED BY <1>8

LEMMA LineRead ==
  ASSUME NEW line, NEW o, NEW p, NEW segs, LineReads(line, o, p, segs)
  PROVE  LET outcome == FoldLeft(ParseSegment, [gen |-> 0, orig |-> o, segs |-> <<>>], line)
         IN  /\ outcome.orig = p /\ outcome.segs = segs /\ segs \in Seq(SegmentRow)
             /\ \E n, g, b, d : Told(line, n, g, b, d)
<1>1. PICK l, m, gen, src, orig :
        /\ Spells(line, l, m, gen, src, orig) /\ orig[0] = o /\ orig[m] = p
        /\ segs = [i \in 1 .. m |-> Segment(gen, src, orig, i)]
  BY DEF LineReads
<1> DEFINE outcome == FoldLeft(ParseSegment, [gen |-> 0, orig |-> o, segs |-> <<>>], line)
<1>2. outcome = After(gen, src, orig, m)
  BY <1>1, LineParsed
<1>3. After(gen, src, orig, m).orig = p /\ After(gen, src, orig, m).segs = segs
  BY <1>1 DEF After
<1>4. segs \in Seq(SegmentRow)
  <2>1. m \in Nat /\ gen \in [0 .. m -> Int] /\ src \in [1 .. m -> BOOLEAN] /\ orig \in [0 .. m -> Triple]
    BY <1>1 DEF Spells
  <2>2. \A i \in 1 .. m : i \in 0 .. m
    BY <2>1
  <2>3. \A i \in 1 .. m : Segment(gen, src, orig, i) \in SegmentRow
    BY <2>1, <2>2 DEF Segment, SegmentRow
  <2>4. segs \in [1 .. m -> SegmentRow]
    BY <1>1, <2>3
  <2> QED BY <2>1, <2>4
<1>5. \E n, g, b, d : Told(line, n, g, b, d)
  BY <1>1, SpellsTold
<1> HIDE DEF outcome
<1>6. outcome.orig = p /\ outcome.segs = segs
  BY <1>2, <1>3
<1> QED BY <1>4, <1>5, <1>6 DEF outcome

TextState == [orig : Triple, lines : Seq(Seq(SegmentRow))]

LEMMA ParseLineIs ==
  ASSUME NEW acc, NEW line
  PROVE  LET outcome == FoldLeft(ParseSegment, [gen |-> 0, orig |-> acc.orig, segs |-> <<>>], line)
         IN  ParseLine(acc, line) = [orig |-> outcome.orig, lines |-> Append(acc.lines, outcome.segs)]
  BY DEF ParseLine

LEMMA ParseLineKeeps ==
  ASSUME NEW acc \in TextState, NEW line, \E n, g, b, d : Told(line, n, g, b, d)
  PROVE  ParseLine(acc, line) \in TextState
<1> DEFINE base == [gen |-> 0, orig |-> acc.orig, segs |-> <<>>]
           outcome == FoldLeft(ParseSegment, base, line)
<1>1. acc.orig \in Triple /\ acc.lines \in Seq(Seq(SegmentRow))
  BY DEF TextState
<1>2. base \in LineState
  <2>1. <<>> \in Seq(SegmentRow)
    BY EmptySeq
  <2> QED BY <1>1, <2>1 DEF LineState
<1>3. outcome \in LineState
  <2> HIDE DEF base
  <2> QED BY <1>2, LineTyped
<1>4. ParseLine(acc, line) = [orig |-> outcome.orig, lines |-> Append(acc.lines, outcome.segs)]
  BY ParseLineIs
<1> HIDE DEF outcome
<1>5. outcome.orig \in Triple /\ outcome.segs \in Seq(SegmentRow)
  BY <1>3 DEF LineState
<1> DEFINE S == Seq(SegmentRow)
           x == outcome.segs
           ls == acc.lines
<1>6. x \in S /\ ls \in Seq(S)
  BY <1>1, <1>5
<1> HIDE DEF S, x, ls
<1>7. Append(ls, x) \in Seq(S)
  BY <1>6
<1> QED BY <1>4, <1>5, <1>7 DEF TextState, S, x, ls

\* The fold of ParseLine over a text.
TextFold(text, base) ==
  LET iter[s \in SUBSET DOMAIN text] ==
        IF s = {} THEN base ELSE LET x == Max(s) IN ParseLine(iter[s \ {x}], text[x])
  IN  iter

LEMMA TextIsFold ==
  ASSUME NEW text, NEW base
  PROVE  FoldLeft(ParseLine, base, text) = TextFold(text, base)[DOMAIN text]
  BY DEF FoldLeft, MapThenFoldSet, TextFold

\* Every line of the text can be read.
Legible(text, n) ==
  n \in Nat /\ DOMAIN text = 1 .. n /\ \A k \in 1 .. n : \E l, g, b, d : Told(text[k], l, g, b, d)

LEMMA TextFoldDef ==
  ASSUME NEW text, NEW n, Legible(text, n), NEW base \in TextState
  PROVE  \A s \in SUBSET (1 .. n) :
           TextFold(text, base)[s] =
             IF s = {} THEN base ELSE ParseLine(TextFold(text, base)[s \ {Max(s)}], text[Max(s)])
<1> DEFINE D == 1 .. n
           V == TextState
           next == [a \in D \X V |-> ParseLine(a[2], text[a[1]])]
<1>1. n \in Nat /\ DOMAIN text = D
  BY DEF Legible
<1>2. ASSUME NEW k \in D, NEW acc \in V PROVE ParseLine(acc, text[k]) \in V
  <2>1. \E l, g, b, d : Told(text[k], l, g, b, d)
    BY DEF Legible
  <2> QED BY <2>1, ParseLineKeeps
<1>3. next \in [D \X V -> V]
  <2>1. \A a \in D \X V : a[1] \in D /\ a[2] \in V
    OBVIOUS
  <2> HIDE DEF D, V
  <2> QED BY <1>2, <2>1
<1>4. \A k \in D, acc \in V : next[<<k, acc>>] = ParseLine(acc, text[k])
  <2> HIDE DEF D, V
  <2> QED OBVIOUS
<1>5. \A s \in SUBSET D : s # {} => Max(s) \in D /\ s \ {Max(s)} \in SUBSET D
  <2>1. \A s \in SUBSET D : s # {} => Max(s) \in s
    <3>1. \A s \in SUBSET D : s \in SUBSET (0 .. n)
      BY <1>1
    <3> HIDE DEF D
    <3> QED BY <1>1, <3>1, MaxExists
  <2> HIDE DEF D
  <2> QED BY <2>1
<1> HIDE DEF next
<1>6. PICK f \in [SUBSET D -> V] : Folds(f, n, base, next)
  <2>1. FoldTypes(n, V, base, next)
    BY <1>1, <1>3 DEF FoldTypes
  <2> HIDE DEF V
  <2> QED BY <2>1, FoldExists
<1>7. f = [s \in SUBSET D |-> IF s = {} THEN base ELSE next[<<Max(s), f[s \ {Max(s)}]>>]]
  BY <1>6 DEF Folds
<1> HIDE DEF D, V
<1>8. f = [s \in SUBSET D |-> IF s = {} THEN base ELSE ParseLine(f[s \ {Max(s)}], text[Max(s)])]
  <2>1. \A s \in SUBSET D : s # {} => Max(s) \in D /\ f[s \ {Max(s)}] \in V
    BY <1>5, <1>6
  <2>2. \A s \in SUBSET D : s # {} => next[<<Max(s), f[s \ {Max(s)}]>>]
                                        = ParseLine(f[s \ {Max(s)}], text[Max(s)])
    BY <1>4, <2>1
  <2>3. \A s \in SUBSET D : f[s] = IF s = {} THEN base ELSE ParseLine(f[s \ {Max(s)}], text[Max(s)])
    BY <1>7, <2>2
  <2>4. f = [s \in SUBSET D |-> f[s]]
    BY <1>6
  <2> QED BY <2>3, <2>4
<1>9. TextFold(text, base) =
        [s \in SUBSET D |-> IF s = {} THEN base
                            ELSE ParseLine(TextFold(text, base)[s \ {Max(s)}], text[Max(s)])]
  BY <1>1, <1>8 DEF TextFold
<1> QED BY <1>9 DEF D

\* The position in the source goes from line to line.
TextReads(text, n, os, segs) ==
  /\ n \in Nat /\ DOMAIN text = 1 .. n /\ os \in [0 .. n -> Triple] /\ os[0] = Origin
  /\ \A k \in 1 .. n : LineReads(text[k], os[k - 1], os[k], segs[k])

LEMMA TextParsed ==
  ASSUME NEW text, NEW n, NEW os, NEW segs, TextReads(text, n, os, segs)
  PROVE  parseMappings(text) = [k \in 1 .. n |-> segs[k]]
<1> DEFINE base == [orig |-> Origin, lines |-> <<>>]
           f == TextFold(text, base)
           a == [k \in 0 .. n |-> [orig |-> os[k], lines |-> [j \in 1 .. k |-> segs[j]]]]
<1>1. n \in Nat /\ DOMAIN text = 1 .. n /\ os \in [0 .. n -> Triple] /\ os[0] = Origin
  BY DEF TextReads
<1>2. ASSUME NEW k \in 1 .. n
      PROVE  LET outcome == FoldLeft(ParseSegment, [gen |-> 0, orig |-> os[k - 1], segs |-> <<>>], text[k])
             IN  /\ outcome.orig = os[k] /\ outcome.segs = segs[k] /\ segs[k] \in Seq(SegmentRow)
                 /\ \E l, g, b, d : Told(text[k], l, g, b, d)
  <2> DEFINE p == os[k - 1]
             q == os[k]
  <2>1. LineReads(text[k], p, q, segs[k])
    BY DEF TextReads
  <2> HIDE DEF p, q
  <2>2. LET outcome == FoldLeft(ParseSegment, [gen |-> 0, orig |-> p, segs |-> <<>>], text[k])
        IN  /\ outcome.orig = q /\ outcome.segs = segs[k] /\ segs[k] \in Seq(SegmentRow)
            /\ \E l, g, b, d : Told(text[k], l, g, b, d)
    BY <2>1, LineRead
  <2> QED BY <2>2 DEF p, q
<1>3. base \in TextState
  <2>1. <<>> \in Seq(Seq(SegmentRow)) /\ 0 \in 0 .. n
    BY <1>1, EmptySeq
  <2>2. Origin \in Triple
    BY <1>1, <2>1
  <2> QED BY <2>1, <2>2 DEF TextState
<1>4. Legible(text, n)
  BY <1>1, <1>2 DEF Legible
<1>5. \A s \in SUBSET (1 .. n) : f[s] = IF s = {} THEN base ELSE ParseLine(f[s \ {Max(s)}], text[Max(s)])
  <2> HIDE DEF base
  <2>1. \A c \in TextState : \A s \in SUBSET (1 .. n) :
          TextFold(text, c)[s] = IF s = {} THEN c ELSE ParseLine(TextFold(text, c)[s \ {Max(s)}], text[Max(s)])
    BY <1>4, TextFoldDef
  <2> QED BY <1>3, <2>1
<1>6. f[{}] = a[0]
  <2>1. f[{}] = base
    BY <1>5
  <2>2. a[0] = [orig |-> os[0], lines |-> [j \in 1 .. 0 |-> segs[j]]]
    BY <1>1
  <2>3. 1 .. 0 = {} /\ [j \in {} |-> segs[j]] = <<>>
    OBVIOUS
  <2> QED BY <1>1, <2>1, <2>2, <2>3
<1> HIDE DEF f
<1>7. ASSUME NEW k \in 1 .. n, f[1 .. k - 1] = a[k - 1] PROVE f[1 .. k] = a[k]
  <2> DEFINE s == 1 .. k
             t == 1 .. k - 1
             l == k - 1
             acc == a[l]
  <2>1. /\ s \in SUBSET (1 .. n) /\ s # {} /\ Max(s) = k /\ s \ {k} = t /\ l \in Nat /\ l + 1 = k
        /\ f[t] = acc /\ l \in 0 .. n /\ k \in 0 .. n
    <3>1. s \in SUBSET (1 .. n) /\ s # {} /\ Max(s) = k /\ s \ {k} = t /\ l \in Nat
      BY <1>1, FirstSteps
    <3>2. f[t] = acc
      BY <1>7
    <3>3. l + 1 = k /\ l \in 0 .. n /\ k \in 0 .. n
      BY <1>1
    <3> QED BY <3>1, <3>2, <3>3
  <2>2. acc.orig = os[l] /\ acc.lines = [j \in 1 .. l |-> segs[j]]
    BY <2>1
  <2>3. a[k] = [orig |-> os[k], lines |-> [j \in 1 .. k |-> segs[j]]]
    BY <2>1
  <2>4. /\ FoldLeft(ParseSegment, [gen |-> 0, orig |-> os[l], segs |-> <<>>], text[k]).orig = os[k]
        /\ FoldLeft(ParseSegment, [gen |-> 0, orig |-> os[l], segs |-> <<>>], text[k]).segs = segs[k]
    BY <1>2
  <2> HIDE DEF acc, a, base
  <2>5. f[s] = ParseLine(acc, text[k])
    <3> HIDE DEF s, t
    <3> QED BY <1>5, <2>1
  <2>6. ParseLine(acc, text[k]) = [orig |-> os[k], lines |-> Append(acc.lines, segs[k])]
    BY <2>2, <2>4, ParseLineIs
  <2>7. Append(acc.lines, segs[k]) = [j \in 1 .. k |-> segs[j]]
    <3> DEFINE S == {segs[j] : j \in 1 .. k}
               q == [j \in 1 .. k |-> segs[j]]
    <3>1. q \in [1 .. k -> S] /\ q[k] = segs[k] /\ acc.lines = [j \in 1 .. l |-> q[j]]
      BY <2>1, <2>2
    <3> HIDE DEF S, q, l
    <3>2. Append([j \in 1 .. l |-> q[j]], q[l + 1]) = q
      BY <2>1, <3>1, AppendIs
    <3> QED BY <2>1, <3>1, <3>2 DEF q
  <2> QED BY <2>3, <2>5, <2>6, <2>7 DEF s
<1>8. f[1 .. n] = a[n]
  <2> HIDE DEF a
  <2>1. Run(f, a, n)
    BY <1>6, <1>7 DEF Run
  <2> QED BY <1>1, <2>1, FoldRuns
<1>9. a[n].lines = [k \in 1 .. n |-> segs[k]]
  BY <1>1
<1> QED BY <1>1, <1>8, <1>9, TextIsFold DEF f, parseMappings

(***************************************************************************)
(* The tokens of a line.                                                   *)
(***************************************************************************)
ColsOn(T, L) == {p[2] : p \in {q \in T : q[1] = L}}
CountOn(T, L) == Len(Ascending(ColsOn(T, L)))
At(T, L, j) == <<L, Ascending(ColsOn(T, L))[j]>>

\* The tokens on the lines before L, and the first j on L.
FirstOn(T, L, j) == {p \in T : p[1] < L \/ (p[1] = L /\ \E i \in 1 .. j : p = At(T, L, i))}
Above(T, L) == {p \in T : p[1] < L}

Tokens(T, L) == T \in SUBSET Place /\ IsFiniteSet(T) /\ L \in Nat

LEMMA LineTokens ==
  ASSUME NEW T, NEW L, Tokens(T, L)
  PROVE  /\ CountOn(T, L) \in Nat /\ DOMAIN Ascending(ColsOn(T, L)) = 1 .. CountOn(T, L)
         /\ \A j \in 1 .. CountOn(T, L) : /\ At(T, L, j) \in T /\ At(T, L, j) \in Place
                                          /\ At(T, L, j)[1] = L /\ At(T, L, j)[2] \in Nat
         /\ \A p \in T : p[1] = L => \E j \in 1 .. CountOn(T, L) : p = At(T, L, j)
         /\ \A i, j \in 1 .. CountOn(T, L) : i < j => At(T, L, i)[2] < At(T, L, j)[2]
         /\ \A i, j \in 1 .. CountOn(T, L) : i <= j => AtOrBefore(At(T, L, i), At(T, L, j))
<1> DEFINE C == ColsOn(T, L)
           q == Ascending(C)
           m == Len(q)
           R == {p \in T : p[1] = L}
<1>1. T \in SUBSET Place /\ IsFiniteSet(T) /\ L \in Nat
  BY DEF Tokens
<1>2. \A p \in T : p = <<p[1], p[2]>> /\ p[1] \in Nat /\ p[2] \in Nat
  BY <1>1, PlaceParts
<1>3. C \in SUBSET Int /\ IsFiniteSet(C) /\ \A c \in C : c \in Nat /\ <<L, c>> \in T
  <2>1. R \in SUBSET T
    OBVIOUS
  <2>2. IsFiniteSet(R)
    <3> HIDE DEF R
    <3> QED BY <1>1, <2>1, FS_Subset
  <2>3. C = {p[2] : p \in R}
    BY DEF ColsOn
  <2>4. \A c \in C : c \in Nat /\ <<L, c>> \in T
    BY <1>2, <2>3
  <2>5. IsFiniteSet(C)
    <3> DEFINE I == {p[2] : p \in R}
    <3>1. IsFiniteSet(I)
      <4> DEFINE f == [p \in R |-> p[2]]
      <4>1. f \in Surjection(R, I)
        <5>1. f \in [R -> I] /\ \A x \in I : \E p \in R : f[p] = x
          OBVIOUS
        <5> HIDE DEF f, I, R
        <5> QED BY <5>1 DEF Surjection
      <4> HIDE DEF f, I, R
      <4> QED BY <2>2, <4>1, FS_Surjection
    <3> QED BY <2>3, <3>1
  <2> HIDE DEF C, R
  <2>6. C \in SUBSET Int
    <3>1. \A c \in Nat : c \in Int
      OBVIOUS
    <3> QED BY <2>4, <3>1
  <2> QED BY <2>4, <2>5, <2>6
<1> HIDE DEF C, R
<1>4. SortedAs(C, q)
  BY <1>3, AscendingSorted
<1> HIDE DEF q
<1>5. m \in Nat /\ DOMAIN q = 1 .. m /\ \A j \in 1 .. m : q[j] \in C
  <2>1. q \in Seq(C)
    BY <1>4 DEF SortedAs
  <2> QED BY <2>1
<1>6. \A j \in 1 .. m : q[j] \in Nat /\ <<L, q[j]>> \in T
  BY <1>3, <1>5
<1>7. \A i, j \in 1 .. m : i < j => q[i] < q[j]
  BY <1>4, <1>5 DEF SortedAs
<1>8. \A j \in 1 .. m : At(T, L, j) = <<L, q[j]>>
  BY DEF At, q, C
<1>9. ASSUME NEW p \in T, p[1] = L PROVE \E j \in 1 .. m : p = At(T, L, j)
  <2>1. p[2] \in C
    BY <1>9 DEF C, ColsOn
  <2>2. PICK j \in 1 .. m : q[j] = p[2]
    BY <1>4, <1>5, <2>1 DEF SortedAs
  <2>3. p = <<L, q[j]>>
    BY <1>2, <1>9, <2>2
  <2> QED BY <1>8, <2>3
<1>10. CountOn(T, L) = m
  BY DEF CountOn, q, C
<1> HIDE DEF m
<1>11. \A j \in 1 .. m : /\ At(T, L, j) \in T /\ At(T, L, j) \in Place
                         /\ At(T, L, j)[1] = L /\ At(T, L, j)[2] = q[j] /\ At(T, L, j)[2] \in Nat
  BY <1>1, <1>6, <1>8
<1>12. \A i, j \in 1 .. m : i < j => At(T, L, i)[2] < At(T, L, j)[2]
  BY <1>7, <1>11
<1>13. ASSUME NEW i \in 1 .. m, NEW j \in 1 .. m, i <= j
       PROVE  AtOrBefore(At(T, L, i), At(T, L, j))
  <2>1. CASE i = j
    BY <1>11, <2>1, OrderLaws
  <2>2. CASE i # j
    <3>1. i < j
      BY <1>5, <1>13, <2>2 DEF m
    <3>2. At(T, L, i)[2] < At(T, L, j)[2] /\ At(T, L, i)[1] = At(T, L, j)[1]
      BY <1>11, <1>12, <3>1
    <3>3. At(T, L, i)[2] \in Nat /\ At(T, L, j)[2] \in Nat
      BY <1>11
    <3>4. \A a, b \in Nat : a < b => a <= b
      OBVIOUS
    <3>5. At(T, L, i)[2] <= At(T, L, j)[2]
      BY <3>2, <3>3, <3>4
    <3> QED BY <3>2, <3>5 DEF AtOrBefore
  <2> QED BY <2>1, <2>2
<1>14. DOMAIN Ascending(ColsOn(T, L)) = 1 .. m /\ m \in Nat
  BY <1>5 DEF q, C, m
<1> QED BY <1>9, <1>10, <1>11, <1>12, <1>13, <1>14

\* The tokens before the j-th of a line.
LEMMA FirstTokens ==
  ASSUME NEW T, NEW L, Tokens(T, L)
  PROVE  /\ FirstOn(T, L, 0) = Above(T, L) /\ FirstOn(T, L, CountOn(T, L)) = Above(T, L + 1)
         /\ \A j \in 1 .. CountOn(T, L) :
              /\ FirstOn(T, L, j) = FirstOn(T, L, j - 1) \cup {At(T, L, j)}
              /\ At(T, L, j) \notin FirstOn(T, L, j - 1)
              /\ {q \in T \ {At(T, L, j)} : AtOrBefore(q, At(T, L, j))} = FirstOn(T, L, j - 1)
              /\ \A q \in FirstOn(T, L, j) : AtOrBefore(q, At(T, L, j))
<1> DEFINE m == CountOn(T, L)
<1>1. /\ T \in SUBSET Place /\ L \in Nat /\ m \in Nat
      /\ \A p \in T : p[1] \in Nat /\ p \in Place
  BY LineTokens, PlaceParts DEF Tokens
<1>2. /\ \A j \in 1 .. m : At(T, L, j) \in T /\ At(T, L, j) \in Place /\ At(T, L, j)[1] = L
      /\ \A p \in T : p[1] = L => \E j \in 1 .. m : p = At(T, L, j)
      /\ \A i, j \in 1 .. m : i < j => At(T, L, i)[2] < At(T, L, j)[2]
      /\ \A i, j \in 1 .. m : i <= j => AtOrBefore(At(T, L, i), At(T, L, j))
      /\ \A j \in 1 .. m : At(T, L, j)[2] \in Nat
  BY LineTokens
<1> HIDE DEF m
<1>3. FirstOn(T, L, 0) = Above(T, L)
  <2>1. \A i \in 1 .. 0 : FALSE
    OBVIOUS
  <2> QED BY <2>1 DEF FirstOn, Above
<1>4. FirstOn(T, L, m) = Above(T, L + 1)
  <2>1. \A p \in T : p[1] < L + 1 <=> p[1] < L \/ p[1] = L
    BY <1>1
  <2> QED BY <1>2, <2>1 DEF FirstOn, Above
<1>5. ASSUME NEW i \in 1 .. m, NEW j \in 1 .. m, At(T, L, i) = At(T, L, j) PROVE i = j
  <2>1. i < j \/ j < i \/ i = j
    BY <1>1
  <2>2. \A a, b \in Nat : a < b => a # b
    OBVIOUS
  <2> QED BY <1>2, <1>5, <2>1, <2>2
<1>6. ASSUME NEW j \in 1 .. m
      PROVE  /\ FirstOn(T, L, j) = FirstOn(T, L, j - 1) \cup {At(T, L, j)}
             /\ At(T, L, j) \notin FirstOn(T, L, j - 1)
             /\ {q \in T \ {At(T, L, j)} : AtOrBefore(q, At(T, L, j))} = FirstOn(T, L, j - 1)
             /\ \A q \in FirstOn(T, L, j) : AtOrBefore(q, At(T, L, j))
  <2> DEFINE p == At(T, L, j)
  <2>1. /\ \A i \in 1 .. j - 1 : i \in 1 .. m /\ i # j /\ i <= j
        /\ \A i \in 1 .. j : i = j \/ i \in 1 .. j - 1
        /\ \A i \in 1 .. j - 1 : i \in 1 .. j
        /\ j \in 1 .. j
    BY <1>1
  <2>2. p \in T /\ p \in Place /\ p[1] = L
    BY <1>2
  <2>3. ~ (L < L)
    BY <1>1
  <2>4. \A i \in 1 .. j - 1 : p # At(T, L, i)
    BY <1>5, <2>1
  <2> HIDE DEF p
  <2>5. FirstOn(T, L, j) = FirstOn(T, L, j - 1) \cup {p}
    <3>1. \A q : (\E i \in 1 .. j : q = At(T, L, i)) <=> q = p \/ \E i \in 1 .. j - 1 : q = At(T, L, i)
      BY <2>1 DEF p
    <3> QED BY <2>2, <3>1 DEF FirstOn
  <2>6. p \notin FirstOn(T, L, j - 1)
    BY <2>2, <2>3, <2>4 DEF FirstOn
  <2>7. \A q \in FirstOn(T, L, j) : AtOrBefore(q, p)
    <3>1. \A q \in T : q[1] < L => AtOrBefore(q, p)
      BY <2>2 DEF AtOrBefore
    <3>2. \A i \in 1 .. j : AtOrBefore(At(T, L, i), p)
      <4>1. \A i \in 1 .. j : i \in 1 .. m /\ i <= j
        BY <1>1
      <4> QED BY <1>2, <4>1 DEF p
    <3> QED BY <3>1, <3>2 DEF FirstOn
  <2>8. \A q \in T : q # p /\ AtOrBefore(q, p) => q \in FirstOn(T, L, j - 1)
    <3> SUFFICES ASSUME NEW q \in T, q # p, AtOrBefore(q, p) PROVE q \in FirstOn(T, L, j - 1)
      OBVIOUS
    <3>1. q[1] < L \/ q[1] = L
      BY <1>1, <2>2 DEF AtOrBefore
    <3>2. CASE q[1] < L
      BY <3>2 DEF FirstOn
    <3>3. CASE q[1] = L
      <4>1. PICK i \in 1 .. m : q = At(T, L, i)
        BY <1>2, <3>3
      <4>2. i # j
        BY <4>1 DEF p
      <4>3. ~ (j < i)
        <5> SUFFICES ASSUME j < i PROVE FALSE
          OBVIOUS
        <5>1. AtOrBefore(p, q)
          <6>1. j <= i
            BY <1>1
          <6> QED BY <1>2, <4>1, <6>1 DEF p
        <5>2. q \in Place
          BY <1>1
        <5> QED BY <2>2, <5>1, <5>2, OrderLaws
      <4>4. i \in 1 .. j - 1
        BY <1>1, <4>2, <4>3
      <4> QED BY <3>3, <4>1, <4>4 DEF FirstOn
    <3> QED BY <3>1, <3>2, <3>3
  <2>9. {q \in T \ {p} : AtOrBefore(q, p)} = FirstOn(T, L, j - 1)
    <3>1. \A q \in FirstOn(T, L, j - 1) : q \in T /\ q # p /\ AtOrBefore(q, p)
      BY <2>5, <2>6, <2>7 DEF FirstOn
    <3> QED BY <2>8, <3>1
  <2> QED BY <2>5, <2>6, <2>7, <2>9 DEF p
<1> QED BY <1>3, <1>4, <1>6 DEF m

(***************************************************************************)
(* What a text was written from.  A map does not change once it is         *)
(* written, so that MapOK is all an invariant has to say.                  *)
(***************************************************************************)
MapOK ==
  /\ DOMAIN tokens \in SUBSET Position
  /\ \A p \in DOMAIN tokens : tokens[p] \in Original \cup {Unknown}
  /\ tokens = [p \in DOMAIN tokens |-> tokens[p]]
  /\ offsets \in Seq(Offsets) /\ damaged \in BOOLEAN

LEMMA Placed ==
  ASSUME MapOK
  PROVE  /\ DOMAIN tokens \in SUBSET Place /\ IsFiniteSet(DOMAIN tokens)
         /\ \A p \in DOMAIN tokens : p[1] \in Nat /\ p[1] < Lines /\ p[2] \in Columns /\ p[2] \in Int
<1>1. Lines \in Nat /\ Columns \subseteq Nat /\ IsFiniteSet(Columns)
  BY PositionsAssumption
<1>2. IsFiniteSet(Position)
  <2> DEFINE R == 0 .. Lines - 1
  <2>1. IsFiniteSet(R)
    <3>1. 0 \in Int /\ Lines - 1 \in Int
      BY <1>1
    <3> QED BY <3>1, FS_Interval
  <2> HIDE DEF R
  <2>2. IsFiniteSet(R \X Columns)
    BY <1>1, <2>1, FS_Product
  <2> QED BY <2>2 DEF Position, R
<1>3. Position \subseteq Place
  <2>1. \A n \in 0 .. Lines - 1 : n \in Nat
    OBVIOUS
  <2> QED BY <1>1, <2>1 DEF Position, Place
<1>4. \A p \in Position : p[1] \in 0 .. Lines - 1 /\ p[2] \in Columns
  BY DEF Position
<1>5. \A n \in 0 .. Lines - 1 : n \in Nat /\ n < Lines
  BY <1>1
<1>6. \A c \in Columns : c \in Int
  BY <1>1
<1>7. DOMAIN tokens \in SUBSET Position
  BY DEF MapOK
<1> QED BY <1>2, <1>3, <1>4, <1>5, <1>6, <1>7, FS_Subset

LEMMA Within ==
  ASSUME MapOK, NEW S \in SUBSET DOMAIN tokens
  PROVE  S \in SUBSET Place /\ IsFiniteSet(S) /\ \A L \in Nat : Tokens(S, L)
<1>1. S \in SUBSET Place /\ IsFiniteSet(S)
  BY Placed, FS_Subset
<1> QED BY <1>1 DEF Tokens

\* The source, line and column that a segment after the tokens S counts from.
SourcedIn(S) == {q \in S : tokens[q] # Unknown}
SrcOf(S) == IF SourcedIn(S) = {} THEN Origin ELSE tokens[LastOf(SourcedIn(S))]

LEMMA TripleParts ==
  \A t \in Int \X Int \X Int : t \in Triple
  BY DEF Triple

LEMMA OriginTriple == Origin \in Triple
<1>1. Origin \in Int \X Int \X Int
  BY DEF Origin
<1> QED BY <1>1, TripleParts

LEMMA SourceTyped ==
  ASSUME MapOK, NEW S \in SUBSET DOMAIN tokens
  PROVE  SrcOf(S) \in Triple
<1>1. \A p \in DOMAIN tokens : tokens[p] # Unknown => tokens[p] \in Triple
  BY PositionsAssumption, TripleParts DEF MapOK
<1>2. SourcedIn(S) \in SUBSET S
  BY DEF SourcedIn
<1>3. CASE SourcedIn(S) # {}
  <2> DEFINE K == SourcedIn(S)
  <2>1. K \in SUBSET Place /\ IsFiniteSet(K)
    BY <1>2, Within
  <2> HIDE DEF K
  <2>2. LastOf(K) \in K
    <3>1. K # {}
      BY <1>3 DEF K
    <3> QED BY <2>1, <3>1, LastExists
  <2> QED BY <1>1, <1>3, <2>2 DEF K, SrcOf, SourcedIn
<1>4. CASE SourcedIn(S) = {}
  BY <1>4, OriginTriple DEF SrcOf
<1> QED BY <1>3, <1>4

\* One more token: it counts from itself on, if it has a source.
LEMMA SourceAfter ==
  ASSUME MapOK, NEW S \in SUBSET DOMAIN tokens, NEW p \in DOMAIN tokens,
         \A q \in S : AtOrBefore(q, p)
  PROVE  SrcOf(S \cup {p}) = IF tokens[p] = Unknown THEN SrcOf(S) ELSE tokens[p]
<1> DEFINE U == S \cup {p}
<1>1. CASE tokens[p] = Unknown
  <2>1. SourcedIn(U) = SourcedIn(S)
    BY <1>1 DEF SourcedIn
  <2> QED BY <1>1, <2>1 DEF SrcOf
<1>2. CASE tokens[p] # Unknown
  <2> DEFINE K == SourcedIn(U)
  <2>1. p \in K /\ K \in SUBSET U
    BY <1>2 DEF SourcedIn
  <2>2. AtOrBefore(p, p) /\ K \in SUBSET Place
    <3>1. p \in Place /\ U \in SUBSET Place
      BY Placed
    <3>2. AtOrBefore(p, p)
      BY <3>1, OrderLaws
    <3> QED BY <2>1, <3>1, <3>2
  <2>3. \A q \in K : AtOrBefore(q, p)
    BY <2>1, <2>2
  <2> HIDE DEF K
  <2>4. LastOf(K) = p
    BY <2>1, <2>2, <2>3, LastOnce
  <2>5. K # {}
    BY <2>1
  <2> QED BY <1>2, <2>4, <2>5 DEF SrcOf, K
<1> QED BY <1>1, <1>2

(***************************************************************************)
(* The segment of a token.                                                 *)
(***************************************************************************)
Col(q, o) == IF q[1] = o[1] THEN q[2] - o[2] ELSE q[2]
GenOn(T, L, o) == [j \in 0 .. CountOn(T, L) |-> IF j = 0 THEN 0 ELSE Col(At(T, L, j), o)]
SrcOn(T, L) == [j \in 1 .. CountOn(T, L) |-> tokens[At(T, L, j)] # Unknown]
OrigOn(T, L) == [j \in 0 .. CountOn(T, L) |-> SrcOf(FirstOn(T, L, j))]
SegsOn(T, L, o) == [j \in 1 .. CountOn(T, L) |-> Segment(GenOn(T, L, o), SrcOn(T, L), OrigOn(T, L), j)]

OnLine(T, L, o) == T \in SUBSET DOMAIN tokens /\ L \in Nat /\ o \in Place

LEMMA Columned ==
  ASSUME MapOK, NEW T, NEW L, NEW o, OnLine(T, L, o)
  PROVE  /\ GenOn(T, L, o) \in [0 .. CountOn(T, L) -> Int] /\ GenOn(T, L, o)[0] = 0
         /\ SrcOn(T, L) \in [1 .. CountOn(T, L) -> BOOLEAN]
         /\ OrigOn(T, L) \in [0 .. CountOn(T, L) -> Triple]
<1> DEFINE m == CountOn(T, L)
<1>1. Tokens(T, L) /\ T \in SUBSET DOMAIN tokens /\ o \in Place
  BY Within DEF OnLine
<1>2. m \in Nat /\ \A j \in 1 .. m : At(T, L, j)[1] = L /\ At(T, L, j)[2] \in Nat
  BY <1>1, LineTokens
<1> HIDE DEF m
<1>3. \A j \in 0 .. m : j = 0 \/ j \in 1 .. m
  BY <1>2
<1>4. \A j \in 1 .. m : Col(At(T, L, j), o) \in Int
  <2>1. o[2] \in Nat
    BY <1>1, PlaceParts
  <2>2. \A a, b \in Nat : a - b \in Int /\ a \in Int
    OBVIOUS
  <2> QED BY <1>2, <2>1, <2>2 DEF Col
<1>5. GenOn(T, L, o) \in [0 .. m -> Int] /\ GenOn(T, L, o)[0] = 0
  BY <1>2, <1>3, <1>4 DEF GenOn, m
<1>6. \A j \in 0 .. m : SrcOf(FirstOn(T, L, j)) \in Triple
  <2>1. \A j \in 0 .. m : FirstOn(T, L, j) \in SUBSET DOMAIN tokens
    BY <1>1 DEF FirstOn
  <2> QED BY <2>1, SourceTyped
<1> QED BY <1>5, <1>6 DEF m, SrcOn, OrigOn

\* The column the segment before the j-th token of a line ends at.
LEMMA ColumnBefore ==
  ASSUME MapOK, NEW T, NEW L, NEW o, OnLine(T, L, o), NEW j \in 1 .. CountOn(T, L)
  PROVE  LET same == {q \in FirstOn(T, L, j - 1) : q[1] = L}
         IN  (IF same = {} THEN 0 ELSE Col(LastOf(same), o)) = GenOn(T, L, o)[j - 1]
<1> DEFINE m == CountOn(T, L)
           same == {q \in FirstOn(T, L, j - 1) : q[1] = L}
           k == j - 1
<1>1. Tokens(T, L) /\ T \in SUBSET DOMAIN tokens /\ L \in Nat
  BY Within DEF OnLine
<1>2. /\ m \in Nat
      /\ \A i \in 1 .. m : At(T, L, i)[1] = L /\ At(T, L, i) \in T /\ At(T, L, i) \in Place
      /\ \A i \in 1 .. m, l \in 1 .. m : i <= l => AtOrBefore(At(T, L, i), At(T, L, l))
  BY <1>1, LineTokens
<1>3. k \in Nat /\ k \in 0 .. m /\ \A i \in 1 .. k : i \in 1 .. m /\ i <= k
  BY <1>2
<1>4. same = {At(T, L, i) : i \in 1 .. k}
  <2>1. ~ (L < L)
    BY <1>1
  <2> QED BY <1>2, <1>3, <2>1 DEF FirstOn
<1> HIDE DEF same, m
<1>5. CASE k = 0
  <2>1. same = {}
    BY <1>4, <1>5
  <2> QED BY <1>3, <1>5, <2>1 DEF GenOn, m, same
<1>6. CASE k # 0
  <2>1. k \in 1 .. m /\ k \in 1 .. k
    BY <1>3, <1>6
  <2>2. At(T, L, k) \in same /\ same \in SUBSET Place /\ \A q \in same : AtOrBefore(q, At(T, L, k))
    BY <1>2, <1>3, <1>4, <2>1
  <2>3. LastOf(same) = At(T, L, k)
    BY <2>2, LastOnce
  <2>4. GenOn(T, L, o)[k] = Col(At(T, L, k), o)
    BY <1>3, <1>6 DEF GenOn, m
  <2> QED BY <2>2, <2>3, <2>4 DEF same
<1> QED BY <1>5, <1>6

\* What the encoder writes for the j-th token of a line.
LEMMA EncodedIs ==
  ASSUME MapOK, NEW T, NEW L, NEW o, OnLine(T, L, o), NEW j \in 1 .. CountOn(T, L)
  PROVE  LET p == At(T, L, j)
             b == SrcOf(FirstOn(T, L, j - 1))
             g == GenOn(T, L, o)[j] - GenOn(T, L, o)[j - 1]
         IN  Encoded(T, p, o) =
               VLQ(g) \o IF tokens[p] = Unknown THEN <<>>
                         ELSE ((VLQ(tokens[p][1] - b[1]) \o VLQ(tokens[p][2] - b[2]))
                                 \o VLQ(tokens[p][3] - b[3])) \o VLQ(20)
<1> DEFINE p == At(T, L, j)
           S == FirstOn(T, L, j - 1)
           b == SrcOf(S)
           same == {q \in S : q[1] = L}
           c == IF same = {} THEN 0 ELSE Col(LastOf(same), o)
           rest(d) == IF tokens[p] = Unknown THEN <<>>
                      ELSE ((VLQ(tokens[p][1] - d[1]) \o VLQ(tokens[p][2] - d[2]))
                              \o VLQ(tokens[p][3] - d[3])) \o VLQ(20)
<1>1. Tokens(T, L)
  BY Within DEF OnLine
<1>2. {q \in T \ {p} : AtOrBefore(q, p)} = S
  BY <1>1, FirstTokens
<1>3. p[1] = L
  BY <1>1, LineTokens
<1>4. c = GenOn(T, L, o)[j - 1]
  BY ColumnBefore
<1>5. GenOn(T, L, o)[j] = Col(p, o)
  <2>1. j \in 0 .. CountOn(T, L) /\ j # 0
    BY <1>1, LineTokens
  <2> QED BY <2>1 DEF GenOn
<1>6. Encoded(T, p, o) = VLQ(Col(p, o) - c) \o rest(b)
  <2> DEFINE B == {q \in T \ {p} : AtOrBefore(q, p)}
             near(X) == {q \in X : q[1] = p[1]}
             col(X) == Col(p, o) - IF near(X) = {} THEN 0 ELSE Col(LastOf(near(X)), o)
  <2> HIDE DEF p
  <2>1. Encoded(T, p, o) = VLQ(col(B)) \o rest(SrcOf(B))
    BY DEF Encoded, Col, SrcOf, SourcedIn
  <2>2. near(S) = same
    BY <1>3
  <2>3. B = S
    BY <1>2
  <2> HIDE DEF B, S, near, same, rest
  <2> QED BY <2>1, <2>2, <2>3
<1> HIDE DEF p, S
<1> HIDE DEF c, b
<1>7. Encoded(T, p, o) = VLQ(GenOn(T, L, o)[j] - GenOn(T, L, o)[j - 1]) \o rest(b)
  BY <1>4, <1>5, <1>6
<1> QED BY <1>7 DEF p, S, b

LEMMA TellsSame ==
  ASSUME NEW s, NEW g, NEW b, NEW d, NEW e, Tells(s, g, b, d), \A i \in 1 .. 3 : d[i] = e[i]
  PROVE  Tells(s, g, b, e)
  BY DEF Tells

LEMMA EncodedTells ==
  ASSUME MapOK, NEW T, NEW L, NEW o, OnLine(T, L, o), NEW j \in 1 .. CountOn(T, L)
  PROVE  LET p == At(T, L, j)
             g == GenOn(T, L, o)[j] - GenOn(T, L, o)[j - 1]
             d == [i \in 1 .. 3 |-> OrigOn(T, L)[j][i] - OrigOn(T, L)[j - 1][i]]
             s == Encoded(T, p, o)
         IN  /\ Tells(s, g, SrcOn(T, L)[j], d)
             /\ tokens[p] = Unknown => /\ OrigOn(T, L)[j] = OrigOn(T, L)[j - 1]
                                       /\ Front(s) = <<>> \/ Malformed(Front(s))
             /\ tokens[p] # Unknown => Tells(Front(s), g, TRUE, d) /\ OrigOn(T, L)[j] = tokens[p]
<1> DEFINE p == At(T, L, j)
           t == tokens[p]
           b == SrcOf(FirstOn(T, L, j - 1))
           u == OrigOn(T, L)[j]
           d == [i \in 1 .. 3 |-> OrigOn(T, L)[j][i] - OrigOn(T, L)[j - 1][i]]
           g == GenOn(T, L, o)[j] - GenOn(T, L, o)[j - 1]
           s == Encoded(T, p, o)
           w == VLQ(g)
<1>1. Tokens(T, L) /\ T \in SUBSET DOMAIN tokens
  BY Within DEF OnLine
<1>2. CountOn(T, L) \in Nat /\ p \in T
  BY <1>1, LineTokens
<1>3. /\ j \in 0 .. CountOn(T, L) /\ j - 1 \in 0 .. CountOn(T, L)
  BY <1>2
<1>4. g \in Int /\ OrigOn(T, L)[j - 1] = b /\ b \in Triple /\ u \in Triple
  <2>1. GenOn(T, L, o)[j] \in Int /\ GenOn(T, L, o)[j - 1] \in Int
    <3> DEFINE G == GenOn(T, L, o)
    <3>1. G \in [0 .. CountOn(T, L) -> Int]
      BY Columned
    <3> HIDE DEF G
    <3>2. G[j] \in Int /\ G[j - 1] \in Int
      BY <1>3, <3>1
    <3> QED BY <3>2 DEF G
  <2>2. OrigOn(T, L)[j - 1] = b
    BY <1>3 DEF OrigOn
  <2>3. OrigOn(T, L)[j - 1] \in Triple /\ OrigOn(T, L)[j] \in Triple
    BY <1>3, Columned
  <2> QED BY <2>1, <2>2, <2>3
<1>5. u = IF t = Unknown THEN b ELSE t
  <2> DEFINE S == FirstOn(T, L, j - 1)
  <2>1. FirstOn(T, L, j) = S \cup {p} /\ \A q \in S : AtOrBefore(q, p)
    BY <1>1, FirstTokens
  <2>2. S \in SUBSET DOMAIN tokens /\ p \in DOMAIN tokens
    BY <1>1, <1>2 DEF FirstOn
  <2> HIDE DEF S
  <2>3. SrcOf(S \cup {p}) = IF t = Unknown THEN SrcOf(S) ELSE t
    <3> HIDE DEF p
    <3> QED BY <2>1, <2>2, SourceAfter DEF t
  <2>4. u = SrcOf(S \cup {p})
    BY <1>3, <2>1 DEF OrigOn
  <2> QED BY <2>3, <2>4 DEF S
<1>6. s = w \o IF t = Unknown THEN <<>>
               ELSE ((VLQ(t[1] - b[1]) \o VLQ(t[2] - b[2])) \o VLQ(t[3] - b[3])) \o VLQ(20)
  BY EncodedIs
<1>7. SrcOn(T, L)[j] = (t # Unknown)
  BY DEF SrcOn
<1>8. \A i \in 1 .. 3 : d[i] = u[i] - b[i]
  BY <1>4
<1> HIDE DEF p, t, b, u, d, g, s
<1>9. CASE t = Unknown
  <2>1. w \in Seq(Digit)
    BY <1>4, WordReads
  <2>2. s = w
    <3> HIDE DEF w
    <3> QED BY <1>6, <1>9, <2>1, ConcatEmptySeq
  <2>3. Tells(w, g, FALSE, d) /\ (Front(w) = <<>> \/ Malformed(Front(w)))
    BY <1>4, PlainTells
  <2>4. (t # Unknown) = FALSE
    BY <1>9
  <2> HIDE DEF w
  <2> QED BY <1>4, <1>5, <1>7, <1>9, <2>2, <2>3, <2>4 DEF p, t, b, u, d, g, s
<1>10. CASE t # Unknown
  <2> DEFINE x == t[1] - b[1]
             y == t[2] - b[2]
             z == t[3] - b[3]
             e == <<x, y, z>>
  <2>1. s = Five(g, x, y, z)
    BY <1>6, <1>10 DEF Five
  <2>2. u = t
    BY <1>5, <1>10
  <2>3. x \in Int /\ y \in Int /\ z \in Int
    <3>1. \A v \in Triple : v[1] \in Int /\ v[2] \in Int /\ v[3] \in Int
      BY DEF Triple
    <3>2. t[1] \in Int /\ t[2] \in Int /\ t[3] \in Int /\ b[1] \in Int /\ b[2] \in Int /\ b[3] \in Int
      BY <1>4, <2>2, <3>1
    <3> QED BY <3>2
  <2>4. \A i \in 1 .. 3 : e[i] = d[i]
    <3>1. \A i \in 1 .. 3 : i = 1 \/ i = 2 \/ i = 3
      OBVIOUS
    <3>2. e[1] = d[1] /\ e[2] = d[2] /\ e[3] = d[3]
      BY <1>8, <2>2
    <3> HIDE DEF e
    <3> QED BY <3>1, <3>2
  <2> HIDE DEF x, y, z
  <2>5. Tells(s, g, TRUE, e) /\ Tells(Front(s), g, TRUE, e)
    BY <1>4, <2>1, <2>3, SourcedTells
  <2> HIDE DEF e
  <2>6. Tells(s, g, TRUE, d) /\ Tells(Front(s), g, TRUE, d)
    BY <2>4, <2>5, TellsSame
  <2>7. (t # Unknown) = TRUE
    BY <1>10
  <2> QED BY <1>7, <2>2, <2>6, <2>7 DEF p, t, u, d, g, s
<1> QED BY <1>9, <1>10

(***************************************************************************)
(* The lines of a text.                                                    *)
(***************************************************************************)
LineText(T, L, o) == [j \in 1 .. CountOn(T, L) |-> Encoded(T, At(T, L, j), o)]

LEMMA LineSpelled ==
  ASSUME MapOK, NEW T, NEW L, NEW o, OnLine(T, L, o)
  PROVE  Spells(LineText(T, L, o), CountOn(T, L), CountOn(T, L),
                GenOn(T, L, o), SrcOn(T, L), OrigOn(T, L))
<1> DEFINE m == CountOn(T, L)
           line == LineText(T, L, o)
<1>1. m \in Nat
  BY Within, LineTokens DEF OnLine
<1>2. DOMAIN line = 1 .. m /\ \A j \in 1 .. m : line[j] = Encoded(T, At(T, L, j), o)
  BY DEF LineText
<1>3. ASSUME NEW j \in 1 .. m
      PROVE  /\ ~ SrcOn(T, L)[j] => OrigOn(T, L)[j] = OrigOn(T, L)[j - 1]
             /\ Tells(line[j], GenOn(T, L, o)[j] - GenOn(T, L, o)[j - 1], SrcOn(T, L)[j],
                      [i \in 1 .. 3 |-> OrigOn(T, L)[j][i] - OrigOn(T, L)[j - 1][i]])
  <2> DEFINE g == GenOn(T, L, o)[j] - GenOn(T, L, o)[j - 1]
             d == [i \in 1 .. 3 |-> OrigOn(T, L)[j][i] - OrigOn(T, L)[j - 1][i]]
             s == Encoded(T, At(T, L, j), o)
  <2> DEFINE p == At(T, L, j)
  <2>1. /\ Tells(s, g, SrcOn(T, L)[j], d)
        /\ tokens[p] = Unknown => /\ OrigOn(T, L)[j] = OrigOn(T, L)[j - 1]
                                  /\ Front(s) = <<>> \/ Malformed(Front(s))
        /\ tokens[p] # Unknown => Tells(Front(s), g, TRUE, d) /\ OrigOn(T, L)[j] = tokens[p]
    BY EncodedTells
  <2>4. SrcOn(T, L)[j] = (tokens[p] # Unknown)
    BY DEF SrcOn
  <2>5. ~ SrcOn(T, L)[j] => OrigOn(T, L)[j] = OrigOn(T, L)[j - 1]
    BY <2>1, <2>4
  <2>2. line[j] = s
    BY <1>2
  <2> HIDE DEF g, d, s, p, line
  <2>3. Tells(line[j], g, SrcOn(T, L)[j], d)
    BY <2>1, <2>2
  <2> QED BY <2>3, <2>5 DEF g, d
<1>4. m # m + 1
  BY <1>1
<1> HIDE DEF line, m
<1>5. /\ GenOn(T, L, o) \in [0 .. m -> Int] /\ GenOn(T, L, o)[0] = 0
      /\ SrcOn(T, L) \in [1 .. m -> BOOLEAN] /\ OrigOn(T, L) \in [0 .. m -> Triple]
  BY Columned DEF m
<1>6. Spells(line, m, m, GenOn(T, L, o), SrcOn(T, L), OrigOn(T, L))
  BY <1>1, <1>2, <1>3, <1>4, <1>5 DEF Spells
<1> QED BY <1>6 DEF line, m

\* From the tokens above a line to those above the next.
LEMMA SpelledReads ==
  ASSUME MapOK, NEW T, NEW L, NEW o, OnLine(T, L, o), NEW line, NEW n,
         Spells(line, n, CountOn(T, L), GenOn(T, L, o), SrcOn(T, L), OrigOn(T, L))
  PROVE  LineReads(line, SrcOf(Above(T, L)), SrcOf(Above(T, L + 1)), SegsOn(T, L, o))
<1>1. Tokens(T, L) /\ CountOn(T, L) \in Nat
  BY Within, LineTokens DEF OnLine
<1>2. 0 \in 0 .. CountOn(T, L) /\ CountOn(T, L) \in 0 .. CountOn(T, L)
  BY <1>1
<1>3. OrigOn(T, L)[0] = SrcOf(Above(T, L)) /\ OrigOn(T, L)[CountOn(T, L)] = SrcOf(Above(T, L + 1))
  BY <1>1, <1>2, FirstTokens DEF OrigOn
<1> QED BY <1>3 DEF LineReads, SegsOn

LEMMA TextIs ==
  ASSUME MapOK, NEW T \in SUBSET DOMAIN tokens, NEW o \in Place
  PROVE  Text(T, o) = [k \in 1 .. Lines - o[1] |-> LineText(T, o[1] + k - 1, o)]
<1>1. Lines \in Nat /\ o[1] \in Nat
  BY PositionsAssumption, PlaceParts
<1>2. ASSUME NEW k \in 1 .. Lines - o[1]
      PROVE  LET cols == Ascending({p[2] : p \in {q \in T : q[1] = o[1] + k - 1}})
             IN  [j \in DOMAIN cols |-> Encoded(T, <<o[1] + k - 1, cols[j]>>, o)]
                   = LineText(T, o[1] + k - 1, o)
  <2> DEFINE L == o[1] + k - 1
             cols == Ascending({p[2] : p \in {q \in T : q[1] = L}})
  <2>1. L \in Nat
    BY <1>1
  <2> HIDE DEF L
  <2>2. cols = Ascending(ColsOn(T, L))
    BY DEF ColsOn
  <2>3. DOMAIN Ascending(ColsOn(T, L)) = 1 .. CountOn(T, L)
    BY <2>1, Within, LineTokens
  <2> HIDE DEF cols
  <2>4. [j \in DOMAIN cols |-> Encoded(T, <<L, cols[j]>>, o)] = LineText(T, L, o)
    BY <2>2, <2>3 DEF LineText, At
  <2> QED BY <2>4 DEF L, cols
<1> QED BY <1>2 DEF Text

(***************************************************************************)
(* A text of tokens is read back as their table.                           *)
(***************************************************************************)
Table(T, o) == [k \in 1 .. Lines - o[1] |-> SegsOn(T, o[1] + k - 1, o)]

Beyond(T, o) == T \in SUBSET DOMAIN tokens /\ o \in Place /\ \A q \in T : o[1] <= q[1]

SpellsLine(line, T, L, o) ==
  \E n : Spells(line, n, CountOn(T, L), GenOn(T, L, o), SrcOn(T, L), OrigOn(T, L))

\* Line by line the text spells the tokens of T.
Renders(text, T, o) ==
  /\ DOMAIN text = 1 .. Lines - o[1]
  /\ \A k \in 1 .. Lines - o[1] : SpellsLine(text[k], T, o[1] + k - 1, o)

LEMMA RenderedReads ==
  ASSUME MapOK, NEW T, NEW o, Beyond(T, o), NEW text, Renders(text, T, o)
  PROVE  parseMappings(text) = Table(T, o)
<1> DEFINE n == IF o[1] <= Lines THEN Lines - o[1] ELSE 0
           os == [k \in 0 .. n |-> SrcOf(Above(T, o[1] + k))]
           segs == [k \in 1 .. n |-> SegsOn(T, o[1] + k - 1, o)]
<1>1. Lines \in Nat /\ o[1] \in Nat /\ T \in SUBSET DOMAIN tokens /\ o \in Place
  BY PositionsAssumption, PlaceParts DEF Beyond
<1>2. n \in Nat /\ 1 .. Lines - o[1] = 1 .. n
  BY <1>1
<1> HIDE DEF n
<1>3. os \in [0 .. n -> Triple]
  <2>1. \A k \in 0 .. n : Above(T, o[1] + k) \in SUBSET DOMAIN tokens
    BY <1>1 DEF Above
  <2>2. \A k \in 0 .. n : SrcOf(Above(T, o[1] + k)) \in Triple
    BY <2>1, SourceTyped
  <2> QED BY <2>2
<1>4. os[0] = Origin
  <2>1. 0 \in 0 .. n /\ o[1] + 0 = o[1]
    BY <1>1, <1>2
  <2>2. \A q \in T : q[1] \in Nat /\ o[1] <= q[1]
    BY <1>1, Placed DEF Beyond
  <2>3. \A q \in T : ~ (q[1] < o[1])
    BY <1>1, <2>2
  <2>4. Above(T, o[1]) = {}
    BY <2>3 DEF Above
  <2>5. SrcOf({}) = Origin
    BY DEF SrcOf, SourcedIn
  <2>6. os[0] = SrcOf(Above(T, o[1]))
    BY <2>1
  <2> QED BY <2>4, <2>5, <2>6
<1>5. ASSUME NEW k \in 1 .. n PROVE LineReads(text[k], os[k - 1], os[k], segs[k])
  <2> DEFINE L == o[1] + k - 1
  <2>1. L \in Nat /\ L = o[1] + (k - 1) /\ L + 1 = o[1] + k /\ k - 1 \in 0 .. n /\ k \in 0 .. n
    BY <1>1, <1>2
  <2>2. os[k - 1] = SrcOf(Above(T, o[1] + (k - 1))) /\ os[k] = SrcOf(Above(T, o[1] + k))
    BY <2>1
  <2>3. segs[k] = SegsOn(T, L, o)
    OBVIOUS
  <2>4. SpellsLine(text[k], T, L, o)
    BY <1>2 DEF Renders
  <2> HIDE DEF L, os, segs
  <2>5. PICK l : Spells(text[k], l, CountOn(T, L), GenOn(T, L, o), SrcOn(T, L), OrigOn(T, L))
    BY <2>4 DEF SpellsLine
  <2>6. OnLine(T, L, o)
    BY <1>1, <2>1 DEF OnLine
  <2>7. LineReads(text[k], SrcOf(Above(T, L)), SrcOf(Above(T, L + 1)), SegsOn(T, L, o))
    BY <2>5, <2>6, SpelledReads
  <2> QED BY <2>1, <2>2, <2>3, <2>7
<1> HIDE DEF os
<1>6. DOMAIN text = 1 .. n
  BY <1>2 DEF Renders
<1>7. parseMappings(text) = [k \in 1 .. n |-> segs[k]]
  <2> HIDE DEF segs
  <2>1. TextReads(text, n, os, segs)
    BY <1>2, <1>3, <1>4, <1>5, <1>6 DEF TextReads
  <2> QED BY <2>1, TextParsed
<1>8. [k \in 1 .. n |-> segs[k]] = [k \in 1 .. n |-> SegsOn(T, o[1] + k - 1, o)]
  OBVIOUS
<1> QED BY <1>2, <1>7, <1>8 DEF Table

LEMMA TextRenders ==
  ASSUME MapOK, NEW T, NEW o, Beyond(T, o)
  PROVE  Renders(Text(T, o), T, o)
<1>1. Lines \in Nat /\ o[1] \in Nat /\ T \in SUBSET DOMAIN tokens /\ o \in Place
  BY PositionsAssumption, PlaceParts DEF Beyond
<1>2. Text(T, o) = [k \in 1 .. Lines - o[1] |-> LineText(T, o[1] + k - 1, o)]
  BY <1>1, TextIs
<1>3. ASSUME NEW k \in 1 .. Lines - o[1] PROVE SpellsLine(LineText(T, o[1] + k - 1, o), T, o[1] + k - 1, o)
  <2> DEFINE L == o[1] + k - 1
  <2>1. L \in Nat
    BY <1>1
  <2> HIDE DEF L
  <2>2. OnLine(T, L, o)
    BY <1>1, <2>1 DEF OnLine
  <2>3. SpellsLine(LineText(T, L, o), T, L, o)
    BY <2>2, LineSpelled DEF SpellsLine
  <2> QED BY <2>3 DEF L
<1> QED BY <1>2, <1>3 DEF Renders

\* Nothing that spells tokens is malformed.
LEMMA TextReadable ==
  ASSUME MapOK, NEW T, NEW o, Beyond(T, o)
  PROVE  Readable(Text(T, o))
<1>1. Lines \in Nat /\ o[1] \in Nat /\ T \in SUBSET DOMAIN tokens /\ o \in Place
  BY PositionsAssumption, PlaceParts DEF Beyond
<1>2. Text(T, o) = [k \in 1 .. Lines - o[1] |-> LineText(T, o[1] + k - 1, o)]
  BY <1>1, TextIs
<1>3. ASSUME NEW L \in Nat, NEW j \in 1 .. CountOn(T, L) PROVE ~ Malformed(LineText(T, L, o)[j])
  <2>1. OnLine(T, L, o)
    BY <1>1 DEF OnLine
  <2>2. Spells(LineText(T, L, o), CountOn(T, L), CountOn(T, L), GenOn(T, L, o), SrcOn(T, L), OrigOn(T, L))
    BY <2>1, LineSpelled
  <2>3. Tells(LineText(T, L, o)[j], GenOn(T, L, o)[j] - GenOn(T, L, o)[j - 1], SrcOn(T, L)[j],
              [i \in 1 .. 3 |-> OrigOn(T, L)[j][i] - OrigOn(T, L)[j - 1][i]])
    BY <2>2 DEF Spells
  <2> QED BY <2>3 DEF Tells
<1>4. \A k \in 1 .. Lines - o[1] : o[1] + k - 1 \in Nat
  BY <1>1
<1>5. \A L \in Nat : DOMAIN LineText(T, L, o) = 1 .. CountOn(T, L)
  BY DEF LineText
<1>6. ASSUME NEW k \in 1 .. Lines - o[1], NEW s \in Range(LineText(T, o[1] + k - 1, o)) PROVE ~ Malformed(s)
  <2> DEFINE L == o[1] + k - 1
             line == LineText(T, L, o)
  <2>1. L \in Nat
    BY <1>4
  <2> HIDE DEF L
  <2>2. \E j \in DOMAIN line : s = line[j]
    <3> HIDE DEF line
    <3> QED BY <1>6 DEF Range, line, L
  <2>3. PICK j \in 1 .. CountOn(T, L) : s = line[j]
    BY <1>5, <2>1, <2>2
  <2> QED BY <1>3, <2>1, <2>3
<1>7. \A line \in Range(Text(T, o)) : \E k \in 1 .. Lines - o[1] : line = LineText(T, o[1] + k - 1, o)
  BY <1>2 DEF Range
<1> QED BY <1>6, <1>7 DEF Readable

(***************************************************************************)
(* A text that lost its last digit.                                        *)
(***************************************************************************)
Spread(S, m, s, x) == m \in Nat /\ m >= 1 /\ s \in [1 .. m -> S] /\ x \in S

\* r is s but for its last element.
Swapped(m, s, x, r) == DOMAIN r = 1 .. m /\ r[m] = x /\ \A j \in 1 .. m - 1 : r[j] = s[j]

LEMMA LastReplaced ==
  ASSUME NEW S, NEW m, NEW s, NEW x, Spread(S, m, s, x)
  PROVE  Swapped(m, s, x, Append(Front(s), x)) /\ Last(s) = s[m]
<1> USE DEF Spread, Swapped
<1> DEFINE t == Front(s)
           n == m - 1
<1>1. s \in Seq(S) /\ Len(s) = m /\ n \in Nat /\ n + 1 = m
  OBVIOUS
<1>2. t = SubSeq(s, 1, n) /\ Last(s) = s[m]
  BY <1>1 DEF Front, Last
<1>3. \A i \in 1 .. n : s[i] \in S
  BY <1>1
<1> HIDE DEF n, t
<1>4. /\ SubSeq(s, 1, n) \in Seq(S)
      /\ Len(SubSeq(s, 1, n)) = IF 1 <= n THEN n - 1 + 1 ELSE 0
      /\ \A i \in 1 .. n - 1 + 1 : SubSeq(s, 1, n)[i] = s[1 + i - 1]
  <2>1. n \in Int
    BY <1>1
  <2> QED BY <1>3, <2>1, SubSeqProperties
<1>5. (IF 1 <= n THEN n - 1 + 1 ELSE 0) = n /\ n - 1 + 1 = n /\ \A i \in 1 .. n : 1 + i - 1 = i
  BY <1>1
<1>6. t \in Seq(S) /\ Len(t) = n /\ \A i \in 1 .. n : t[i] = s[i]
  BY <1>2, <1>4, <1>5
<1>7. /\ DOMAIN Append(t, x) = 1 .. Len(t) + 1 /\ Append(t, x)[Len(t) + 1] = x
      /\ \A i \in 1 .. Len(t) : Append(t, x)[i] = t[i]
  BY <1>6, Added
<1> QED BY <1>1, <1>2, <1>6, <1>7 DEF t, n

\* The tokens of a line without the last token of all.
LEMMA Shorter ==
  ASSUME MapOK, NEW T \in SUBSET DOMAIN tokens, T # {}
  PROVE  LET p == LastOf(T)
             U == T \ {p}
             m == CountOn(T, p[1])
         IN  /\ p \in T /\ m \in Nat /\ m >= 1 /\ p = At(T, p[1], m)
             /\ CountOn(U, p[1]) = m - 1 /\ \A j \in 1 .. m - 1 : At(U, p[1], j) = At(T, p[1], j)
<1> DEFINE p == LastOf(T)
           L == p[1]
           U == T \ {p}
           m == CountOn(T, L)
           a == Ascending(ColsOn(T, L))
           q == [j \in 1 .. m - 1 |-> a[j]]
           S == ColsOn(U, L)
<1>1. T \in SUBSET Place /\ IsFiniteSet(T)
  BY Within
<1>2. p \in T /\ (\A r \in T : AtOrBefore(r, p)) /\ p \in Place
  BY <1>1, LastExists
<1> HIDE DEF p
<1>3. L \in Nat /\ Tokens(T, L)
  BY <1>1, <1>2, PlaceParts DEF Tokens
<1> HIDE DEF L
<1>4. /\ m \in Nat /\ DOMAIN a = 1 .. m
      /\ \A j \in 1 .. m : /\ At(T, L, j) \in T /\ At(T, L, j) \in Place
                           /\ At(T, L, j)[1] = L /\ At(T, L, j)[2] \in Nat
      /\ \A r \in T : r[1] = L => \E j \in 1 .. m : r = At(T, L, j)
      /\ \A i, j \in 1 .. m : i < j => At(T, L, i)[2] < At(T, L, j)[2]
  BY <1>3, LineTokens
<1>5. \A j \in 1 .. m : a[j] = At(T, L, j)[2] /\ At(T, L, j) = <<L, a[j]>>
  BY DEF At
<1>6. \A i, j \in 1 .. m : At(T, L, i) = At(T, L, j) => i = j
  <2>1. \A i, j \in 1 .. m : i < j \/ j < i \/ i = j
    BY <1>4
  <2>2. \A x, y \in Nat : x < y => x # y
    OBVIOUS
  <2> QED BY <1>4, <2>1, <2>2
<1>7. PICK k \in 1 .. m : p = At(T, L, k)
  BY <1>2, <1>4 DEF L
<1> HIDE DEF m, a
<1>8. k = m
  <2>1. k < m \/ k = m
    BY <1>4
  <2>2. CASE k < m
    <3>1. m \in 1 .. m
      BY <1>4, <2>2
    <3>2. At(T, L, k)[2] < At(T, L, m)[2]
      BY <1>4, <2>2, <3>1
    <3>3. AtOrBefore(At(T, L, m), At(T, L, k))
      BY <1>2, <1>4, <1>7, <3>1
    <3>4. At(T, L, m)[1] = L /\ At(T, L, k)[1] = L /\ ~ (L < L)
      BY <1>3, <1>4, <3>1
    <3>5. At(T, L, m)[2] <= At(T, L, k)[2]
      BY <3>3, <3>4 DEF AtOrBefore
    <3>6. \A x, y \in Nat : x < y => ~ (y <= x)
      OBVIOUS
    <3> QED BY <1>4, <3>1, <3>2, <3>5, <3>6
  <2> QED BY <2>1, <2>2
<1>9. m >= 1 /\ m - 1 \in Nat /\ m \in 1 .. m /\ \A j \in 1 .. m - 1 : j \in 1 .. m /\ j # m
  BY <1>4, <1>8
<1>10. \A j \in 1 .. m : j # m => j \in 1 .. m - 1
  BY <1>4
<1>11. \A j \in 1 .. m - 1 : At(T, L, j) \in U
  BY <1>4, <1>6, <1>7, <1>8, <1>9
<1>12. \A j \in 1 .. m - 1 : a[j] \in S
  <2>1. \A j \in 1 .. m - 1 : At(T, L, j)[1] = L /\ a[j] = At(T, L, j)[2]
    BY <1>4, <1>5, <1>9
  <2> HIDE DEF U
  <2> QED BY <1>11, <2>1 DEF ColsOn
<1>13. \A x \in S : \E j \in 1 .. m - 1 : a[j] = x
  <2> SUFFICES ASSUME NEW x \in S PROVE \E j \in 1 .. m - 1 : a[j] = x
    OBVIOUS
  <2>1. PICK r \in U : r[1] = L /\ r[2] = x
    BY DEF ColsOn
  <2>2. PICK j \in 1 .. m : r = At(T, L, j)
    BY <1>4, <2>1
  <2>3. j # m
    BY <1>7, <1>8, <2>1, <2>2
  <2> QED BY <1>5, <1>10, <2>1, <2>2, <2>3
<1>14. S \in SUBSET Int
  <2>1. \A r \in T : r[2] \in Int
    BY <1>1, PlaceParts
  <2> QED BY <2>1 DEF ColsOn
<1> HIDE DEF S, U
<1>15. SortedAs(S, q)
  <2>1. q \in Seq(S) /\ DOMAIN q = 1 .. m - 1
    BY <1>9, <1>12
  <2>2. \A x \in S : \E j \in DOMAIN q : q[j] = x
    BY <1>13
  <2>3. \A i, j \in DOMAIN q : i < j => q[i] < q[j]
    BY <1>4, <1>5, <1>9
  <2> HIDE DEF q
  <2> QED BY <2>1, <2>2, <2>3 DEF SortedAs
<1>16. Ascending(S) = q
  <2> HIDE DEF q
  <2> QED BY <1>14, <1>15, SortedOnce
<1>17. CountOn(U, L) = m - 1
  BY <1>9, <1>16 DEF CountOn, S
<1>18. \A j \in 1 .. m - 1 : At(U, L, j) = At(T, L, j)
  <2>1. \A j \in 1 .. m - 1 : Ascending(S)[j] = a[j]
    BY <1>16
  <2> QED BY <2>1 DEF At, S, a
<1> QED BY <1>2, <1>4, <1>7, <1>8, <1>9, <1>17, <1>18 DEF p, L, U, m

\* What is written for the other tokens does not depend on the last one.
LEMMA OthersSame ==
  ASSUME MapOK, NEW T \in SUBSET DOMAIN tokens, T # {}, NEW o, NEW r \in T \ {LastOf(T)}
  PROVE  Encoded(T \ {LastOf(T)}, r, o) = Encoded(T, r, o)
<1> DEFINE p == LastOf(T)
           B(S) == {q \in S \ {r} : AtOrBefore(q, r)}
<1>1. T \in SUBSET Place /\ IsFiniteSet(T)
  BY Within
<1>2. p \in T /\ (\A q \in T : AtOrBefore(q, p)) /\ r \in T /\ r # p
  BY <1>1, LastExists
<1>3. ~ AtOrBefore(p, r)
  BY <1>1, <1>2, OrderLaws
<1> HIDE DEF p
<1>4. B(T \ {p}) = B(T)
  BY <1>3
<1>5. Encoded(T \ {p}, r, o) = Encoded(T, r, o)
  <2> DEFINE near(X) == {q \in X : q[1] = r[1]}
             col(X) == Col(r, o) - IF near(X) = {} THEN 0 ELSE Col(LastOf(near(X)), o)
             rest(d) == IF tokens[r] = Unknown THEN <<>>
                        ELSE ((VLQ(tokens[r][1] - d[1]) \o VLQ(tokens[r][2] - d[2]))
                                \o VLQ(tokens[r][3] - d[3])) \o VLQ(20)
             U == T \ {p}
  <2> HIDE DEF U
  <2>1. /\ Encoded(U, r, o) = VLQ(col(B(U))) \o rest(SrcOf(B(U)))
        /\ Encoded(T, r, o) = VLQ(col(B(T))) \o rest(SrcOf(B(T)))
    BY DEF Encoded, Col, SrcOf, SourcedIn
  <2> HIDE DEF B, col, rest
  <2> QED BY <1>4, <2>1 DEF U
<1> QED BY <1>5 DEF p

LEMMA OtherLines ==
  ASSUME MapOK, NEW T \in SUBSET DOMAIN tokens, T # {}, NEW o \in Place, NEW L \in Nat, L # LastOf(T)[1]
  PROVE  LineText(T \ {LastOf(T)}, L, o) = LineText(T, L, o)
<1> DEFINE p == LastOf(T)
           U == T \ {p}
           m == CountOn(T, L)
<1>1. \A q \in T : q[1] = L => q \in U
  OBVIOUS
<1>2. ColsOn(U, L) = ColsOn(T, L)
  BY <1>1 DEF ColsOn
<1>3. CountOn(U, L) = m /\ \A j \in 1 .. m : At(U, L, j) = At(T, L, j)
  BY <1>2 DEF CountOn, At
<1>4. \A j \in 1 .. m : At(T, L, j) \in T /\ At(T, L, j)[1] = L
  BY Within, LineTokens
<1>5. \A j \in 1 .. m : At(T, L, j) \in U
  BY <1>1, <1>4
<1>6. \A j \in 1 .. m : Encoded(U, At(U, L, j), o) = Encoded(T, At(T, L, j), o)
  BY <1>3, <1>5, OthersSame
<1> HIDE DEF U, m
<1>7. LineText(U, L, o) = [j \in 1 .. m |-> Encoded(U, At(U, L, j), o)]
  BY <1>3 DEF LineText
<1>8. LineText(T, L, o) = [j \in 1 .. m |-> Encoded(T, At(T, L, j), o)]
  BY DEF LineText, m
<1>9. LineText(U, L, o) = LineText(T, L, o)
  BY <1>6, <1>7, <1>8
<1> QED BY <1>9 DEF U, p

\* The damaged line of a text: the last segment lost a digit.
CutLine(T, o) ==
  Append(Front(LineText(T, LastOf(T)[1], o)), Front(Last(LineText(T, LastOf(T)[1], o))))

LEMMA CutLineIs ==
  ASSUME MapOK, NEW T \in SUBSET DOMAIN tokens, T # {}, NEW o \in Place
  PROVE  LET L == LastOf(T)[1]
             m == CountOn(T, L)
             line == LineText(T, L, o)
         IN  /\ DOMAIN CutLine(T, o) = 1 .. m
             /\ CutLine(T, o)[m] = Front(Encoded(T, LastOf(T), o))
             /\ \A j \in 1 .. m - 1 : CutLine(T, o)[j] = Encoded(T, At(T, L, j), o)
<1> DEFINE L == LastOf(T)[1]
           m == CountOn(T, L)
           line == LineText(T, L, o)
           x == Front(Last(line))
           S == {line[j] : j \in 1 .. m} \cup {x}
<1>1. LastOf(T) \in T /\ m \in Nat /\ m >= 1 /\ LastOf(T) = At(T, L, m)
  BY Shorter
<1>2. /\ line \in [1 .. m -> S] /\ x \in S
      /\ \A j \in 1 .. m : line[j] = Encoded(T, At(T, L, j), o)
  BY DEF LineText
<1>3. m \in 1 .. m /\ \A j \in 1 .. m - 1 : j \in 1 .. m
  BY <1>1
<1> HIDE DEF m, line, S, x
<1>4. /\ DOMAIN Append(Front(line), x) = 1 .. m /\ Append(Front(line), x)[m] = x /\ Last(line) = line[m]
      /\ \A j \in 1 .. m - 1 : Append(Front(line), x)[j] = line[j]
  <2>1. Spread(S, m, line, x)
    BY <1>1, <1>2 DEF Spread
  <2>2. Swapped(m, line, x, Append(Front(line), x)) /\ Last(line) = line[m]
    BY <2>1, LastReplaced
  <2> QED BY <2>2 DEF Swapped
<1>5. CutLine(T, o) = Append(Front(line), x)
  BY DEF CutLine, line, x
<1>6. x = Front(Encoded(T, LastOf(T), o))
  BY <1>1, <1>2, <1>3, <1>4 DEF x
<1> HIDE DEF L
<1>7. /\ DOMAIN CutLine(T, o) = 1 .. m /\ CutLine(T, o)[m] = Front(Encoded(T, LastOf(T), o))
      /\ \A j \in 1 .. m - 1 : CutLine(T, o)[j] = Encoded(T, At(T, L, j), o)
  BY <1>2, <1>3, <1>4, <1>5, <1>6
<1> QED BY <1>7 DEF L, m

\* A sourced token survives: what is lost is a digit of its name.
LEMMA CutSourced ==
  ASSUME MapOK, NEW T \in SUBSET DOMAIN tokens, T # {}, NEW o \in Place,
         tokens[LastOf(T)] # Unknown
  PROVE  SpellsLine(CutLine(T, o), T, LastOf(T)[1], o)
<1> DEFINE p == LastOf(T)
           L == p[1]
           m == CountOn(T, L)
           line == LineText(T, L, o)
           cut == CutLine(T, o)
           G == GenOn(T, L, o)
           O == OrigOn(T, L)
           B == SrcOn(T, L)
           d(j) == [i \in 1 .. 3 |-> O[j][i] - O[j - 1][i]]
<1>1. p \in T /\ m \in Nat /\ m >= 1 /\ p = At(T, L, m)
  BY Shorter
<1>2. OnLine(T, L, o)
  <2>1. L \in Nat
    BY <1>1, Placed
  <2> QED BY <2>1 DEF OnLine
<1>3. Spells(line, m, m, G, B, O)
  BY <1>2, LineSpelled
<1>4. /\ DOMAIN cut = 1 .. m /\ cut[m] = Front(Encoded(T, p, o))
      /\ \A j \in 1 .. m - 1 : cut[j] = Encoded(T, At(T, L, j), o)
  BY CutLineIs
<1>5. \A j \in 1 .. m : line[j] = Encoded(T, At(T, L, j), o)
  BY DEF LineText
<1>6. Tells(cut[m], G[m] - G[m - 1], B[m], d(m))
  <2> DEFINE g == G[m] - G[m - 1]
             e == d(m)
             s == Encoded(T, At(T, L, m), o)
  <2>1. m \in 1 .. m
    BY <1>1
  <2>2. /\ Tells(s, g, B[m], e)
        /\ tokens[At(T, L, m)] = Unknown => O[m] = O[m - 1] /\ (Front(s) = <<>> \/ Malformed(Front(s)))
        /\ tokens[At(T, L, m)] # Unknown => Tells(Front(s), g, TRUE, e) /\ O[m] = tokens[At(T, L, m)]
    BY <1>2, <2>1, EncodedTells
  <2>3. B[m] = TRUE
    BY <1>1, <2>1 DEF SrcOn
  <2>4. cut[m] = Front(s) /\ tokens[At(T, L, m)] # Unknown
    BY <1>1, <1>4
  <2> HIDE DEF g, e, s, cut
  <2>5. Tells(cut[m], g, TRUE, e)
    BY <2>2, <2>4
  <2> QED BY <2>3, <2>5 DEF g, e
<1> HIDE DEF line, cut, G, O, B, d
<1>7. \A j \in 1 .. m : j = m \/ j \in 1 .. m - 1
  BY <1>1
<1> HIDE DEF m
<1>8. \A j \in 1 .. m : Tells(line[j], G[j] - G[j - 1], B[j], d(j))
  BY <1>3 DEF Spells, d
<1>9. \A j \in 1 .. m - 1 : j \in 1 .. m /\ cut[j] = line[j]
  <2>1. \A j \in 1 .. m - 1 : j \in 1 .. m
    BY <1>1
  <2> QED BY <1>4, <1>5, <2>1
<1>10. \A j \in 1 .. m : Tells(cut[j], G[j] - G[j - 1], B[j], d(j))
  BY <1>6, <1>7, <1>8, <1>9
<1>11. Spells(cut, m, m, G, B, O)
  BY <1>3, <1>4, <1>10 DEF Spells, d
<1> QED BY <1>11 DEF SpellsLine, cut, m, G, B, O

\* A token without a source leaves nothing behind that could be read.
LEMMA CutPlain ==
  ASSUME MapOK, NEW T \in SUBSET DOMAIN tokens, T # {}, NEW o \in Place,
         tokens[LastOf(T)] = Unknown, ~ Malformed(CutLine(T, o)[CountOn(T, LastOf(T)[1])])
  PROVE  SpellsLine(CutLine(T, o), T \ {LastOf(T)}, LastOf(T)[1], o)
<1> DEFINE p == LastOf(T)
           L == p[1]
           m == CountOn(T, L)
           n == m - 1
           U == T \ {p}
           line == LineText(U, L, o)
           cut == CutLine(T, o)
           G == GenOn(U, L, o)
           O == OrigOn(U, L)
           B == SrcOn(U, L)
           d(j) == [i \in 1 .. 3 |-> O[j][i] - O[j - 1][i]]
<1>1. /\ p \in T /\ m \in Nat /\ m >= 1 /\ p = At(T, L, m)
      /\ CountOn(U, L) = n /\ \A j \in 1 .. n : At(U, L, j) = At(T, L, j)
  BY Shorter
<1>2. OnLine(T, L, o) /\ OnLine(U, L, o)
  <2>1. L \in Nat
    BY <1>1, Placed
  <2> QED BY <2>1 DEF OnLine
<1>3. Spells(line, n, n, G, B, O)
  <2>1. Spells(line, CountOn(U, L), CountOn(U, L), G, B, O)
    <3> HIDE DEF U
    <3> QED BY <1>2, LineSpelled
  <2> QED BY <1>1, <2>1
<1>4. /\ DOMAIN cut = 1 .. m /\ cut[m] = Front(Encoded(T, p, o))
      /\ \A j \in 1 .. n : cut[j] = Encoded(T, At(T, L, j), o)
  BY CutLineIs
<1>5. cut[m] = <<>>
  <2> DEFINE g == GenOn(T, L, o)[m] - GenOn(T, L, o)[m - 1]
             e == [i \in 1 .. 3 |-> OrigOn(T, L)[m][i] - OrigOn(T, L)[m - 1][i]]
             s == Encoded(T, At(T, L, m), o)
  <2>1. m \in 1 .. m
    BY <1>1
  <2>2. /\ Tells(s, g, SrcOn(T, L)[m], e)
        /\ tokens[At(T, L, m)] = Unknown => /\ OrigOn(T, L)[m] = OrigOn(T, L)[m - 1]
                                            /\ Front(s) = <<>> \/ Malformed(Front(s))
        /\ tokens[At(T, L, m)] # Unknown => /\ Tells(Front(s), g, TRUE, e)
                                            /\ OrigOn(T, L)[m] = tokens[At(T, L, m)]
    BY <1>2, <2>1, EncodedTells
  <2>3. cut[m] = Front(s) /\ tokens[At(T, L, m)] = Unknown
    BY <1>1, <1>4
  <2> HIDE DEF g, e, s
  <2> QED BY <2>2, <2>3
<1>6. \A j \in 1 .. n : cut[j] = line[j]
  <2> HIDE DEF cut
  <2>1. \A j \in 1 .. n : line[j] = Encoded(U, At(U, L, j), o)
    BY <1>1 DEF LineText
  <2>2. \A j \in 1 .. n : At(U, L, j) \in U
    <3>1. \A j \in 1 .. n : j \in 1 .. CountOn(U, L)
      BY <1>1
    <3>2. Tokens(U, L)
      BY <1>2, Within DEF OnLine
    <3> HIDE DEF U
    <3> QED BY <3>1, <3>2, LineTokens
  <2>3. \A r \in U : Encoded(U, r, o) = Encoded(T, r, o)
    BY OthersSame
  <2> HIDE DEF U, line
  <2> QED BY <1>1, <1>4, <2>1, <2>2, <2>3
<1> HIDE DEF line, cut, G, O, B, d, m
<1>7. n \in Nat /\ n + 1 = m /\ n # n + 1
  BY <1>1
<1> HIDE DEF n
<1>8. \A j \in 1 .. n : Tells(cut[j], G[j] - G[j - 1], B[j], d(j))
  BY <1>3, <1>6 DEF Spells, d
<1>9. Spells(cut, m, n, G, B, O)
  <2>1. n \in Nat /\ m \in Nat /\ m = n + 1 /\ DOMAIN cut = 1 .. m /\ cut[m] = <<>>
    BY <1>1, <1>4, <1>5, <1>7
  <2>2. /\ G \in [0 .. n -> Int] /\ B \in [1 .. n -> BOOLEAN] /\ O \in [0 .. n -> Triple]
        /\ G[0] = 0 /\ \A k \in 1 .. n : ~ B[k] => O[k] = O[k - 1]
    BY <1>3 DEF Spells
  <2> QED BY <1>8, <2>1, <2>2 DEF Spells, d
<1>10. CountOn(U, L) = n
  BY <1>1
<1> QED BY <1>9, <1>10 DEF SpellsLine, cut, G, B, O, U

LEMMA DamagedIs ==
  ASSUME MapOK, NEW T, NEW o, Beyond(T, o), T # {}
  PROVE  LET L == LastOf(T)[1]
             n == L - o[1] + 1
         IN  /\ n \in 1 .. Lines - o[1] /\ L \in Nat /\ o[1] + n - 1 = L
             /\ DOMAIN Damaged(T, o) = 1 .. Lines - o[1] /\ Damaged(T, o)[n] = CutLine(T, o)
             /\ \A k \in 1 .. Lines - o[1] :
                  k # n => /\ o[1] + k - 1 # L /\ o[1] + k - 1 \in Nat
                           /\ Damaged(T, o)[k] = LineText(T, o[1] + k - 1, o)
<1> DEFINE L == LastOf(T)[1]
           n == L - o[1] + 1
           text == Text(T, o)
           D == 1 .. Lines - o[1]
<1>1. Lines \in Nat /\ o[1] \in Nat /\ T \in SUBSET DOMAIN tokens /\ o \in Place
  BY PositionsAssumption, PlaceParts DEF Beyond
<1>2. LastOf(T) \in T
  BY <1>1, Within, LastExists
<1>3. L \in Nat /\ L < Lines /\ o[1] <= L
  BY <1>1, <1>2, Placed DEF Beyond
<1>4. text = [k \in D |-> LineText(T, o[1] + k - 1, o)]
  BY <1>1, TextIs
<1>5. Damaged(T, o) = [text EXCEPT ![n] = Append(Front(text[n]), Front(Last(text[n])))]
  BY DEF Damaged
<1> HIDE DEF L, text
<1>6. n \in D /\ o[1] + n - 1 = L
  BY <1>1, <1>3
<1>7. \A k \in D : k # n => o[1] + k - 1 # L /\ o[1] + k - 1 \in Nat
  BY <1>1, <1>3
<1> HIDE DEF n, D
<1>8. text[n] = LineText(T, L, o)
  <2>1. text[n] = LineText(T, o[1] + n - 1, o)
    BY <1>4, <1>6
  <2> QED BY <1>6, <2>1
<1>9. DOMAIN text = D /\ \A k \in D : text[k] = LineText(T, o[1] + k - 1, o)
  BY <1>4
<1>10. CutLine(T, o) = Append(Front(text[n]), Front(Last(text[n])))
  BY <1>8 DEF CutLine, L
<1>11. DOMAIN Damaged(T, o) = D /\ Damaged(T, o)[n] = CutLine(T, o)
       /\ \A k \in D : k # n => Damaged(T, o)[k] = text[k]
  BY <1>5, <1>6, <1>9, <1>10
<1> QED BY <1>3, <1>6, <1>7, <1>9, <1>11 DEF n, D, L

\* Damage costs nothing or the last token.
LEMMA DamagedReads ==
  ASSUME MapOK, NEW T, NEW o, Beyond(T, o), T # {}, Readable(Damaged(T, o))
  PROVE  \E U \in {T, T \ {LastOf(T)}} : Beyond(U, o) /\ parseMappings(Damaged(T, o)) = Table(U, o)
<1> DEFINE p == LastOf(T)
           L == p[1]
           n == L - o[1] + 1
           D == 1 .. Lines - o[1]
           text == Damaged(T, o)
           V == T \ {p}
<1>1. T \in SUBSET DOMAIN tokens /\ o \in Place
  BY DEF Beyond
<1>2. /\ n \in D /\ L \in Nat /\ o[1] + n - 1 = L /\ DOMAIN text = D /\ text[n] = CutLine(T, o)
      /\ \A k \in D : k # n => /\ o[1] + k - 1 # L /\ o[1] + k - 1 \in Nat
                               /\ text[k] = LineText(T, o[1] + k - 1, o)
  BY DamagedIs
<1>3. Beyond(V, o)
  BY DEF Beyond
<1> HIDE DEF n, D, text
<1>4. ASSUME NEW U, U = T \/ U = V, SpellsLine(text[n], U, L, o)
      PROVE  Beyond(U, o) /\ parseMappings(text) = Table(U, o)
  <2>1. Beyond(U, o)
    BY <1>3, <1>4
  <2>2. ASSUME NEW k \in D, k # n PROVE SpellsLine(text[k], U, o[1] + k - 1, o)
    <3> DEFINE l == o[1] + k - 1
    <3>1. l # L /\ l \in Nat /\ text[k] = LineText(T, l, o)
      BY <1>2, <2>2
    <3> HIDE DEF l
    <3>2. text[k] = LineText(U, l, o)
      <4>1. CASE U = T
        BY <3>1, <4>1
      <4>2. CASE U = V
        <5>1. LineText(V, l, o) = LineText(T, l, o)
          BY <1>1, <3>1, OtherLines
        <5> QED BY <3>1, <4>2, <5>1
      <4> QED BY <1>4, <4>1, <4>2
    <3>3. OnLine(U, l, o)
      BY <2>1, <3>1 DEF Beyond, OnLine
    <3>4. SpellsLine(text[k], U, l, o)
      BY <3>2, <3>3, LineSpelled DEF SpellsLine
    <3> QED BY <3>4 DEF l
  <2>3. \A k \in D : SpellsLine(text[k], U, o[1] + k - 1, o)
    BY <1>2, <1>4, <2>2
  <2>4. Renders(text, U, o)
    BY <1>2, <2>3 DEF Renders, D
  <2> QED BY <2>1, <2>4, RenderedReads
<1>5. CASE tokens[p] # Unknown
  <2>1. SpellsLine(text[n], T, L, o)
    BY <1>1, <1>2, <1>5, CutSourced
  <2> QED BY <1>4, <2>1 DEF text
<1>6. CASE tokens[p] = Unknown
  <2> DEFINE m == CountOn(T, L)
             line == CutLine(T, o)
  <2>1. m \in 1 .. m /\ DOMAIN line = 1 .. m
    <3>1. m \in Nat /\ m >= 1
      BY <1>1, Shorter
    <3>2. DOMAIN line = 1 .. m
      BY <1>1, CutLineIs
    <3> QED BY <3>1, <3>2
  <2>2. line \in Range(text)
    BY <1>2 DEF Range
  <2>3. line[m] \in Range(line)
    BY <2>1 DEF Range
  <2>4. ~ Malformed(line[m])
    BY <2>2, <2>3 DEF Readable, text
  <2>5. SpellsLine(text[n], V, L, o)
    BY <1>1, <1>2, <1>6, <2>4, CutPlain
  <2> QED BY <1>4, <2>5 DEF text
<1> QED BY <1>5, <1>6

(***************************************************************************)
(* Resolving in a table.                                                   *)
(***************************************************************************)
UpTo(T, L, c) == {q \in T : q[1] = L /\ q[2] <= c}

\* What a token stands for.
Value(t) == [source |-> IF t[1] \in 0 .. Sources - 1 THEN t[1] ELSE Unknown,
             line |-> t[2] + 1, col |-> t[3]]
Standing(S) == IF S = {} \/ tokens[LastOf(S)] = Unknown THEN Unknown ELSE Value(tokens[LastOf(S)])

\* The last token up to a column is the one of the last segment up to it.
SplitsLine(T, L, c, i) ==
  i \in 0 .. CountOn(T, L) /\ \A j \in 1 .. CountOn(T, L) : At(T, L, j)[2] <= c <=> j <= i

LEMMA LastUpTo ==
  ASSUME NEW T, NEW L, NEW c, NEW i, Tokens(T, L), SplitsLine(T, L, c, i)
  PROVE  /\ i = 0 => UpTo(T, L, c) = {}
         /\ i # 0 => UpTo(T, L, c) # {} /\ LastOf(UpTo(T, L, c)) = At(T, L, i)
<1> DEFINE m == CountOn(T, L)
           S == UpTo(T, L, c)
<1>1. /\ m \in Nat /\ T \in SUBSET Place
      /\ \A j \in 1 .. m : At(T, L, j) \in T /\ At(T, L, j)[1] = L
      /\ \A p \in T : p[1] = L => \E j \in 1 .. m : p = At(T, L, j)
      /\ \A j, k \in 1 .. m : j <= k => AtOrBefore(At(T, L, j), At(T, L, k))
  BY LineTokens DEF Tokens
<1>2. i \in 0 .. m /\ \A j \in 1 .. m : At(T, L, j)[2] <= c <=> j <= i
  BY DEF SplitsLine
<1> HIDE DEF m
<1>3. \A q \in S : \E j \in 1 .. m : q = At(T, L, j) /\ j <= i
  BY <1>1, <1>2 DEF UpTo
<1>4. CASE i = 0
  <2>1. \A j \in 1 .. m : ~ (j <= i)
    BY <1>1, <1>4
  <2>2. S = {}
    BY <1>3, <2>1
  <2> QED BY <1>4, <2>2
<1>5. CASE i # 0
  <2>1. i \in 1 .. m /\ i <= i
    BY <1>1, <1>2, <1>5
  <2>2. At(T, L, i) \in S
    BY <1>1, <1>2, <2>1 DEF UpTo
  <2>3. \A q \in S : AtOrBefore(q, At(T, L, i))
    BY <1>1, <1>3, <2>1
  <2>4. S \in SUBSET Place
    BY <1>1 DEF UpTo
  <2> HIDE DEF S
  <2>5. LastOf(S) = At(T, L, i)
    BY <2>2, <2>3, <2>4, LastOnce
  <2> QED BY <1>5, <2>2, <2>5 DEF S
<1> QED BY <1>4, <1>5

\* The segments of a line start where its tokens do, in order.
LEMMA LineSegments ==
  ASSUME MapOK, NEW T, NEW L, NEW o, OnLine(T, L, o)
  PROVE  LET segs == SegsOn(T, L, o)
             m == CountOn(T, L)
         IN  /\ Len(segs) = m /\ m \in Nat /\ Tokens(T, L)
             /\ \A j \in 1 .. m : /\ segs[j].genCol = Col(At(T, L, j), o) /\ segs[j].genCol \in Int
                                  /\ segs[j].hasSource = (tokens[At(T, L, j)] # Unknown)
                                  /\ tokens[At(T, L, j)] # Unknown => segs[j].orig = tokens[At(T, L, j)]
             /\ \A i, j \in 1 .. m : i < j => segs[i].genCol < segs[j].genCol
<1> DEFINE m == CountOn(T, L)
           segs == SegsOn(T, L, o)
           G == GenOn(T, L, o)
           B == SrcOn(T, L)
           O == OrigOn(T, L)
<1>1. Tokens(T, L) /\ o[2] \in Nat
  BY Within, PlaceParts DEF OnLine
<1>2. /\ m \in Nat
      /\ \A j \in 1 .. m : At(T, L, j)[1] = L /\ At(T, L, j)[2] \in Nat
      /\ \A i, j \in 1 .. m : i < j => At(T, L, i)[2] < At(T, L, j)[2]
  BY <1>1, LineTokens
<1>3. G \in [0 .. m -> Int]
  BY Columned
<1>4. ASSUME NEW j \in 1 .. m
      PROVE  /\ G[j] = Col(At(T, L, j), o) /\ G[j] \in Int
             /\ B[j] = (tokens[At(T, L, j)] # Unknown)
             /\ tokens[At(T, L, j)] # Unknown => O[j] = tokens[At(T, L, j)]
  <2>1. j \in 0 .. m /\ j # 0
    BY <1>2
  <2>2. G[j] = Col(At(T, L, j), o)
    BY <2>1 DEF GenOn
  <2>3. G[j] \in Int
    <3> HIDE DEF G
    <3> QED BY <1>3, <2>1
  <2>4. B[j] = (tokens[At(T, L, j)] # Unknown)
    BY DEF SrcOn
  <2>5. tokens[At(T, L, j)] # Unknown => O[j] = tokens[At(T, L, j)]
    <3> DEFINE p == At(T, L, j)
               g == G[j] - G[j - 1]
               d == [i \in 1 .. 3 |-> O[j][i] - O[j - 1][i]]
               s == Encoded(T, p, o)
    <3>1. /\ Tells(s, g, B[j], d)
          /\ tokens[p] = Unknown => O[j] = O[j - 1] /\ (Front(s) = <<>> \/ Malformed(Front(s)))
          /\ tokens[p] # Unknown => Tells(Front(s), g, TRUE, d) /\ O[j] = tokens[p]
      BY EncodedTells
    <3> QED BY <3>1
  <2> QED BY <2>2, <2>3, <2>4, <2>5
<1> HIDE DEF G, B, O
<1>5. segs = [j \in 1 .. m |-> [genCol |-> G[j], hasSource |-> B[j], orig |-> O[j]]]
  BY DEF SegsOn, Segment, G, B, O
<1> HIDE DEF m, segs
<1>6. Len(segs) = m
  BY <1>2, <1>5
<1>7. \A j \in 1 .. m : segs[j].genCol = G[j] /\ segs[j].hasSource = B[j] /\ segs[j].orig = O[j]
  BY <1>5
<1>8. ASSUME NEW i \in 1 .. m, NEW j \in 1 .. m, i < j PROVE G[i] < G[j]
  <2> DEFINE a == At(T, L, i)[2]
             b == At(T, L, j)[2]
             c == o[2]
  <2>1. a \in Nat /\ b \in Nat /\ a < b /\ c \in Nat
    BY <1>1, <1>2, <1>8
  <2>2. G[i] = (IF L = o[1] THEN a - c ELSE a) /\ G[j] = (IF L = o[1] THEN b - c ELSE b)
    BY <1>2, <1>4 DEF Col
  <2> HIDE DEF a, b, c
  <2> QED BY <2>1, <2>2
<1>9. \A j \in 1 .. m : /\ segs[j].genCol = Col(At(T, L, j), o) /\ segs[j].genCol \in Int
                        /\ segs[j].hasSource = (tokens[At(T, L, j)] # Unknown)
                        /\ tokens[At(T, L, j)] # Unknown => segs[j].orig = tokens[At(T, L, j)]
  BY <1>4, <1>7
<1>10. \A i, j \in 1 .. m : i < j => segs[i].genCol < segs[j].genCol
  BY <1>7, <1>8
<1> QED BY <1>1, <1>2, <1>6, <1>9, <1>10 DEF m, segs

\* Looking a position up in the table finds the last token up to it.
LEMMA TableResolves ==
  ASSUME MapOK, NEW T, NEW o, Beyond(T, o), NEW line \in 0 .. Lines, NEW col \in Nat, o[1] <= line
  PROVE  Resolve(Table(T, o), line - o[1], IF line = o[1] THEN col - o[2] ELSE col)
           = Standing(UpTo(T, line, col))
<1> DEFINE n == line - o[1] + 1
           c == IF line = o[1] THEN col - o[2] ELSE col
           D == 1 .. Lines - o[1]
           segs == SegsOn(T, line, o)
           table == Table(T, o)
<1>1. /\ Lines \in Nat /\ o[1] \in Nat /\ o[2] \in Nat /\ T \in SUBSET DOMAIN tokens /\ o \in Place
      /\ line \in Nat /\ line <= Lines
  BY PositionsAssumption, PlaceParts DEF Beyond
<1>2. DOMAIN table = D /\ (n \in D => table[n] = segs)
  <2>1. o[1] + n - 1 = line
    BY <1>1
  <2> HIDE DEF n
  <2> QED BY <2>1 DEF Table
<1>3. n \in D <=> line < Lines
  BY <1>1
<1>4. c \in Int
  BY <1>1
<1> HIDE DEF table, segs, D
<1>5. CASE ~ (line < Lines)
  <2>1. line = Lines
    BY <1>1, <1>5
  <2>2. \A q \in T : q[1] \in Nat /\ q[1] < Lines
    BY <1>1, Placed
  <2>3. \A k \in Nat : k < Lines => k # Lines
    BY <1>1
  <2>4. UpTo(T, line, col) = {}
    BY <2>1, <2>2, <2>3 DEF UpTo
  <2>5. Resolve(table, line - o[1], c) = Unknown
    BY <1>2, <1>3, <1>5 DEF Resolve
  <2> QED BY <2>4, <2>5 DEF Standing, table
<1>6. CASE line < Lines
  <2> DEFINE m == CountOn(T, line)
             i == Found(segs, c)
             S == UpTo(T, line, col)
  <2>1. OnLine(T, line, o)
    BY <1>1 DEF OnLine
  <2>2. /\ Len(segs) = m /\ m \in Nat /\ Tokens(T, line)
        /\ \A j \in 1 .. m : /\ segs[j].genCol = Col(At(T, line, j), o) /\ segs[j].genCol \in Int
                             /\ segs[j].hasSource = (tokens[At(T, line, j)] # Unknown)
                             /\ tokens[At(T, line, j)] # Unknown => segs[j].orig = tokens[At(T, line, j)]
        /\ \A k, j \in 1 .. m : k < j => segs[k].genCol < segs[j].genCol
    BY <2>1, LineSegments DEF segs
  <2> HIDE DEF c
  <2>3. i \in 0 .. m /\ \A j \in 1 .. m : segs[j].genCol <= c <=> j <= i
    <3>1. Len(segs) \in Nat
      BY <2>2
    <3>2. \A j \in 1 .. Len(segs) : segs[j].genCol \in Int
      BY <2>2
    <3>3. \A k, j \in 1 .. Len(segs) : k < j => segs[k].genCol < segs[j].genCol
      BY <2>2
    <3>4. /\ Found(segs, c) \in 0 .. Len(segs)
          /\ \A j \in 1 .. Len(segs) : segs[j].genCol <= c <=> j <= Found(segs, c)
      <4> HIDE DEF segs
      <4> QED BY <1>4, <3>1, <3>2, <3>3, FoundIsLast
    <3> QED BY <2>2, <3>4
  <2> HIDE DEF i, m
  <2>4. ASSUME NEW j \in 1 .. m PROVE At(T, line, j)[2] <= col <=> j <= i
    <3>1. At(T, line, j)[1] = line /\ At(T, line, j)[2] \in Nat
      BY <2>2, LineTokens DEF m
    <3>2. segs[j].genCol = IF line = o[1] THEN At(T, line, j)[2] - o[2] ELSE At(T, line, j)[2]
      BY <2>2, <3>1 DEF Col
    <3> DEFINE a == At(T, line, j)[2]
               b == o[2]
    <3>3. a \in Nat /\ b \in Nat /\ col \in Nat
      BY <1>1, <3>1
    <3>4. (IF line = o[1] THEN a - b ELSE a) <= c <=> a <= col
      <4> HIDE DEF a
      <4> QED BY <3>3 DEF c, b
    <3> QED BY <2>3, <3>2, <3>4
  <2>5. /\ i = 0 => S = {}
        /\ i # 0 => S # {} /\ LastOf(S) = At(T, line, i)
    <3>1. Tokens(T, line)
      BY <2>2
    <3>2. SplitsLine(T, line, col, i)
      BY <2>3, <2>4 DEF SplitsLine, m
    <3> QED BY ONLY <3>1, <3>2, LastUpTo DEF S
  <2>6. n \in DOMAIN table /\ table[n] = segs
    BY <1>2, <1>3, <1>6
  <2>7. Resolve(table, line - o[1], c) =
          IF i = 0 \/ ~ segs[i].hasSource THEN Unknown ELSE Value(segs[i].orig)
    BY <2>6 DEF Resolve, Value, i
  <2>8. CASE i = 0
    BY <2>5, <2>7, <2>8 DEF Standing, table, c
  <2>9. CASE i # 0
    <3>1. i \in 1 .. m
      BY <2>2, <2>3, <2>9
    <3>2. Standing(S) = IF tokens[At(T, line, i)] = Unknown THEN Unknown ELSE Value(tokens[At(T, line, i)])
      BY <2>5, <2>9 DEF Standing
    <3>3. CASE tokens[At(T, line, i)] = Unknown
      <4>1. ~ segs[i].hasSource
        BY <2>2, <3>1, <3>3
      <4> QED BY <2>7, <3>2, <3>3, <4>1 DEF table, c
    <3>4. CASE tokens[At(T, line, i)] # Unknown
      <4>1. segs[i].hasSource /\ segs[i].orig = tokens[At(T, line, i)]
        BY <2>2, <3>1, <3>4
      <4> QED BY <2>7, <2>9, <3>2, <3>4, <4>1 DEF table, c
    <3> QED BY <3>3, <3>4
  <2> QED BY <2>8, <2>9
<1> QED BY <1>5, <1>6

(***************************************************************************)
(* Sections.                                                               *)
(***************************************************************************)
LEMMA OffsetPlaces ==
  ASSUME MapOK
  PROVE  /\ Len(offsets) \in Nat /\ DOMAIN offsets = 1 .. Len(offsets)
         /\ \A j \in DOMAIN offsets : offsets[j] \in Place
<1>1. offsets \in Seq(Offsets) /\ Offsets \subseteq Place
  BY PositionsAssumption DEF MapOK, Place
<1>2. \A j \in DOMAIN offsets : offsets[j] \in Offsets
  BY <1>1
<1> QED BY <1>1, <1>2

LEMMA OrderedOffsets ==
  ASSUME MapOK, InOrder(offsets), NEW j \in DOMAIN offsets
  PROVE  \A k \in DOMAIN offsets : j <= k => AtOrBefore(offsets[j], offsets[k])
<1> DEFINE n == Len(offsets)
           S == {d \in Nat : j + d <= n => AtOrBefore(offsets[j], offsets[j + d])}
<1>1. /\ n \in Nat /\ DOMAIN offsets = 1 .. n /\ j \in 1 .. n
      /\ \A k \in DOMAIN offsets : offsets[k] \in Place
  BY OffsetPlaces
<1>2. \A k \in 2 .. n : AtOrBefore(offsets[k - 1], offsets[k])
  BY DEF InOrder
<1> HIDE DEF n
<1>3. 0 \in S
  <2>1. j + 0 = j /\ offsets[j] \in Place
    BY <1>1
  <2>2. AtOrBefore(offsets[j], offsets[j])
    BY <2>1, OrderLaws
  <2> QED BY <2>1, <2>2
<1>4. ASSUME NEW d \in S PROVE d + 1 \in S
  <2> SUFFICES ASSUME j + (d + 1) <= n PROVE AtOrBefore(offsets[j], offsets[j + (d + 1)])
    OBVIOUS
  <2> DEFINE k == j + d
             l == j + (d + 1)
  <2>1. d \in Nat /\ k \in 1 .. n /\ l \in 2 .. n /\ l - 1 = k /\ k <= n /\ l \in 1 .. n
    BY <1>1
  <2>2. AtOrBefore(offsets[j], offsets[k])
    BY <2>1
  <2> HIDE DEF k, l
  <2>3. AtOrBefore(offsets[k], offsets[l])
    BY <1>2, <2>1
  <2>4. offsets[j] \in Place /\ offsets[k] \in Place /\ offsets[l] \in Place
    BY <1>1, <2>1
  <2>5. AtOrBefore(offsets[j], offsets[l])
    BY <2>2, <2>3, <2>4, OrderLaws
  <2> QED BY <2>5 DEF l
<1>5. S \in SUBSET Nat
  OBVIOUS
<1>6. S = Nat
  <2> HIDE DEF S
  <2> QED BY <1>3, <1>4, <1>5, AllNaturals
<1>7. ASSUME NEW k \in DOMAIN offsets, j <= k PROVE AtOrBefore(offsets[j], offsets[k])
  <2>1. k - j \in Nat /\ j + (k - j) = k /\ k <= n
    BY <1>1, <1>7
  <2> QED BY <1>6, <2>1
<1> QED BY <1>7

LEMMA OwnedBeyond ==
  ASSUME MapOK, NEW i \in DOMAIN offsets, NEW S \in SUBSET Owned(i)
  PROVE  Beyond(S, offsets[i])
<1>1. offsets[i] \in Place
  BY OffsetPlaces
<1>2. \A q \in Owned(i) : q \in DOMAIN tokens /\ AtOrBefore(offsets[i], q)
  BY DEF Owned
<1>3. ASSUME NEW q \in Owned(i) PROVE offsets[i][1] <= q[1]
  <2> DEFINE a == offsets[i][1]
             b == q[1]
  <2>1. a \in Nat /\ b \in Nat /\ (a < b \/ a = b)
    BY <1>1, <1>2, Placed, PlaceParts DEF AtOrBefore
  <2> HIDE DEF a, b
  <2>2. a <= b
    BY <2>1
  <2> QED BY <2>2 DEF a, b
<1> QED BY <1>1, <1>2, <1>3 DEF Beyond

\* A token has one section.
LEMMA OwnedOnce ==
  ASSUME MapOK, NEW i \in DOMAIN offsets, NEW j \in DOMAIN offsets, NEW p \in Owned(i), p \in Owned(j)
  PROVE  i = j
<1>1. /\ AtOrBefore(offsets[i], p) /\ AtOrBefore(offsets[j], p)
      /\ AtOrBefore(offsets[j], offsets[i]) /\ (offsets[j] = offsets[i] => j <= i)
      /\ AtOrBefore(offsets[i], offsets[j]) /\ (offsets[i] = offsets[j] => i <= j)
  BY DEF Owned
<1>2. offsets[i] \in Place /\ offsets[j] \in Place
  BY OffsetPlaces
<1>3. offsets[i] = offsets[j]
  BY <1>1, <1>2, OrderLaws
<1>4. i \in Nat /\ j \in Nat
  BY OffsetPlaces
<1> QED BY <1>1, <1>3, <1>4

\* What a position means is what stands at the last token that may be meant.
Nearest(T, p) ==
  LET starts == {o \in Range(offsets) : AtOrBefore(o, p)}
  IN  {q \in T : q[1] = p[1] /\ AtOrBefore(q, p)
                 /\ (starts # {} => AtOrBefore(LastOf(starts), q))}

LEMMA MeantIs ==
  ASSUME NEW T, NEW p
  PROVE  Meant(T, p) =
           IF offsets # <<>> /\ {o \in Range(offsets) : AtOrBefore(o, p)} = {} THEN Unknown
           ELSE Standing(Nearest(T, p))
<1> DEFINE starts == {o \in Range(offsets) : AtOrBefore(o, p)}
           known == {q \in T : q[1] = p[1] /\ AtOrBefore(q, p)
                                /\ (starts # {} => AtOrBefore(LastOf(starts), q))}
           t == tokens[LastOf(known)]
<1>1. Meant(T, p) = IF (offsets # <<>> /\ starts = {}) \/ known = {} \/ t = Unknown THEN Unknown
                    ELSE Value(t)
  BY DEF Meant, Value
<1>2. Nearest(T, p) = known
  BY DEF Nearest
<1> HIDE DEF known, starts
<1> QED BY <1>1, <1>2 DEF Standing, starts

LEMMA UpToIs ==
  ASSUME MapOK, NEW T \in SUBSET DOMAIN tokens, NEW line \in Nat, NEW col \in Nat
  PROVE  \A q \in T : q \in UpTo(T, line, col) <=> q[1] = line /\ AtOrBefore(q, <<line, col>>)
<1>1. ASSUME NEW q \in T PROVE q[1] = line => (AtOrBefore(q, <<line, col>>) <=> q[2] <= col)
  <2>1. ~ (line < line) /\ <<line, col>>[1] = line /\ <<line, col>>[2] = col
    OBVIOUS
  <2> QED BY <2>1 DEF AtOrBefore
<1> QED BY <1>1 DEF UpTo

\* The last section at or before a position resolves it to what it means.
LEMMA SectionResolves ==
  ASSUME MapOK, InOrder(offsets), offsets # <<>>, NEW maps, NEW T \in SUBSET DOMAIN tokens,
         \A i \in DOMAIN offsets : maps[i] = Table(Owned(i) \cap T, offsets[i]),
         NEW line \in 0 .. Lines, NEW col \in Nat
  PROVE  resolveSection(maps, offsets, line, col) = Meant(T, <<line, col>>)
<1> DEFINE p == <<line, col>>
           J == {j \in DOMAIN offsets : AtOrBefore(offsets[j], p)}
           i == Max({0} \cup J)
           starts == {o \in Range(offsets) : AtOrBefore(o, p)}
           n == Len(offsets)
<1>1. /\ n \in Nat /\ DOMAIN offsets = 1 .. n /\ \A j \in DOMAIN offsets : offsets[j] \in Place
      /\ line \in Nat /\ p \in Place
  BY OffsetPlaces, PositionsAssumption DEF Place
<1>2. resolveSection(maps, offsets, line, col) =
        IF i = 0 THEN Unknown
        ELSE Resolve(maps[i], line - offsets[i][1],
                     IF line = offsets[i][1] THEN col - offsets[i][2] ELSE col)
  BY DEF resolveSection
<1>3. i \in {0} \cup J /\ \A j \in {0} \cup J : j <= i
  <2>1. {0} \cup J \in SUBSET (0 .. n) /\ {0} \cup J # {}
    BY <1>1
  <2> HIDE DEF J, n
  <2> QED BY <1>1, <2>1, MaxExists
<1>4. starts = {offsets[j] : j \in J}
  BY DEF Range
<1>5. Meant(T, p) = IF offsets # <<>> /\ starts = {} THEN Unknown ELSE Standing(Nearest(T, p))
  BY MeantIs
<1>6. Nearest(T, p) = {q \in T : q[1] = p[1] /\ AtOrBefore(q, p)
                                 /\ (starts # {} => AtOrBefore(LastOf(starts), q))}
  BY DEF Nearest
<1>7. p[1] = line
  OBVIOUS
<1>8. \A j \in J : j \in 1 .. n /\ j \in DOMAIN offsets /\ AtOrBefore(offsets[j], p)
  BY <1>1
<1> HIDE DEF i, J, p, starts, n
<1>9. CASE i = 0
  <2>1. \A j \in J : FALSE
    <3>1. \A j \in 1 .. n : ~ (j <= 0)
      BY <1>1
    <3> QED BY <1>3, <1>8, <1>9, <3>1
  <2>2. starts = {}
    BY <1>4, <2>1
  <2> QED BY <1>2, <1>5, <1>9, <2>2 DEF p
<1>10. CASE i # 0
  <2> DEFINE o == offsets[i]
             S == Owned(i) \cap T
  <2>1. i \in J /\ i \in DOMAIN offsets /\ o \in Place /\ AtOrBefore(o, p)
    BY <1>1, <1>3, <1>8, <1>10
  <2>2. \A j \in J : AtOrBefore(offsets[j], o)
    <3>1. \A j \in J : j <= i
      BY <1>3
    <3> QED BY <1>8, <2>1, <3>1, OrderedOffsets
  <2>3. LastOf(starts) = o /\ starts # {}
    <3>1. starts \in SUBSET Place /\ o \in starts /\ \A x \in starts : AtOrBefore(x, o)
      BY <1>1, <1>4, <1>8, <2>1, <2>2
    <3> HIDE DEF o
    <3> QED BY <3>1, LastOnce
  <2>4. Nearest(T, p) = {q \in T : q[1] = line /\ AtOrBefore(q, p) /\ AtOrBefore(o, q)}
    BY <1>6, <1>7, <2>3
  <2>5. Beyond(S, o)
    <3>1. S \in SUBSET Owned(i)
      OBVIOUS
    <3> HIDE DEF S
    <3> QED BY <2>1, <3>1, OwnedBeyond
  <2>6. o[1] <= line
    <3> DEFINE a == o[1]
    <3>1. a \in Nat /\ (a < line \/ a = line)
      BY <1>7, <2>1, PlaceParts DEF AtOrBefore
    <3> HIDE DEF a
    <3>2. a <= line
      BY <1>1, <3>1
    <3> QED BY <3>2 DEF a
  <2>7. ASSUME NEW q \in T, AtOrBefore(q, p), AtOrBefore(o, q) PROVE q \in Owned(i)
    <3>1. q \in Place /\ q \in DOMAIN tokens
      BY Placed
    <3>2. ASSUME NEW j \in DOMAIN offsets, AtOrBefore(offsets[j], q)
          PROVE  AtOrBefore(offsets[j], o) /\ (offsets[j] = o => j <= i)
      <4>1. offsets[j] \in Place
        BY <1>1
      <4>2. AtOrBefore(offsets[j], p)
        BY <1>1, <2>7, <3>1, <3>2, <4>1, OrderLaws
      <4>3. j \in J
        BY <4>2 DEF J
      <4> QED BY <1>3, <2>2, <4>3
    <3> QED BY <2>7, <3>1, <3>2 DEF Owned
  <2>8. \A q \in S : AtOrBefore(o, q) /\ q \in T
    BY DEF Owned
  <2>9. \A q \in S : q \in UpTo(S, line, col) <=> q[1] = line /\ AtOrBefore(q, p)
    <3>1. S \in SUBSET DOMAIN tokens
      OBVIOUS
    <3> HIDE DEF S
    <3> QED BY <1>1, <3>1, UpToIs DEF p
  <2>10. UpTo(S, line, col) \in SUBSET S
    BY DEF UpTo
  <2>11. UpTo(S, line, col) = Nearest(T, p)
    <3>1. \A q \in UpTo(S, line, col) : q \in Nearest(T, p)
      BY <2>4, <2>8, <2>9, <2>10
    <3>2. \A q \in Nearest(T, p) : q \in UpTo(S, line, col)
      BY <2>4, <2>7, <2>9
    <3> QED BY <3>1, <3>2
  <2>12. Resolve(Table(S, o), line - o[1], IF line = o[1] THEN col - o[2] ELSE col)
           = Standing(UpTo(S, line, col))
    <3> HIDE DEF S, o
    <3> QED BY <2>5, <2>6, TableResolves
  <2>13. maps[i] = Table(S, o)
    BY <2>1
  <2> HIDE DEF S
  <2> QED BY <1>2, <1>5, <1>10, <2>3, <2>11, <2>12, <2>13 DEF p
<1> QED BY <1>9, <1>10

\* The tokens that are still told, if the text may have lost its last one.
StillTold(S, cut) == {S} \cup IF cut THEN {S \ {LastOf(S)}} ELSE {}

LEMMA TextOrDamaged ==
  ASSUME MapOK, NEW T, NEW o, Beyond(T, o), NEW cut \in BOOLEAN, cut => T # {}, NEW text,
         text = IF cut THEN Damaged(T, o) ELSE Text(T, o)
  PROVE  /\ ~ cut => Readable(text)
         /\ Readable(text) => \E U \in StillTold(T, cut) : parseMappings(text) = Table(U, o)
<1>1. CASE ~ cut
  <2>1. Readable(Text(T, o))
    BY TextReadable
  <2>2. parseMappings(Text(T, o)) = Table(T, o)
    BY TextRenders, RenderedReads
  <2> QED BY <1>1, <2>1, <2>2 DEF StillTold
<1>2. CASE cut
  <2>1. text = Damaged(T, o) /\ T # {} /\ StillTold(T, cut) = {T, T \ {LastOf(T)}}
    BY <1>2 DEF StillTold
  <2>2. Readable(Damaged(T, o)) => \E U \in {T, T \ {LastOf(T)}} : parseMappings(Damaged(T, o)) = Table(U, o)
    BY <2>1, DamagedReads
  <2> QED BY <1>2, <2>1, <2>2
<1> QED BY <1>1, <1>2

LEMMA LastToken ==
  ASSUME MapOK, DOMAIN tokens # {}
  PROVE  LastOf(DOMAIN tokens) \in DOMAIN tokens /\ \A q \in DOMAIN tokens : AtOrBefore(q, LastOf(DOMAIN tokens))
  BY Placed, LastExists

\* A map without sections.
LEMMA PlainMap ==
  ASSUME MapOK, DOMAIN tokens # {}, offsets = <<>>
  PROVE  /\ ~ Accepted(Written) => damaged
         /\ Accepted(Written) =>
              \E T \in StillTold(DOMAIN tokens, damaged) :
                \A line \in 0 .. Lines, col \in Nat :
                  Meant(T, <<line, col>>) = Resolve(parseMappings(Written[1]), line, col)
<1> DEFINE D == DOMAIN tokens
           o == <<0, 0>>
           text == IF damaged THEN Damaged(D, o) ELSE Text(D, o)
<1>1. Written = <<text>>
  BY DEF Written
<1>2. o \in Place /\ o[1] = 0 /\ o[2] = 0
  BY DEF Place
<1>3. Lines \in Nat /\ damaged \in BOOLEAN
  BY PositionsAssumption DEF MapOK
<1> HIDE DEF o
<1>4. Beyond(D, o)
  <2>1. \A q \in D : q[1] \in Nat
    BY Placed
  <2>2. \A q \in D : o[1] <= q[1]
    BY <1>2, <2>1
  <2> QED BY <1>2, <2>2 DEF Beyond
<1> HIDE DEF text
<1>5. InOrder(offsets)
  <2>1. Len(offsets) = 0
    OBVIOUS
  <2>2. \A i \in 2 .. 0 : FALSE
    OBVIOUS
  <2> QED BY <2>1, <2>2 DEF InOrder
<1>6. Accepted(Written) <=> Readable(text)
  <2>1. DOMAIN Written = {1} /\ Written[1] = text
    BY <1>1
  <2> QED BY <1>5, <2>1 DEF Accepted
<1>7. /\ ~ damaged => Readable(text)
      /\ Readable(text) => \E U \in StillTold(D, damaged) : parseMappings(text) = Table(U, o)
  <2>1. text = IF damaged THEN Damaged(D, o) ELSE Text(D, o)
    BY DEF text
  <2> HIDE DEF D
  <2> QED BY <1>3, <1>4, <2>1, TextOrDamaged DEF D
<1>8. ASSUME NEW T \in SUBSET D, NEW line \in 0 .. Lines, NEW col \in Nat
      PROVE  Meant(T, <<line, col>>) = Resolve(Table(T, o), line, col)
  <2> DEFINE p == <<line, col>>
  <2>1. line \in Nat /\ line - o[1] = line /\ (IF line = o[1] THEN col - o[2] ELSE col) = col /\ o[1] <= line
    BY <1>2, <1>3
  <2>2. Beyond(T, o)
    BY <1>4 DEF Beyond
  <2>3. Resolve(Table(T, o), line - o[1], IF line = o[1] THEN col - o[2] ELSE col)
          = Standing(UpTo(T, line, col))
    BY <2>1, <2>2, TableResolves
  <2>4. {x \in Range(offsets) : AtOrBefore(x, p)} = {}
    BY DEF Range
  <2>5. Nearest(T, p) = {q \in T : q[1] = line /\ AtOrBefore(q, p)}
    BY <2>4 DEF Nearest
  <2>6. \A q \in T : q \in UpTo(T, line, col) <=> q[1] = line /\ AtOrBefore(q, p)
    BY <2>1, UpToIs
  <2>7. UpTo(T, line, col) \in SUBSET T
    BY DEF UpTo
  <2>8. UpTo(T, line, col) = Nearest(T, p)
    BY <2>5, <2>6, <2>7
  <2>9. Meant(T, p) = Standing(Nearest(T, p))
    BY MeantIs
  <2> QED BY <2>1, <2>3, <2>8, <2>9
<1>9. \A U \in StillTold(D, damaged) : U \in SUBSET D
  BY DEF StillTold
<1>10. Written[1] = text
  BY <1>1
<1> QED BY <1>6, <1>7, <1>8, <1>9, <1>10

\* A map of sections: what one of them lost is what the map lost.
LEMMA SectionTables ==
  ASSUME MapOK, DOMAIN tokens # {}, offsets # <<>>, Accepted(Written)
  PROVE  \E T \in StillTold(DOMAIN tokens, damaged) : \A i \in DOMAIN offsets :
           parseMappings(Written[i]) = Table(Owned(i) \cap T, offsets[i])
<1> DEFINE D == DOMAIN tokens
           l == LastOf(D)
           hit(i) == damaged /\ l \in Owned(i)
           reads(i, U) == parseMappings(Written[i]) = Table(U, offsets[i])
<1>1. l \in D /\ (\A q \in D : AtOrBefore(q, l)) /\ D \in SUBSET Place /\ damaged \in BOOLEAN
  BY LastToken, Placed DEF MapOK
<1>2. Written = [i \in DOMAIN offsets |-> IF hit(i) THEN Damaged(Owned(i), offsets[i])
                                          ELSE Text(Owned(i), offsets[i])]
  BY DEF Written
<1>3. \A i \in DOMAIN offsets : Readable(Written[i])
  BY <1>2 DEF Accepted
<1>4. \A i \in DOMAIN offsets : Owned(i) \in SUBSET D
  BY DEF Owned
<1>5. ASSUME NEW i \in DOMAIN offsets, l \in Owned(i) PROVE LastOf(Owned(i)) = l
  <2> DEFINE S == Owned(i)
  <2>1. S \in SUBSET Place /\ l \in S /\ \A q \in S : AtOrBefore(q, l)
    BY <1>1, <1>4, <1>5
  <2> HIDE DEF S, l
  <2>2. LastOf(S) = l
    BY <2>1, LastOnce
  <2> QED BY <2>2 DEF S
<1> HIDE DEF D, l
<1>6. ASSUME NEW i \in DOMAIN offsets
      PROVE  reads(i, Owned(i)) \/ (hit(i) /\ reads(i, Owned(i) \ {l}))
  <2> DEFINE S == Owned(i)
             o == offsets[i]
             text == Written[i]
             cut == hit(i)
  <2>1. Beyond(S, o)
    BY OwnedBeyond
  <2>2. text = IF cut THEN Damaged(S, o) ELSE Text(S, o)
    BY <1>2
  <2>3. Readable(text) /\ cut \in BOOLEAN
    BY <1>1, <1>3
  <2>4. cut => S # {} /\ LastOf(S) = l
    BY <1>5
  <2> HIDE DEF S, o, text, cut
  <2>5. PICK U \in StillTold(S, cut) : parseMappings(text) = Table(U, o)
    BY <2>1, <2>2, <2>3, <2>4, TextOrDamaged
  <2>6. U = S \/ (cut /\ U = S \ {l})
    BY <2>4 DEF StillTold
  <2> QED BY <2>5, <2>6 DEF S, o, text, cut
<1> HIDE DEF reads
<1>7. CASE \A i \in DOMAIN offsets : reads(i, Owned(i))
  <2>1. D \in StillTold(D, damaged)
    BY DEF StillTold
  <2>2. \A i \in DOMAIN offsets : Owned(i) \cap D = Owned(i)
    BY <1>4
  <2>3. \A i \in DOMAIN offsets : reads(i, Owned(i) \cap D)
    BY <1>7, <2>2
  <2> QED BY <2>1, <2>3 DEF reads, D
<1>8. ASSUME NEW k \in DOMAIN offsets, ~ reads(k, Owned(k))
      PROVE  \E T \in StillTold(D, damaged) : \A i \in DOMAIN offsets : reads(i, Owned(i) \cap T)
  <2> DEFINE T == D \ {l}
  <2>1. hit(k) /\ reads(k, Owned(k) \ {l})
    BY <1>6, <1>8
  <2>2. T \in StillTold(D, damaged)
    BY <2>1 DEF StillTold, l, D
  <2>3. \A i \in DOMAIN offsets : Owned(i) \cap T = Owned(i) \ {l}
    BY <1>4
  <2>4. ASSUME NEW i \in DOMAIN offsets PROVE reads(i, Owned(i) \cap T)
    <3>1. CASE i = k
      BY <2>1, <2>3, <3>1
    <3>2. CASE i # k
      <4>1. l \notin Owned(i)
        BY <2>1, <3>2, OwnedOnce
      <4>2. Owned(i) \ {l} = Owned(i) /\ reads(i, Owned(i))
        BY <1>6, <4>1
      <4> QED BY <2>3, <4>2
    <3> QED BY <3>1, <3>2
  <2> QED BY <2>2, <2>4
<1>9. CASE ~ \A i \in DOMAIN offsets : reads(i, Owned(i))
  BY <1>8, <1>9 DEF reads, D
<1> QED BY <1>7, <1>9

LEMMA SectionsRefused ==
  ASSUME MapOK, DOMAIN tokens # {}, offsets # <<>>, ~ Accepted(Written)
  PROVE  damaged \/ ~ InOrder(offsets)
<1> SUFFICES ASSUME ~ damaged, InOrder(offsets) PROVE FALSE
  OBVIOUS
<1>1. Written = [i \in DOMAIN offsets |-> Text(Owned(i), offsets[i])]
  BY DEF Written
<1>2. ASSUME NEW i \in DOMAIN offsets PROVE Readable(Text(Owned(i), offsets[i]))
  <2>1. Beyond(Owned(i), offsets[i])
    BY OwnedBeyond
  <2> QED BY <2>1, TextReadable
<1>3. \A i \in DOMAIN Written : Readable(Written[i])
  BY <1>1, <1>2
<1> QED BY <1>3 DEF Accepted

\* A map that is accepted answers every position with the token it belongs to.
LEMMA MapResolves ==
  ASSUME MapOK
  PROVE  PositionsResolve
<1> DEFINE D == DOMAIN tokens
           maps == [i \in DOMAIN Written |-> parseMappings(Written[i])]
           Asked == Columns \cup {c + 1 : c \in Columns}
           Right(T) == \A line \in 0 .. Lines, col \in Asked :
                         Meant(T, <<line, col>>) =
                           IF offsets = <<>> THEN Resolve(maps[1], line, col)
                           ELSE resolveSection(maps, offsets, line, col)
<1> SUFFICES ASSUME tokens # <<>>
             PROVE  IF ~ Accepted(Written) THEN damaged \/ ~ InOrder(offsets)
                    ELSE \E T \in StillTold(D, damaged) : Right(T)
  BY DEF PositionsResolve, StillTold
<1>1. Asked \in SUBSET Nat
  <2>1. \A c \in Columns : c \in Nat
    BY PositionsAssumption
  <2>2. \A c \in Columns : c \in Nat /\ c + 1 \in Nat
    BY <2>1
  <2> QED BY <2>2
<1>2. CASE D = {}
  <2>1. tokens = [p \in {} |-> tokens[p]]
    BY <1>2 DEF MapOK
  <2>2. tokens = <<>>
    BY <2>1
  <2> QED BY <2>2
<1>3. CASE D # {} /\ offsets = <<>>
  <2>1. DOMAIN Written = {1}
    BY <1>3 DEF Written
  <2>2. maps[1] = parseMappings(Written[1])
    BY <2>1
  <2>3. /\ ~ Accepted(Written) => damaged
        /\ Accepted(Written) =>
             \E T \in StillTold(D, damaged) : \A line \in 0 .. Lines, col \in Nat :
               Meant(T, <<line, col>>) = Resolve(parseMappings(Written[1]), line, col)
    BY <1>3, PlainMap
  <2> HIDE DEF maps, Asked, D
  <2> QED BY <1>1, <1>3, <2>2, <2>3
<1>4. CASE D # {} /\ offsets # <<>>
  <2>1. DOMAIN Written = DOMAIN offsets
    BY <1>4 DEF Written
  <2>2. \A i \in DOMAIN offsets : maps[i] = parseMappings(Written[i])
    BY <2>1
  <2>3. ASSUME Accepted(Written) PROVE \E T \in StillTold(D, damaged) : Right(T)
    <3>1. PICK T \in StillTold(D, damaged) : \A i \in DOMAIN offsets :
            parseMappings(Written[i]) = Table(Owned(i) \cap T, offsets[i])
      BY <1>4, <2>3, SectionTables
    <3>2. T \in SUBSET DOMAIN tokens
      BY DEF StillTold
    <3>3. InOrder(offsets)
      BY <2>3 DEF Accepted
    <3>4. \A i \in DOMAIN offsets : maps[i] = Table(Owned(i) \cap T, offsets[i])
      BY <2>2, <3>1
    <3> HIDE DEF maps, Asked, D
    <3>5. \A line \in 0 .. Lines, col \in Asked :
            resolveSection(maps, offsets, line, col) = Meant(T, <<line, col>>)
      BY <1>1, <1>4, <3>2, <3>3, <3>4, SectionResolves
    <3> QED BY <1>4, <3>5
  <2> HIDE DEF Right, D
  <2> QED BY <1>4, <2>3, SectionsRefused DEF D
<1> QED BY <1>2, <1>3, <1>4

(***************************************************************************)
(* Every map.                                                              *)
(***************************************************************************)
PositionsSpec == PositionsInit /\ [][UNCHANGED mapVars]_mapVars

LEMMA MapStart == PositionsInit => MapOK
<1> SUFFICES ASSUME PositionsInit PROVE MapOK
  OBVIOUS
<1>1. tokens \in UNION {[P -> Original \cup {Unknown}] : P \in SUBSET Position} /\ damaged \in BOOLEAN
  BY DEF PositionsInit
<1>2. PICK P \in SUBSET Position : tokens \in [P -> Original \cup {Unknown}]
  BY <1>1
<1>3. DOMAIN tokens \in SUBSET Position /\ \A p \in DOMAIN tokens : tokens[p] \in Original \cup {Unknown}
  BY <1>2
<1>5. tokens = [p \in DOMAIN tokens |-> tokens[p]]
  BY <1>2
<1>4. offsets \in Seq(Offsets)
  <2>1. offsets \in UNION {[1 .. m -> Offsets] : m \in 0 .. 2}
    BY DEF PositionsInit, SeqOf
  <2>2. PICK m \in 0 .. 2 : offsets \in [1 .. m -> Offsets]
    BY <2>1
  <2> QED BY <2>2
<1> QED BY <1>1, <1>3, <1>4, <1>5 DEF MapOK

\* Every map, of any number of lines, columns, tokens and sections, is refused or
\* resolves every position to the token it belongs to; damage costs the last token
\* at most (parse.go: parseMappings, parseSections, Resolve, resolveSection).
THEOREM PositionsResolveHolds == PositionsSpec => []PositionsResolve
<1>1. PositionsInit => MapOK
  BY MapStart
<1>2. MapOK /\ [UNCHANGED mapVars]_mapVars => MapOK'
  BY DEF MapOK, Position, mapVars
<1>3. MapOK => PositionsResolve
  BY MapResolves
<1> QED BY <1>1, <1>2, <1>3, PTL DEF PositionsSpec

(***************************************************************************)
(* Loops over a list: FoldLeft, whose states are a, from base.             *)
(***************************************************************************)
LoopTypes(list, X, V, base, step) ==
  list \in Seq(X) /\ base \in V /\ step \in [V \X X -> V]

\* f[s] is what the loop makes of the elements whose index is in s.
Loops(f, list, base, step) ==
  f = [s \in SUBSET (1 .. Len(list)) |->
         IF s = {} THEN base ELSE step[<<f[s \ {Max(s)}], list[Max(s)]>>]]

\* s lies among the first n numbers, and so does what is left of it.
LEMMA LastIndex ==
  ASSUME NEW n \in Nat, NEW s \in SUBSET (1 .. n), s # {}
  PROVE  Max(s) \in 1 .. n /\ s \ {Max(s)} \in SUBSET (1 .. n)
<1>1. s \in SUBSET (0 .. n)
  OBVIOUS
<1>2. Max(s) \in s
  BY <1>1, MaxExists
<1> QED BY <1>2

\* A loop can be run over every part of its list.
LEMMA LoopExists ==
  ASSUME NEW list, NEW X, NEW V, NEW base, NEW step, LoopTypes(list, X, V, base, step)
  PROVE  \E f \in [SUBSET (1 .. Len(list)) -> V] : Loops(f, list, base, step)
<1> DEFINE n == Len(list)
           next == [a \in (1 .. n) \X V |-> step[<<a[2], list[a[1]]>>]]
<1>1. n \in Nat /\ list \in [1 .. n -> X] /\ base \in V /\ step \in [V \X X -> V]
  BY DEF LoopTypes
<1> HIDE DEF n
<1>2. \A k \in 1 .. n, v \in V : next[<<k, v>>] = step[<<v, list[k]>>] /\ next[<<k, v>>] \in V
  <2>1. \A k \in 1 .. n, v \in V : <<v, list[k]>> \in V \X X
    BY <1>1
  <2> QED BY <1>1, <2>1
<1>3. next \in [(1 .. n) \X V -> V]
  <2>1. \A a \in (1 .. n) \X V : a[1] \in 1 .. n /\ a[2] \in V /\ <<a[2], list[a[1]]>> \in V \X X
    BY <1>1
  <2> QED BY <1>1, <2>1
<1> HIDE DEF next
<1>4. FoldTypes(n, V, base, next)
  BY <1>1, <1>3 DEF FoldTypes
<1>5. PICK f \in [SUBSET (1 .. n) -> V] : Folds(f, n, base, next)
  BY <1>4, FoldExists
<1>6. \A s \in SUBSET (1 .. n) :
        s # {} => next[<<Max(s), f[s \ {Max(s)}]>>] = step[<<f[s \ {Max(s)}], list[Max(s)]>>]
  <2> SUFFICES ASSUME NEW s \in SUBSET (1 .. n), s # {}
               PROVE  next[<<Max(s), f[s \ {Max(s)}]>>] = step[<<f[s \ {Max(s)}], list[Max(s)]>>]
    OBVIOUS
  <2>1. Max(s) \in 1 .. n /\ s \ {Max(s)} \in SUBSET (1 .. n)
    BY <1>1, LastIndex
  <2> QED BY <1>2, <2>1
<1>7. f = [s \in SUBSET (1 .. n) |-> IF s = {} THEN base ELSE step[<<f[s \ {Max(s)}], list[Max(s)]>>]]
  BY <1>5, <1>6 DEF Folds
<1> QED BY <1>7 DEF Loops, n

\* The states of a loop.
States(a, list, V, base, step) ==
  /\ a \in [0 .. Len(list) -> V] /\ a[0] = base
  /\ \A k \in 1 .. Len(list) : a[k] = step[<<a[k - 1], list[k]>>]

\* A loop has states.
LEMMA StatesExist ==
  ASSUME NEW list, NEW X, NEW V, NEW base, NEW step, LoopTypes(list, X, V, base, step)
  PROVE  \E a : States(a, list, V, base, step)
<1> DEFINE n == Len(list)
<1>1. n \in Nat
  BY DEF LoopTypes
<1>2. PICK f \in [SUBSET (1 .. n) -> V] : Loops(f, list, base, step)
  BY LoopExists
<1>3. f = [s \in SUBSET (1 .. n) |-> IF s = {} THEN base ELSE step[<<f[s \ {Max(s)}], list[Max(s)]>>]]
  BY <1>2 DEF Loops
<1> HIDE DEF n
<1> DEFINE a == [k \in 0 .. n |-> f[1 .. k]]
<1>4. \A k \in 0 .. n : 1 .. k \in SUBSET (1 .. n)
  BY <1>1
<1>5. a \in [0 .. n -> V]
  BY <1>2, <1>4
<1>6. a[0] = base
  <2>1. 1 .. 0 = {} /\ 0 \in 0 .. n
    BY <1>1
  <2> QED BY <1>3, <2>1
<1>7. ASSUME NEW k \in 1 .. n PROVE a[k] = step[<<a[k - 1], list[k]>>]
  <2> DEFINE s == 1 .. k
  <2>1. s \in SUBSET (1 .. n) /\ s # {} /\ Max(s) = k /\ s \ {k} = 1 .. k - 1 /\ k - 1 \in Nat
    BY <1>1, FirstSteps
  <2>2. a[k] = f[s] /\ a[k - 1] = f[1 .. k - 1]
    BY <1>1
  <2> HIDE DEF s, a
  <2>3. f[s] = step[<<f[s \ {Max(s)}], list[Max(s)]>>]
    BY <1>3, <2>1
  <2>4. f[s] = step[<<f[1 .. k - 1], list[k]>>]
    BY <2>1, <2>3
  <2> QED BY <2>2, <2>4
<1> HIDE DEF a
<1> QED BY <1>5, <1>6, <1>7 DEF States, n

\* F computes the loop, as far as its values are states.
LoopsIn(F, list, V, base, step) ==
  /\ F[{}] = base
  /\ \A s \in SUBSET (1 .. Len(list)) :
       s # {} /\ F[s \ {Max(s)}] \in V => F[s] = step[<<F[s \ {Max(s)}], list[Max(s)]>>]

\* The result of a loop is its last state.
LEMMA LoopEnds ==
  ASSUME NEW list, NEW X, NEW V, NEW base, NEW step, LoopTypes(list, X, V, base, step),
         NEW F, LoopsIn(F, list, V, base, step), NEW a, States(a, list, V, base, step)
  PROVE  F[1 .. Len(list)] = a[Len(list)]
<1> DEFINE n == Len(list)
<1>1. n \in Nat
  BY DEF LoopTypes
<1>2. /\ F[{}] = base
      /\ \A s \in SUBSET (1 .. n) :
           s # {} /\ F[s \ {Max(s)}] \in V => F[s] = step[<<F[s \ {Max(s)}], list[Max(s)]>>]
  BY DEF LoopsIn
<1>3. /\ a \in [0 .. n -> V] /\ a[0] = base
      /\ \A k \in 1 .. n : a[k] = step[<<a[k - 1], list[k]>>]
  BY DEF States
<1> HIDE DEF n
<1>4. F[{}] = a[0]
  BY <1>2, <1>3
<1>5. ASSUME NEW k \in 1 .. n, F[1 .. k - 1] = a[k - 1] PROVE F[1 .. k] = a[k]
  <2> DEFINE s == 1 .. k
  <2>1. s \in SUBSET (1 .. n) /\ s # {} /\ Max(s) = k /\ s \ {k} = 1 .. k - 1
    BY <1>1, FirstSteps
  <2>2. k - 1 \in 0 .. n
    BY <1>1
  <2> HIDE DEF s
  <2>3. F[s \ {Max(s)}] = a[k - 1] /\ a[k - 1] \in V
    BY <1>3, <1>5, <2>1, <2>2
  <2>4. F[s] = step[<<a[k - 1], list[k]>>]
    BY <1>2, <2>1, <2>3
  <2> QED BY <1>3, <2>4 DEF s
<1>6. Run(F, a, n)
  BY <1>4, <1>5 DEF Run
<1> QED BY <1>1, <1>6, FoldRuns DEF n

(***************************************************************************)
(* Decoding is a loop.                                                     *)
(***************************************************************************)
DecodeStep(R, empty) == [a \in Seq(R) \X Entry(R) |-> Decoded(a[1], a[2], empty)]

DecodeFold(list, empty) ==
  LET iter[s \in SUBSET DOMAIN list] ==
        IF s = {} THEN <<>> ELSE LET x == Max(s) IN Decoded(iter[s \ {x}], list[x], empty)
  IN  iter

\* decodeEach is a fold, over all of the list.
LEMMA DecodeIsFold ==
  ASSUME NEW list, NEW empty
  PROVE  decodeEach(list, empty) = DecodeFold(list, empty)[DOMAIN list]
  BY DEF decodeEach, FoldLeft, MapThenFoldSet, DecodeFold

\* What is decoded of a list of rows is a list of rows.
LEMMA DecodeTypes ==
  ASSUME NEW R, NEW list \in Seq(Entry(R)), NEW empty \in R
  PROVE  LoopTypes(list, Entry(R), Seq(R), <<>>, DecodeStep(R, empty))
<1>1. \A items \in Seq(R), item \in Entry(R) : Decoded(items, item, empty) \in Seq(R)
  BY DEF Decoded, Entry
<1>2. \A a \in Seq(R) \X Entry(R) : a[1] \in Seq(R) /\ a[2] \in Entry(R)
  OBVIOUS
<1>3. DecodeStep(R, empty) \in [Seq(R) \X Entry(R) -> Seq(R)]
  BY <1>1, <1>2 DEF DecodeStep
<1>4. <<>> \in Seq(R)
  OBVIOUS
<1> QED BY <1>3, <1>4 DEF LoopTypes

\* What is decoded is the last state of the loop.
LEMMA DecodeEnds ==
  ASSUME NEW R, NEW list \in Seq(Entry(R)), NEW empty \in R,
         NEW a, States(a, list, Seq(R), <<>>, DecodeStep(R, empty))
  PROVE  decodeEach(list, empty) = a[Len(list)]
<1> DEFINE V == Seq(R)
           X == Entry(R)
           step == DecodeStep(R, empty)
           n == Len(list)
           F == DecodeFold(list, empty)
<1>1. LoopTypes(list, X, V, <<>>, step)
  BY DecodeTypes
<1>2. n \in Nat /\ DOMAIN list = 1 .. n /\ \A k \in 1 .. n : list[k] \in X
  OBVIOUS
<1>3. \A v \in V, x \in X : step[<<v, x>>] = Decoded(v, x, empty)
  BY DEF DecodeStep
<1>4. PICK f \in [SUBSET (1 .. n) -> V] : Loops(f, list, <<>>, step)
  <2> HIDE DEF V, X, step
  <2> QED BY <1>1, LoopExists
<1>5. f = [s \in SUBSET (1 .. n) |-> IF s = {} THEN <<>> ELSE step[<<f[s \ {Max(s)}], list[Max(s)]>>]]
  BY <1>4 DEF Loops
<1> HIDE DEF V, X, step, n
<1>6. \A s \in SUBSET (1 .. n) :
        s # {} => Max(s) \in 1 .. n /\ s \ {Max(s)} \in SUBSET (1 .. n)
  BY <1>2, LastIndex
<1>7. \A s \in SUBSET (1 .. n) :
        f[s] = IF s = {} THEN <<>> ELSE Decoded(f[s \ {Max(s)}], list[Max(s)], empty)
  BY <1>2, <1>3, <1>4, <1>5, <1>6
<1>8. f = [s \in SUBSET (1 .. n) |->
             IF s = {} THEN <<>> ELSE Decoded(f[s \ {Max(s)}], list[Max(s)], empty)]
  <2>1. f = [s \in SUBSET (1 .. n) |-> f[s]]
    BY <1>4
  <2> QED BY <1>7, <2>1
<1>9. F = [s \in SUBSET (1 .. n) |->
             IF s = {} THEN <<>> ELSE Decoded(F[s \ {Max(s)}], list[Max(s)], empty)]
  BY <1>2, <1>8 DEF DecodeFold
<1> HIDE DEF F
<1>10. F[{}] = <<>>
  BY <1>9
<1>11. ASSUME NEW s \in SUBSET (1 .. n), s # {}, F[s \ {Max(s)}] \in V
       PROVE  F[s] = step[<<F[s \ {Max(s)}], list[Max(s)]>>]
  <2>1. F[s] = Decoded(F[s \ {Max(s)}], list[Max(s)], empty)
    BY <1>9, <1>11
  <2> QED BY <1>2, <1>3, <1>6, <1>11, <2>1
<1>12. LoopsIn(F, list, V, <<>>, step)
  BY <1>10, <1>11 DEF LoopsIn, n
<1>13. F[1 .. n] = a[n]
  <2>1. States(a, list, V, <<>>, step)
    BY DEF V, step
  <2> QED BY <1>1, <1>12, <2>1, LoopEnds DEF n
<1> QED BY <1>2, <1>13, DecodeIsFold DEF F, n

(***************************************************************************)
(* Choosing frames is a loop, and joining texts is one.                    *)
(***************************************************************************)
Words == Seq(Name \cup Separator)

PickStep(inApp) == [a \in Seq(Words) \X FrameRow |-> Picked(a[1], a[2], inApp)]

PickFold(frames, inApp) ==
  LET iter[s \in SUBSET DOMAIN frames] ==
        IF s = {} THEN <<>> ELSE LET x == Max(s) IN Picked(iter[s \ {x}], frames[x], inApp)
  IN  iter

\* Pick is a fold.
LEMMA PickIsFold ==
  ASSUME NEW frames, NEW inApp
  PROVE  Pick(frames, inApp) = PickFold(frames, inApp)[DOMAIN frames]
  BY DEF Pick, FoldLeft, MapThenFoldSet, PickFold

\* The key of a frame is a text.
LEMMA KeyWords ==
  ASSUME NEW f \in FrameRow
  PROVE  FrameKey(f) \in Words
<1>1. f.module \in Name /\ f.function \in Name
  BY DEF FrameRow
<1> DEFINE S == Name \cup Separator
<1>2. f.module \in S /\ f.function \in S /\ "." \in S
  BY <1>1 DEF Separator
<1> HIDE DEF S
<1>3. /\ <<>> \o <<f.function>> \in Seq(S)
      /\ <<f.module, ".">> \o <<f.function>> \in Seq(S)
  BY <1>2
<1>4. FrameKey(f) \in Seq(S)
  BY <1>3 DEF FrameKey
<1> QED BY <1>4 DEF Words, S

\* What is picked is a list of texts.
LEMMA PickTypes ==
  ASSUME NEW frames \in Seq(FrameRow), NEW inApp
  PROVE  LoopTypes(frames, FrameRow, Seq(Words), <<>>, PickStep(inApp))
<1>1. \A keys \in Seq(Words), f \in FrameRow : Picked(keys, f, inApp) \in Seq(Words)
  BY KeyWords DEF Picked
<1>2. \A a \in Seq(Words) \X FrameRow : a[1] \in Seq(Words) /\ a[2] \in FrameRow
  OBVIOUS
<1>3. PickStep(inApp) \in [Seq(Words) \X FrameRow -> Seq(Words)]
  BY <1>1, <1>2 DEF PickStep
<1>4. <<>> \in Seq(Words)
  OBVIOUS
<1> QED BY <1>3, <1>4 DEF LoopTypes

\* What is picked is the last state of the loop.
LEMMA PickEnds ==
  ASSUME NEW list \in Seq(FrameRow), NEW inApp,
         NEW a, States(a, list, Seq(Words), <<>>, PickStep(inApp))
  PROVE  Pick(list, inApp) = a[Len(list)]
<1> DEFINE V == Seq(Words)
           X == FrameRow
           step == PickStep(inApp)
           n == Len(list)
           F == PickFold(list, inApp)
<1>1. LoopTypes(list, X, V, <<>>, step)
  BY PickTypes
<1>2. n \in Nat /\ DOMAIN list = 1 .. n /\ \A k \in 1 .. n : list[k] \in X
  OBVIOUS
<1>3. \A v \in V, x \in X : step[<<v, x>>] = Picked(v, x, inApp)
  BY DEF PickStep
<1>4. PICK f \in [SUBSET (1 .. n) -> V] : Loops(f, list, <<>>, step)
  <2> HIDE DEF V, X, step
  <2> QED BY <1>1, LoopExists
<1>5. f = [s \in SUBSET (1 .. n) |-> IF s = {} THEN <<>> ELSE step[<<f[s \ {Max(s)}], list[Max(s)]>>]]
  BY <1>4 DEF Loops
<1> HIDE DEF V, X, step, n
<1>6. \A s \in SUBSET (1 .. n) :
        s # {} => Max(s) \in 1 .. n /\ s \ {Max(s)} \in SUBSET (1 .. n)
  BY <1>2, LastIndex
<1>7. \A s \in SUBSET (1 .. n) :
        f[s] = IF s = {} THEN <<>> ELSE Picked(f[s \ {Max(s)}], list[Max(s)], inApp)
  BY <1>2, <1>3, <1>4, <1>5, <1>6
<1>8. f = [s \in SUBSET (1 .. n) |->
             IF s = {} THEN <<>> ELSE Picked(f[s \ {Max(s)}], list[Max(s)], inApp)]
  <2>1. f = [s \in SUBSET (1 .. n) |-> f[s]]
    BY <1>4
  <2> QED BY <1>7, <2>1
<1>9. F = [s \in SUBSET (1 .. n) |->
             IF s = {} THEN <<>> ELSE Picked(F[s \ {Max(s)}], list[Max(s)], inApp)]
  BY <1>2, <1>8 DEF PickFold
<1> HIDE DEF F
<1>10. F[{}] = <<>>
  BY <1>9
<1>11. ASSUME NEW s \in SUBSET (1 .. n), s # {}, F[s \ {Max(s)}] \in V
       PROVE  F[s] = step[<<F[s \ {Max(s)}], list[Max(s)]>>]
  <2>1. F[s] = Picked(F[s \ {Max(s)}], list[Max(s)], inApp)
    BY <1>9, <1>11
  <2> QED BY <1>2, <1>3, <1>6, <1>11, <2>1
<1>12. LoopsIn(F, list, V, <<>>, step)
  BY <1>10, <1>11 DEF LoopsIn, n
<1>13. F[1 .. n] = a[n]
  <2>1. States(a, list, V, <<>>, step)
    BY DEF V, step
  <2> QED BY <1>1, <1>12, <2>1, LoopEnds DEF n
<1> QED BY <1>2, <1>13, PickIsFold DEF F, n

JoinStep(separator) == [a \in Words \X Words |-> a[1] \o <<separator>> \o a[2]]

JoinFold(parts, base, separator) ==
  LET iter[s \in SUBSET DOMAIN parts] ==
        IF s = {} THEN base ELSE LET x == Max(s) IN iter[s \ {x}] \o <<separator>> \o parts[x]
  IN  iter

\* Join is a fold over the parts but the first.
LEMMA JoinIsFold ==
  ASSUME NEW parts, NEW separator
  PROVE  Join(parts, separator) = JoinFold(Tail(parts), Head(parts), separator)[DOMAIN Tail(parts)]
  BY DEF Join, FoldLeft, MapThenFoldSet, JoinFold

\* Texts are joined to a text.
LEMMA JoinTypes ==
  ASSUME NEW list \in Seq(Words), NEW base \in Words, NEW separator \in Separator
  PROVE  LoopTypes(list, Words, Words, base, JoinStep(separator))
<1>1. \A text, part \in Words : text \o <<separator>> \o part \in Words
  <2>1. \A text, part \in Seq(Name \cup Separator), x \in Name \cup Separator :
          text \o <<x>> \o part \in Seq(Name \cup Separator)
    OBVIOUS
  <2> QED BY <2>1 DEF Words
<1>2. \A a \in Words \X Words : a[1] \in Words /\ a[2] \in Words
  OBVIOUS
<1>3. JoinStep(separator) \in [Words \X Words -> Words]
  BY <1>1, <1>2 DEF JoinStep
<1> QED BY <1>3 DEF LoopTypes

\* What is joined is the last state of the loop.
LEMMA JoinEnds ==
  ASSUME NEW list \in Seq(Words), NEW base \in Words, NEW separator \in Separator,
         NEW a, States(a, list, Words, base, JoinStep(separator))
  PROVE  JoinFold(list, base, separator)[DOMAIN list] = a[Len(list)]
<1> DEFINE V == Words
           X == Words
           step == JoinStep(separator)
           n == Len(list)
           F == JoinFold(list, base, separator)
<1>1. LoopTypes(list, X, V, base, step)
  BY JoinTypes
<1>2. n \in Nat /\ DOMAIN list = 1 .. n /\ \A k \in 1 .. n : list[k] \in X
  OBVIOUS
<1>3. \A v \in V, x \in X : step[<<v, x>>] = v \o <<separator>> \o x
  BY DEF JoinStep
<1>4. PICK f \in [SUBSET (1 .. n) -> V] : Loops(f, list, base, step)
  <2> HIDE DEF V, X, step
  <2> QED BY <1>1, LoopExists
<1>5. f = [s \in SUBSET (1 .. n) |-> IF s = {} THEN base ELSE step[<<f[s \ {Max(s)}], list[Max(s)]>>]]
  BY <1>4 DEF Loops
<1> HIDE DEF V, X, step, n
<1>6. \A s \in SUBSET (1 .. n) :
        s # {} => Max(s) \in 1 .. n /\ s \ {Max(s)} \in SUBSET (1 .. n)
  BY <1>2, LastIndex
<1>7. \A s \in SUBSET (1 .. n) :
        f[s] = IF s = {} THEN base ELSE f[s \ {Max(s)}] \o <<separator>> \o list[Max(s)]
  BY <1>2, <1>3, <1>4, <1>5, <1>6
<1>8. f = [s \in SUBSET (1 .. n) |->
             IF s = {} THEN base ELSE f[s \ {Max(s)}] \o <<separator>> \o list[Max(s)]]
  <2>1. f = [s \in SUBSET (1 .. n) |-> f[s]]
    BY <1>4
  <2> QED BY <1>7, <2>1
<1>9. F = [s \in SUBSET (1 .. n) |->
             IF s = {} THEN base ELSE F[s \ {Max(s)}] \o <<separator>> \o list[Max(s)]]
  BY <1>2, <1>8 DEF JoinFold
<1> HIDE DEF F
<1>10. F[{}] = base
  BY <1>9
<1>11. ASSUME NEW s \in SUBSET (1 .. n), s # {}, F[s \ {Max(s)}] \in V
       PROVE  F[s] = step[<<F[s \ {Max(s)}], list[Max(s)]>>]
  <2>1. F[s] = F[s \ {Max(s)}] \o <<separator>> \o list[Max(s)]
    BY <1>9, <1>11
  <2> QED BY <1>2, <1>3, <1>6, <1>11, <2>1
<1>12. LoopsIn(F, list, V, base, step)
  BY <1>10, <1>11 DEF LoopsIn, n
<1>13. F[1 .. n] = a[n]
  <2>1. States(a, list, V, base, step)
    BY DEF V, step
  <2> QED BY <1>1, <1>12, <2>1, LoopEnds DEF n
<1> QED BY <1>2, <1>13 DEF F, n

\* What Join has after each part.
LEMMA JoinIs ==
  ASSUME NEW parts \in Seq(Words), parts # <<>>, NEW separator \in Separator
  PROVE  \E b \in [1 .. Len(parts) -> Words] :
           /\ b[1] = parts[1] /\ Join(parts, separator) = b[Len(parts)]
           /\ \A k \in 2 .. Len(parts) : b[k] = b[k - 1] \o <<separator>> \o parts[k]
<1> DEFINE n == Len(parts)
           rest == Tail(parts)
           base == Head(parts)
<1>1. /\ n \in Nat /\ n >= 1 /\ parts \in [1 .. n -> Words] /\ base = parts[1] /\ base \in Words
      /\ rest \in Seq(Words) /\ Len(rest) = n - 1 /\ DOMAIN rest = 1 .. n - 1
      /\ \A k \in 1 .. n - 1 : rest[k] = parts[k + 1]
  OBVIOUS
<1> HIDE DEF n, rest, base
<1>2. LoopTypes(rest, Words, Words, base, JoinStep(separator))
  BY <1>1, JoinTypes
<1>3. PICK a : States(a, rest, Words, base, JoinStep(separator))
  BY <1>2, StatesExist
<1>4. Join(parts, separator) = a[n - 1]
  <2>1. JoinFold(rest, base, separator)[DOMAIN rest] = a[Len(rest)]
    BY <1>1, <1>3, JoinEnds
  <2> QED BY <1>1, <2>1, JoinIsFold DEF rest, base
<1>5. /\ a \in [0 .. n - 1 -> Words] /\ a[0] = base
      /\ \A k \in 1 .. n - 1 : a[k] = JoinStep(separator)[<<a[k - 1], rest[k]>>]
  BY <1>1, <1>3 DEF States
<1>6. ASSUME NEW k \in 1 .. n - 1 PROVE a[k] = a[k - 1] \o <<separator>> \o parts[k + 1]
  <2>1. a[k - 1] \in Words /\ parts[k + 1] \in Words
    BY <1>1, <1>5
  <2> QED BY <1>1, <1>5, <2>1 DEF JoinStep
<1> DEFINE b == [k \in 1 .. n |-> a[k - 1]]
<1>7. \A k \in 1 .. n : k - 1 \in 0 .. n - 1
  BY <1>1
<1>8. b \in [1 .. n -> Words]
  BY <1>5, <1>7
<1>9. 1 \in 1 .. n /\ n \in 1 .. n /\ 1 - 1 = 0
  BY <1>1
<1>10. b[1] = parts[1] /\ b[n] = a[n - 1]
  BY <1>1, <1>5, <1>9
<1>11. ASSUME NEW k \in 2 .. n PROVE b[k] = b[k - 1] \o <<separator>> \o parts[k]
  <2>1. k \in 1 .. n /\ k - 1 \in 1 .. n /\ k - 1 \in 1 .. n - 1 /\ (k - 1) + 1 = k
    BY <1>1
  <2>2. a[k - 1] = a[(k - 1) - 1] \o <<separator>> \o parts[(k - 1) + 1]
    BY <1>6, <2>1
  <2> QED BY <2>1, <2>2
<1> HIDE DEF b
<1> QED BY <1>4, <1>8, <1>10, <1>11 DEF n

\* A separator does not occur in u.
FreeOf(u, x) == \A i \in 1 .. Len(u) : u[i] # x

\* What lies where in a text with a word x between s and u.
LEMMA Around ==
  ASSUME NEW S, NEW s \in Seq(S), NEW x \in S, NEW u \in Seq(S)
  PROVE  LET r == s \o <<x>> \o u
         IN  /\ r \in Seq(S) /\ Len(s) \in Nat /\ Len(u) \in Nat /\ Len(r) = Len(s) + 1 + Len(u)
             /\ r[Len(s) + 1] = x /\ \A i \in 1 .. Len(s) : r[i] = s[i]
             /\ \A i \in 1 .. Len(u) : r[Len(s) + 1 + i] = u[i]
<1> DEFINE p == s \o <<x>>
           r == p \o u
<1>1. <<x>> \in Seq(S) /\ Len(<<x>>) = 1 /\ <<x>>[1] = x
  OBVIOUS
<1>2. /\ p \in Seq(S) /\ Len(s) \in Nat /\ Len(p) = Len(s) + 1 /\ p[Len(s) + 1] = x
      /\ \A i \in 1 .. Len(s) : p[i] = s[i]
  OBVIOUS
<1> HIDE DEF p
<1>3. /\ r \in Seq(S) /\ Len(u) \in Nat /\ Len(r) = Len(p) + Len(u)
      /\ \A i \in 1 .. Len(p) : r[i] = p[i]
      /\ \A i \in 1 .. Len(u) : r[i + Len(p)] = u[i]
  BY <1>2
<1> HIDE DEF r
<1>4. \A i \in 1 .. Len(s) : i \in 1 .. Len(p)
  BY <1>2
<1>5. Len(s) + 1 \in 1 .. Len(p)
  BY <1>2
<1>6. \A i \in 1 .. Len(u) : Len(s) + 1 + i = i + Len(p)
  BY <1>2
<1>7. Len(r) = Len(s) + 1 + Len(u)
  BY <1>2, <1>3
<1>8. \A i \in 1 .. Len(u) : r[Len(s) + 1 + i] = u[i]
  BY <1>3, <1>6
<1> QED BY <1>2, <1>3, <1>4, <1>5, <1>7, <1>8 DEF r, p

\* What follows the last separator is found again.
LEMMA NotShorter ==
  ASSUME NEW S, NEW x \in S, NEW s \in Seq(S), NEW t \in Seq(S), NEW u \in Seq(S), NEW w \in Seq(S),
         FreeOf(u, x), s \o <<x>> \o u = t \o <<x>> \o w
  PROVE  ~ (Len(s) < Len(t))
<1> DEFINE r == s \o <<x>> \o u
           j == Len(t) - Len(s)
<1>1. /\ Len(s) \in Nat /\ Len(u) \in Nat /\ Len(r) = Len(s) + 1 + Len(u)
      /\ \A i \in 1 .. Len(u) : r[Len(s) + 1 + i] = u[i]
  BY Around
<1>2. LET q == t \o <<x>> \o w
      IN  Len(t) \in Nat /\ Len(w) \in Nat /\ Len(q) = Len(t) + 1 + Len(w) /\ q[Len(t) + 1] = x
  BY Around
<1>3. Len(t) \in Nat /\ Len(w) \in Nat /\ Len(r) = Len(t) + 1 + Len(w) /\ r[Len(t) + 1] = x
  BY <1>2
<1> HIDE DEF r
<1>4. SUFFICES ASSUME Len(s) < Len(t) PROVE FALSE
  OBVIOUS
<1>5. j \in 1 .. Len(u) /\ Len(s) + 1 + j = Len(t) + 1
  BY <1>1, <1>3, <1>4
<1>6. u[j] = x
  BY <1>1, <1>3, <1>5
<1> QED BY <1>5, <1>6 DEF FreeOf

\* Sequences are equal that have the same length and elements.
LEMMA SameSequence ==
  ASSUME NEW S, NEW s \in Seq(S), NEW t \in Seq(S), Len(s) = Len(t), \A i \in 1 .. Len(s) : s[i] = t[i]
  PROVE  s = t
<1>1. s \in [1 .. Len(s) -> S] /\ t \in [1 .. Len(s) -> S]
  OBVIOUS
<1> QED BY <1>1

\* A text is split at the last x in one way.
LEMMA SplitOnce ==
  ASSUME NEW S, NEW x \in S, NEW s \in Seq(S), NEW t \in Seq(S), NEW u \in Seq(S), NEW w \in Seq(S),
         FreeOf(u, x), FreeOf(w, x), s \o <<x>> \o u = t \o <<x>> \o w
  PROVE  s = t /\ u = w
<1> DEFINE r == s \o <<x>> \o u
<1>1. /\ Len(s) \in Nat /\ Len(u) \in Nat /\ Len(r) = Len(s) + 1 + Len(u)
      /\ \A i \in 1 .. Len(s) : r[i] = s[i]
      /\ \A i \in 1 .. Len(u) : r[Len(s) + 1 + i] = u[i]
  BY Around
<1>2. LET q == t \o <<x>> \o w
      IN  /\ Len(t) \in Nat /\ Len(w) \in Nat /\ Len(q) = Len(t) + 1 + Len(w)
          /\ \A i \in 1 .. Len(t) : q[i] = t[i]
          /\ \A i \in 1 .. Len(w) : q[Len(t) + 1 + i] = w[i]
  BY Around
<1>3. /\ Len(t) \in Nat /\ Len(w) \in Nat /\ Len(r) = Len(t) + 1 + Len(w)
      /\ \A i \in 1 .. Len(t) : r[i] = t[i]
      /\ \A i \in 1 .. Len(w) : r[Len(t) + 1 + i] = w[i]
  BY <1>2
<1> HIDE DEF r
<1>4. ~ (Len(s) < Len(t)) /\ ~ (Len(t) < Len(s))
  BY NotShorter
<1>5. Len(s) = Len(t) /\ Len(u) = Len(w)
  BY <1>1, <1>3, <1>4
<1>6. \A i \in 1 .. Len(s) : s[i] = t[i]
  BY <1>1, <1>3, <1>5
<1>7. \A i \in 1 .. Len(u) : u[i] = w[i]
  BY <1>1, <1>3, <1>5
<1>8. s = t
  BY <1>5, <1>6, SameSequence
<1>9. u = w
  BY <1>5, <1>7, SameSequence
<1> QED BY <1>8, <1>9

\* A text without x is not one with it.
LEMMA NoSplit ==
  ASSUME NEW S, NEW x \in S, NEW s \in Seq(S), NEW u \in Seq(S), NEW w, FreeOf(w, x),
         s \o <<x>> \o u = w
  PROVE  FALSE
<1> DEFINE r == s \o <<x>> \o u
<1>1. Len(s) \in Nat /\ Len(u) \in Nat /\ Len(r) = Len(s) + 1 + Len(u) /\ r[Len(s) + 1] = x
  BY Around
<1>2. r = w
  OBVIOUS
<1> HIDE DEF r
<1>3. Len(s) + 1 \in 1 .. Len(w)
  BY <1>1, <1>2
<1> QED BY <1>1, <1>2, <1>3 DEF FreeOf

\* The parts of a joined text are found again.
LEMMA JoinInjective ==
  ASSUME NEW parts \in Seq(Words), parts # <<>>, NEW others \in Seq(Words), others # <<>>,
         NEW x \in Separator,
         \A i \in 1 .. Len(parts) : FreeOf(parts[i], x),
         \A i \in 1 .. Len(others) : FreeOf(others[i], x),
         Join(parts, x) = Join(others, x)
  PROVE  parts = others
<1> DEFINE n == Len(parts)
           m == Len(others)
<1>1. /\ n \in Nat /\ n >= 1 /\ parts \in [1 .. n -> Words]
      /\ m \in Nat /\ m >= 1 /\ others \in [1 .. m -> Words]
      /\ (\A i \in 1 .. n : FreeOf(parts[i], x)) /\ (\A i \in 1 .. m : FreeOf(others[i], x))
  OBVIOUS
<1>2. PICK b \in [1 .. n -> Words] :
        /\ b[1] = parts[1] /\ Join(parts, x) = b[n]
        /\ \A k \in 2 .. n : b[k] = b[k - 1] \o <<x>> \o parts[k]
  BY JoinIs
<1>3. PICK c \in [1 .. m -> Words] :
        /\ c[1] = others[1] /\ Join(others, x) = c[m]
        /\ \A k \in 2 .. m : c[k] = c[k - 1] \o <<x>> \o others[k]
  BY JoinIs
<1> HIDE DEF n, m
<1> DEFINE Same(k) == \A l \in 1 .. m : b[k] = c[l] => k = l /\ \A i \in 1 .. k : parts[i] = others[i]
           T == {k \in Nat : k \in 1 .. n => Same(k)}
           W == Name \cup Separator
<1>4. Words = Seq(W) /\ x \in W
  BY DEF Words
<1> HIDE DEF W
<1>5. ASSUME NEW k \in 2 .. n
      PROVE  /\ b[k] = b[k - 1] \o <<x>> \o parts[k] /\ b[k - 1] \in Seq(W) /\ parts[k] \in Seq(W)
             /\ FreeOf(parts[k], x)
  <2>1. k \in 1 .. n /\ k - 1 \in 1 .. n
    BY <1>1
  <2> QED BY <1>1, <1>2, <1>4, <2>1
<1>6. ASSUME NEW k \in 2 .. m
      PROVE  /\ c[k] = c[k - 1] \o <<x>> \o others[k] /\ c[k - 1] \in Seq(W) /\ others[k] \in Seq(W)
             /\ FreeOf(others[k], x)
  <2>1. k \in 1 .. m /\ k - 1 \in 1 .. m
    BY <1>1
  <2> QED BY <1>1, <1>3, <1>4, <2>1
<1>7. FreeOf(b[1], x) /\ FreeOf(c[1], x) /\ 1 \in 1 .. n /\ 1 \in 1 .. m
  BY <1>1, <1>2, <1>3
<1>8. ASSUME NEW k \in 2 .. n, b[k] = c[1] PROVE FALSE
  <2> DEFINE s == b[k - 1]
             u == parts[k]
             w == c[1]
  <2>1. s \in Seq(W) /\ u \in Seq(W) /\ s \o <<x>> \o u = w
    BY <1>5, <1>8
  <2> HIDE DEF s, u, w
  <2> QED BY <1>4, <1>7, <2>1, NoSplit DEF w
<1>9. ASSUME NEW k \in 2 .. m, c[k] = b[1] PROVE FALSE
  <2> DEFINE s == c[k - 1]
             u == others[k]
             w == b[1]
  <2>1. s \in Seq(W) /\ u \in Seq(W) /\ s \o <<x>> \o u = w
    BY <1>6, <1>9
  <2> HIDE DEF s, u, w
  <2> QED BY <1>4, <1>7, <2>1, NoSplit DEF w
<1>10. ASSUME NEW k \in 2 .. n, NEW l \in 2 .. m, b[k] = c[l]
       PROVE  b[k - 1] = c[l - 1] /\ parts[k] = others[l]
  <2> DEFINE s == b[k - 1]
             u == parts[k]
             t == c[l - 1]
             w == others[l]
  <2>1. /\ s \in Seq(W) /\ u \in Seq(W) /\ t \in Seq(W) /\ w \in Seq(W)
        /\ FreeOf(u, x) /\ FreeOf(w, x)
        /\ s \o <<x>> \o u = t \o <<x>> \o w
    BY <1>5, <1>6, <1>10
  <2>2. s = t /\ u = w
    <3> HIDE DEF s, t, u, w
    <3> QED BY <1>4, <2>1, SplitOnce
  <2> QED BY <2>2
<1>11. Same(1)
  <2> SUFFICES ASSUME NEW l \in 1 .. m, b[1] = c[l]
               PROVE  1 = l /\ \A i \in 1 .. 1 : parts[i] = others[i]
    OBVIOUS
  <2>1. l = 1
    <3>1. l = 1 \/ l \in 2 .. m
      BY <1>1
    <3> QED BY <1>9, <3>1
  <2>2. parts[1] = others[1]
    BY <1>2, <1>3, <2>1
  <2>3. \A i \in 1 .. 1 : i = 1
    OBVIOUS
  <2> QED BY <2>1, <2>2, <2>3
<1>12. ASSUME NEW k \in Nat, k >= 1, k + 1 \in 1 .. n, Same(k) PROVE Same(k + 1)
  <2> SUFFICES ASSUME NEW l \in 1 .. m, b[k + 1] = c[l]
               PROVE  k + 1 = l /\ \A i \in 1 .. k + 1 : parts[i] = others[i]
    OBVIOUS
  <2>1. k + 1 \in 2 .. n /\ (k + 1) - 1 = k
    BY <1>1, <1>12
  <2>2. l \in 2 .. m
    <3>1. l = 1 \/ l \in 2 .. m
      BY <1>1
    <3> QED BY <1>8, <2>1, <3>1
  <2>3. b[k] = c[l - 1] /\ parts[k + 1] = others[l]
    BY <1>10, <2>1, <2>2
  <2>4. l - 1 \in 1 .. m
    BY <1>1, <2>2
  <2>5. k = l - 1 /\ \A i \in 1 .. k : parts[i] = others[i]
    BY <1>12, <2>3, <2>4
  <2>6. k + 1 = l
    BY <2>2, <2>5
  <2>7. \A i \in 1 .. k + 1 : i \in 1 .. k \/ i = k + 1
    BY <1>12
  <2> QED BY <2>3, <2>5, <2>6, <2>7
<1> HIDE DEF Same
<1>13. 0 \in T
  OBVIOUS
<1>14. ASSUME NEW k \in T PROVE k + 1 \in T
  <2>1. k \in Nat /\ (k \in 1 .. n => Same(k)) /\ k + 1 \in Nat
    OBVIOUS
  <2> SUFFICES ASSUME k + 1 \in 1 .. n PROVE Same(k + 1)
    BY <2>1
  <2>2. CASE k = 0
    <3>1. k + 1 = 1
      BY <2>2
    <3> QED BY <1>11, <3>1
  <2>3. CASE k # 0
    <3>1. k >= 1 /\ k \in 1 .. n
      BY <1>1, <2>1, <2>3
    <3> QED BY <1>12, <2>1, <3>1
  <2> QED BY <2>2, <2>3
<1>15. T \in SUBSET Nat
  OBVIOUS
<1>16. T = Nat
  <2> HIDE DEF T
  <2> QED BY <1>13, <1>14, <1>15, AllNaturals
<1>17. Same(n) /\ n \in 1 .. n /\ m \in 1 .. m
  BY <1>1, <1>16
<1>18. b[n] = c[m]
  BY <1>2, <1>3
<1>19. n = m /\ \A i \in 1 .. n : parts[i] = others[i]
  BY <1>17, <1>18 DEF Same
<1> QED BY <1>1, <1>19

(***************************************************************************)
(* Each run of one key is kept once: U are the indices of the keys that    *)
(* count, K the lists kept of the first ones.                              *)
(***************************************************************************)
Keeps(K, n, U, key, W) ==
  /\ K \in [0 .. n -> Seq(W)] /\ K[0] = <<>> /\ U \in SUBSET (1 .. n) /\ key \in [U -> W]
  /\ \A k \in 1 .. n :
       K[k] = IF k \in U /\ ~ (K[k - 1] # <<>> /\ Last(K[k - 1]) = key[k])
              THEN Append(K[k - 1], key[k]) ELSE K[k - 1]

\* The first of each run.
Firsts(U, key) ==
  {i \in U : \A j \in U : j < i => key[j] # key[i] \/ \E k \in U : j < k /\ k < i /\ key[k] # key[i]}

\* m is the last of the first k that counts.
Latest(U, k, m) == m \in U /\ m <= k /\ \A i \in U : i <= k => i <= m

Through(S, k) == {i \in S : i <= k}

\* A number above all others comes last.
LEMMA SortedAppend ==
  ASSUME NEW S \in SUBSET Int, NEW q, SortedAs(S, q), NEW x \in Int, \A i \in S : i < x
  PROVE  SortedAs(S \cup {x}, Append(q, x))
<1> DEFINE n == Len(q)
           r == Append(q, x)
           T == S \cup {x}
<1>1. q \in Seq(S) /\ n \in Nat /\ DOMAIN q = 1 .. n /\ \A i \in 1 .. n : q[i] \in S
  BY DEF SortedAs
<1>2. q \in Seq(T) /\ x \in T
  BY <1>1
<1>3. /\ r \in Seq(T) /\ DOMAIN r = 1 .. n + 1 /\ r[n + 1] = x /\ \A i \in 1 .. n : r[i] = q[i]
  <2> HIDE DEF T
  <2> QED BY <1>2, Added
<1> HIDE DEF r, n
<1>4. \A i \in 1 .. n + 1 : i \in 1 .. n \/ i = n + 1
  BY <1>1
<1>5. n + 1 \in 1 .. n + 1 /\ \A i \in 1 .. n : i \in 1 .. n + 1
  BY <1>1
<1>6. \A y \in T : \E k \in DOMAIN r : r[k] = y
  <2>1. \A y \in S : \E k \in 1 .. n : q[k] = y
    BY <1>1 DEF SortedAs
  <2> QED BY <1>3, <1>5, <2>1
<1>7. ASSUME NEW i \in DOMAIN r, NEW j \in DOMAIN r, i < j PROVE r[i] < r[j]
  <2>1. i \in 1 .. n /\ (j \in 1 .. n \/ j = n + 1)
    BY <1>1, <1>3, <1>7
  <2>2. CASE j \in 1 .. n
    <3>1. q[i] < q[j]
      BY <1>1, <1>7, <2>1, <2>2 DEF SortedAs
    <3> QED BY <1>3, <2>1, <2>2, <3>1
  <2>3. CASE j = n + 1
    BY <1>1, <1>3, <2>1, <2>3
  <2> QED BY <2>1, <2>2, <2>3
<1> QED BY <1>3, <1>6, <1>7 DEF SortedAs, r

\* What is kept of the first k keys is that of the sorted first indices.
KeptAre(K, U, key, k) ==
  /\ \E q : /\ SortedAs(Through(Firsts(U, key), k), q)
            /\ K[k] = [i \in 1 .. Len(q) |-> key[q[i]]]
  /\ \/ K[k] = <<>> /\ \A i \in U : k < i
     \/ K[k] # <<>> /\ \E m \in U : Latest(U, k, m) /\ Last(K[k]) = key[m]

\* Nothing is kept of nothing.
LEMMA KeptStart ==
  ASSUME NEW K, NEW n \in Nat, NEW U, NEW key, NEW W, Keeps(K, n, U, key, W)
  PROVE  KeptAre(K, U, key, 0)
<1>1. K[0] = <<>> /\ U \in SUBSET (1 .. n)
  BY DEF Keeps
<1>2. \A i \in U : i \in Nat /\ 0 < i /\ ~ (i <= 0)
  BY <1>1
<1>3. Through(Firsts(U, key), 0) = {}
  BY <1>1, <1>2 DEF Through, Firsts
<1>4. SortedAs({}, <<>>)
  <2>1. <<>> \in Seq({}) /\ DOMAIN <<>> = {}
    OBVIOUS
  <2> QED BY <2>1 DEF SortedAs
<1>5. <<>> = [i \in 1 .. Len(<<>>) |-> key[<<>>[i]]]
  <2>1. 1 .. Len(<<>>) = {}
    OBVIOUS
  <2> QED BY <2>1
<1>6. \E q : /\ SortedAs(Through(Firsts(U, key), 0), q)
            /\ K[0] = [i \in 1 .. Len(q) |-> key[q[i]]]
  BY <1>1, <1>3, <1>4, <1>5
<1> QED BY <1>1, <1>2, <1>6 DEF KeptAre

\* The next key is kept unless it is that of the one before it that counts.
LEMMA KeptStep ==
  ASSUME NEW K, NEW n \in Nat, NEW U, NEW key, NEW W, Keeps(K, n, U, key, W),
         NEW j \in Nat, j + 1 \in 1 .. n, KeptAre(K, U, key, j)
  PROVE  KeptAre(K, U, key, j + 1)
<1> DEFINE k == j + 1
           F == Firsts(U, key)
<1>1. /\ U \in SUBSET (1 .. n) /\ key \in [U -> W] /\ K[j] \in Seq(W)
      /\ K[k] = IF k \in U /\ ~ (K[j] # <<>> /\ Last(K[j]) = key[k])
                THEN Append(K[j], key[k]) ELSE K[j]
  <2>1. k \in 1 .. n /\ k - 1 = j /\ j \in 0 .. n
    OBVIOUS
  <2> QED BY <2>1 DEF Keeps
<1>2. F \in SUBSET U
  BY DEF Firsts
<1>3. PICK q : SortedAs(Through(F, j), q) /\ K[j] = [i \in 1 .. Len(q) |-> key[q[i]]]
  BY DEF KeptAre
<1>4. \/ K[j] = <<>> /\ \A i \in U : j < i
      \/ K[j] # <<>> /\ \E m \in U : Latest(U, j, m) /\ Last(K[j]) = key[m]
  BY DEF KeptAre
<1>5. \A i \in U : i \in Nat /\ (i <= k <=> i <= j \/ i = k) /\ ~ (k <= j) /\ (k < i <=> j < i /\ i # k)
  BY <1>1
<1>6. k \in Nat /\ j < k
  OBVIOUS
<1> HIDE DEF k
<1>7. CASE k \notin U
  <2>1. K[k] = K[j]
    BY <1>1, <1>7
  <2>2. Through(F, k) = Through(F, j)
    BY <1>2, <1>5, <1>7 DEF Through
  <2>3. \A m : Latest(U, j, m) => Latest(U, k, m)
    BY <1>5, <1>7 DEF Latest
  <2>4. (\A i \in U : j < i) => \A i \in U : k < i
    BY <1>5, <1>7
  <2>5. \E r : SortedAs(Through(F, k), r) /\ K[k] = [i \in 1 .. Len(r) |-> key[r[i]]]
    BY <1>3, <2>1, <2>2
  <2> HIDE DEF F
  <2>6. \/ K[k] = <<>> /\ \A i \in U : k < i
        \/ K[k] # <<>> /\ \E m \in U : Latest(U, k, m) /\ Last(K[k]) = key[m]
    BY <1>4, <2>1, <2>3, <2>4
  <2> QED BY <2>5, <2>6 DEF KeptAre, F, k
<1>8. CASE k \in U /\ K[j] # <<>> /\ Last(K[j]) = key[k]
  <2>1. K[k] = K[j]
    BY <1>1, <1>8
  <2>2. PICK m \in U : Latest(U, j, m) /\ Last(K[j]) = key[m]
    BY <1>4, <1>8
  <2>3. m < k /\ key[m] = key[k] /\ \A i \in U : ~ (m < i /\ i < k)
    BY <1>5, <1>6, <1>8, <2>2 DEF Latest
  <2>4. k \notin F
    BY <1>8, <2>2, <2>3 DEF Firsts
  <2>5. Through(F, k) = Through(F, j)
    BY <1>2, <1>5, <2>4 DEF Through
  <2>6. Latest(U, k, k)
    BY <1>5, <1>6, <1>8 DEF Latest
  <2>7. \E r : SortedAs(Through(F, k), r) /\ K[k] = [i \in 1 .. Len(r) |-> key[r[i]]]
    BY <1>3, <2>1, <2>5
  <2> HIDE DEF F
  <2>8. K[k] # <<>> /\ \E l \in U : Latest(U, k, l) /\ Last(K[k]) = key[l]
    BY <1>8, <2>1, <2>6
  <2> QED BY <2>7, <2>8 DEF KeptAre, F, k
<1>9. CASE k \in U /\ ~ (K[j] # <<>> /\ Last(K[j]) = key[k])
  <2> DEFINE v == key[k]
             r == Append(q, k)
             S == Through(F, j)
  <2>1. K[k] = Append(K[j], v) /\ v \in W
    BY <1>1, <1>9
  <2>2. k \in F
    <3>1. CASE \A i \in U : j < i
      <4>1. \A i \in U : ~ (i < k)
        BY <1>5, <1>6, <3>1 DEF k
      <4> QED BY <1>9, <4>1 DEF Firsts
    <3>2. CASE K[j] # <<>> /\ \E m \in U : Latest(U, j, m) /\ Last(K[j]) = key[m]
      <4>1. PICK m \in U : Latest(U, j, m) /\ Last(K[j]) = key[m]
        BY <3>2
      <4>2. key[m] # key[k] /\ m < k
        BY <1>5, <1>6, <1>9, <3>2, <4>1 DEF Latest
      <4>3. ASSUME NEW i \in U, i < k
            PROVE  key[i] # key[k] \/ \E l \in U : i < l /\ l < k /\ key[l] # key[k]
        <5>1. i <= j
          BY <1>5, <4>3 DEF k
        <5>2. i = m \/ i < m
          BY <1>5, <4>1, <5>1 DEF Latest
        <5> QED BY <4>1, <4>2, <5>2
      <4> QED BY <1>9, <4>3 DEF Firsts
    <3> QED BY <1>4, <3>1, <3>2
  <2>3. Through(F, k) = S \cup {k}
    BY <1>2, <1>5, <1>6, <2>2 DEF Through
  <2>4. S \in SUBSET Int /\ (\A i \in S : i < k) /\ k \in Int
    BY <1>2, <1>5, <1>6 DEF Through, k
  <2>5. S \in SUBSET U
    BY <1>2 DEF Through
  <2>6. SortedAs(S, q)
    BY <1>3
  <2> HIDE DEF F, S, r, v
  <2>7. SortedAs(S \cup {k}, Append(q, k))
    BY <2>4, <2>6, SortedAppend
  <2>8. q \in Seq(S)
    BY <2>6 DEF SortedAs
  <2> DEFINE d == Len(q)
  <2>9. q \in Seq(U) /\ d \in Nat /\ \A i \in 1 .. d : q[i] \in U
    BY <2>5, <2>8
  <2>10. Len(r) = d + 1 /\ r[d + 1] = k /\ \A i \in 1 .. d : r[i] = q[i]
    BY <1>9, <2>9, Added DEF r
  <2>11. K[j] = [i \in 1 .. d |-> key[q[i]]]
    BY <1>3
  <2> HIDE DEF d
  <2>12. Len(K[j]) = d /\ \A i \in 1 .. d : K[j][i] = key[q[i]]
    BY <1>1, <2>9, <2>11
  <2> DEFINE a == [i \in 1 .. d + 1 |-> key[r[i]]]
  <2>13. \A i \in 1 .. d + 1 : i \in 1 .. d \/ i = d + 1
    BY <2>9
  <2>14. a \in [1 .. d + 1 -> W]
    BY <1>1, <1>9, <2>9, <2>10, <2>13
  <2>15. a[d + 1] = v /\ \A i \in 1 .. d : a[i] = key[q[i]]
    BY <2>9, <2>10 DEF v
  <2> HIDE DEF a
  <2>16. Append([i \in 1 .. d |-> a[i]], a[d + 1]) = a
    BY <2>9, <2>14, AppendIs
  <2>17. [i \in 1 .. d |-> a[i]] = K[j]
    BY <2>11, <2>15
  <2>18. K[k] = a
    BY <2>1, <2>15, <2>16, <2>17
  <2>19. K[k] = [i \in 1 .. Len(r) |-> key[r[i]]]
    BY <2>10, <2>18 DEF a
  <2>20. SortedAs(Through(F, k), r)
    BY <2>3, <2>7 DEF r
  <2>21. Latest(U, k, k)
    BY <1>5, <1>6, <1>9 DEF Latest
  <2>22. K[k] # <<>> /\ Last(K[k]) = key[k]
    <3>1. Len(K[k]) = d + 1 /\ K[k] \in Seq(W)
      BY <2>9, <2>14, <2>18
    <3> QED BY <2>9, <2>15, <2>18, <3>1 DEF Last, v
  <2>23. K[k] # <<>> /\ \E m \in U : Latest(U, k, m) /\ Last(K[k]) = key[m]
    BY <1>9, <2>21, <2>22
  <2> HIDE DEF Latest
  <2> QED BY <2>19, <2>20, <2>23 DEF KeptAre, F, k
<1> QED BY <1>7, <1>8, <1>9

\* What is kept of all keys: those at the first index of each run.
LEMMA KeptAll ==
  ASSUME NEW K, NEW n \in Nat, NEW U, NEW key, NEW W, Keeps(K, n, U, key, W)
  PROVE  LET order == Ascending(Firsts(U, key))
         IN  /\ order \in Seq(U) /\ K[n] = [i \in 1 .. Len(order) |-> key[order[i]]]
             /\ K[n] = <<>> <=> U = {}
<1> DEFINE T == {k \in Nat : k <= n => KeptAre(K, U, key, k)}
           F == Firsts(U, key)
<1>1. 0 \in T
  BY KeptStart
<1>2. ASSUME NEW k \in T PROVE k + 1 \in T
  <2> SUFFICES ASSUME k + 1 <= n PROVE KeptAre(K, U, key, k + 1)
    OBVIOUS
  <2>1. k \in Nat /\ k + 1 \in 1 .. n /\ KeptAre(K, U, key, k)
    OBVIOUS
  <2> QED BY <2>1, KeptStep
<1>3. T \in SUBSET Nat
  OBVIOUS
<1>4. T = Nat
  <2> HIDE DEF T
  <2> QED BY <1>1, <1>2, <1>3, AllNaturals
<1>5. KeptAre(K, U, key, n)
  BY <1>4
<1>6. U \in SUBSET (1 .. n)
  BY DEF Keeps
<1>7. Through(F, n) = F /\ F \in SUBSET Int
  <2>1. F \in SUBSET (1 .. n)
    BY <1>6 DEF Firsts
  <2> HIDE DEF F
  <2>2. \A i \in F : i \in Int /\ i <= n
    BY <2>1
  <2> QED BY <2>2 DEF Through
<1>8. PICK q : SortedAs(F, q) /\ K[n] = [i \in 1 .. Len(q) |-> key[q[i]]]
  BY <1>5, <1>7 DEF KeptAre
<1>9. Ascending(F) = q
  <2> HIDE DEF F
  <2> QED BY <1>7, <1>8, SortedOnce
<1>10. K[n] = <<>> <=> U = {}
  <2>1. \A i \in U : i <= n /\ ~ (n < i)
    BY <1>6
  <2>2. \/ K[n] = <<>> /\ \A i \in U : n < i
        \/ K[n] # <<>> /\ \E m \in U : Latest(U, n, m) /\ Last(K[n]) = key[m]
    BY <1>5 DEF KeptAre
  <2> HIDE DEF Latest, Last
  <2> QED BY <2>1, <2>2
<1>11. q \in Seq(U)
  <2>1. q \in Seq(F) /\ F \in SUBSET U
    BY <1>8 DEF SortedAs, Firsts
  <2> HIDE DEF F
  <2> QED BY <2>1
<1> QED BY <1>8, <1>9, <1>10, <1>11

(***************************************************************************)
(* The frames that are chosen, of those that were sent.                    *)
(***************************************************************************)
LEMMA PickAppend ==
  ASSUME NEW s \in Seq(FrameRow), NEW f \in FrameRow, NEW o
  PROVE  /\ Pick(Append(s, f), o) = Picked(Pick(s, o), f, o)
         /\ Pick(s, o) \in Seq(Words)
<1> DEFINE n == Len(s)
           t == Append(s, f)
           V == Seq(Words)
           step == PickStep(o)
<1>1. /\ n \in Nat /\ t \in Seq(FrameRow) /\ Len(t) = n + 1 /\ t[n + 1] = f
      /\ \A k \in 1 .. n : t[k] = s[k]
  BY Added
<1>2. \A v \in V : step[<<v, f>>] = Picked(v, f, o)
  BY DEF PickStep
<1> HIDE DEF n, t, V, step
<1>3. PICK a : States(a, t, V, <<>>, step)
  <2>1. LoopTypes(t, FrameRow, V, <<>>, step)
    BY <1>1, PickTypes DEF V, step
  <2> QED BY <2>1, StatesExist
<1>4. /\ a \in [0 .. n + 1 -> V] /\ a[0] = <<>>
      /\ \A k \in 1 .. n + 1 : a[k] = step[<<a[k - 1], t[k]>>]
  BY <1>1, <1>3 DEF States
<1>5. Pick(t, o) = a[n + 1]
  BY <1>1, <1>3, PickEnds DEF V, step
<1> DEFINE b == [k \in 0 .. n |-> a[k]]
<1>6. \A k \in 0 .. n : k \in 0 .. n + 1 /\ a[k] \in V
  BY <1>1, <1>4
<1>7. b \in [0 .. n -> V] /\ b[0] = <<>>
  BY <1>1, <1>4, <1>6
<1>8. ASSUME NEW k \in 1 .. n PROVE b[k] = step[<<b[k - 1], s[k]>>]
  <2>1. k \in 0 .. n /\ k - 1 \in 0 .. n /\ k \in 1 .. n + 1
    BY <1>1
  <2>2. b[k] = a[k] /\ b[k - 1] = a[k - 1] /\ t[k] = s[k]
    BY <1>1, <2>1
  <2> QED BY <1>4, <2>1, <2>2
<1>9. States(b, s, V, <<>>, step)
  <2> HIDE DEF b
  <2> QED BY <1>7, <1>8 DEF States, n
<1>10. Pick(s, o) = b[n]
  <2> HIDE DEF b
  <2> QED BY <1>9, PickEnds DEF V, step, n
<1>11. n \in 0 .. n /\ n + 1 \in 1 .. n + 1 /\ (n + 1) - 1 = n
  BY <1>1
<1>12. Pick(s, o) = a[n] /\ a[n] \in V
  BY <1>6, <1>10, <1>11
<1>13. a[n + 1] = step[<<a[n], f>>]
  BY <1>1, <1>4, <1>11
<1> QED BY <1>2, <1>5, <1>12, <1>13 DEF t, V

\* Nothing is picked of no frames.
LEMMA PickNone ==
  ASSUME NEW o
  PROVE  Pick(<<>>, o) = <<>>
<1> DEFINE V == Seq(Words)
           step == PickStep(o)
           none == <<>>
<1>1. none \in Seq(FrameRow) /\ Len(none) = 0
  OBVIOUS
<1>2. LoopTypes(none, FrameRow, V, <<>>, step)
  <2> HIDE DEF none
  <2> QED BY <1>1, PickTypes
<1> HIDE DEF V, step, none
<1>3. PICK a : States(a, none, V, <<>>, step)
  BY <1>2, StatesExist
<1>4. Pick(none, o) = a[0]
  BY <1>1, <1>3, PickEnds DEF V, step
<1> QED BY <1>3, <1>4 DEF States, none

\* The frames with a name, in the list as it was sent, and those of them marked o.
Named(l) ==
  {i \in DOMAIN l : l[i] \notin {Undecodable, Null} /\ l[i].function \notin Nameless}

Marked(l, o) == {i \in Named(l) : l[i].inApp = o}

Kept(l, o) == [i \in Marked(l, o) |-> FrameKey(l[i])]

\* What null is read as is a frame.
LEMMA NoFrameRow == NoFrame \in FrameRow
  BY FingerprintsAssumption DEF NoFrame, FrameRow

\* What an entry, of any kind, adds to the keys picked.
LEMMA EntryKept ==
  ASSUME NEW D \in Seq(FrameRow), NEW x \in Entry(FrameRow), NEW o,
         NEW used, used <=> /\ x \notin {Undecodable, Null}
                            /\ x.function \notin Nameless /\ x.inApp = o
  PROVE  LET K == Pick(D, o)
         IN  Pick(Decoded(D, x, NoFrame), o) =
               IF used /\ ~ (K # <<>> /\ Last(K) = FrameKey(x)) THEN Append(K, FrameKey(x)) ELSE K
<1> DEFINE K == Pick(D, o)
<1>1. K \in Seq(Words)
  BY NoFrameRow, PickAppend
<1>2. CASE x = Undecodable
  BY <1>1, <1>2 DEF Decoded
<1>3. CASE x # Undecodable /\ x = Null
  <2>1. Pick(Decoded(D, x, NoFrame), o) = Picked(K, NoFrame, o)
    BY <1>3, NoFrameRow, PickAppend DEF Decoded
  <2>2. Picked(K, NoFrame, o) = K
    BY DEF Picked, NoFrame, Nameless
  <2> QED BY <1>1, <1>3, <2>1, <2>2
<1>4. CASE x # Undecodable /\ x # Null
  <2>1. x \in FrameRow
    BY <1>4 DEF Entry
  <2>2. Pick(Decoded(D, x, NoFrame), o) = Picked(K, x, o)
    BY <1>4, <2>1, PickAppend DEF Decoded
  <2> QED BY <1>1, <1>4, <2>1, <2>2 DEF Picked
<1> QED BY <1>2, <1>3, <1>4

\* Decoding and picking keep each run of a key once.
LEMMA PickKeeps ==
  ASSUME NEW l \in Seq(Entry(FrameRow)), NEW o
  PROVE  \E K : /\ Keeps(K, Len(l), Marked(l, o), Kept(l, o), Words)
                /\ Pick(decodeEach(l, NoFrame), o) = K[Len(l)]
<1> DEFINE n == Len(l)
           V == Seq(FrameRow)
           step == DecodeStep(FrameRow, NoFrame)
           U == Marked(l, o)
           key == Kept(l, o)
<1>1. n \in Nat /\ DOMAIN l = 1 .. n /\ \A k \in 1 .. n : l[k] \in Entry(FrameRow)
  OBVIOUS
<1>2. \A D \in V, x \in Entry(FrameRow) : step[<<D, x>>] = Decoded(D, x, NoFrame)
  BY DEF DecodeStep
<1>3. /\ U \in SUBSET (1 .. n)
      /\ \A k \in 1 .. n : k \in U <=> /\ l[k] \notin {Undecodable, Null}
                                       /\ l[k].function \notin Nameless /\ l[k].inApp = o
  BY <1>1 DEF Marked, Named
<1>4. key \in [U -> Words] /\ \A k \in U : key[k] = FrameKey(l[k])
  <2>1. \A k \in U : l[k] \in FrameRow
    BY <1>1, <1>3 DEF Entry
  <2>2. \A k \in U : FrameKey(l[k]) \in Words
    BY <2>1, KeyWords
  <2> QED BY <2>2 DEF Kept
<1> HIDE DEF n, V, step, U, key
<1>5. PICK D : States(D, l, V, <<>>, step)
  <2>1. LoopTypes(l, Entry(FrameRow), V, <<>>, step)
    BY NoFrameRow, DecodeTypes DEF V, step
  <2> QED BY <2>1, StatesExist
<1>6. /\ D \in [0 .. n -> V] /\ D[0] = <<>>
      /\ \A k \in 1 .. n : D[k] = step[<<D[k - 1], l[k]>>]
  BY <1>5 DEF States, n
<1>7. decodeEach(l, NoFrame) = D[n]
  BY <1>5, NoFrameRow, DecodeEnds DEF V, step, n
<1> DEFINE K == [k \in 0 .. n |-> Pick(D[k], o)]
<1>8. \A s \in V : Pick(s, o) \in Seq(Words)
  BY NoFrameRow, PickAppend DEF V
<1>9. K \in [0 .. n -> Seq(Words)] /\ K[0] = <<>>
  BY <1>1, <1>6, <1>8, PickNone
<1>10. ASSUME NEW k \in 1 .. n
       PROVE  K[k] = IF k \in U /\ ~ (K[k - 1] # <<>> /\ Last(K[k - 1]) = key[k])
                     THEN Append(K[k - 1], key[k]) ELSE K[k - 1]
  <2> DEFINE E == D[k - 1]
             x == l[k]
             J == Pick(E, o)
             used == k \in U
  <2>1. k \in 0 .. n /\ k - 1 \in 0 .. n
    BY <1>1
  <2>2. K[k] = Pick(D[k], o) /\ K[k - 1] = J
    BY <2>1
  <2>3. E \in Seq(FrameRow) /\ x \in Entry(FrameRow) /\ D[k] = Decoded(E, x, NoFrame)
    BY <1>1, <1>2, <1>6, <2>1 DEF V
  <2>4. used <=> x \notin {Undecodable, Null} /\ x.function \notin Nameless /\ x.inApp = o
    BY <1>3
  <2> HIDE DEF E, x, J, K, used
  <2>5. Pick(Decoded(E, x, NoFrame), o) =
          IF used /\ ~ (J # <<>> /\ Last(J) = FrameKey(x)) THEN Append(J, FrameKey(x)) ELSE J
    BY <2>3, <2>4, EntryKept DEF J
  <2>6. used => key[k] = FrameKey(x)
    BY <1>4 DEF used, x
  <2> HIDE DEF Last
  <2>7. K[k] = IF used /\ ~ (J # <<>> /\ Last(J) = key[k]) THEN Append(J, key[k]) ELSE J
    BY <2>2, <2>3, <2>5, <2>6
  <2> QED BY <2>2, <2>7 DEF used
<1>11. Keeps(K, n, U, key, Words)
  <2> HIDE DEF K
  <2> QED BY <1>3, <1>4, <1>9, <1>10 DEF Keeps
<1>12. K[n] = Pick(D[n], o)
  BY <1>1
<1> HIDE DEF K
<1> QED BY <1>7, <1>11, <1>12 DEF n, U, key

(***************************************************************************)
(* The keys of the frames are the calls, spelled.                          *)
(***************************************************************************)
CallKey(c) == (IF c[1] = "" THEN <<>> ELSE <<c[1], ".">>) \o <<c[2]>>

\* The key of a call tells its module and function.
LEMMA CallKeyOnce ==
  ASSUME NEW c \in Name \X Name, NEW d \in Name \X Name, CallKey(c) = CallKey(d)
  PROVE  c = d
<1>1. "." \notin Name
  BY FingerprintsAssumption DEF Separator
<1> DEFINE long(x, y) == <<x, ".">> \o <<y>>
           short(y) == <<>> \o <<y>>
<1>2. \A x, y : Len(long(x, y)) = 3 /\ long(x, y)[1] = x /\ long(x, y)[3] = y
  OBVIOUS
<1>3. \A y : Len(short(y)) = 1 /\ short(y)[1] = y
  OBVIOUS
<1>4. CallKey(c) = IF c[1] = "" THEN short(c[2]) ELSE long(c[1], c[2])
  BY DEF CallKey
<1>5. CallKey(d) = IF d[1] = "" THEN short(d[2]) ELSE long(d[1], d[2])
  BY DEF CallKey
<1> HIDE DEF long, short
<1>6. c[1] = d[1] /\ c[2] = d[2]
  <2>1. CASE c[1] = "" /\ d[1] = ""
    <3>1. short(c[2]) = short(d[2])
      BY <1>4, <1>5, <2>1
    <3>2. short(c[2])[1] = short(d[2])[1]
      BY <3>1
    <3>3. c[2] = d[2]
      BY <1>3, <3>2
    <3> QED BY <2>1, <3>3
  <2>2. CASE c[1] # "" /\ d[1] # ""
    <3>1. long(c[1], c[2]) = long(d[1], d[2])
      BY <1>4, <1>5, <2>2
    <3>2. /\ long(c[1], c[2])[1] = long(d[1], d[2])[1]
          /\ long(c[1], c[2])[3] = long(d[1], d[2])[3]
      BY <3>1
    <3> QED BY <1>2, <3>2
  <2>3. CASE c[1] = "" /\ d[1] # ""
    <3>1. short(c[2]) = long(d[1], d[2])
      BY <1>4, <1>5, <2>3
    <3> QED BY <1>2, <1>3, <3>1
  <2>4. CASE c[1] # "" /\ d[1] = ""
    <3>1. long(c[1], c[2]) = short(d[2])
      BY <1>4, <1>5, <2>4
    <3> QED BY <1>2, <1>3, <3>1
  <2> QED BY <2>1, <2>2, <2>3, <2>4
<1>7. c = <<c[1], c[2]>> /\ d = <<d[1], d[2]>>
  OBVIOUS
<1> QED BY <1>6, <1>7

\* The calls at the first index of each run, of those that count.
Call(l, i) == <<l[i].module, l[i].function>>

CallFirsts(l, U) ==
  {i \in U : \A j \in U : j < i =>
     Call(l, j) # Call(l, i) \/ \E k \in U : j < k /\ k < i /\ Call(l, k) # Call(l, i)}

CallsOf(l, U) ==
  LET order == Ordered(CallFirsts(l, U)) IN [k \in DOMAIN order |-> Call(l, order[k])]

\* Calls in the terms of the lemmas.
LEMMA CallsAre ==
  ASSUME NEW e
  PROVE  Calls(e) = CallsOf(e.frames, IF Marked(e.frames, "true") # {}
                                      THEN Marked(e.frames, "true") ELSE Marked(e.frames, "unknown"))
  BY DEF Calls, CallsOf, CallFirsts, Call, Marked, Named

\* Runs of one key are runs of one call.
LEMMA KeptFirsts ==
  ASSUME NEW l \in Seq(Entry(FrameRow)), NEW o
  PROVE  /\ CallFirsts(l, Marked(l, o)) = Firsts(Marked(l, o), Kept(l, o))
         /\ \A i \in Marked(l, o) : Call(l, i) \in Name \X Name /\ Kept(l, o)[i] = CallKey(Call(l, i))
<1> DEFINE U == Marked(l, o)
           key == Kept(l, o)
<1>1. \A i \in U : l[i] \in FrameRow
  <2>1. \A i \in U : i \in DOMAIN l /\ l[i] \notin {Undecodable, Null}
    BY DEF Marked, Named
  <2>2. \A i \in DOMAIN l : l[i] \in Entry(FrameRow)
    OBVIOUS
  <2> QED BY <2>1, <2>2 DEF Entry
<1>2. \A i \in U : Call(l, i) \in Name \X Name
  BY <1>1 DEF Call, FrameRow
<1>3. \A i \in U : key[i] = CallKey(Call(l, i))
  BY DEF Kept, FrameKey, CallKey, Call
<1> HIDE DEF U, key
<1>4. \A i, j \in U : key[i] = key[j] <=> Call(l, i) = Call(l, j)
  BY <1>2, <1>3, CallKeyOnce
<1>5. CallFirsts(l, U) = Firsts(U, key)
  BY <1>4 DEF CallFirsts, Firsts
<1> QED BY <1>2, <1>3, <1>5 DEF U, key

\* What is picked of the frames marked o are their calls.
LEMMA PickIs ==
  ASSUME NEW l \in Seq(Entry(FrameRow)), NEW o
  PROVE  LET calls == CallsOf(l, Marked(l, o))
             keys == Pick(decodeEach(l, NoFrame), o)
         IN  /\ calls \in Seq(Name \X Name) /\ keys = [k \in 1 .. Len(calls) |-> CallKey(calls[k])]
             /\ keys \in Seq(Words)
             /\ keys = <<>> <=> Marked(l, o) = {}
<1> DEFINE U == Marked(l, o)
           key == Kept(l, o)
           n == Len(l)
           keys == Pick(decodeEach(l, NoFrame), o)
           order == Ascending(Firsts(U, key))
           calls == CallsOf(l, U)
           d == Len(order)
<1>1. PICK K : Keeps(K, n, U, key, Words) /\ keys = K[n]
  BY PickKeeps
<1>2. n \in Nat /\ n \in 0 .. n
  OBVIOUS
<1>3. /\ CallFirsts(l, U) = Firsts(U, key)
      /\ \A i \in U : Call(l, i) \in Name \X Name /\ key[i] = CallKey(Call(l, i))
  BY KeptFirsts
<1>4. K[n] \in Seq(Words)
  BY <1>1, <1>2 DEF Keeps
<1> HIDE DEF U, key, n, keys
<1>5. /\ order \in Seq(U) /\ K[n] = [i \in 1 .. d |-> key[order[i]]]
      /\ K[n] = <<>> <=> U = {}
  BY <1>1, <1>2, KeptAll
<1>6. Ordered(CallFirsts(l, U)) = order
  BY <1>3 DEF Ordered, Ascending
<1> HIDE DEF order
<1>7. d \in Nat /\ DOMAIN order = 1 .. d /\ \A i \in 1 .. d : order[i] \in U
  BY <1>5
<1>8. calls = [k \in 1 .. d |-> Call(l, order[k])]
  BY <1>6, <1>7 DEF CallsOf
<1> HIDE DEF calls, d
<1>9. calls \in [1 .. d -> Name \X Name]
  BY <1>3, <1>7, <1>8
<1>10. calls \in Seq(Name \X Name) /\ Len(calls) = d
  BY <1>7, <1>9
<1>11. keys = [k \in 1 .. d |-> CallKey(calls[k])]
  BY <1>1, <1>3, <1>5, <1>7, <1>8
<1> QED BY <1>1, <1>4, <1>5, <1>10, <1>11 DEF keys, calls, U

CallKeys(calls) == [k \in 1 .. Len(calls) |-> CallKey(calls[k])]

\* The keys of an exception are the calls of the program's own functions, each run
\* of one function once, or of those it may own: whatever frames, of any number, lie
\* between and whatever entries do not decode (fingerprint.go: frameKeys, decodeEach).
THEOREM KeysAreCalls ==
  ASSUME NEW e \in ExceptionRow
  PROVE  /\ Calls(e) \in Seq(Name \X Name) /\ frameKeys(e) = CallKeys(Calls(e))
         /\ frameKeys(e) \in Seq(Words)
<1> DEFINE l == e.frames
           own == Pick(decodeEach(l, NoFrame), "true")
           any == Pick(decodeEach(l, NoFrame), "unknown")
           mine == Marked(l, "true")
           maybe == Marked(l, "unknown")
<1>1. l \in Seq(Entry(FrameRow))
  BY DEF ExceptionRow
<1>2. frameKeys(e) = IF own # <<>> THEN own ELSE any
  BY DEF frameKeys
<1>3. Calls(e) = CallsOf(l, IF mine # {} THEN mine ELSE maybe)
  BY CallsAre
<1> HIDE DEF l
<1>4. /\ CallsOf(l, mine) \in Seq(Name \X Name)
      /\ own = CallKeys(CallsOf(l, mine)) /\ own \in Seq(Words)
      /\ own = <<>> <=> mine = {}
  BY <1>1, PickIs DEF CallKeys
<1>5. /\ CallsOf(l, maybe) \in Seq(Name \X Name)
      /\ any = CallKeys(CallsOf(l, maybe)) /\ any \in Seq(Words)
  BY <1>1, PickIs DEF CallKeys
<1> HIDE DEF own, any, mine, maybe
<1>6. CASE mine = {}
  <2>1. frameKeys(e) = any /\ Calls(e) = CallsOf(l, maybe)
    BY <1>2, <1>3, <1>4, <1>6
  <2> QED BY <1>5, <2>1
<1>7. CASE mine # {}
  <2>1. frameKeys(e) = own /\ Calls(e) = CallsOf(l, mine)
    BY <1>2, <1>3, <1>4, <1>7
  <2> QED BY <1>4, <2>1
<1> QED BY <1>6, <1>7

\* Calls are told apart by their keys.
LEMMA CallKeysOnce ==
  ASSUME NEW c \in Seq(Name \X Name), NEW d \in Seq(Name \X Name), CallKeys(c) = CallKeys(d)
  PROVE  c = d
<1>1. /\ Len(c) \in Nat /\ \A i \in 1 .. Len(c) : c[i] \in Name \X Name
      /\ Len(d) \in Nat /\ \A i \in 1 .. Len(d) : d[i] \in Name \X Name
  OBVIOUS
<1>2. DOMAIN CallKeys(c) = 1 .. Len(c) /\ DOMAIN CallKeys(d) = 1 .. Len(d)
  BY DEF CallKeys
<1>3. Len(c) = Len(d)
  <2>1. 1 .. Len(c) = 1 .. Len(d)
    BY <1>2
  <2> QED BY <1>1, <2>1
<1>4. ASSUME NEW i \in 1 .. Len(c) PROVE c[i] = d[i]
  <2>1. CallKeys(c)[i] = CallKey(c[i]) /\ CallKeys(d)[i] = CallKey(d[i])
    BY <1>3 DEF CallKeys
  <2> QED BY <1>1, <1>3, <2>1, CallKeyOnce
<1> DEFINE S == Name \X Name
<1>5. c \in Seq(S) /\ d \in Seq(S)
  OBVIOUS
<1> HIDE DEF S
<1> QED BY <1>3, <1>4, <1>5, SameSequence

(***************************************************************************)
(* The innermost exception, and the first message.                         *)
(***************************************************************************)
Innermost(list) == SelectLastInSeq(list, LAMBDA v : v # Undecodable)

EntryAt(list, k) == IF list[k] = Null THEN NoException ELSE list[k]

\* What is decoded of the first k entries.
DecodedLast(D, list, k) ==
  \/ D[k] = <<>> /\ \A i \in 1 .. k : list[i] = Undecodable
  \/ D[k] # <<>> /\ \E m \in 1 .. k : /\ list[m] # Undecodable /\ Last(D[k]) = EntryAt(list, m)
                                      /\ \A i \in 1 .. k : m < i => list[i] = Undecodable

\* What null is read as is an exception.
LEMMA NoExceptionRow == NoException \in ExceptionRow
<1>1. <<>> \in Seq(Entry(FrameRow))
  OBVIOUS
<1> QED BY <1>1, FingerprintsAssumption DEF NoException, ExceptionRow

\* Each entry that can be read is the last one decoded.
LEMMA DecodedLastStep ==
  ASSUME NEW D, NEW list, NEW R, NEW k \in Nat, D[k] \in Seq(R), NEW empty, empty = NoException,
         list[k + 1] = Undecodable \/ EntryAt(list, k + 1) \in R,
         D[k + 1] = Decoded(D[k], list[k + 1], empty), DecodedLast(D, list, k)
  PROVE  DecodedLast(D, list, k + 1)
<1> DEFINE j == k + 1
<1>1. j \in Nat /\ j \in 1 .. j /\ \A i \in 1 .. j : i \in Nat /\ (i \in 1 .. k \/ i = j)
  OBVIOUS
<1>2. (\A i \in 1 .. k : i \in 1 .. j /\ i # j) /\ \A i \in 1 .. j : ~ (j < i)
  OBVIOUS
<1>3. D[j] = Decoded(D[k], list[j], empty) /\ (list[j] = Undecodable \/ EntryAt(list, j) \in R)
  OBVIOUS
<1> HIDE DEF j
<1>4. CASE list[j] = Undecodable
  <2>1. D[j] = D[k]
    BY <1>3, <1>4 DEF Decoded
  <2>2. CASE D[k] = <<>> /\ \A i \in 1 .. k : list[i] = Undecodable
    BY <1>1, <1>4, <2>1, <2>2 DEF DecodedLast, j
  <2>3. CASE D[k] # <<>> /\ \E m \in 1 .. k : /\ list[m] # Undecodable /\ Last(D[k]) = EntryAt(list, m)
                                              /\ \A i \in 1 .. k : m < i => list[i] = Undecodable
    <3>1. PICK m \in 1 .. k : /\ list[m] # Undecodable /\ Last(D[k]) = EntryAt(list, m)
                              /\ \A i \in 1 .. k : m < i => list[i] = Undecodable
      BY <2>3
    <3>2. \A i \in 1 .. j : m < i => list[i] = Undecodable
      BY <1>1, <1>4, <3>1
    <3>3. D[j] # <<>> /\ m \in 1 .. j /\ Last(D[j]) = EntryAt(list, m)
      BY <1>2, <2>1, <2>3, <3>1
    <3> HIDE DEF Last, EntryAt
    <3>4. DecodedLast(D, list, j)
      BY <3>1, <3>2, <3>3 DEF DecodedLast
    <3> QED BY <3>4 DEF j
  <2> QED BY <2>2, <2>3 DEF DecodedLast
<1>5. CASE list[j] # Undecodable
  <2> DEFINE s == D[k]
             y == EntryAt(list, j)
  <2>1. D[j] = Append(s, y) /\ s \in Seq(R) /\ y \in R
    BY <1>3, <1>5 DEF Decoded, EntryAt
  <2> HIDE DEF s, y
  <2>2. /\ D[j] \in Seq(R) /\ Len(D[j]) = Len(s) + 1 /\ Len(s) \in Nat /\ D[j][Len(s) + 1] = y
    BY <2>1, Added
  <2>3. D[j] # <<>> /\ Last(D[j]) = y
    BY <2>2 DEF Last
  <2>4. \A i \in 1 .. j : j < i => list[i] = Undecodable
    BY <1>2
  <2> HIDE DEF Last
  <2>5. DecodedLast(D, list, j)
    BY <1>1, <1>5, <2>3, <2>4 DEF DecodedLast, y
  <2> QED BY <2>5 DEF j
<1> QED BY <1>4, <1>5

\* The last exception decoded is the innermost one sent.
LEMMA LastDecoded ==
  ASSUME NEW list \in Seq(Entry(ExceptionRow))
  PROVE  LET xs == decodeEach(list, NoException)
         IN  /\ Innermost(list) \in Nat /\ (xs = <<>> <=> Innermost(list) = 0)
             /\ xs # <<>> => Last(xs) = EntryAt(list, Innermost(list)) /\ Last(xs) \in ExceptionRow
<1> DEFINE n == Len(list)
           R == ExceptionRow
           V == Seq(R)
           step == DecodeStep(R, NoException)
<1>1. n \in Nat /\ DOMAIN list = 1 .. n /\ \A k \in 1 .. n : list[k] \in Entry(R)
  OBVIOUS
<1>2. \A D \in V, x \in Entry(R) : step[<<D, x>>] = Decoded(D, x, NoException)
  BY DEF DecodeStep
<1>3. \A k \in 1 .. n : list[k] = Undecodable \/ EntryAt(list, k) \in R
  BY <1>1, NoExceptionRow DEF Entry, EntryAt
<1> HIDE DEF n, V, step, R
<1>4. PICK D : States(D, list, V, <<>>, step)
  <2>1. LoopTypes(list, Entry(R), V, <<>>, step)
    BY NoExceptionRow, DecodeTypes DEF V, step, R
  <2> QED BY <2>1, StatesExist
<1>5. /\ D \in [0 .. n -> V] /\ D[0] = <<>>
      /\ \A k \in 1 .. n : D[k] = step[<<D[k - 1], list[k]>>]
  BY <1>4 DEF States, n
<1>6. decodeEach(list, NoException) = D[n]
  BY <1>4, NoExceptionRow, DecodeEnds DEF V, step, R, n
<1> DEFINE T == {k \in Nat : k <= n => DecodedLast(D, list, k)}
<1>7. 0 \in T
  <2>1. \A i \in 1 .. 0 : FALSE
    OBVIOUS
  <2> QED BY <1>5, <2>1 DEF DecodedLast
<1>8. ASSUME NEW k \in T PROVE k + 1 \in T
  <2> SUFFICES ASSUME k + 1 <= n PROVE DecodedLast(D, list, k + 1)
    OBVIOUS
  <2>1. k \in Nat /\ k + 1 \in 1 .. n /\ k \in 0 .. n /\ (k + 1) - 1 = k /\ DecodedLast(D, list, k)
    BY <1>1
  <2>2. D[k] \in V /\ D[k + 1] = Decoded(D[k], list[k + 1], NoException)
    <3>1. D[k] \in V /\ list[k + 1] \in Entry(R) /\ D[k + 1] = step[<<D[k], list[k + 1]>>]
      BY <1>1, <1>5, <2>1
    <3> QED BY <1>2, <3>1
  <2>3. list[k + 1] = Undecodable \/ EntryAt(list, k + 1) \in R
    BY <1>3, <2>1
  <2> HIDE DEF T, DecodedLast
  <2> QED BY <2>1, <2>2, <2>3, DecodedLastStep DEF V
<1>9. T = Nat
  <2>1. T \in SUBSET Nat
    OBVIOUS
  <2> HIDE DEF T
  <2> QED BY <1>7, <1>8, <2>1, AllNaturals
<1>10. DecodedLast(D, list, n)
  BY <1>1, <1>9
<1> DEFINE I == {i \in 1 .. n : list[i] # Undecodable}
           inner == Innermost(list)
<1>11. inner = IF I # {} THEN Max(I) ELSE 0
  BY DEF Innermost, SelectLastInSeq, n
<1>12. CASE D[n] = <<>> /\ \A i \in 1 .. n : list[i] = Undecodable
  <2>1. I = {}
    BY <1>12
  <2>2. inner = 0
    BY <1>11, <2>1
  <2> QED BY <1>6, <1>12, <2>2
<1>13. CASE D[n] # <<>> /\ \E m \in 1 .. n : /\ list[m] # Undecodable /\ Last(D[n]) = EntryAt(list, m)
                                             /\ \A i \in 1 .. n : m < i => list[i] = Undecodable
  <2>1. PICK m \in 1 .. n : /\ list[m] # Undecodable /\ Last(D[n]) = EntryAt(list, m)
                            /\ \A i \in 1 .. n : m < i => list[i] = Undecodable
    BY <1>13
  <2>2. I \in SUBSET Nat /\ m \in I /\ \A i \in I : i <= m
    BY <1>1, <2>1
  <2> HIDE DEF I
  <2>3. Max(I) = m
    BY <2>2, MaxOnce
  <2>4. inner = m /\ m \in Nat /\ m # 0
    BY <1>1, <1>11, <2>2, <2>3
  <2>5. Last(D[n]) \in R
    BY <1>3, <2>1
  <2> QED BY <1>6, <1>13, <2>1, <2>4, <2>5 DEF R
<1> QED BY <1>10, <1>12, <1>13 DEF DecodedLast

Texts(p) == <<p.message.template, p.message.formatted, p.logentry.template, p.logentry.formatted>>

FirstIndex(s) == SelectInSeq(s, LAMBDA t : t # "")

\* What is below all is the minimum.
LEMMA MinOnce ==
  ASSUME NEW S \in SUBSET Nat, NEW m \in S, \A x \in S : m <= x
  PROVE  Min(S) = m
<1>1. \A z \in S : (\A x \in S : z <= x) => z = m
  OBVIOUS
<1> QED BY <1>1 DEF Min

\* The message is the first text that is not empty.
LEMMA FirstText ==
  ASSUME NEW p \in PayloadRow
  PROVE  LET text == FirstIndex(Texts(p))
         IN  /\ text \in Nat /\ message(p) \in Name
             /\ message(p) = "" <=> text = 0
             /\ text > 0 => Texts(p)[text] = message(p)
<1> DEFINE none == ""
           s == Texts(p)
           I == {i \in 1 .. 4 : s[i] # none}
           text == FirstIndex(s)
           said == message(p)
<1>1. s[1] \in Name /\ s[2] \in Name /\ s[3] \in Name /\ s[4] \in Name
  BY DEF PayloadRow, MessageRow, Texts
<1>2. Len(s) = 4
  BY DEF Texts
<1>3. text = IF I # {} THEN Min(I) ELSE 0
  BY <1>2 DEF SelectInSeq, FirstIndex
<1>4. said = IF s[1] # none THEN s[1] ELSE IF s[2] # none THEN s[2] ELSE IF s[3] # none THEN s[3] ELSE s[4]
  BY DEF message, groupKey, Texts
<1> HIDE DEF s, text, said, none
<1>5. ASSUME NEW k \in 1 .. 4, s[k] # none, \A i \in 1 .. 4 : i < k => s[i] = none PROVE text = k
  <2>1. k \in I
    BY <1>5
  <2>2. I \in SUBSET Nat
    OBVIOUS
  <2>3. \A i \in I : k <= i
    BY <1>5
  <2> HIDE DEF I
  <2>4. Min(I) = k
    BY <2>1, <2>2, <2>3, MinOnce
  <2> QED BY <1>3, <2>1, <2>4
<1>6. \A i \in 1 .. 4 : i = 1 \/ i = 2 \/ i = 3 \/ i = 4
  OBVIOUS
<1> DEFINE Says == /\ text \in Nat /\ said \in Name
                   /\ said = none <=> text = 0
                   /\ text > 0 => s[text] = said
<1>7. CASE s[1] # none
  <2>1. text = 1
    BY <1>5, <1>7
  <2>2. Says
    BY <1>1, <1>4, <1>7, <2>1
  <2> QED BY <2>2 DEF s, text, said, none
<1>8. CASE s[1] = none /\ s[2] # none
  <2>1. text = 2
    BY <1>5, <1>6, <1>8
  <2>2. Says
    BY <1>1, <1>4, <1>8, <2>1
  <2> QED BY <2>2 DEF s, text, said, none
<1>9. CASE s[1] = none /\ s[2] = none /\ s[3] # none
  <2>1. text = 3
    BY <1>5, <1>6, <1>9
  <2>2. Says
    BY <1>1, <1>4, <1>9, <2>1
  <2> QED BY <2>2 DEF s, text, said, none
<1>10. CASE s[1] = none /\ s[2] = none /\ s[3] = none /\ s[4] # none
  <2>1. text = 4
    BY <1>5, <1>6, <1>10
  <2>2. Says
    BY <1>1, <1>4, <1>10, <2>1
  <2> QED BY <2>2 DEF s, text, said, none
<1>11. CASE s[1] = none /\ s[2] = none /\ s[3] = none /\ s[4] = none
  <2>1. I = {}
    BY <1>6, <1>11
  <2>2. text = 0
    BY <1>3, <2>1
  <2>3. Says
    BY <1>1, <1>4, <1>11, <2>2
  <2> QED BY <2>3 DEF s, text, said, none
<1> QED BY <1>7, <1>8, <1>9, <1>10, <1>11

(***************************************************************************)
(* What the four kinds of problem are spelled as.                          *)
(***************************************************************************)
NoName == ""

CallText(t, c) == <<"v2", "|">> \o Spelled(t) \o <<"|">> \o Join(CallKeys(c), ">")

ExceptionText(t, v, x) ==
  LET s == Spelled(t) \o <<"|">> \o Spelled(v) IN IF x = NoName THEN s ELSE s \o <<"|", x>>

MessageText(m, x) == IF x = NoName THEN <<m>> ELSE <<m>> \o <<"|", x>>

BareText(x) == <<"unlabeled", "|">> \o Spelled(x)

\* A name is spelled as itself, and none as nothing.
LEMMA SpelledAs ==
  ASSUME NEW t
  PROVE  (t = NoName => Spelled(t) = <<>>) /\ (t # NoName => Spelled(t) = <<t>>)
  BY DEF Spelled, NoName

\* Texts make a text.
LEMMA ConcatWords ==
  ASSUME NEW s \in Words, NEW t \in Words
  PROVE  s \o t \in Words
<1> DEFINE S == Name \cup Separator
<1>1. s \in Seq(S) /\ t \in Seq(S)
  BY DEF Words
<1> HIDE DEF S
<1>2. s \o t \in Seq(S)
  BY <1>1
<1> QED BY <1>2 DEF Words, S

\* What names are spelled as are texts.
LEMMA NameWords ==
  ASSUME NEW x \in Name
  PROVE  <<x>> \in Words /\ Spelled(x) \in Words /\ <<"|", x>> \in Words
<1> DEFINE S == Name \cup Separator
<1>1. x \in S /\ "|" \in S
  BY DEF Separator
<1> HIDE DEF S
<1>2. <<>> \in Seq(S) /\ <<x>> \in Seq(S) /\ <<"|", x>> \in Seq(S)
  BY <1>1
<1> QED BY <1>2, SpelledAs DEF Words, S

\* What the code puts in are texts.
LEMMA MarkWords ==
  /\ <<"|">> \in Words /\ <<"v2", "|">> \in Words /\ <<"unlabeled", "|">> \in Words
  /\ <<"unparseable">> \in Words
<1> DEFINE S == Name \cup Separator
<1>1. "|" \in S /\ "v2" \in S /\ "unlabeled" \in S /\ "unparseable" \in S
  BY DEF Separator
<1> HIDE DEF S
<1>2. /\ <<"|">> \in Seq(S) /\ <<"v2", "|">> \in Seq(S) /\ <<"unlabeled", "|">> \in Seq(S)
      /\ <<"unparseable">> \in Seq(S)
  BY <1>1
<1> QED BY <1>2 DEF Words, S

ExceptionShaped(r, t, v, x) ==
  /\ Len(r) = (IF t = NoName THEN 0 ELSE 1) + 1
                + (IF v = NoName THEN 0 ELSE 1) + (IF x = NoName THEN 0 ELSE 2)
  /\ r[1] = IF t = NoName THEN "|" ELSE t
  /\ v # NoName => r[IF t = NoName THEN 2 ELSE 3] = v
  /\ x # NoName => r[Len(r)] = x

\* Where the parts of an exception are in its key.
LEMMA ExceptionShape ==
  ASSUME NEW t \in Name, NEW v \in Name, NEW x \in Name
  PROVE  ExceptionShaped(ExceptionText(t, v, x), t, v, x)
<1> DEFINE S(a, b) == a \o <<"|">> \o b
           L(a, b) == a \o <<"|">> \o b \o <<"|", x>>
           r == ExceptionText(t, v, x)
<1>1. r = IF x = NoName THEN S(Spelled(t), Spelled(v)) ELSE L(Spelled(t), Spelled(v))
  BY DEF ExceptionText
<1>2. Len(S(<<>>, <<>>)) = 1 /\ S(<<>>, <<>>)[1] = "|"
  OBVIOUS
<1>3. Len(S(<<>>, <<v>>)) = 2 /\ S(<<>>, <<v>>)[1] = "|" /\ S(<<>>, <<v>>)[2] = v
  OBVIOUS
<1>4. Len(S(<<t>>, <<>>)) = 2 /\ S(<<t>>, <<>>)[1] = t
  OBVIOUS
<1>5. Len(S(<<t>>, <<v>>)) = 3 /\ S(<<t>>, <<v>>)[1] = t /\ S(<<t>>, <<v>>)[3] = v
  OBVIOUS
<1>6. Len(L(<<>>, <<>>)) = 3 /\ L(<<>>, <<>>)[1] = "|" /\ L(<<>>, <<>>)[3] = x
  OBVIOUS
<1>7. Len(L(<<>>, <<v>>)) = 4 /\ L(<<>>, <<v>>)[1] = "|" /\ L(<<>>, <<v>>)[2] = v /\ L(<<>>, <<v>>)[4] = x
  OBVIOUS
<1>8. Len(L(<<t>>, <<>>)) = 4 /\ L(<<t>>, <<>>)[1] = t /\ L(<<t>>, <<>>)[4] = x
  OBVIOUS
<1>9. /\ Len(L(<<t>>, <<v>>)) = 5 /\ L(<<t>>, <<v>>)[1] = t /\ L(<<t>>, <<v>>)[3] = v
      /\ L(<<t>>, <<v>>)[5] = x
  OBVIOUS
<1> HIDE DEF S, L, r
<1> DEFINE Fits == ExceptionShaped(r, t, v, x)
<1> USE DEF ExceptionShaped
<1>10. CASE t = NoName /\ v = NoName /\ x = NoName
  <2>1. r = S(<<>>, <<>>)
    BY <1>1, <1>10, SpelledAs
  <2>2. Fits
    BY <1>2, <1>10, <2>1
  <2> QED BY <2>2 DEF r
<1>11. CASE t = NoName /\ v # NoName /\ x = NoName
  <2>1. r = S(<<>>, <<v>>)
    BY <1>1, <1>11, SpelledAs
  <2>2. Fits
    BY <1>3, <1>11, <2>1
  <2> QED BY <2>2 DEF r
<1>12. CASE t # NoName /\ v = NoName /\ x = NoName
  <2>1. r = S(<<t>>, <<>>)
    BY <1>1, <1>12, SpelledAs
  <2>2. Fits
    BY <1>4, <1>12, <2>1
  <2> QED BY <2>2 DEF r
<1>13. CASE t # NoName /\ v # NoName /\ x = NoName
  <2>1. r = S(<<t>>, <<v>>)
    BY <1>1, <1>13, SpelledAs
  <2>2. Fits
    BY <1>5, <1>13, <2>1
  <2> QED BY <2>2 DEF r
<1>14. CASE t = NoName /\ v = NoName /\ x # NoName
  <2>1. r = L(<<>>, <<>>)
    BY <1>1, <1>14, SpelledAs
  <2>2. Fits
    BY <1>6, <1>14, <2>1
  <2> QED BY <2>2 DEF r
<1>15. CASE t = NoName /\ v # NoName /\ x # NoName
  <2>1. r = L(<<>>, <<v>>)
    BY <1>1, <1>15, SpelledAs
  <2>2. Fits
    BY <1>7, <1>15, <2>1
  <2> QED BY <2>2 DEF r
<1>16. CASE t # NoName /\ v = NoName /\ x # NoName
  <2>1. r = L(<<t>>, <<>>)
    BY <1>1, <1>16, SpelledAs
  <2>2. Fits
    BY <1>8, <1>16, <2>1
  <2> QED BY <2>2 DEF r
<1>17. CASE t # NoName /\ v # NoName /\ x # NoName
  <2>1. r = L(<<t>>, <<v>>)
    BY <1>1, <1>17, SpelledAs
  <2>2. Fits
    BY <1>9, <1>17, <2>1
  <2> QED BY <2>2 DEF r
<1> QED BY <1>10, <1>11, <1>12, <1>13, <1>14, <1>15, <1>16, <1>17

\* Names are not words of the code.
LEMMA NamesApart ==
  /\ NoName \in Name /\ "|" \notin Name /\ ">" \notin Name /\ "." \notin Name /\ "v2" \notin Name
  /\ "unlabeled" \notin Name /\ "unparseable" \notin Name
<1>1. NoName \in Name
  BY FingerprintsAssumption DEF NoName
<1> QED BY <1>1, FingerprintsAssumption DEF Separator

\* A key is that of one type, value and transaction: its length tells which are there.
LEMMA ExceptionTextOnce ==
  ASSUME NEW t \in Name, NEW v \in Name, NEW x \in Name, NEW u \in Name, NEW w \in Name, NEW y \in Name,
         NEW r, ExceptionShaped(r, t, v, x), ExceptionShaped(r, u, w, y)
  PROVE  t = u /\ v = w /\ x = y
<1> USE DEF ExceptionShaped
<1>1. t = u
  BY NamesApart
<1>2. (v = NoName <=> w = NoName) /\ (x = NoName <=> y = NoName)
  BY <1>1
<1> QED BY <1>1, <1>2

\* The first word is m and the last x, if there is one, after n words.
Shaped(r, m, x, n) ==
  Len(r) = (IF x = NoName THEN n ELSE 3) /\ r[1] = m /\ (x # NoName => r[3] = x)

\* Where the parts of a message are in its key.
LEMMA MessageShape ==
  ASSUME NEW m \in Name, NEW x \in Name
  PROVE  Shaped(MessageText(m, x), m, x, 1)
<1> DEFINE l == <<m>> \o <<"|", x>>
           r == MessageText(m, x)
<1>1. Len(l) = 3 /\ l[1] = m /\ l[3] = x
  OBVIOUS
<1>2. Len(<<m>>) = 1 /\ <<m>>[1] = m
  OBVIOUS
<1>3. r = IF x = NoName THEN <<m>> ELSE l
  BY DEF MessageText
<1> HIDE DEF l, r
<1>4. Shaped(r, m, x, 1)
  BY <1>1, <1>2, <1>3 DEF Shaped
<1> QED BY <1>4 DEF r

\* Where the transaction is in the key of an event that says nothing.
LEMMA BareShape ==
  ASSUME NEW x \in Name
  PROVE  Shaped(BareText(x), "unlabeled", x, 2)
<1> DEFINE l == <<"unlabeled", "|">> \o <<x>>
           s == <<"unlabeled", "|">> \o <<>>
           r == BareText(x)
<1>1. Len(l) = 3 /\ l[1] = "unlabeled" /\ l[3] = x
  OBVIOUS
<1>2. Len(s) = 2 /\ s[1] = "unlabeled"
  OBVIOUS
<1>3. r = IF x = NoName THEN s ELSE l
  BY SpelledAs DEF BareText
<1> HIDE DEF l, s, r
<1>4. Shaped(r, "unlabeled", x, 2)
  BY <1>1, <1>2, <1>3 DEF Shaped
<1> QED BY <1>4 DEF r

\* What follows the same is the same.
LEMMA CancelLeft ==
  ASSUME NEW S, NEW a \in Seq(S), NEW s \in Seq(S), NEW t \in Seq(S), a \o s = a \o t
  PROVE  s = t
<1> DEFINE r == a \o s
<1>1. /\ Len(a) \in Nat /\ Len(s) \in Nat /\ Len(r) = Len(a) + Len(s)
      /\ \A i \in 1 .. Len(s) : r[i + Len(a)] = s[i]
  BY Joined
<1>2. LET q == a \o t
      IN  /\ Len(t) \in Nat /\ Len(q) = Len(a) + Len(t)
          /\ \A i \in 1 .. Len(t) : q[i + Len(a)] = t[i]
  BY Joined
<1>3. /\ Len(t) \in Nat /\ Len(r) = Len(a) + Len(t)
      /\ \A i \in 1 .. Len(t) : r[i + Len(a)] = t[i]
  BY <1>2
<1> HIDE DEF r
<1>4. Len(s) = Len(t)
  BY <1>1, <1>3
<1>5. \A i \in 1 .. Len(s) : s[i] = t[i]
  BY <1>1, <1>3, <1>4
<1> QED BY <1>4, <1>5, SameSequence

\* The key of a call is a text without ">".
LEMMA CallKeyWords ==
  ASSUME NEW c \in Name \X Name
  PROVE  CallKey(c) \in Words /\ FreeOf(CallKey(c), ">")
<1> DEFINE long == <<c[1], ".">> \o <<c[2]>>
           short == <<>> \o <<c[2]>>
           S == Name \cup Separator
<1>1. c[1] \in S /\ c[2] \in S /\ "." \in S
  BY DEF Separator
<1>2. c[1] # ">" /\ c[2] # ">" /\ "." # ">"
  BY NamesApart
<1> HIDE DEF S
<1>3. long \in Seq(S) /\ short \in Seq(S)
  BY <1>1
<1>4. Len(long) = 3 /\ long[1] = c[1] /\ long[2] = "." /\ long[3] = c[2]
  OBVIOUS
<1>5. Len(short) = 1 /\ short[1] = c[2]
  OBVIOUS
<1>6. CallKey(c) = IF c[1] = NoName THEN short ELSE long
  BY DEF CallKey, NoName
<1> HIDE DEF long, short
<1>7. \A i \in 1 .. 3 : i = 1 \/ i = 2 \/ i = 3
  OBVIOUS
<1>8. \A i \in 1 .. 1 : i = 1
  OBVIOUS
<1>9. FreeOf(long, ">")
  BY <1>2, <1>4, <1>7 DEF FreeOf
<1>10. FreeOf(short, ">")
  BY <1>2, <1>5, <1>8 DEF FreeOf
<1>11. CallKey(c) \in Seq(S)
  BY <1>3, <1>6
<1>12. FreeOf(CallKey(c), ">")
  BY <1>6, <1>9, <1>10
<1> QED BY <1>11, <1>12 DEF Words, S

\* And so are those of a list of calls.
LEMMA CallKeysWords ==
  ASSUME NEW c \in Seq(Name \X Name)
  PROVE  /\ CallKeys(c) \in Seq(Words) /\ Len(CallKeys(c)) = Len(c)
         /\ \A i \in 1 .. Len(c) : FreeOf(CallKeys(c)[i], ">")
<1> DEFINE n == Len(c)
           q == CallKeys(c)
<1>1. n \in Nat /\ \A i \in 1 .. n : c[i] \in Name \X Name
  OBVIOUS
<1>2. q = [i \in 1 .. n |-> CallKey(c[i])]
  BY DEF CallKeys
<1>3. \A i \in 1 .. n : CallKey(c[i]) \in Words /\ FreeOf(CallKey(c[i]), ">")
  BY <1>1, CallKeyWords
<1> HIDE DEF n, q, FreeOf
<1>4. q \in [1 .. n -> Words]
  BY <1>2, <1>3
<1>5. \A i \in 1 .. n : FreeOf(q[i], ">")
  BY <1>2, <1>3
<1> QED BY <1>1, <1>4, <1>5 DEF n, q

\* Joined texts are a text.
LEMMA JoinWords ==
  ASSUME NEW parts \in Seq(Words), parts # <<>>, NEW x \in Separator
  PROVE  Join(parts, x) \in Words
<1>1. Len(parts) \in Nat /\ Len(parts) >= 1
  OBVIOUS
<1>2. PICK b \in [1 .. Len(parts) -> Words] : Join(parts, x) = b[Len(parts)]
  BY JoinIs
<1> QED BY <1>1, <1>2

CallStart(t) == <<"v2", "|">> \o Spelled(t) \o <<"|">>

\* What the key of a list of calls starts with.
LEMMA StartShape ==
  ASSUME NEW t \in Name
  PROVE  /\ CallStart(t) \in Words /\ Len(CallStart(t)) = (IF t = NoName THEN 3 ELSE 4)
         /\ CallStart(t)[1] = "v2" /\ CallStart(t)[3] = IF t = NoName THEN "|" ELSE t
<1> DEFINE l == <<"v2", "|">> \o <<t>> \o <<"|">>
           s == <<"v2", "|">> \o <<>> \o <<"|">>
<1>1. Len(l) = 4 /\ l[1] = "v2" /\ l[3] = t
  OBVIOUS
<1>2. Len(s) = 3 /\ s[1] = "v2" /\ s[3] = "|"
  OBVIOUS
<1>3. CallStart(t) = IF t = NoName THEN s ELSE l
  BY SpelledAs DEF CallStart
<1>4. CallStart(t) \in Words
  BY NameWords, MarkWords, ConcatWords DEF CallStart
<1> HIDE DEF l, s
<1> QED BY <1>1, <1>2, <1>3, <1>4

\* What the key of a list of calls is.
LEMMA CallShape ==
  ASSUME NEW t \in Name, NEW c \in Seq(Name \X Name), c # <<>>
  PROVE  LET r == CallText(t, c)
         IN  /\ r = CallStart(t) \o Join(CallKeys(c), ">") /\ Join(CallKeys(c), ">") \in Words
             /\ r \in Words /\ r[1] = "v2" /\ r[3] = IF t = NoName THEN "|" ELSE t
<1> DEFINE r == CallText(t, c)
           a == CallStart(t)
           s == Join(CallKeys(c), ">")
           S == Name \cup Separator
<1>1. s \in Words
  <2> DEFINE q == CallKeys(c)
  <2>1. q \in Seq(Words) /\ Len(q) = Len(c) /\ Len(c) # 0
    BY CallKeysWords
  <2>2. q # <<>> /\ ">" \in Separator
    BY <2>1 DEF Separator
  <2> HIDE DEF q
  <2>3. Join(q, ">") \in Words
    BY <2>1, <2>2, JoinWords
  <2> QED BY <2>3 DEF q
<1>2. /\ a \in Words /\ Len(a) = (IF t = NoName THEN 3 ELSE 4)
      /\ a[1] = "v2" /\ a[3] = IF t = NoName THEN "|" ELSE t
  BY StartShape
<1>3. r = a \o s
  BY DEF CallText, CallStart
<1> HIDE DEF r, a, s
<1>4. a \in Seq(S) /\ s \in Seq(S) /\ 1 \in 1 .. Len(a) /\ 3 \in 1 .. Len(a)
  BY <1>1, <1>2 DEF Words
<1> HIDE DEF S
<1>5. (a \o s)[1] = a[1] /\ (a \o s)[3] = a[3]
  BY <1>4, Joined
<1>6. a \o s \in Words
  BY <1>1, <1>2, ConcatWords
<1> QED BY <1>1, <1>2, <1>3, <1>5, <1>6 DEF r, a, s

\* A key is that of one type and one list of calls.
LEMMA CallTextOnce ==
  ASSUME NEW t \in Name, NEW c \in Seq(Name \X Name), c # <<>>,
         NEW u \in Name, NEW d \in Seq(Name \X Name), d # <<>>, CallText(t, c) = CallText(u, d)
  PROVE  t = u /\ c = d
<1> DEFINE a == CallStart(t)
           s == Join(CallKeys(c), ">")
           w == Join(CallKeys(d), ">")
           S == Name \cup Separator
           r == CallText(t, c)
           q == CallText(u, d)
<1>1. r = a \o s /\ s \in Words /\ r[3] = IF t = NoName THEN "|" ELSE t
  BY CallShape
<1>2. q = CallStart(u) \o w /\ w \in Words /\ q[3] = IF u = NoName THEN "|" ELSE u
  BY CallShape
<1>3. r = q
  OBVIOUS
<1>4. a \in Words
  BY StartShape
<1> HIDE DEF r, q
<1>5. t = u
  BY <1>1, <1>2, <1>3, NamesApart
<1>6. a \o s = a \o w
  BY <1>1, <1>2, <1>3, <1>5
<1>7. a \in Seq(S) /\ s \in Seq(S) /\ w \in Seq(S)
  BY <1>1, <1>2, <1>4 DEF Words
<1>8. s = w
  <2> HIDE DEF a, s, w, S
  <2> QED BY <1>6, <1>7, CancelLeft
<1>9. CallKeys(c) = CallKeys(d)
  <2> DEFINE x == CallKeys(c)
             y == CallKeys(d)
  <2>1. /\ x \in Seq(Words) /\ Len(x) = Len(c) /\ \A i \in 1 .. Len(c) : FreeOf(x[i], ">")
    BY CallKeysWords
  <2>2. /\ y \in Seq(Words) /\ Len(y) = Len(d) /\ \A i \in 1 .. Len(d) : FreeOf(y[i], ">")
    BY CallKeysWords
  <2>3. Len(c) # 0 /\ Len(d) # 0 /\ ">" \in Separator
    BY DEF Separator
  <2>4. Join(x, ">") = Join(y, ">")
    BY <1>8
  <2> HIDE DEF x, y, FreeOf
  <2>5. x # <<>> /\ y # <<>>
    BY <2>1, <2>2, <2>3
  <2>6. x = y
    BY <2>1, <2>2, <2>3, <2>4, <2>5, JoinInjective
  <2> QED BY <2>6 DEF x, y
<1>10. c = d
  BY <1>9, CallKeysOnce
<1> QED BY <1>5, <1>10

(***************************************************************************)
(* The default keys spell the problem.                                     *)
(***************************************************************************)
CallProblem(t, c) == [kind |-> "calls", names |-> <<t>>, calls |-> c]

ExceptionProblem(t, v, x) == [kind |-> "exception", names |-> <<t, v, x>>, calls |-> <<>>]

MessageProblem(m, x) == [kind |-> "message", names |-> <<m, x>>, calls |-> <<>>]

BareProblem(x) == [kind |-> "unlabeled", names |-> <<x>>, calls |-> <<>>]

defaultKey(p, byFrames) == IF byFrames THEN defaultKeyV2(p) ELSE defaultKeyV1(p)

Framed(p, byFrames, k) ==
  /\ byFrames /\ k > 0 /\ p.platform # "javascript"
  /\ Calls(EntryAt(p.exceptions, k)) # <<>>

\* Problem in the terms of the lemmas.
LEMMA ProblemIs ==
  ASSUME NEW p, NEW byFrames
  PROVE  LET k == Innermost(p.exceptions)
             e == EntryAt(p.exceptions, k)
             text == FirstIndex(Texts(p))
             framed == Framed(p, byFrames, k)
         IN  Problem(p, byFrames) =
               CASE framed -> [kind |-> "calls", names |-> <<e.type>>, calls |-> Calls(e)]
                 [] ~framed /\ k > 0 ->
                      [NoProblem EXCEPT !.kind = "exception", !.names = <<e.type, e.value, p.transaction>>]
                 [] k = 0 /\ text > 0 ->
                      [NoProblem EXCEPT !.kind = "message", !.names = <<Texts(p)[text], p.transaction>>]
                 [] k = 0 /\ text = 0 -> [NoProblem EXCEPT !.names = <<p.transaction>>]
  BY DEF Problem, Innermost, EntryAt, FirstIndex, Texts, Framed

\* Problems with equal fields are equal.
LEMMA SameFields ==
  ASSUME NEW f, NEW g, f = [x \in {"kind", "names", "calls"} |-> f[x]],
         g = [x \in {"kind", "names", "calls"} |-> g[x]],
         f.kind = g.kind, f.names = g.names, f.calls = g.calls
  PROVE  f = g
<1>1. \A x \in {"kind", "names", "calls"} : f[x] = g[x]
  OBVIOUS
<1> QED BY <1>1

\* What NoProblem becomes.
LEMMA Excepted ==
  ASSUME NEW kind, NEW names
  PROVE  /\ [NoProblem EXCEPT !.kind = kind, !.names = names]
              = [kind |-> kind, names |-> names, calls |-> <<>>]
         /\ [NoProblem EXCEPT !.names = names] = [kind |-> "unlabeled", names |-> names, calls |-> <<>>]
<1> DEFINE r == NoProblem
           f == [r EXCEPT !.kind = kind, !.names = names]
           g == [kind |-> kind, names |-> names, calls |-> <<>>]
<1>1. r = [kind |-> "unlabeled", names |-> <<>>, calls |-> <<>>]
  BY DEF NoProblem
<1> HIDE DEF r
<1>2. f.kind = kind /\ f.names = names /\ f.calls = <<>>
  BY <1>1
<1>3. g.kind = kind /\ g.names = names /\ g.calls = <<>>
  OBVIOUS
<1>4. f = [x \in {"kind", "names", "calls"} |-> f[x]]
  BY <1>1
<1>5. g = [x \in {"kind", "names", "calls"} |-> g[x]]
  OBVIOUS
<1>6. [r EXCEPT !.names = names] = [kind |-> "unlabeled", names |-> names, calls |-> <<>>]
  BY <1>1
<1>7. f = g
  <2> HIDE DEF f, g
  <2> QED BY <1>2, <1>3, <1>4, <1>5, SameFields
<1> QED BY <1>6, <1>7 DEF r

\* What a payload is about, case by case.
LEMMA ProblemCases ==
  ASSUME NEW p, NEW byFrames, NEW k \in Nat, k = Innermost(p.exceptions),
         NEW text \in Nat, text = FirstIndex(Texts(p))
  PROVE  LET e == EntryAt(p.exceptions, k)
             framed == Framed(p, byFrames, k)
         IN  /\ framed => Problem(p, byFrames) = CallProblem(e.type, Calls(e))
             /\ ~framed /\ k > 0 =>
                  Problem(p, byFrames) = ExceptionProblem(e.type, e.value, p.transaction)
             /\ k = 0 /\ text > 0 =>
                  Problem(p, byFrames) = MessageProblem(Texts(p)[text], p.transaction)
             /\ k = 0 /\ text = 0 => Problem(p, byFrames) = BareProblem(p.transaction)
<1> DEFINE e == EntryAt(p.exceptions, k)
           framed == Framed(p, byFrames, k)
           t == e.type
           v == e.value
           c == Calls(e)
           m == Texts(p)[text]
           x == p.transaction
           b == Problem(p, byFrames)
<1>1. b = CASE framed -> [kind |-> "calls", names |-> <<t>>, calls |-> c]
            [] ~framed /\ k > 0 ->
                 [NoProblem EXCEPT !.kind = "exception", !.names = <<t, v, x>>]
            [] k = 0 /\ text > 0 -> [NoProblem EXCEPT !.kind = "message", !.names = <<m, x>>]
            [] k = 0 /\ text = 0 -> [NoProblem EXCEPT !.names = <<x>>]
  BY ProblemIs
<1>2. framed => k > 0
  BY DEF Framed
<1> HIDE DEF framed, t, v, c, m, x, b
<1>3. framed => b = [kind |-> "calls", names |-> <<t>>, calls |-> c]
  BY <1>1, <1>2
<1>4. ~framed /\ k > 0 => b = [NoProblem EXCEPT !.kind = "exception", !.names = <<t, v, x>>]
  BY <1>1
<1>5. k = 0 /\ text > 0 => b = [NoProblem EXCEPT !.kind = "message", !.names = <<m, x>>]
  BY <1>1, <1>2
<1>6. k = 0 /\ text = 0 => b = [NoProblem EXCEPT !.names = <<x>>]
  BY <1>1, <1>2
<1>7. /\ [NoProblem EXCEPT !.kind = "exception", !.names = <<t, v, x>>] = ExceptionProblem(t, v, x)
      /\ [NoProblem EXCEPT !.kind = "message", !.names = <<m, x>>] = MessageProblem(m, x)
      /\ [NoProblem EXCEPT !.names = <<x>>] = BareProblem(x)
  BY Excepted DEF ExceptionProblem, MessageProblem, BareProblem
<1>8. [kind |-> "calls", names |-> <<t>>, calls |-> c] = CallProblem(t, c)
  BY DEF CallProblem
<1>9. /\ framed => b = CallProblem(t, c)
      /\ ~framed /\ k > 0 => b = ExceptionProblem(t, v, x)
      /\ k = 0 /\ text > 0 => b = MessageProblem(m, x)
      /\ k = 0 /\ text = 0 => b = BareProblem(x)
  BY <1>3, <1>4, <1>5, <1>6, <1>7, <1>8
<1> QED BY <1>9 DEF framed, t, v, c, m, x, b

\* The kinds of the problems.
LEMMA Kinds ==
  /\ \A t, c : CallProblem(t, c).kind = "calls"
  /\ \A t, v, x : ExceptionProblem(t, v, x).kind = "exception"
  /\ \A m, x : MessageProblem(m, x).kind = "message"
  /\ \A x : BareProblem(x).kind = "unlabeled"
  BY DEF CallProblem, ExceptionProblem, MessageProblem, BareProblem

\* The transaction is added when there is one.
LEMMA WithTransactionIs ==
  ASSUME NEW key, NEW p
  PROVE  WithTransaction(key, p) = IF p.transaction = NoName THEN key ELSE key \o <<"|", p.transaction>>
  BY DEF WithTransaction, NoName

\* b is a problem and key is how it is spelled.
KeyFor(key, b) ==
  \/ \E t \in Name, c \in Seq(Name \X Name) : c # <<>> /\ b = CallProblem(t, c) /\ key = CallText(t, c)
  \/ \E t, v, x \in Name : b = ExceptionProblem(t, v, x) /\ key = ExceptionText(t, v, x)
  \/ \E m, x \in Name : b = MessageProblem(m, x) /\ key = MessageText(m, x)
  \/ \E x \in Name : b = BareProblem(x) /\ key = BareText(x)

\* The default keys of a payload are those of what it is about, under either scheme.
LEMMA KeyIsFor ==
  ASSUME NEW p \in PayloadRow, NEW byFrames \in BOOLEAN
  PROVE  /\ KeyFor(defaultKey(p, byFrames), Problem(p, byFrames))
         /\ Problem(p, TRUE).kind = "exception" => Problem(p, FALSE).kind = "exception"
         /\ Problem(p, TRUE).kind = "message" => Problem(p, FALSE).kind = "message"
<1> DEFINE k == Innermost(p.exceptions)
           xs == exceptions(p)
           e == EntryAt(p.exceptions, k)
           text == FirstIndex(Texts(p))
           m == message(p)
           x == p.transaction
           framed(by) == Framed(p, by, k)
           b(by) == Problem(p, by)
<1>1. p.exceptions \in Seq(Entry(ExceptionRow)) /\ x \in Name
  BY DEF PayloadRow
<1>2. /\ k \in Nat /\ (xs = <<>> <=> k = 0)
      /\ xs # <<>> => Last(xs) = e /\ Last(xs) \in ExceptionRow
  BY <1>1, LastDecoded DEF exceptions
<1>3. /\ text \in Nat /\ m \in Name
      /\ m = NoName <=> text = 0
      /\ text > 0 => Texts(p)[text] = m
  BY FirstText DEF NoName
<1>4. ASSUME NEW by \in BOOLEAN
      PROVE  /\ framed(by) => b(by) = CallProblem(e.type, Calls(e))
             /\ ~framed(by) /\ k > 0 => b(by) = ExceptionProblem(e.type, e.value, x)
             /\ k = 0 /\ text > 0 => b(by) = MessageProblem(Texts(p)[text], x)
             /\ k = 0 /\ text = 0 => b(by) = BareProblem(x)
  BY <1>2, <1>3, ProblemCases
<1>5. k > 0 => /\ e \in ExceptionRow /\ e.type \in Name /\ e.value \in Name
               /\ Calls(e) \in Seq(Name \X Name) /\ frameKeys(e) = CallKeys(Calls(e))
               /\ frameKeys(e) = <<>> <=> Calls(e) = <<>>
  <2> SUFFICES ASSUME k > 0
               PROVE  /\ e \in ExceptionRow /\ e.type \in Name /\ e.value \in Name
                      /\ Calls(e) \in Seq(Name \X Name) /\ frameKeys(e) = CallKeys(Calls(e))
                      /\ frameKeys(e) = <<>> <=> Calls(e) = <<>>
    OBVIOUS
  <2>1. e \in ExceptionRow
    BY <1>2
  <2> HIDE DEF e
  <2>2. Calls(e) \in Seq(Name \X Name) /\ frameKeys(e) = CallKeys(Calls(e))
    BY <2>1, KeysAreCalls
  <2>3. Len(CallKeys(Calls(e))) = Len(Calls(e)) /\ CallKeys(Calls(e)) \in Seq(Words)
    BY <2>2, CallKeysWords
  <2>4. frameKeys(e) = <<>> <=> Calls(e) = <<>>
    BY <2>2, <2>3
  <2>5. e.type \in Name /\ e.value \in Name
    BY <2>1 DEF ExceptionRow
  <2> QED BY <2>1, <2>2, <2>4, <2>5
<1>6. framed(FALSE) = FALSE /\ (framed(TRUE) <=> HasFrames(p))
  <2>1. framed(TRUE) <=> k > 0 /\ p.platform # "javascript" /\ Calls(e) # <<>>
    BY DEF Framed
  <2>2. HasFrames(p) <=> xs # <<>> /\ p.platform # "javascript" /\ frameKeys(Last(xs)) # <<>>
    BY DEF HasFrames
  <2>3. framed(FALSE) = FALSE
    BY DEF Framed
  <2> HIDE DEF k, xs, e, framed
  <2>4. k > 0 <=> xs # <<>>
    BY <1>2
  <2>5. xs # <<>> => Last(xs) = e
    BY <1>2
  <2> HIDE DEF Last
  <2> QED BY <1>5, <2>1, <2>2, <2>3, <2>4, <2>5
<1>7. defaultKeyV1(p) = IF k > 0 THEN ExceptionText(e.type, e.value, x)
                        ELSE IF m # NoName THEN MessageText(m, x) ELSE BareText(x)
  <2>1. ASSUME NEW a, NEW w
        PROVE  WithTransaction(Spelled(a) \o <<"|">> \o Spelled(w), p) = ExceptionText(a, w, x)
    BY WithTransactionIs DEF ExceptionText
  <2>2. WithTransaction(<<m>>, p) = MessageText(m, x)
    BY WithTransactionIs DEF MessageText
  <2>3. <<"unlabeled", "|">> \o Spelled(x) = BareText(x)
    BY DEF BareText
  <2> DEFINE z == Last(xs)
             v1 == defaultKeyV1(p)
             A == WithTransaction(Spelled(z.type) \o <<"|">> \o Spelled(z.value), p)
             B == WithTransaction(<<m>>, p)
             C == <<"unlabeled", "|">> \o Spelled(x)
  <2>4. v1 = CASE xs # <<>> -> A [] xs = <<>> /\ m # NoName -> B [] OTHER -> C
    BY DEF defaultKeyV1, NoName
  <2>5. A = ExceptionText(z.type, z.value, x) /\ B = MessageText(m, x) /\ C = BareText(x)
    BY <2>1, <2>2, <2>3
  <2>6. xs # <<>> => z = e
    BY <1>2
  <2>7. k > 0 <=> xs # <<>>
    BY <1>2
  <2> HIDE DEF z, v1, A, B, C, xs, m, x, e, k
  <2> QED BY <2>4, <2>5, <2>6, <2>7 DEF v1
<1>8. HasFrames(p) => defaultKeyV2(p) = CallText(e.type, Calls(e))
  <2> SUFFICES ASSUME HasFrames(p) PROVE defaultKeyV2(p) = CallText(e.type, Calls(e))
    OBVIOUS
  <2>1. xs # <<>> /\ k > 0 /\ Last(xs) = e
    BY <1>2 DEF HasFrames
  <2>2. defaultKeyV2(p) = <<"v2", "|">> \o Spelled(Last(xs).type) \o <<"|">> \o Join(frameKeys(Last(xs)), ">")
    BY DEF defaultKeyV2
  <2> QED BY <1>5, <2>1, <2>2 DEF CallText
<1>9. ~ HasFrames(p) => defaultKeyV2(p) = defaultKeyV1(p)
  BY DEF defaultKeyV2
<1> HIDE DEF k, xs, e, text, m, x, framed, b
<1>10. ASSUME NEW by \in BOOLEAN, framed(by)
       PROVE  /\ by = TRUE /\ b(by) = CallProblem(e.type, Calls(e))
              /\ defaultKey(p, by) = CallText(e.type, Calls(e)) /\ Calls(e) # <<>> /\ k > 0
  <2>1. by = TRUE
    BY <1>6, <1>10
  <2>2. Calls(e) # <<>> /\ k > 0
    BY <1>10 DEF framed, Framed, e
  <2>3. defaultKey(p, by) = defaultKeyV2(p)
    BY <2>1 DEF defaultKey
  <2> QED BY <1>4, <1>6, <1>8, <1>10, <2>1, <2>2, <2>3
<1>11. ASSUME NEW by \in BOOLEAN, ~ framed(by)
       PROVE  defaultKey(p, by) = defaultKeyV1(p)
  BY <1>6, <1>9, <1>11 DEF defaultKey
<1>12. ASSUME NEW by \in BOOLEAN PROVE KeyFor(defaultKey(p, by), b(by))
  <2>1. CASE framed(by)
    <3>1. /\ e.type \in Name /\ Calls(e) \in Seq(Name \X Name) /\ Calls(e) # <<>>
          /\ b(by) = CallProblem(e.type, Calls(e)) /\ defaultKey(p, by) = CallText(e.type, Calls(e))
      BY <1>5, <1>10, <2>1
    <3> QED BY <3>1 DEF KeyFor
  <2>2. CASE ~ framed(by) /\ k > 0
    <3>1. /\ e.type \in Name /\ e.value \in Name /\ b(by) = ExceptionProblem(e.type, e.value, x)
          /\ defaultKey(p, by) = ExceptionText(e.type, e.value, x)
      BY <1>4, <1>5, <1>7, <1>11, <2>2
    <3> QED BY <1>1, <3>1 DEF KeyFor
  <2>3. CASE ~ framed(by) /\ k = 0 /\ text > 0
    <3>1. b(by) = MessageProblem(m, x) /\ defaultKey(p, by) = MessageText(m, x)
      BY <1>3, <1>4, <1>7, <1>11, <2>3
    <3> QED BY <1>1, <1>3, <3>1 DEF KeyFor
  <2>4. CASE ~ framed(by) /\ k = 0 /\ text = 0
    <3>1. b(by) = BareProblem(x) /\ defaultKey(p, by) = BareText(x)
      BY <1>3, <1>4, <1>7, <1>11, <2>4
    <3> QED BY <1>1, <3>1 DEF KeyFor
  <2>5. (k = 0 \/ k > 0) /\ (text = 0 \/ text > 0)
    BY <1>2, <1>3
  <2> QED BY <2>1, <2>2, <2>3, <2>4, <2>5
<1>13. b(TRUE).kind = "exception" => b(FALSE).kind = "exception"
  <2> SUFFICES ASSUME b(TRUE).kind = "exception" PROVE b(FALSE).kind = "exception"
    OBVIOUS
  <2>1. k > 0
    <3>1. (k = 0 \/ k > 0) /\ (text = 0 \/ text > 0)
      BY <1>2, <1>3
    <3>2. k = 0 => b(TRUE).kind \in {"message", "unlabeled"}
      BY <1>4, <3>1, Kinds
    <3> QED BY <3>1, <3>2
  <2>2. b(FALSE) = ExceptionProblem(e.type, e.value, x)
    BY <1>4, <1>6, <2>1
  <2> QED BY <2>2, Kinds
<1>14. b(TRUE).kind = "message" => b(FALSE).kind = "message"
  <2> SUFFICES ASSUME b(TRUE).kind = "message" PROVE b(FALSE).kind = "message"
    OBVIOUS
  <2>1. k = 0 /\ text > 0
    <3>1. (k = 0 \/ k > 0) /\ (text = 0 \/ text > 0)
      BY <1>2, <1>3
    <3>2. k > 0 => b(TRUE).kind \in {"calls", "exception"}
      <4>1. framed(TRUE) => b(TRUE).kind = "calls"
        BY <1>4, Kinds
      <4>2. ASSUME ~framed(TRUE), k > 0 PROVE b(TRUE).kind = "exception"
        <5>1. b(TRUE) = ExceptionProblem(e.type, e.value, x)
          BY <1>4, <4>2
        <5> QED BY <5>1, Kinds
      <4> QED BY <4>1, <4>2
    <3>3. k = 0 /\ text = 0 => b(TRUE).kind = "unlabeled"
      BY <1>4, Kinds
    <3> QED BY <3>1, <3>2, <3>3
  <2>2. b(FALSE) = MessageProblem(Texts(p)[text], x)
    BY <1>4, <2>1
  <2> QED BY <2>2, Kinds
<1> QED BY <1>12, <1>13, <1>14 DEF b

\* The keys are texts.
LEMMA SpellingWords ==
  ASSUME NEW t \in Name, NEW v \in Name, NEW x \in Name
  PROVE  /\ ExceptionText(t, v, x) \in Words /\ MessageText(t, x) \in Words /\ BareText(x) \in Words
<1>1. /\ Spelled(t) \in Words /\ Spelled(v) \in Words /\ <<"|">> \in Words
      /\ <<t>> \in Words /\ <<"|", x>> \in Words /\ Spelled(x) \in Words /\ <<"unlabeled", "|">> \in Words
  BY NameWords, MarkWords
<1>2. Spelled(t) \o <<"|">> \o Spelled(v) \in Words
  BY <1>1, ConcatWords
<1>3. Spelled(t) \o <<"|">> \o Spelled(v) \o <<"|", x>> \in Words
  BY <1>1, <1>2, ConcatWords
<1>4. <<t>> \o <<"|", x>> \in Words
  BY <1>1, ConcatWords
<1>5. BareText(x) \in Words
  BY <1>1, ConcatWords DEF BareText
<1> QED BY <1>1, <1>2, <1>3, <1>4, <1>5 DEF ExceptionText, MessageText

\* The first word of a key tells the kind of the problem, but for a message.
LEMMA KeyStart ==
  ASSUME NEW key, NEW b, KeyFor(key, b)
  PROVE  /\ key \in Words
         /\ \/ /\ b.kind = "calls" /\ key[1] = "v2"
               /\ \E t \in Name, c \in Seq(Name \X Name) :
                    c # <<>> /\ b = CallProblem(t, c) /\ key = CallText(t, c)
            \/ /\ b.kind = "exception" /\ key[1] \in Name \cup {"|"}
               /\ \E t, v, x \in Name : b = ExceptionProblem(t, v, x) /\ key = ExceptionText(t, v, x)
            \/ /\ b.kind = "message" /\ key[1] \in Name
               /\ \E m, x \in Name : b = MessageProblem(m, x) /\ key = MessageText(m, x)
            \/ /\ b.kind = "unlabeled" /\ key[1] = "unlabeled"
               /\ \E x \in Name : b = BareProblem(x) /\ key = BareText(x)
<1>1. ASSUME NEW t \in Name, NEW c \in Seq(Name \X Name), c # <<>>, b = CallProblem(t, c),
             key = CallText(t, c)
      PROVE  key \in Words /\ b.kind = "calls" /\ key[1] = "v2"
  BY <1>1, CallShape, Kinds
<1>2. ASSUME NEW t \in Name, NEW v \in Name, NEW x \in Name, b = ExceptionProblem(t, v, x),
             key = ExceptionText(t, v, x)
      PROVE  key \in Words /\ b.kind = "exception" /\ key[1] \in Name \cup {"|"}
  <2>1. ExceptionShaped(key, t, v, x) /\ key \in Words /\ b.kind = "exception"
    BY <1>2, ExceptionShape, SpellingWords, Kinds
  <2>2. key[1] = IF t = NoName THEN "|" ELSE t
    BY <2>1 DEF ExceptionShaped
  <2> QED BY <2>1, <2>2
<1>3. ASSUME NEW m \in Name, NEW x \in Name, b = MessageProblem(m, x), key = MessageText(m, x)
      PROVE  key \in Words /\ b.kind = "message" /\ key[1] \in Name
  <2>1. MessageText(m, x)[1] = m
    BY MessageShape DEF Shaped
  <2>2. MessageText(m, x) \in Words
    BY SpellingWords
  <2> QED BY <1>3, <2>1, <2>2, Kinds
<1>4. ASSUME NEW x \in Name, b = BareProblem(x), key = BareText(x)
      PROVE  key \in Words /\ b.kind = "unlabeled" /\ key[1] = "unlabeled"
  <2>1. BareText(x)[1] = "unlabeled"
    BY BareShape DEF Shaped
  <2>2. BareText(x) \in Words
    BY SpellingWords
  <2> QED BY <1>4, <2>1, <2>2, Kinds
<1> QED BY <1>1, <1>2, <1>3, <1>4 DEF KeyFor

\* A problem has one key.
LEMMA KeySame ==
  ASSUME NEW key, NEW text, NEW b, KeyFor(key, b), KeyFor(text, b)
  PROVE  key = text
<1>1. CASE b.kind = "calls"
  <2>1. PICK t \in Name, c \in Seq(Name \X Name) : b = CallProblem(t, c) /\ key = CallText(t, c)
    BY <1>1, KeyStart
  <2>2. PICK u \in Name, d \in Seq(Name \X Name) : b = CallProblem(u, d) /\ text = CallText(u, d)
    BY <1>1, KeyStart
  <2>3. b.names = <<t>> /\ b.names = <<u>> /\ b.calls = c /\ b.calls = d
    BY <2>1, <2>2 DEF CallProblem
  <2>4. t = u /\ c = d
    BY <2>3
  <2> QED BY <2>1, <2>2, <2>4
<1>2. CASE b.kind = "exception"
  <2>1. PICK t, v, x \in Name : b = ExceptionProblem(t, v, x) /\ key = ExceptionText(t, v, x)
    BY <1>2, KeyStart
  <2>2. PICK u, w, y \in Name : b = ExceptionProblem(u, w, y) /\ text = ExceptionText(u, w, y)
    BY <1>2, KeyStart
  <2>3. b.names = <<t, v, x>> /\ b.names = <<u, w, y>>
    BY <2>1, <2>2 DEF ExceptionProblem
  <2>4. t = u /\ v = w /\ x = y
    BY <2>3
  <2> QED BY <2>1, <2>2, <2>4
<1>3. CASE b.kind = "message"
  <2>1. PICK m, x \in Name : b = MessageProblem(m, x) /\ key = MessageText(m, x)
    BY <1>3, KeyStart
  <2>2. PICK w, y \in Name : b = MessageProblem(w, y) /\ text = MessageText(w, y)
    BY <1>3, KeyStart
  <2>3. b.names = <<m, x>> /\ b.names = <<w, y>>
    BY <2>1, <2>2 DEF MessageProblem
  <2>4. m = w /\ x = y
    BY <2>3
  <2> QED BY <2>1, <2>2, <2>4
<1>4. CASE b.kind = "unlabeled"
  <2>1. PICK x \in Name : b = BareProblem(x) /\ key = BareText(x)
    BY <1>4, KeyStart
  <2>2. PICK y \in Name : b = BareProblem(y) /\ text = BareText(y)
    BY <1>4, KeyStart
  <2>3. b.names = <<x>> /\ b.names = <<y>>
    BY <2>1, <2>2 DEF BareProblem
  <2>4. x = y
    BY <2>3
  <2> QED BY <2>1, <2>2, <2>4
<1> QED BY <1>1, <1>2, <1>3, <1>4, KeyStart

\* A key is that of one problem, or of a message and an exception.
LEMMA KeyOnce ==
  ASSUME NEW key, NEW b, NEW d, KeyFor(key, b), KeyFor(key, d), {"message", "exception"} # {b.kind, d.kind}
  PROVE  b = d
<1> DEFINE K == {"calls", "exception", "message", "unlabeled"}
<1>1. b.kind \in K /\ d.kind \in K
  BY KeyStart
<1>2. ASSUME NEW a, KeyFor(key, a)
      PROVE  /\ a.kind = "calls" <=> key[1] = "v2"
             /\ a.kind = "unlabeled" <=> key[1] = "unlabeled"
  BY <1>2, KeyStart, NamesApart
<1>3. (b.kind = "calls" <=> d.kind = "calls") /\ (b.kind = "unlabeled" <=> d.kind = "unlabeled")
  BY <1>2
<1>4. b.kind = d.kind
  <2>1. ~ (b.kind = "message" /\ d.kind = "exception") /\ ~ (b.kind = "exception" /\ d.kind = "message")
    OBVIOUS
  <2> QED BY <1>1, <1>3, <2>1
<1>5. CASE b.kind = "calls"
  <2>1. d.kind = "calls"
    BY <1>4, <1>5
  <2>2. PICK t \in Name, c \in Seq(Name \X Name) : c # <<>> /\ b = CallProblem(t, c) /\ key = CallText(t, c)
    BY <1>5, KeyStart
  <2>3. PICK u \in Name, e \in Seq(Name \X Name) : e # <<>> /\ d = CallProblem(u, e) /\ key = CallText(u, e)
    BY <2>1, KeyStart
  <2>4. t = u /\ c = e
    BY <2>2, <2>3, CallTextOnce
  <2> QED BY <2>2, <2>3, <2>4
<1>6. CASE b.kind = "exception"
  <2>1. d.kind = "exception"
    BY <1>4, <1>6
  <2>2. PICK t, v, x \in Name : b = ExceptionProblem(t, v, x) /\ key = ExceptionText(t, v, x)
    BY <1>6, KeyStart
  <2>3. PICK u, w, y \in Name : d = ExceptionProblem(u, w, y) /\ key = ExceptionText(u, w, y)
    BY <2>1, KeyStart
  <2>4. t = u /\ v = w /\ x = y
    <3>1. ExceptionShaped(key, t, v, x)
      BY <2>2, ExceptionShape
    <3>2. ExceptionShaped(key, u, w, y)
      BY <2>3, ExceptionShape
    <3> QED BY <3>1, <3>2, ExceptionTextOnce
  <2> QED BY <2>2, <2>3, <2>4
<1>7. CASE b.kind = "message"
  <2>1. d.kind = "message"
    BY <1>4, <1>7
  <2>2. PICK m, x \in Name : b = MessageProblem(m, x) /\ key = MessageText(m, x)
    BY <1>7, KeyStart
  <2>3. PICK w, y \in Name : d = MessageProblem(w, y) /\ key = MessageText(w, y)
    BY <2>1, KeyStart
  <2>4. Shaped(key, m, x, 1)
    BY <2>2, MessageShape
  <2>5. Shaped(key, w, y, 1)
    BY <2>3, MessageShape
  <2>6. m = w /\ x = y
    BY <2>4, <2>5 DEF Shaped
  <2> QED BY <2>2, <2>3, <2>6
<1>8. CASE b.kind = "unlabeled"
  <2>1. d.kind = "unlabeled"
    BY <1>4, <1>8
  <2>2. PICK x \in Name : b = BareProblem(x) /\ key = BareText(x)
    BY <1>8, KeyStart
  <2>3. PICK y \in Name : d = BareProblem(y) /\ key = BareText(y)
    BY <2>1, KeyStart
  <2>4. Shaped(key, "unlabeled", x, 2)
    BY <2>2, BareShape
  <2>5. Shaped(key, "unlabeled", y, 2)
    BY <2>3, BareShape
  <2>6. x = y
    BY <2>4, <2>5 DEF Shaped
  <2> QED BY <2>2, <2>3, <2>6
<1> QED BY <1>1, <1>5, <1>6, <1>7, <1>8

\* The words of an event that cannot be read are those of no problem.
LEMMA Unreadable ==
  ASSUME NEW b, KeyFor(<<"unparseable">>, b)
  PROVE  FALSE
<1>1. <<"unparseable">>[1] = "unparseable"
  OBVIOUS
<1> QED BY <1>1, KeyStart, NamesApart

(***************************************************************************)
(* Fingerprints say what events mean.                                      *)
(***************************************************************************)
Scheme(p, byFrames) ==
  IF p = Undecodable THEN <<"unparseable">> ELSE fingerprintFor(p, defaultKey(p, byFrames))

PartProblem(n) == [kind |-> "part", names |-> <<n>>, calls |-> <<>>]

Unparsed == [kind |-> "unparseable", names |-> <<>>, calls |-> <<>>]

PartFor(text, b) ==
  \/ KeyFor(text, b)
  \/ \E n \in Name : b = PartProblem(n) /\ text = Spelled(n)
  \/ b = Unparsed /\ text = <<"unparseable">>

\* A part of a meaning is spelled in one way.
LEMMA PartSame ==
  ASSUME NEW s, NEW t, NEW b, PartFor(s, b), PartFor(t, b)
  PROVE  s = t
<1>1. \A a, x : KeyFor(x, a) => a.kind \in {"calls", "exception", "message", "unlabeled"}
  BY KeyStart
<1>2. (\A n : PartProblem(n).kind = "part" /\ PartProblem(n).names = <<n>>) /\ Unparsed.kind = "unparseable"
  BY DEF PartProblem, Unparsed
<1>3. CASE KeyFor(s, b)
  <2>1. b.kind # "part" /\ b.kind # "unparseable"
    BY <1>1, <1>3
  <2>2. KeyFor(t, b)
    BY <1>2, <2>1 DEF PartFor
  <2> QED BY <1>3, <2>2, KeySame
<1>4. CASE \E n \in Name : b = PartProblem(n) /\ s = Spelled(n)
  <2>1. PICK n \in Name : b = PartProblem(n) /\ s = Spelled(n)
    BY <1>4
  <2>2. b.kind = "part" /\ b.names = <<n>>
    BY <1>2, <2>1
  <2>3. ~ KeyFor(t, b) /\ b # Unparsed
    BY <1>1, <1>2, <2>2
  <2>4. PICK m \in Name : b = PartProblem(m) /\ t = Spelled(m)
    BY <2>3 DEF PartFor
  <2>5. <<n>> = <<m>>
    BY <1>2, <2>2, <2>4
  <2>6. n = m
    BY <2>5
  <2> QED BY <2>1, <2>4, <2>6
<1>5. CASE b = Unparsed /\ s = <<"unparseable">>
  <2>1. ~ KeyFor(t, b) /\ \A n : b # PartProblem(n)
    BY <1>1, <1>2, <1>5
  <2> QED BY <1>5, <2>1 DEF PartFor
<1> QED BY <1>3, <1>4, <1>5 DEF PartFor

\* One text joined is itself.
LEMMA JoinOne ==
  ASSUME NEW key \in Words
  PROVE  Join(<<key>>, "|") = key
<1> DEFINE s == <<key>>
<1>1. s \in Seq(Words) /\ s # <<>> /\ Len(s) = 1 /\ s[1] = key /\ "|" \in Separator
  BY DEF Separator
<1> HIDE DEF s
<1>2. Join(s, "|") = key
  BY <1>1, JoinIs
<1> QED BY <1>2 DEF s

\* Meaning in the terms of the lemmas.
LEMMA Readings ==
  ASSUME NEW p, NEW byFrames
  PROVE  /\ p = Undecodable => Meaning(p, byFrames) = <<Unparsed>>
         /\ p # Undecodable /\ p.fingerprint = <<>> => Meaning(p, byFrames) = <<Problem(p, byFrames)>>
         /\ p # Undecodable /\ p.fingerprint # <<>> =>
              Meaning(p, byFrames) =
                [i \in DOMAIN p.fingerprint |->
                   IF p.fingerprint[i] = Default THEN Problem(p, byFrames) ELSE PartProblem(p.fingerprint[i])]
<1>1. [NoProblem EXCEPT !.kind = "unparseable"] = Unparsed
  BY DEF NoProblem, Unparsed
<1>2. \A n : [NoProblem EXCEPT !.kind = "part", !.names = <<n>>] = PartProblem(n)
  BY Excepted DEF PartProblem
<1>3. p = Undecodable => Meaning(p, byFrames) = <<[NoProblem EXCEPT !.kind = "unparseable"]>>
  BY DEF Meaning
<1>4. p # Undecodable /\ p.fingerprint = <<>> => Meaning(p, byFrames) = <<Problem(p, byFrames)>>
  BY DEF Meaning
<1>5. p # Undecodable /\ p.fingerprint # <<>> =>
        Meaning(p, byFrames) =
          [i \in DOMAIN p.fingerprint |->
             IF p.fingerprint[i] = Default THEN Problem(p, byFrames)
             ELSE [NoProblem EXCEPT !.kind = "part", !.names = <<p.fingerprint[i]>>]]
  BY DEF Meaning
<1> QED BY <1>1, <1>2, <1>3, <1>4, <1>5

SpelledOut(T, M) ==
  /\ T \in Seq(Words) /\ T # <<>> /\ DOMAIN M = 1 .. Len(T)
  /\ \A i \in 1 .. Len(T) : PartFor(T[i], M[i])

\* A fingerprint joins what spells the parts of the meaning.
LEMMA SchemeParts ==
  ASSUME NEW p \in PayloadRow \cup {Undecodable}, NEW byFrames \in BOOLEAN
  PROVE  \E T : SpelledOut(T, Meaning(p, byFrames)) /\ Scheme(p, byFrames) = Join(T, "|")
<1> DEFINE M == Meaning(p, byFrames)
           key == defaultKey(p, byFrames)
           b == Problem(p, byFrames)
           s == Scheme(p, byFrames)
<1>1. ASSUME NEW text \in Words, NEW a, PartFor(text, a)
      PROVE  SpelledOut(<<text>>, <<a>>) /\ Join(<<text>>, "|") = text
  <2>1. <<text>> \in Seq(Words) /\ <<text>> # <<>> /\ Len(<<text>>) = 1 /\ DOMAIN <<a>> = 1 .. 1
    OBVIOUS
  <2>2. \A i \in 1 .. 1 : <<text>>[i] = text /\ <<a>>[i] = a
    OBVIOUS
  <2> QED BY <1>1, <2>1, <2>2, JoinOne DEF SpelledOut
<1>2. CASE p = Undecodable
  <2>1. M = <<Unparsed>> /\ s = <<"unparseable">>
    BY <1>2, Readings DEF Scheme
  <2>2. PartFor(<<"unparseable">>, Unparsed) /\ <<"unparseable">> \in Words
    BY MarkWords DEF PartFor
  <2> QED BY <1>1, <2>1, <2>2
<1>3. CASE p # Undecodable
  <2>1. p \in PayloadRow
    BY <1>3
  <2>2. KeyFor(key, b)
    BY <2>1, KeyIsFor
  <2>3. key \in Words
    BY <2>2, KeyStart
  <2>4. PartFor(key, b)
    BY <2>2 DEF PartFor
  <2>5. s = fingerprintFor(p, key)
    BY <1>3 DEF Scheme
  <2> HIDE DEF key, b, s
  <2>6. CASE p.fingerprint = <<>>
    <3>1. M = <<b>>
      BY <1>3, <2>6, Readings DEF b
    <3>2. s = key
      BY <2>5, <2>6 DEF fingerprintFor
    <3> QED BY <1>1, <2>3, <2>4, <3>1, <3>2 DEF s
  <2>7. CASE p.fingerprint # <<>>
    <3> DEFINE f == p.fingerprint
               n == Len(f)
               T == [i \in DOMAIN f |-> IF f[i] = Default THEN key ELSE Spelled(f[i])]
    <3>1. M = [i \in DOMAIN f |-> IF f[i] = Default THEN b ELSE PartProblem(f[i])]
      BY <1>3, <2>7, Readings DEF b
    <3>2. s = Join(T, "|")
      BY <2>5, <2>7 DEF fingerprintFor
    <3>3. f \in Seq(Name \cup {Default}) /\ f # <<>>
      BY <2>1, <2>7 DEF PayloadRow
    <3> HIDE DEF f, M
    <3>4. /\ n \in Nat /\ n # 0 /\ DOMAIN f = 1 .. n
          /\ \A i \in 1 .. n : f[i] \in Name \/ f[i] = Default
      BY <3>3
    <3> HIDE DEF n
    <3>5. ASSUME NEW i \in 1 .. n
          PROVE  /\ T[i] \in Words /\ PartFor(T[i], M[i])
      <4>1. CASE f[i] = Default
        <5>1. T[i] = key /\ M[i] = b
          BY <3>1, <3>4, <4>1
        <5> QED BY <2>3, <2>4, <5>1
      <4>2. CASE f[i] # Default
        <5>1. T[i] = Spelled(f[i]) /\ M[i] = PartProblem(f[i]) /\ f[i] \in Name
          BY <3>1, <3>4, <4>2
        <5>2. Spelled(f[i]) \in Words
          BY <5>1, NameWords
        <5>3. PartFor(Spelled(f[i]), PartProblem(f[i]))
          BY <5>1 DEF PartFor
        <5> QED BY <5>1, <5>2, <5>3
      <4> QED BY <4>1, <4>2
    <3>6. T = [i \in 1 .. n |-> T[i]] /\ DOMAIN M = 1 .. n
      BY <3>1, <3>4
    <3> HIDE DEF T
    <3>7. T \in [1 .. n -> Words]
      BY <3>5, <3>6
    <3>8. T \in Seq(Words) /\ Len(T) = n /\ T # <<>>
      BY <3>4, <3>7
    <3>9. SpelledOut(T, M)
      BY <3>5, <3>6, <3>8 DEF SpelledOut
    <3> QED BY <3>2, <3>9 DEF s, M
  <2> QED BY <2>6, <2>7
<1> QED BY <1>2, <1>3

\* Events that mean the same are given the same fingerprint.
LEMMA SameMeaning ==
  ASSUME NEW p \in PayloadRow \cup {Undecodable}, NEW q \in PayloadRow \cup {Undecodable},
         NEW byFrames \in BOOLEAN, Meaning(p, byFrames) = Meaning(q, byFrames)
  PROVE  Scheme(p, byFrames) = Scheme(q, byFrames)
<1> DEFINE M == Meaning(p, byFrames)
<1>1. PICK T : SpelledOut(T, M) /\ Scheme(p, byFrames) = Join(T, "|")
  BY SchemeParts
<1>2. PICK U : SpelledOut(U, Meaning(q, byFrames)) /\ Scheme(q, byFrames) = Join(U, "|")
  BY SchemeParts
<1>3. SpelledOut(U, M)
  BY <1>2
<1> HIDE DEF M
<1>4. T \in Seq(Words) /\ U \in Seq(Words) /\ 1 .. Len(T) = 1 .. Len(U)
  BY <1>1, <1>3 DEF SpelledOut
<1>5. Len(T) = Len(U)
  BY <1>4
<1>6. \A i \in 1 .. Len(T) : T[i] = U[i]
  BY <1>1, <1>3, <1>5, PartSame DEF SpelledOut
<1>7. T = U
  BY <1>4, <1>5, <1>6, SameSequence
<1> QED BY <1>1, <1>2, <1>7

\* Events whose SDK gives no fingerprint, and that are not one a message and the
\* other an exception, are given the same one only if they mean the same.
LEMMA SameScheme ==
  ASSUME NEW p \in PayloadRow \cup {Undecodable}, NEW q \in PayloadRow \cup {Undecodable},
         NEW byFrames \in BOOLEAN, ~ MaySpell(p, q), Scheme(p, byFrames) = Scheme(q, byFrames)
  PROVE  Meaning(p, byFrames) = Meaning(q, byFrames)
<1>1. ASSUME NEW r \in {p, q}, r # Undecodable
      PROVE  /\ r \in PayloadRow /\ Meaning(r, FALSE) = <<Problem(r, FALSE)>>
             /\ Meaning(r, byFrames) = <<Problem(r, byFrames)>>
             /\ Scheme(r, byFrames) = defaultKey(r, byFrames)
             /\ KeyFor(Scheme(r, byFrames), Problem(r, byFrames))
  <2>1. r.fingerprint = <<>> /\ r \in PayloadRow
    BY <1>1 DEF MaySpell
  <2>2. Scheme(r, byFrames) = defaultKey(r, byFrames)
    BY <1>1, <2>1 DEF Scheme, fingerprintFor
  <2>3. KeyFor(defaultKey(r, byFrames), Problem(r, byFrames))
    BY <2>1, KeyIsFor
  <2>4. Meaning(r, FALSE) = <<Problem(r, FALSE)>> /\ Meaning(r, byFrames) = <<Problem(r, byFrames)>>
    BY <1>1, <2>1, Readings
  <2> QED BY <2>1, <2>2, <2>3, <2>4
<1>2. CASE p = Undecodable /\ q = Undecodable
  BY <1>2
<1>3. CASE p = Undecodable /\ q # Undecodable
  <2>1. Scheme(q, byFrames) = <<"unparseable">>
    BY <1>3 DEF Scheme
  <2> QED BY <1>1, <1>3, <2>1, Unreadable
<1>4. CASE p # Undecodable /\ q = Undecodable
  <2>1. Scheme(p, byFrames) = <<"unparseable">>
    BY <1>4 DEF Scheme
  <2> QED BY <1>1, <1>4, <2>1, Unreadable
<1>5. CASE p # Undecodable /\ q # Undecodable
  <2> DEFINE b == Problem(p, byFrames)
             d == Problem(q, byFrames)
             x == Problem(p, FALSE)
             y == Problem(q, FALSE)
             key == Scheme(p, byFrames)
  <2>1. KeyFor(key, b) /\ KeyFor(key, d)
    BY <1>1, <1>5
  <2>2. Meaning(p, FALSE)[1] = x /\ Meaning(q, FALSE)[1] = y
    <3>1. Meaning(p, FALSE) = <<x>> /\ Meaning(q, FALSE) = <<y>>
      BY <1>1, <1>5
    <3>2. \A a, m : m = <<a>> => m[1] = a
      OBVIOUS
    <3> HIDE DEF x, y
    <3> QED BY <3>1, <3>2, Zenon
  <2>3. {"message", "exception"} # {x.kind, y.kind}
    BY <2>2 DEF MaySpell
  <2>4. /\ (b.kind = "exception" => x.kind = "exception") /\ (b.kind = "message" => x.kind = "message")
        /\ (d.kind = "exception" => y.kind = "exception") /\ (d.kind = "message" => y.kind = "message")
    <3>1. p \in PayloadRow /\ q \in PayloadRow
      BY <1>1, <1>5
    <3>2. byFrames = TRUE \/ byFrames = FALSE
      OBVIOUS
    <3> QED BY <3>1, <3>2, KeyIsFor
  <2> HIDE DEF b, d, x, y, key
  <2>5. {"message", "exception"} # {b.kind, d.kind}
    BY <2>3, <2>4
  <2>6. b = d
    BY <2>1, <2>5, KeyOnce
  <2> QED BY <1>1, <1>5, <2>6 DEF b, d
<1> QED BY <1>2, <1>3, <1>4, <1>5

\* What computeFrom gives are the fingerprints of the two schemes.
LEMMA ComputeIs ==
  ASSUME NEW p \in PayloadRow \cup {Undecodable}
  PROVE  LET c == computeFrom(p)
         IN  /\ c.fingerprint = Scheme(p, TRUE)
             /\ (IF c.legacy = Null THEN c.fingerprint ELSE c.legacy) = Scheme(p, FALSE)
<1> DEFINE c == computeFrom(p)
           v2 == Scheme(p, TRUE)
           v1 == Scheme(p, FALSE)
<1>1. v1 # Null
  <2>1. PICK T : SpelledOut(T, Meaning(p, FALSE)) /\ v1 = Join(T, "|")
    BY SchemeParts
  <2>2. T \in Seq(Words) /\ T # <<>> /\ "|" \in Separator
    BY <2>1 DEF SpelledOut, Separator
  <2>3. v1 \in Words
    BY <2>1, <2>2, JoinWords
  <2> QED BY <2>3, FingerprintsAssumption DEF Words
<1>2. CASE p = Undecodable
  <2>1. c = [fingerprint |-> <<"unparseable">>, legacy |-> Null] /\ v2 = <<"unparseable">> /\ v1 = v2
    BY <1>2 DEF computeFrom, Scheme
  <2> HIDE DEF c, v1, v2
  <2>2. c.fingerprint = v2 /\ (IF c.legacy = Null THEN c.fingerprint ELSE c.legacy) = v1
    BY <2>1
  <2> QED BY <2>2 DEF c, v1, v2
<1>3. CASE p # Undecodable
  <2>1. c = [fingerprint |-> v2, legacy |-> IF v1 = v2 THEN Null ELSE v1]
    BY <1>3 DEF computeFrom, Scheme, defaultKey
  <2> HIDE DEF c, v1, v2
  <2>2. c.fingerprint = v2 /\ (IF c.legacy = Null THEN c.fingerprint ELSE c.legacy) = v1
    BY <1>1, <2>1
  <2> QED BY <2>2 DEF c, v1, v2
<1> QED BY <1>2, <1>3

(***************************************************************************)
(* Every payload.                                                          *)
(***************************************************************************)
FingerprintsSpec == FingerprintsInit /\ [][UNCHANGED payload]_payload

\* Of any two events, with any number of exceptions, frames and parts, each scheme
\* gives the same fingerprint to those about one problem, and to no others but what
\* MaySpell lists (fingerprint.go: computeFrom, defaultKeyV1, defaultKeyV2, frameKeys).
THEOREM GroupedByProblemHolds == FingerprintsSpec => []GroupedByProblem
<1> DEFINE Read == payload \in Payload
<1>1. FingerprintsInit => Read
  BY DEF FingerprintsInit
<1>2. Read /\ [UNCHANGED payload]_payload => Read'
  OBVIOUS
<1>3. Read => GroupedByProblem
  <2> SUFFICES ASSUME payload \in Payload, NEW q \in Payload
               PROVE  LET v1(c) == IF c.legacy = Null THEN c.fingerprint ELSE c.legacy
                          mine == computeFrom(payload)
                          its == computeFrom(q)
                          same(byFrames) == Meaning(payload, byFrames) = Meaning(q, byFrames)
                      IN  /\ same(TRUE) => mine.fingerprint = its.fingerprint
                          /\ same(FALSE) => v1(mine) = v1(its)
                          /\ MaySpell(payload, q)
                             \/ /\ mine.fingerprint = its.fingerprint => same(TRUE)
                                /\ v1(mine) = v1(its) => same(FALSE)
    BY DEF GroupedByProblem
  <2> DEFINE p == payload
             v1(c) == IF c.legacy = Null THEN c.fingerprint ELSE c.legacy
             mine == computeFrom(p)
             its == computeFrom(q)
             same(byFrames) == Meaning(p, byFrames) = Meaning(q, byFrames)
  <2>1. p \in PayloadRow \cup {Undecodable} /\ q \in PayloadRow \cup {Undecodable}
    BY FingerprintsAssumption
  <2>2. mine.fingerprint = Scheme(p, TRUE) /\ v1(mine) = Scheme(p, FALSE)
    BY <2>1, ComputeIs
  <2>3. its.fingerprint = Scheme(q, TRUE) /\ v1(its) = Scheme(q, FALSE)
    BY <2>1, ComputeIs
  <2>4. \A by \in BOOLEAN : same(by) => Scheme(p, by) = Scheme(q, by)
    BY <2>1, SameMeaning
  <2>5. \A by \in BOOLEAN : ~ MaySpell(p, q) /\ Scheme(p, by) = Scheme(q, by) => same(by)
    BY <2>1, SameScheme
  <2> HIDE DEF p, v1, mine, its, same
  <2>6. /\ same(TRUE) => mine.fingerprint = its.fingerprint
        /\ same(FALSE) => v1(mine) = v1(its)
        /\ MaySpell(p, q)
           \/ /\ mine.fingerprint = its.fingerprint => same(TRUE)
              /\ v1(mine) = v1(its) => same(FALSE)
    BY <2>2, <2>3, <2>4, <2>5
  <2> QED BY <2>6 DEF p, v1, mine, its, same
<1> HIDE DEF Read
<1> QED BY <1>1, <1>2, <1>3, PTL DEF FingerprintsSpec
=============================================================================
