------------------------------- MODULE Issues -------------------------------
(***************************************************************************)
(* Issues, their fingerprints and the events linked to them                *)
(* (internal/storage/issues.go), as the database transactions of five      *)
(* kinds of actors change them: groupers (GroupEvent; every instance runs  *)
(* one), the retention worker (purgeEventBatch), the N+1 detector          *)
(* (UpsertIssue), users (merge, unmerge, status) and the snooze and        *)
(* auto-resolve jobs.                                                      *)
(*                                                                         *)
(* A transaction is several steps, one per statement whose result another  *)
(* transaction can change.  Its writes show at commit (READ COMMITTED);    *)
(* until then it holds the row locks of what it wrote.  GroupEvent and     *)
(* purgeEventBatch take the membership advisory lock shared, merge and     *)
(* unmerge take it exclusively, and the detector does not take it.         *)
(***************************************************************************)
EXTENDS Integers, FiniteSets, FiniteSetsExt, Functions

CONSTANTS
  Event,      \* the events stored for one project
  Fp,         \* fingerprints
  FpOf,       \* FpOf[e]: the fingerprint the grouper computes for e
  LegacyFp,   \* LegacyFp[e]: the fingerprint of the older scheme, or None
  N1Fp,       \* the fingerprints of N+1 issues
  Limits,     \* the ignore_count_limit values users ask for
  Grouper,    \* grouping processes
  None,
  MaxIssues,  \* bound on issues ever created
  MaxN1       \* bound on detected N+1 occurrences

ASSUME IssuesAssumption ==
  /\ IsFiniteSet(Event) /\ IsFiniteSet(Fp)
  /\ FpOf \in [Event -> Fp]
  /\ LegacyFp \in [Event -> Fp \cup {None}]
  /\ N1Fp \subseteq Fp
  /\ Limits \subseteq Nat
  /\ None \notin Nat \cup Fp \cup Event \cup {"future", "past"}
  /\ MaxIssues \in Nat /\ MaxN1 \in Nat

IssueId == 1 .. MaxIssues

VARIABLES
  events,  \* the stored events
  issueOf, \* events.issue_id
  fpOf,    \* events.fingerprint, written when the event is linked
  fps,     \* issue_fingerprints: fingerprint -> issue
  issues,  \* the issues table: id -> row
  nextId,  \* ids are never used twice (gen_random_uuid)
  tx,      \* the GroupEvent transaction of each grouper
  n1,      \* the upsert of the N+1 detector
  n1Count, \* N+1 occurrences detected so far
  purge,   \* the purgeEventBatch transaction
  merge,   \* the MergeIssues transaction
  counted  \* history: issues whose event_count includes N+1 occurrences

vars == <<events, issueOf, fpOf, fps, issues, nextId, tx, n1, n1Count, purge,
          merge, counted>>
data == <<events, issueOf, fpOf, fps, issues, nextId, counted>>

Statuses == {"open", "resolved", "ignored", "regressed"}
Idle == [pc |-> "idle", ev |-> None, fp |-> None, target |-> None, tries |-> 0]
NoMerge == [pc |-> "idle", primary |-> None, others |-> {}, total |-> 0]

Live == DOMAIN issues
EventsOf(i) == {e \in events : issueOf[e] = i}

NewIssue(kind, n) ==
  [kind |-> kind, status |-> "open", count |-> n, until |-> None, limit |-> None,
   ignored |-> 0, snoozeEnded |-> FALSE]

Init ==
  /\ events = {}
  /\ issueOf = [e \in Event |-> None] /\ fpOf = [e \in Event |-> None]
  /\ fps = [f \in Fp |-> None]
  /\ issues = <<>> /\ nextId = 1
  /\ tx = [g \in Grouper |-> Idle]
  /\ n1 = Idle /\ n1Count = 0
  /\ purge = {} /\ merge = NoMerge
  /\ counted = {}

-----------------------------------------------------------------------------
(* Locks.  Merge and unmerge wait for every holder of the shared lock. *)

\* Mutant: GroupEvent does not take the lock.
MembershipHeldByPurge == purge # {}

MembershipHeld == (\E g \in Grouper : tx[g].pc # "idle") \/ purge # {}
MembershipExclusive == merge.pc # "idle"

EventLocked(e) == (\E g \in Grouper : tx[g].ev = e) \/ e \in purge
RowLocked(i) == \/ \E g \in Grouper : tx[g].pc = "commit" /\ tx[g].target = i
                \/ merge.primary = i
\* An uncommitted INSERT of the same key makes the next one wait.
FpLocked(f) == \E g \in Grouper : tx[g].pc = "commit" /\ tx[g].target = None /\ tx[g].fp = f

-----------------------------------------------------------------------------
(* upsertIssueOnce. *)

SnoozeOver(r) ==
  /\ r.status = "ignored"
  /\ r.until = "past" \/ (r.limit # None /\ r.ignored + 1 >= r.limit)

Regresses(r) ==
  \/ r.status = "resolved"
  \/ r.status = "open" /\ r.snoozeEnded
  \/ SnoozeOver(r)

\* The fast path: one more occurrence of an issue that exists.
Occurrence(r) ==
  [r EXCEPT !.count = @ + 1,
            !.ignored = IF r.status = "ignored" /\ r.limit # None THEN @ + 1 ELSE @,
            !.status = IF Regresses(r) THEN "regressed" ELSE @,
            !.until = IF SnoozeOver(r) THEN None ELSE @,
            !.limit = IF SnoozeOver(r) THEN None ELSE @,
            !.snoozeEnded = FALSE]

\* Where the upsert transaction t stands after its next statement: it found
\* the row (and locks it), the row is gone, it inserts, or it lost the race for
\* the fingerprint and looks it up again, once.
Updates(t)   == t.target # None /\ t.target \in Live /\ ~RowLocked(t.target)
RowGone(t)   == t.target # None /\ t.target \notin Live
Inserts(t)   == t.target = None /\ ~FpLocked(t.fp) /\ fps[t.fp] = None
Conflicts(t) == t.target = None /\ ~FpLocked(t.fp) /\ fps[t.fp] # None
Retried(t)   == IF t.tries = 0 THEN [t EXCEPT !.pc = "lookup", !.tries = 1] ELSE Idle

AddIssue(r, f) ==
  /\ nextId <= MaxIssues
  /\ issues' = [i \in Live \cup {nextId} |-> IF i = nextId THEN r ELSE issues[i]]
  /\ fps' = [fps EXCEPT ![f] = nextId]
  /\ nextId' = nextId + 1

-----------------------------------------------------------------------------
(* GroupEvent. *)

\* writeBatch of the event buffer.
StoreEvent(e) ==
  /\ e \notin events /\ fpOf[e] = None
  /\ events' = events \cup {e}
  /\ UNCHANGED <<issueOf, fpOf, fps, issues, nextId, tx, n1, n1Count, purge, merge, counted>>

\* Lock the event; an event that is gone or grouped already ends the call
\* without effect.  The legacy fingerprint is used when an issue has it.
GroupBegin(g, e) ==
  /\ tx[g].pc = "idle"
  /\ ~MembershipExclusive
  /\ e \in events /\ issueOf[e] = None /\ ~EventLocked(e)
  /\ LET legacy == LegacyFp[e] # None /\ fps[LegacyFp[e]] # None
     IN  tx' = [tx EXCEPT ![g] = [Idle EXCEPT !.pc = "lookup", !.ev = e,
                                              !.fp = IF legacy THEN LegacyFp[e] ELSE FpOf[e]]]
  /\ UNCHANGED <<data, n1, n1Count, purge, merge>>

GroupLookup(g) ==
  /\ tx[g].pc = "lookup"
  /\ tx' = [tx EXCEPT ![g].pc = "upsert", ![g].target = fps[tx[g].fp]]
  /\ UNCHANGED <<data, n1, n1Count, purge, merge>>

GroupUpsert(g) ==
  /\ tx[g].pc = "upsert"
  /\ \/ (Updates(tx[g]) \/ Inserts(tx[g])) /\ tx' = [tx EXCEPT ![g].pc = "commit"]
     \/ Conflicts(tx[g]) /\ tx' = [tx EXCEPT ![g] = Retried(tx[g])]
     \/ RowGone(tx[g]) /\ tx' = [tx EXCEPT ![g] = Idle]
  /\ UNCHANGED <<data, n1, n1Count, purge, merge>>

\* Link the event and commit.
GroupCommit(g) ==
  LET t == tx[g] IN
    /\ t.pc = "commit"
    /\ IF t.target = None
         THEN AddIssue(NewIssue("error", 1), t.fp)
         ELSE /\ issues' = [issues EXCEPT ![t.target] = Occurrence(@)]
              /\ UNCHANGED <<fps, nextId>>
    /\ issueOf' = [issueOf EXCEPT ![t.ev] = IF t.target = None THEN nextId ELSE t.target]
    /\ fpOf' = [fpOf EXCEPT ![t.ev] = t.fp]
    /\ tx' = [tx EXCEPT ![g] = Idle]
    /\ UNCHANGED <<events, n1, n1Count, purge, merge, counted>>

\* A statement or the commit fails, or the pass runs out of time.
GroupAbort(g) ==
  /\ tx[g].pc # "idle"
  /\ tx' = [tx EXCEPT ![g] = Idle]
  /\ UNCHANGED <<data, n1, n1Count, purge, merge>>

-----------------------------------------------------------------------------
(* The N+1 detector's UpsertIssue: no transaction around its statements on the *)
(* fast path, and no membership lock.                                          *)

N1Detect(f) ==
  /\ n1.pc = "idle" /\ n1Count < MaxN1
  /\ n1' = [Idle EXCEPT !.pc = "lookup", !.fp = f]
  /\ n1Count' = n1Count + 1
  /\ UNCHANGED <<data, tx, purge, merge>>

N1Lookup ==
  /\ n1.pc = "lookup"
  /\ n1' = [n1 EXCEPT !.pc = "upsert", !.target = fps[n1.fp]]
  /\ UNCHANGED <<data, tx, n1Count, purge, merge>>

N1Upsert ==
  /\ n1.pc = "upsert"
  /\ \/ /\ Updates(n1)
        /\ issues' = [issues EXCEPT ![n1.target] = Occurrence(@)]
        /\ counted' = counted \cup {n1.target}
        /\ n1' = Idle
        /\ UNCHANGED <<fps, nextId>>
     \/ /\ Inserts(n1)
        /\ AddIssue(NewIssue("n1_query", 1), n1.fp)
        /\ counted' = counted \cup {nextId}
        /\ n1' = Idle
     \/ /\ Conflicts(n1) /\ n1' = Retried(n1)
        /\ UNCHANGED <<issues, fps, nextId, counted>>
     \/ /\ RowGone(n1) /\ n1' = Idle
        /\ UNCHANGED <<issues, fps, nextId, counted>>
  /\ UNCHANGED <<events, issueOf, fpOf, tx, n1Count, purge, merge>>

-----------------------------------------------------------------------------
(* purgeEventBatch: the deletes, then the reconciliation of the issues. *)

PurgeDelete(D) ==
  /\ purge = {}
  /\ ~MembershipExclusive
  /\ D # {} /\ \A e \in D : ~EventLocked(e)
  /\ purge' = D
  /\ UNCHANGED <<data, tx, n1, n1Count, merge>>

Affected == {issueOf[e] : e \in purge} \ {None}
Remaining(i) == EventsOf(i) \ purge
\* Decided by probing the events table, not by the count.
Emptied(i) == Remaining(i) = {}

\* Mutant: an issue is deleted by its status alone.
PurgedIssuesUnprobed == {i \in Affected : issues[i].status \in {"resolved", "ignored"}}

PurgedIssues ==
  {i \in Affected : issues[i].status \in {"resolved", "ignored"} /\ Emptied(i)}

\* The effect of deleting issues: fingerprints cascade, events are set to NULL.
Unlink(I, f) == IF fps[f] \in I THEN None ELSE fps[f]

\* Mutant: the count is only decremented when the issue is not emptied.
PurgedCountKept(i) ==
  IF Emptied(i) THEN issues[i].count
  ELSE Max({issues[i].count - Cardinality(EventsOf(i) \cap purge), 0})

PurgedCount(i) ==
  IF Emptied(i) THEN 0
  ELSE Max({issues[i].count - Cardinality(EventsOf(i) \cap purge), 0})

PurgeCommit ==
  /\ purge # {}
  /\ \A i \in Affected : ~RowLocked(i)
  /\ issues' = [i \in Live \ PurgedIssues |->
                  IF i \in Affected THEN [issues[i] EXCEPT !.count = PurgedCount(i)]
                                    ELSE issues[i]]
  /\ fps' = [f \in Fp |-> Unlink(PurgedIssues, f)]
  /\ issueOf' = [e \in Event |-> IF e \in purge \/ issueOf[e] \in PurgedIssues
                                   THEN None ELSE issueOf[e]]
  /\ events' = events \ purge
  /\ purge' = {}
  /\ UNCHANGED <<fpOf, nextId, tx, n1, n1Count, merge, counted>>

PurgeAbort ==
  /\ purge # {}
  /\ purge' = {}
  /\ UNCHANGED <<data, tx, n1, n1Count, merge>>

-----------------------------------------------------------------------------
(* Users and jobs. *)

\* MergeIssues up to the aggregation, which locks the primary's row.  Merged
\* issues that are gone since they were validated add nothing; when the primary
\* or all of them are gone the transaction fails.
MergeAggregate(p, M) ==
  /\ ~MembershipHeld /\ ~MembershipExclusive
  /\ p \in Live /\ M # {} /\ M \subseteq Live \ {p}
  /\ merge' = [pc |-> "delete", primary |-> p, others |-> M,
               total |-> SumFunctionOnSet([i \in Live |-> issues[i].count], M)]
  /\ UNCHANGED <<data, tx, n1, n1Count, purge>>

MergedFps(f) == IF fps[f] \in merge.others THEN merge.primary ELSE fps[f]

MergeCommit ==
  /\ merge.pc = "delete"
  /\ fps' = [f \in Fp |-> MergedFps(f)]
  /\ issueOf' = [e \in Event |-> IF issueOf[e] \in merge.others THEN merge.primary
                                                                ELSE issueOf[e]]
  /\ issues' = [i \in Live \ merge.others |->
                  IF i = merge.primary THEN [issues[i] EXCEPT !.count = @ + merge.total]
                                       ELSE issues[i]]
  /\ counted' = IF counted \cap merge.others # {} THEN counted \cup {merge.primary}
                                                  ELSE counted
  /\ merge' = NoMerge
  /\ UNCHANGED <<events, fpOf, nextId, tx, n1, n1Count, purge>>

MergeAbort ==
  /\ merge.pc = "delete"
  /\ merge' = NoMerge
  /\ UNCHANGED <<data, tx, n1, n1Count, purge>>

\* UnmergeFingerprints: each fingerprint of F moves, with its events, to a new
\* issue counted from those events; one fingerprint must stay.
UnmergeFingerprints(i, F) ==
  /\ ~MembershipHeld /\ ~MembershipExclusive
  /\ i \in Live /\ F # {} /\ \A f \in F : fps[f] = i
  /\ \E f \in Fp \ F : fps[f] = i
  /\ nextId + Cardinality(F) - 1 <= MaxIssues
  /\ LET new == CHOOSE m \in Injection(F, nextId .. (nextId + Cardinality(F) - 1)) : TRUE
         moved(f) == {e \in EventsOf(i) : fpOf[e] = f}
         all == UNION {moved(f) : f \in F}
     IN  /\ issues' = [j \in Live \cup Range(new) |->
               IF j \in Range(new)
                 THEN NewIssue(issues[i].kind, Cardinality(moved(Inverse(new, F, Range(new))[j])))
               ELSE IF j = i THEN [issues[i] EXCEPT !.count = Max({@ - Cardinality(all), 0})]
               ELSE issues[j]]
         /\ fps' = [f \in Fp |-> IF f \in F THEN new[f] ELSE fps[f]]
         /\ issueOf' = [e \in Event |-> IF e \in all THEN new[fpOf[e]] ELSE issueOf[e]]
  /\ nextId' = nextId + Cardinality(F)
  /\ UNCHANGED <<events, fpOf, tx, n1, n1Count, purge, merge, counted>>

\* UpdateIssueStatus and BulkUpdateIssueStatus, for one issue.
UpdateIssueStatus(i, status, until, limit) ==
  /\ ~RowLocked(i)
  /\ issues' = [issues EXCEPT ![i] =
       [@ EXCEPT !.status = status, !.ignored = 0, !.snoozeEnded = FALSE,
                 !.until = IF status = "ignored" THEN until ELSE None,
                 !.limit = IF status = "ignored" THEN limit ELSE None]]
  /\ UNCHANGED <<events, issueOf, fpOf, fps, nextId, tx, n1, n1Count, purge, merge, counted>>

\* Mutant: the expiry job leaves the count limit of the snooze.
ExpiredKeepsLimit(r) == [r EXCEPT !.status = "open", !.snoozeEnded = TRUE,
                                  !.until = None, !.ignored = 0]

Expired(r) == [r EXCEPT !.status = "open", !.snoozeEnded = TRUE, !.until = None,
                        !.limit = None, !.ignored = 0]

\* ExpireIgnoredIssues (one issue; the statement takes each row when it is free).
ExpireIgnored(i) ==
  /\ issues[i].status = "ignored" /\ issues[i].until = "past"
  /\ ~RowLocked(i)
  /\ issues' = [issues EXCEPT ![i] = Expired(@)]
  /\ UNCHANGED <<events, issueOf, fpOf, fps, nextId, tx, n1, n1Count, purge, merge, counted>>

AutoResolve(i) ==
  /\ issues[i].kind # "error" /\ issues[i].status \in {"open", "regressed"}
  /\ ~RowLocked(i)
  /\ issues' = [issues EXCEPT ![i].status = "resolved", ![i].snoozeEnded = FALSE]
  /\ UNCHANGED <<events, issueOf, fpOf, fps, nextId, tx, n1, n1Count, purge, merge, counted>>

\* ignore_until passes.
TimePasses(i) ==
  /\ issues[i].until = "future"
  /\ issues' = [issues EXCEPT ![i].until = "past"]
  /\ UNCHANGED <<events, issueOf, fpOf, fps, nextId, tx, n1, n1Count, purge, merge, counted>>

-----------------------------------------------------------------------------
Group(g) == \/ \E e \in Event : GroupBegin(g, e)
            \/ GroupLookup(g) \/ GroupUpsert(g) \/ GroupCommit(g) \/ GroupAbort(g)

Detector == (\E f \in N1Fp : N1Detect(f)) \/ N1Lookup \/ N1Upsert

Retention == (\E D \in SUBSET events : PurgeDelete(D)) \/ PurgeCommit \/ PurgeAbort

Membership ==
  \/ \E p \in Live : \E M \in SUBSET (Live \ {p}) : MergeAggregate(p, M)
  \/ MergeCommit \/ MergeAbort
  \/ \E i \in Live, F \in SUBSET Fp : UnmergeFingerprints(i, F)

Workflow ==
  \E i \in Live :
    \/ \E status \in {"open", "resolved"} : UpdateIssueStatus(i, status, None, None)
    \/ \E until \in {None, "future"}, limit \in Limits \cup {None} :
         UpdateIssueStatus(i, "ignored", until, limit)
    \/ ExpireIgnored(i) \/ AutoResolve(i) \/ TimePasses(i)

Next ==
  \/ \E e \in Event : StoreEvent(e)
  \/ \E g \in Grouper : Group(g)
  \/ Detector \/ Retention \/ Membership \/ Workflow

Spec == Init /\ [][Next]_vars

-----------------------------------------------------------------------------
(* Properties *)

IssueRow == [kind : {"error", "n1_query"}, status : Statuses, count : Nat,
             until : {None, "future", "past"}, limit : Limits \cup {None},
             ignored : Nat, snoozeEnded : BOOLEAN]
Transaction == [pc : {"idle", "lookup", "upsert", "commit"}, ev : Event \cup {None},
                fp : Fp \cup {None}, target : IssueId \cup {None}, tries : {0, 1}]

\* Every variable has its type; fingerprints and events refer to issues that
\* exist, which is what the foreign keys demand.
TypeOK ==
  /\ events \subseteq Event /\ purge \subseteq events
  /\ nextId \in 1 .. (MaxIssues + 1)
  /\ Live \subseteq 1 .. (nextId - 1) /\ \A i \in Live : issues[i] \in IssueRow
  /\ issueOf \in [Event -> Live \cup {None}]
  /\ fpOf \in [Event -> Fp \cup {None}]
  /\ fps \in [Fp -> Live \cup {None}]
  /\ tx \in [Grouper -> Transaction] /\ n1 \in Transaction
  /\ n1Count \in 0 .. MaxN1 /\ counted \subseteq IssueId
  /\ merge \in [pc : {"idle", "delete"}, primary : IssueId \cup {None},
                others : SUBSET IssueId, total : Nat]

\* An event stays with its fingerprint: the issue it is linked to is the issue
\* its fingerprint belongs to, and that issue exists, however grouping, merges,
\* unmerges and purges interleave.
EventsFollowFingerprint ==
  /\ \A e \in events : issueOf[e] # None => fps[fpOf[e]] = issueOf[e]
  /\ \A f \in Fp : fps[f] \in Live \cup {None}

\* event_count is exact for an issue fed by events only, and is never below the
\* number of its events for one that N+1 occurrences were merged into.
CountMatchesEvents ==
  \A i \in Live :
    /\ issues[i].count >= Cardinality(EventsOf(i))
    /\ i \notin counted => issues[i].count = Cardinality(EventsOf(i))

\* A snooze never outlives itself: only an ignored issue has snooze settings, its
\* count limit is not exceeded, and only an open one remembers an ended snooze.
SnoozeWellFormed ==
  \A i \in Live :
    LET r == issues[i] IN
      /\ r.status # "ignored" => r.until = None /\ r.limit = None
      /\ r.status = "ignored" /\ r.limit # None => r.ignored = 0 \/ r.ignored < r.limit
      /\ r.snoozeEnded => r.status = "open"

\* The row of an issue tells the truth about its events and its snooze, whoever
\* wrote it last (upsertIssueOnce, MergeIssues, purgeEventBatch, ExpireIgnoredIssues).
IssueRowSound == CountMatchesEvents /\ SnoozeWellFormed

\* A grouped event is never ungrouped while it is stored (the foreign key would
\* do that if its issue were deleted): it would be counted twice.
NeverUngrouped ==
  [][\A e \in events \cap events' : issueOf[e] # None => issueOf'[e] # None]_vars
=============================================================================
