------------------------------- MODULE Alerts -------------------------------
(***************************************************************************)
(* Alert rules: the evaluator's pass (internal/alerts/evaluator.go) over   *)
(* the rules that are due, deliveries, their bookkeeping in alert_firings  *)
(* and last_fired_at, and the retries of failed deliveries.                *)
(*                                                                         *)
(* Some triggers look for items (issues created or regressed, cron errors, *)
(* recoveries) stamped after the rule last fired; an item's stamp is the   *)
(* start of the transaction that writes it (now()), and the item shows     *)
(* when that commits.  The others look at something that holds or not (a   *)
(* count over a window, monitors that are down or overdue).                *)
(*                                                                         *)
(* An instant of the database clock is represented by the set of items     *)
(* stamped up to it.                                                       *)
(***************************************************************************)
EXTENDS Naturals, FiniteSets, FiniteSetsExt

CONSTANTS
  Rule,
  Item,
  Project,
  Kind,        \* what each item is: "created", "regressed", "error" or "recovered"
  Of,          \* the project of each item
  Trigger,     \* the triggers in use
  ProjectIDs,  \* the sets of projects that users choose; {} is all of them
  None,
  Slow,        \* items that reach min_occurrences only some time after they show
  MaxAttempts, \* maxDeliveryAttempts
  MaxPending,  \* bound on the firings that await a retry
  MaxFaults,   \* bound on crashes, failed queries and failed writes
  MaxEdits     \* bound on changes to rules and projects

\* validTriggers, with the items each looks for.
SoughtOfIssues ==
  [new_issue |-> {"created"}, regressed |-> {"regressed"}, new_or_regressed |-> {"created", "regressed"}]
SoughtOfMonitors == [cron_error |-> {"error"}, uptime_recovered |-> {"recovered"}]
Conditions == {"event_count", "log_count", "cron_missed", "uptime_down"}
validTriggers == DOMAIN SoughtOfIssues \cup DOMAIN SoughtOfMonitors \cup Conditions

Sought == [t \in validTriggers |->
             IF t \in DOMAIN SoughtOfIssues THEN SoughtOfIssues[t]
             ELSE IF t \in DOMAIN SoughtOfMonitors THEN SoughtOfMonitors[t] ELSE {}]

ASSUME AlertsAssumption ==
  /\ IsFiniteSet(Rule) /\ None \notin Rule
  /\ IsFiniteSet(Item) /\ Slow \subseteq Item
  /\ IsFiniteSet(Project) /\ Of \in [Item -> Project]
  /\ Kind \in [Item -> {"created", "regressed", "error", "recovered"}]
  /\ Trigger \subseteq validTriggers /\ Trigger # {}
  /\ ProjectIDs \subseteq SUBSET Project
  /\ MaxAttempts \in Nat \ {0, 1}
  /\ MaxPending \in Nat /\ MaxFaults \in Nat /\ MaxEdits \in Nat

VARIABLES
  item,    \* "none", "open" (stamped, not committed), "visible", "ripe" or "gone"
  gone,    \* the projects that were deleted
  rule,    \* the alert_rules rows
  fresh,   \* less than cooldown_mins have passed since the clock of the last firing
  firing,  \* the alert_firings rows with status pending
  pc,      \* where the evaluator stands
  due,     \* the rules still to evaluate, with what was read of them
  retries, \* the firings still to retry
  cur,     \* the rule in work, as it was read
  slot,    \* the firing in work; 0 when there is none
  asOf,    \* the clock read before counting
  found,   \* the items counted
  sentOk,  \* the outcome of the delivery
  faults, edits,
  chosen,  \* history: the projects ever chosen for the rule
  told,    \* history: items that a delivery or a recorded firing of the rule carried
  excused, \* history: items not looked for at the time, or of firings that could not be recorded
  late,    \* history: items that could not be counted yet when the clock was read
  early    \* history: deliveries within the cooldown of an earlier one

vars == <<item, gone, rule, fresh, firing, pc, due, retries, cur, slot, asOf, found, sentOk,
          faults, edits, chosen, told, excused, late, early>>
env     == <<item, gone, fresh, edits>>
worker  == <<pc, due, retries, cur, slot, asOf, found, sentOk>>
history == <<chosen, told, excused, late, early>>

NoRule == [state |-> "absent", trigger |-> "new_issue", projects |-> {}, global |-> TRUE,
           since |-> {}, marked |-> FALSE]
NoCur  == [id |-> None, trigger |-> "new_issue", projects |-> {}, since |-> {}]
Begun  == {i \in Item : item[i] # "none"}
Countable == {i \in Item : item[i] = "ripe"}
Showing == {i \in Item : item[i] \in {"visible", "ripe"}}

Scope(projects) == IF projects = {} THEN Project ELSE projects

\* The items that a rule with this trigger and these projects looks for.
Wanted(trigger, projects) ==
  {i \in Item : Kind[i] \in Sought[trigger] /\ Of[i] \in Scope(projects)}

\* Mutant: a rule without projects is taken for a global one.
ScopeUnchecked(r) == TRUE

\* ruleHasScope: the projects of a rule that is not global may all be gone.
ruleHasScope(r) == rule[r].global \/ rule[r].projects # {}
NoFiring == [used |-> FALSE, rule |-> None, attempt |-> 0, due |-> FALSE, sent |-> 0]
Slot == 1 .. MaxPending
Free == {f \in Slot : ~firing[f].used}

Init ==
  /\ item = [i \in Item |-> "none"] /\ gone = {}
  /\ chosen = [r \in Rule |-> {}]
  /\ rule = [r \in Rule |-> NoRule]
  /\ fresh = [r \in Rule |-> FALSE]
  /\ firing = [f \in Slot |-> NoFiring]
  /\ pc = "idle" /\ due = {} /\ retries = {} /\ cur = NoCur /\ slot = 0
  /\ asOf = {} /\ found = {} /\ sentOk = FALSE
  /\ faults = 0 /\ edits = 0
  /\ told = [r \in Rule |-> {}] /\ excused = [r \in Rule |-> {}] /\ late = [r \in Rule |-> {}]
  /\ early = 0

Fault == faults < MaxFaults /\ faults' = faults + 1

-----------------------------------------------------------------------------
(* Around the evaluator: the writers of items, time, and the alert API. *)

ItemBegins(i) ==
  /\ item[i] = "none" /\ Of[i] \notin gone
  /\ item' = [item EXCEPT ![i] = "open"]
  /\ UNCHANGED <<gone, rule, fresh, firing, worker, faults, edits, history>>

ItemCommits(i) ==
  /\ item[i] = "open"
  /\ item' = [item EXCEPT ![i] = IF i \in Slow THEN "visible" ELSE "ripe"]
  /\ UNCHANGED <<gone, rule, fresh, firing, worker, faults, edits, history>>

ItemRipens(i) ==
  /\ item[i] = "visible"
  /\ item' = [item EXCEPT ![i] = "ripe"]
  /\ UNCHANGED <<gone, rule, fresh, firing, worker, faults, edits, history>>

CooldownEnds(r) ==
  /\ fresh[r]
  /\ fresh' = [fresh EXCEPT ![r] = FALSE]
  /\ UNCHANGED <<item, gone, rule, firing, worker, faults, edits, history>>

RetryDelayEnds(f) ==
  /\ firing[f].used /\ ~firing[f].due
  /\ firing' = [firing EXCEPT ![f].due = TRUE]
  /\ UNCHANGED <<env, rule, worker, faults, history>>

\* Deleting a project takes its issues and monitors, and its place in the
\* scope of the rules (ON DELETE CASCADE).  It waits for open transactions.
DeleteProject(p) ==
  /\ p \notin gone /\ edits < MaxEdits
  /\ \A i \in Item : Of[i] = p => item[i] # "open"
  /\ gone' = gone \cup {p}
  /\ item' = [i \in Item |-> IF Of[i] = p /\ item[i] # "none" THEN "gone" ELSE item[i]]
  /\ rule' = [r \in Rule |-> [rule[r] EXCEPT !.projects = @ \ {p}]]
  /\ edits' = edits + 1
  /\ UNCHANGED <<fresh, firing, worker, faults, history>>

\* The part of validateAlertRule that depends on more than the request: a
\* log_count rule needs projects.
validateAlertRule(row) == row.trigger = "log_count" => row.projects # {}

\* CreateAlertRule: the rule looks at what is stamped after created_at.
CreateAlertRule(r, row) ==
  /\ rule' = [rule EXCEPT ![r] = [row EXCEPT !.global = (row.projects = {}), !.since = Begun]]
  /\ chosen' = [chosen EXCEPT ![r] = Scope(row.projects)]
  /\ excused' = [excused EXCEPT ![r] = Begun]

handleCreateAlertRule(r, trigger, projects) ==
  LET row == [NoRule EXCEPT !.state = "enabled", !.trigger = trigger, !.projects = projects] IN
    /\ rule[r].state = "absent"
    /\ validateAlertRule(row)
    /\ projects \cap gone = {}
    /\ CreateAlertRule(r, row)
    /\ UNCHANGED <<env, firing, worker, faults, told, late, early>>

Patched(row) ==
  {[row EXCEPT !.state = st] : st \in {"enabled", "disabled"}}
    \cup {[row EXCEPT !.trigger = t] : t \in Trigger}
    \cup {[row EXCEPT !.projects = ps] : ps \in {ps \in ProjectIDs : ps \cap gone = {}}}

\* UpdateAlertRule writes everything but last_fired_at and created_at.  A rule
\* whose projects are gone becomes a global one.
UpdateAlertRule(r, row) ==
  rule' = [rule EXCEPT ![r].state = row.state, ![r].trigger = row.trigger,
                       ![r].projects = row.projects, ![r].global = (row.projects = {})]

\* A patch: one thing changes, the rest is written back as it was read.  Edits
\* that overlap each other are left out.
handleUpdateAlertRule(r) ==
  /\ rule[r].state \in {"enabled", "disabled"} /\ edits < MaxEdits
  /\ \E row \in Patched(rule[r]) :
       /\ validateAlertRule(row)
       /\ UpdateAlertRule(r, row)
       /\ chosen' = [chosen EXCEPT ![r] = @ \cup Scope(row.projects)]
  /\ rule' # rule
  /\ edits' = edits + 1
  /\ UNCHANGED <<item, gone, fresh, firing, worker, faults, told, excused, late, early>>

\* DeleteAlertRule: the firings go with their rule (ON DELETE CASCADE).
handleDeleteAlertRule(r) ==
  /\ rule[r].state \notin {"absent", "deleted"} /\ edits < MaxEdits
  /\ rule' = [rule EXCEPT ![r] = [NoRule EXCEPT !.state = "deleted"]]
  /\ firing' = [f \in Slot |-> IF firing[f].rule = r THEN NoFiring ELSE firing[f]]
  /\ edits' = edits + 1
  /\ excused' = [excused EXCEPT ![r] = {}] /\ late' = [late EXCEPT ![r] = {}]
  /\ UNCHANGED <<item, gone, fresh, worker, faults, chosen, told, early>>

-----------------------------------------------------------------------------
(* evaluate *)

\* On to the next rule.
NextRule ==
  /\ pc' = "rules"
  /\ cur' = NoCur /\ asOf' = {} /\ found' = {} /\ sentOk' = FALSE
  /\ UNCHANGED <<due, retries, slot>>

\* Mutant: the cooldown never ends.
IsDueOnce(r) == rule[r].state = "enabled" /\ ruleHasScope(r) /\ ~rule[r].marked

\* ListDueAlertRules.  marked: last_fired_at is the clock of the last firing.
IsDue(r) == rule[r].state = "enabled" /\ ruleHasScope(r) /\ ~(rule[r].marked /\ fresh[r])

Tick ==
  /\ pc = "idle"
  /\ pc' = "rules"
  /\ due' = {[id |-> r, trigger |-> rule[r].trigger, projects |-> rule[r].projects, since |-> rule[r].since]
               : r \in {r \in Rule : IsDue(r)}}
  /\ UNCHANGED <<env, rule, firing, retries, cur, slot, asOf, found, sentOk, faults, history>>

\* Listing the rules, or reading the clock, fails: the rest of the rules wait
\* for the next pass.
EvaluateFails ==
  /\ pc \in {"idle", "rules"} /\ Fault
  /\ pc' = "list" /\ due' = {}
  /\ UNCHANGED <<env, rule, firing, retries, cur, slot, asOf, found, sentOk, history>>

ReadClock(d) ==
  /\ pc = "rules"
  /\ d \in due
  /\ pc' = "count"
  /\ cur' = d
  /\ due' = due \ {d}
  /\ asOf' = Begun
  /\ late' = [late EXCEPT ![d.id] = @ \cup (Begun \ (Countable \cup told[d.id]))]
  /\ excused' = [excused EXCEPT ![d.id] = @ \cup (Begun \ (Wanted(d.trigger, d.projects) \cup told[d.id]))]
  /\ UNCHANGED <<env, rule, firing, retries, slot, found, sentOk, faults, chosen, told, early>>

RulesDone ==
  /\ pc = "rules" /\ due = {}
  /\ pc' = "list"
  /\ UNCHANGED <<env, rule, firing, due, retries, cur, slot, asOf, found, sentOk, faults, history>>

\* conditionMet, for a trigger that looks for items.
CountItems ==
  /\ pc = "count" /\ cur.trigger \notin Conditions
  /\ LET items == (Countable \cap Wanted(cur.trigger, cur.projects)) \ cur.since IN
       IF items # {}
         THEN /\ pc' = "deliver"
              /\ found' = items
              /\ UNCHANGED <<due, retries, cur, slot, asOf, sentOk>>
         ELSE NextRule
  /\ UNCHANGED <<env, rule, firing, faults, history>>

\* conditionMet, for a trigger that looks at what holds now.  A query for
\* log_count that takes too long counts as not met.
CheckCondition(met) ==
  /\ pc = "count" /\ cur.trigger \in Conditions
  /\ IF met THEN pc' = "deliver" /\ UNCHANGED <<due, retries, cur, slot, asOf, found, sentOk>>
            ELSE NextRule
  /\ UNCHANGED <<env, rule, firing, faults, history>>

CountFails ==
  /\ pc = "count" /\ Fault
  /\ NextRule
  /\ UNCHANGED <<env, rule, firing, history>>

-----------------------------------------------------------------------------
(* fire: enrichPayload, deliver, logFiring, MarkAlertFired. *)

\* The items a payload shows: min_occurrences does not apply to them.
enrichPayload == (Showing \cap Wanted(cur.trigger, cur.projects)) \ cur.since

Deliver(ok) ==
  /\ pc = "deliver"
  /\ ok \/ Free \ retries # {}
  /\ sentOk' = ok
  /\ found' = found \cup enrichPayload
  /\ told' = IF ok THEN [told EXCEPT ![cur.id] = @ \cup found'] ELSE told
  /\ early' = IF fresh[cur.id] /\ early <= MaxFaults THEN early + 1 ELSE early
  /\ fresh' = [fresh EXCEPT ![cur.id] = TRUE]
  /\ rule' = [rule EXCEPT ![cur.id].marked = FALSE]
  /\ pc' = "log"
  /\ UNCHANGED <<item, gone, edits, firing, due, retries, cur, slot, asOf, faults, chosen, excused, late>>

NewFiring(r) == [used |-> TRUE, rule |-> r, attempt |-> 1, due |-> FALSE, sent |-> 1]

\* Only a firing that awaits a retry is kept here.  A deleted rule has none.
LogFiring ==
  /\ pc = "log"
  /\ IF sentOk \/ rule[cur.id].state = "deleted"
       THEN UNCHANGED <<firing, told>>
       ELSE /\ firing' = [firing EXCEPT ![Min(Free \ retries)] = NewFiring(cur.id)]
            /\ told' = [told EXCEPT ![cur.id] = @ \cup found]
  /\ pc' = "mark" /\ found' = {}
  /\ UNCHANGED <<env, rule, due, retries, cur, slot, asOf, sentOk, faults, chosen, excused, late, early>>

LogFails ==
  /\ pc = "log" /\ Fault
  /\ excused' = IF sentOk THEN excused ELSE [excused EXCEPT ![cur.id] = @ \cup found]
  /\ pc' = "mark" /\ found' = {}
  /\ UNCHANGED <<env, rule, firing, due, retries, cur, slot, asOf, sentOk, chosen, told, late, early>>

\* Mutant: the clock is read after the delivery.
FiredAtNow == Begun

\* Mutant: a failed delivery does not start the cooldown.
MarkFiredOnSuccess ==
  /\ pc = "mark"
  /\ rule' = IF ~sentOk \/ rule[cur.id].state = "deleted" THEN rule
             ELSE [rule EXCEPT ![cur.id].since = asOf, ![cur.id].marked = TRUE]
  /\ NextRule
  /\ UNCHANGED <<env, firing, faults, history>>

\* What last_fired_at becomes.
FiredAt == asOf

MarkFired ==
  /\ pc = "mark"
  /\ rule' = IF rule[cur.id].state = "deleted" THEN rule
             ELSE [rule EXCEPT ![cur.id].since = FiredAt, ![cur.id].marked = TRUE]
  /\ NextRule
  /\ UNCHANGED <<env, firing, faults, history>>

MarkFails ==
  /\ pc = "mark" /\ Fault
  /\ NextRule
  /\ UNCHANGED <<env, rule, firing, history>>

\* NotifyAutoResolved, run by another job: a delivery of its own, logged like a
\* firing, that does not touch last_fired_at.
NotifyAutoResolved(r) ==
  /\ rule[r].trigger \in DOMAIN SoughtOfIssues
  /\ rule[r].state = "enabled" /\ ruleHasScope(r)
  /\ Free \ retries # {} /\ pc # "log"
  /\ firing' = [firing EXCEPT ![Min(Free \ retries)] = NewFiring(r)]
  /\ UNCHANGED <<env, rule, worker, faults, history>>

-----------------------------------------------------------------------------
(* processRetries *)

\* Mutant: only the first retry is ever taken up.
ListRetriesOnce ==
  /\ pc = "list"
  /\ retries' = {f \in Slot : firing[f].due /\ firing[f].attempt = 1}
  /\ pc' = "retry"
  /\ UNCHANGED <<env, rule, firing, due, cur, slot, asOf, found, sentOk, faults, history>>

ListRetries ==
  /\ pc = "list"
  /\ retries' = {f \in Slot : firing[f].due}
  /\ pc' = "retry"
  /\ UNCHANGED <<env, rule, firing, due, cur, slot, asOf, found, sentOk, faults, history>>

ListRetriesFails ==
  /\ pc = "list" /\ Fault
  /\ pc' = "idle"
  /\ UNCHANGED <<env, rule, firing, due, retries, cur, slot, asOf, found, sentOk, history>>

RetriesDone ==
  /\ pc = "retry" /\ retries = {}
  /\ pc' = "idle"
  /\ UNCHANGED <<env, rule, firing, due, retries, cur, slot, asOf, found, sentOk, faults, history>>

Retriable(f) == firing[f].used /\ rule[firing[f].rule].state = "enabled"
Resolved(f) == [firing EXCEPT ![f] = NoFiring]

\* The rule is gone or disabled: the retry is cancelled.
RetryCancelled(f) ==
  /\ pc = "retry" /\ f \in retries
  /\ ~Retriable(f)
  /\ firing' = Resolved(f)
  /\ retries' = retries \ {f}
  /\ UNCHANGED <<env, rule, pc, due, cur, slot, asOf, found, sentOk, faults, history>>

\* Reading the rule fails (a shutdown does that too): the firing is given up.
RetryLookupFails(f) ==
  /\ pc = "retry" /\ f \in retries /\ firing[f].used /\ Fault
  /\ firing' = Resolved(f)
  /\ retries' = retries \ {f}
  /\ UNCHANGED <<env, rule, pc, due, cur, slot, asOf, found, sentOk, history>>

RetryDeliver(f, ok) ==
  /\ pc = "retry" /\ f \in retries
  /\ Retriable(f)
  /\ firing' = [firing EXCEPT ![f].sent = @ + 1]
  /\ sentOk' = ok
  /\ slot' = f
  /\ pc' = "record"
  /\ UNCHANGED <<env, rule, due, retries, cur, asOf, found, faults, history>>

\* Mutant: a scheduled retry does not count the attempt.
ScheduledUncounted(f) == [firing EXCEPT ![f].due = FALSE]

\* ScheduleAlertFiringRetry
Scheduled(f) == [firing EXCEPT ![f].attempt = @ + 1, ![f].due = FALSE]

LastAttempt(f) == firing[f].attempt + 1 >= MaxAttempts

RetryRecord ==
  /\ pc = "record"
  /\ firing' = IF ~firing[slot].used THEN firing
               ELSE IF sentOk \/ LastAttempt(slot) THEN Resolved(slot)
               ELSE Scheduled(slot)
  /\ retries' = retries \ {slot}
  /\ pc' = "retry" /\ slot' = 0 /\ sentOk' = FALSE
  /\ UNCHANGED <<env, rule, due, cur, asOf, found, faults, history>>

\* A retry that cannot be scheduled is given up, if that can be written; else
\* the row stays as it was.
RetryRecordFails(resolved) ==
  /\ pc = "record" /\ Fault
  /\ resolved => ~sentOk /\ ~LastAttempt(slot)
  /\ firing' = IF resolved THEN Resolved(slot) ELSE firing
  /\ retries' = retries \ {slot}
  /\ pc' = "retry" /\ slot' = 0 /\ sentOk' = FALSE
  /\ UNCHANGED <<env, rule, due, cur, asOf, found, history>>

\* The process dies, or leadership moves, between any two steps.
Crash ==
  /\ pc # "idle" /\ Fault
  /\ pc' = "idle" /\ due' = {} /\ retries' = {}
  /\ cur' = NoCur /\ slot' = 0 /\ asOf' = {} /\ found' = {} /\ sentOk' = FALSE
  /\ UNCHANGED <<env, rule, firing, history>>

-----------------------------------------------------------------------------
Evaluate ==
  \/ Tick \/ RulesDone \/ CountItems \/ LogFiring \/ MarkFired
  \/ \E d \in due : ReadClock(d)
  \/ \E met \in BOOLEAN : CheckCondition(met)
  \/ \E ok \in BOOLEAN : Deliver(ok)

Retry ==
  \/ ListRetries \/ RetriesDone \/ RetryRecord
  \/ \E f \in Slot : RetryCancelled(f) \/ \E ok \in BOOLEAN : RetryDeliver(f, ok)

Failures ==
  \/ EvaluateFails \/ CountFails \/ LogFails \/ MarkFails \/ ListRetriesFails \/ Crash
  \/ \E f \in Slot : RetryLookupFails(f)
  \/ \E resolved \in BOOLEAN : RetryRecordFails(resolved)

Environment ==
  \/ \E i \in Item : ItemBegins(i) \/ ItemCommits(i) \/ ItemRipens(i)
  \/ \E f \in Slot : RetryDelayEnds(f)
  \/ \E p \in Project : DeleteProject(p)
  \/ \E r \in Rule : \/ CooldownEnds(r) \/ NotifyAutoResolved(r)
                     \/ handleUpdateAlertRule(r) \/ handleDeleteAlertRule(r)
                     \/ \E t \in Trigger, ps \in ProjectIDs : handleCreateAlertRule(r, t, ps)

Next == Evaluate \/ Retry \/ Failures \/ Environment

Spec == Init /\ [][Next]_vars

\* The ticker fires, deliveries end (client timeouts), and time passes.
Fairness ==
  /\ WF_vars(Evaluate \/ Retry)
  /\ \A r \in Rule : WF_vars(CooldownEnds(r))
  /\ \A f \in Slot : WF_vars(RetryDelayEnds(f))

FairSpec == Spec /\ Fairness

-----------------------------------------------------------------------------
(* Properties *)

\* No alert is swallowed: an item stamped up to last_fired_at was carried by a
\* delivery or a recorded firing of the rule.  The exceptions are an item that
\* was not committed, or had too few occurrences, when the clock was read, one
\* that the rule was not looking for then, one deleted with its project, and
\* one whose delivery failed together with the write that records it.
NothingEscapes ==
  \A r \in Rule : \A i \in rule[r].since :
    item[i] = "gone" \/ i \in told[r] \cup excused[r] \cup late[r]

\* What the comment on the clock says without exceptions: an item that shows is
\* counted now or on a later pass, it is not lost.
NoItemLost ==
  \A r \in Rule : rule[r].since \cap Countable \subseteq told[r] \cup excused[r]

\* A rule is delivered once per cooldown, whether deliveries succeed or fail.
\* Only a crash or a failed write between the delivery and last_fired_at lets
\* it be sent early.
CooldownRespected == early <= faults

\* A firing is sent once for each attempt it counts; only a crash or a failed
\* write between a delivery and its record makes it be sent again.
RetriesBounded ==
  \A f \in Slot : firing[f].used =>
    firing[f].sent <= firing[f].attempt + faults + (IF pc = "record" /\ slot = f THEN 1 ELSE 0)

\* Nobody is sent more than cooldowns and attempts allow (fire, retryFiring).
DeliveriesBounded == CooldownRespected /\ RetriesBounded

\* A failed delivery does not stay pending for ever.
PendingResolves ==
  \A f \in Slot : []<>(~firing[f].used)

\* The rule is on, looks for the item and has yet to see it.
Awaits(r, i) ==
  /\ rule[r].state = "enabled" /\ ruleHasScope(r)
  /\ i \in (Countable \cap Wanted(rule[r].trigger, rule[r].projects)) \ rule[r].since

\* An item that a rule has yet to see is alerted on, or the rule is changed or
\* fires over its head.
ItemAlerted == \A r \in Rule, i \in Item : []<>(i \in told[r] \/ ~Awaits(r, i))

\* A rule tells only of the projects chosen for it, also while these are being
\* deleted and when none is left.
ScopeRespected == \A r \in Rule : \A i \in told[r] : Of[i] \in chosen[r]
=============================================================================
