------------------------------ MODULE Monitors ------------------------------
(***************************************************************************)
(* Cron monitors, which are told about by the jobs they watch              *)
(* (internal/storage/cron.go, internal/api/cron.go and the check_in items  *)
(* of envelopes), and uptime monitors, which are probed                    *)
(* (internal/uptime/worker.go, internal/storage/uptime.go).                *)
(*                                                                         *)
(* The two share no state, so a behaviour is about one kind: kind says     *)
(* which.  A request reads the monitor, and may find it changed in the     *)
(* transaction that follows; that transaction reads the schedule and only  *)
(* then locks the monitor's row, so two check-ins, or a check-in and an    *)
(* edit, may overtake each other.                                          *)
(*                                                                         *)
(* A schedule is a period: the runs are due at its multiples.  The results *)
(* ok and error of a run differ only in what is shown and are one value,   *)
(* "ended".  For uptime monitors a clock is not needed: an interval ends   *)
(* at any time.                                                            *)
(***************************************************************************)
EXTENDS Integers, FiniteSets

CONSTANTS
  Checkin,        \* check-ins; those of SDKs carry an id and may be sent again
  Request,        \* requests in flight at one time
  Schedule,       \* periods of schedules
  Grace,          \* grace_period_secs
  MaxTime,        \* bound on the clock
  Monitor,        \* uptime monitors
  Worker,         \* instances that run the uptime worker; two during a takeover
  MaxConcurrent,  \* maxConcurrent, the size of sem
  Threshold,      \* failureThreshold
  MaxFaults,      \* bound on lost leaderships and failed records
  MaxEdits,       \* bound on edits of monitors
  None

ASSUME MonitorsAssumption ==
  /\ IsFiniteSet(Monitor) /\ None \notin Checkin \cup Nat
  /\ Schedule \subseteq Nat \ {0} /\ Schedule # {}
  /\ {MaxConcurrent, Threshold} \subseteq Nat \ {0}
  /\ {Grace, MaxTime, MaxFaults, MaxEdits} \subseteq Nat

VARIABLES
  kind,       \* what this behaviour is about: "cron" or "uptime"
  now,
  cron,       \* the row of cron_monitors
  checkin,    \* the status of the rows of cron_checkins
  req,        \* requests in flight
  since,      \* history: the latest check-in, schedule change or resumption
  overtaken,  \* history: next_expected_at was last written by a check-in that
              \* something else overtook between its read and its write
  outlived,   \* history: open check-ins during which another one ended
  uptime,     \* the rows of uptime_monitors
  site,       \* what a probe of the monitor's URL finds
  due,        \* due[w]: monitors of this tick that wait for a slot
  probing,    \* probing[w]: probes under way, one slot each, with their results
  edits, faults

cronVars   == <<now, cron, checkin, req, since, overtaken, outlived>>
uptimeVars == <<uptime, site, due, probing, edits, faults>>
vars       == <<kind, cronVars, uptimeVars>>

Later(period, t) == ((t \div period) + 1) * period

CronRow == [status : {"none", "active", "paused", "deleted"}, schedule : Schedule,
            running : BOOLEAN, next : Nat \cup {None}]
UptimeRow == [status : {"none", "active", "paused", "deleted"},
              state : {"unknown", "up", "down"}, failures : 0 .. Threshold,
              next : {None, "later", "past"}]

Idle == [pc |-> "idle", checkin |-> None, status |-> None, finish |-> FALSE,
         schedule |-> None, next |-> None, at |-> None, overtaken |-> FALSE]

Init ==
  /\ kind \in {"cron", "uptime"}
  /\ now = 0
  /\ \E p \in Schedule :
       cron = [status |-> "none", schedule |-> p, running |-> FALSE, next |-> None]
  /\ checkin = [c \in Checkin |-> "none"]
  /\ req = [r \in Request |-> Idle]
  /\ since = 0 /\ overtaken = FALSE /\ outlived = {}
  /\ uptime = [m \in Monitor |->
       [status |-> "none", state |-> "unknown", failures |-> 0, next |-> None]]
  /\ site \in [Monitor -> {"up", "down"}]
  /\ kind = "cron" => site = [m \in Monitor |-> "up"]
  /\ due = [w \in Worker |-> {}] /\ probing = [w \in Worker |-> {}]
  /\ edits = 0 /\ faults = 0

Done(r) == req' = [req EXCEPT ![r] = Idle]

(***************************************************************************)
(* Cron monitors.                                                          *)
(***************************************************************************)
Exists == cron.status \in {"active", "paused"}

CreateCronMonitor ==
  /\ cron.status = "none"
  /\ cron' = [cron EXCEPT !.status = "active"]
  /\ UNCHANGED <<now, checkin, req, since, overtaken, outlived>>

\* The foreign key makes the delete wait for transactions that add check-ins.
DeleteCronMonitor ==
  /\ Exists
  /\ \A r \in Request : req[r].pc # "tx"
  /\ cron' = [cron EXCEPT !.status = "deleted"]
  /\ checkin' = [c \in Checkin |-> "none"] /\ outlived' = {}
  /\ UNCHANGED <<now, req, since, overtaken>>

\* Every handler that takes a check-in looks the monitor up first and ignores
\* what is sent to a paused or unknown one.  SDK check-ins may arrive twice,
\* late, or with the end before the start; the others are new rows each time.
CheckinRead(r, c, status, fresh) ==
  /\ req[r].pc = "idle"
  /\ cron.status = "active"
  /\ fresh => checkin[c] = "none" /\ \A q \in Request : req[q].checkin # c
  /\ req' = [req EXCEPT ![r] = [Idle EXCEPT !.pc = "seen", !.checkin = c, !.status = status]]
  /\ UNCHANGED <<now, cron, checkin, since, overtaken, outlived>>

handleCronPing(r) == \E c \in Checkin : CheckinRead(r, c, "ended", TRUE)

handleCronCheckinStart(r) == \E c \in Checkin : CheckinRead(r, c, "in_progress", TRUE)

\* The Oh Dear endpoints: a start and an end are check-ins of their own, which
\* nothing pairs.
handleOhDearStarting(r) == \E c \in Checkin : CheckinRead(r, c, "in_progress", TRUE)
handleOhDearEnded(r) == \E c \in Checkin : CheckinRead(r, c, "ended", TRUE)

handleEnvelopeCheckin(r) ==
  \E c \in Checkin, st \in {"in_progress", "ended"} : CheckinRead(r, c, st, FALSE)

\* No look at the monitor: a paused one takes the end of a run.
handleCronCheckinFinish(r) ==
  /\ req[r].pc = "idle"
  /\ \E c \in Checkin :
       /\ checkin[c] # "none"
       /\ req' = [req EXCEPT ![r] = [Idle EXCEPT !.pc = "seen", !.checkin = c,
                                                 !.status = "ended", !.finish = TRUE]]
  /\ UNCHANGED <<now, cron, checkin, since, overtaken, outlived>>

\* The INSERT ... ON CONFLICT of RecordCheckin, the UPDATE of FinishCheckin:
\* only the first result of an open check-in changes anything.
Records(r) ==
  /\ Exists
  /\ \/ checkin[req[r].checkin] = "none" /\ ~req[r].finish
     \/ checkin[req[r].checkin] = "in_progress" /\ req[r].status # "in_progress"

\* RecordCheckin and FinishCheckin up to nextExpectedRun.  A transaction that
\* holds the row of the same check-in is waited for.
CheckinBegin(r) ==
  /\ req[r].pc = "seen"
  /\ \A q \in Request : req[q].pc = "tx" => req[q].checkin # req[r].checkin
  /\ IF Records(r)
     THEN req' = [req EXCEPT ![r].pc = "tx", ![r].at = now,
                             ![r].next = Later(cron.schedule, now)]
     ELSE Done(r)
  /\ UNCHANGED <<now, cron, checkin, since, overtaken, outlived>>

\* What updateMonitorAfterCheckin writes.
AfterCheckin(status, next) ==
  IF status = "in_progress"
  THEN [cron EXCEPT !.running = TRUE, !.next = next]
  ELSE [cron EXCEPT !.running = FALSE, !.next = next]

CheckinCommit(r) ==
  LET c == req[r].checkin
      open == {d \in Checkin \ {c} : checkin[d] = "in_progress"}
  IN /\ req[r].pc = "tx"
     /\ checkin' = [checkin EXCEPT ![c] = req[r].status]
     /\ cron' = AfterCheckin(req[r].status, req[r].next)
     /\ since' = IF req[r].at > since THEN req[r].at ELSE since
     /\ overtaken' = req[r].overtaken
     /\ outlived' = IF req[r].status = "in_progress" THEN outlived \ {c}
                    ELSE (outlived \cup open) \ {c}
     /\ req' = [q \in Request |->
          IF q = r THEN Idle ELSE [req[q] EXCEPT !.overtaken = @ \/ req[q].pc = "tx"]]
     /\ UNCHANGED now

\* The request is cancelled, or a statement fails.
CheckinAborts(r) ==
  /\ req[r].pc = "tx"
  /\ Done(r)
  /\ UNCHANGED <<now, cron, checkin, since, overtaken, outlived>>

\* handleUpdateMonitor reads the row; what the request leaves out is written
\* back as it was read.
EditRead(r) ==
  /\ req[r].pc = "idle" /\ Exists
  /\ req' = [req EXCEPT ![r] = [Idle EXCEPT !.pc = "edit", !.schedule = cron.schedule,
                                            !.status = cron.status]]
  /\ UNCHANGED <<now, cron, checkin, since, overtaken, outlived>>

\* Mutant: a monitor that is resumed keeps the run it waited for.
ReschedulesChanged(schedule, status) == cron.next # None /\ schedule # cron.schedule

\* The CASE in UpdateCronMonitor.
Reschedules(schedule, status) ==
  /\ cron.next # None
  /\ schedule # cron.schedule \/ (cron.status = "paused" /\ status = "active")

UpdateCronMonitor(r, schedule, status) ==
  /\ req[r].pc = "edit"
  /\ schedule = req[r].schedule \/ status = req[r].status
  /\ IF Exists
     THEN LET changes == schedule # cron.schedule \/ (cron.status = "paused" /\ status = "active")
          IN /\ cron' = [cron EXCEPT !.schedule = schedule, !.status = status,
                  !.next = IF Reschedules(schedule, status) THEN Later(schedule, now) ELSE @]
             /\ since' = IF changes THEN now ELSE since
             /\ overtaken' = (overtaken /\ ~changes)
             /\ req' = [q \in Request |->
                  IF q = r THEN Idle
                  ELSE [req[q] EXCEPT !.overtaken = @ \/ (changes /\ req[q].pc = "tx")]]
     ELSE Done(r) /\ UNCHANGED <<cron, since, overtaken>>
  /\ UNCHANGED <<now, checkin, outlived>>

handleUpdateMonitor(r) ==
  \/ EditRead(r)
  \/ \E p \in Schedule, st \in {"active", "paused"} : UpdateCronMonitor(r, p, st)

TimePasses ==
  /\ now < MaxTime
  /\ now' = now + 1
  /\ UNCHANGED <<cron, checkin, req, since, overtaken, outlived>>

\* MonitorOverdueSQL.
Overdue ==
  /\ cron.status = "active" /\ ~cron.running
  /\ cron.next # None /\ cron.next + Grace < now

\* What the handlers check first (names, slugs, schedules) refuses the request
\* and changes nothing.
handleCreateMonitor == CreateCronMonitor
handleDeleteMonitor == DeleteCronMonitor

Cron ==
  \/ handleCreateMonitor \/ handleDeleteMonitor \/ TimePasses
  \/ \E r \in Request :
       \/ handleCronPing(r) \/ handleCronCheckinStart(r) \/ handleEnvelopeCheckin(r)
       \/ handleOhDearStarting(r) \/ handleOhDearEnded(r) \/ handleCronCheckinFinish(r)
       \/ CheckinBegin(r) \/ CheckinCommit(r) \/ CheckinAborts(r)
       \/ handleUpdateMonitor(r)

(***************************************************************************)
(* Uptime monitors.                                                        *)
(***************************************************************************)
CreateUptimeMonitor(m) ==
  /\ uptime[m].status = "none"
  /\ uptime' = [uptime EXCEPT ![m].status = "active"]
  /\ UNCHANGED <<site, due, probing, edits, faults>>

\* Pausing and resuming; next_check_at, the state and the failures counted so
\* far stay.  handleUpdateUptimeMonitor writes back what it has read of the
\* other columns, so an edit may also undo one that it overlaps.
UpdateUptimeMonitor(m) ==
  /\ uptime[m].status \in {"active", "paused"} /\ edits < MaxEdits
  /\ uptime' = [uptime EXCEPT ![m].status = IF @ = "active" THEN "paused" ELSE "active"]
  /\ edits' = edits + 1
  /\ UNCHANGED <<site, due, probing, faults>>

DeleteUptimeMonitor(m) ==
  /\ uptime[m].status \in {"active", "paused"} /\ edits < MaxEdits
  /\ uptime' = [uptime EXCEPT ![m].status = "deleted"]
  /\ edits' = edits + 1
  /\ UNCHANGED <<site, due, probing, faults>>

\* An outage begins or ends; an edit of the URL looks the same.
SiteChanges(m) ==
  /\ edits < MaxEdits
  /\ site' = [site EXCEPT ![m] = IF @ = "up" THEN "down" ELSE "up"]
  /\ edits' = edits + 1
  /\ UNCHANGED <<uptime, due, probing, faults>>

IntervalEnds(m) ==
  /\ uptime[m].next = "later"
  /\ uptime' = [uptime EXCEPT ![m].next = "past"]
  /\ UNCHANGED <<site, due, probing, edits, faults>>

\* Mutant: a monitor that was never checked is not due.
IsDueOnlyPast(m) == uptime[m].status = "active" /\ uptime[m].next = "past"

\* GetDueUptimeMonitors.
IsDue(m) == uptime[m].status = "active" /\ uptime[m].next \in {None, "past"}

\* tick begins once the probes of the last one are over (wg.Wait).
tick(w) ==
  /\ due[w] = {} /\ probing[w] = {}
  /\ due' = [due EXCEPT ![w] = {m \in Monitor : IsDue(m)}]
  /\ due'[w] # {}
  /\ UNCHANGED <<uptime, site, probing, edits, faults>>

\* A probe takes a slot.  What it finds is judged by the monitor as it was
\* listed and recorded later.
probe(w) ==
  /\ Cardinality(probing[w]) < MaxConcurrent
  /\ \E m \in due[w] :
       /\ due' = [due EXCEPT ![w] = @ \ {m}]
       /\ probing' = [probing EXCEPT ![w] = @ \cup {<<m, site[m]>>}]
  /\ UNCHANGED <<uptime, site, edits, faults>>

\* The row RecordUptimeCheck leaves.  Counting past the threshold changes
\* nothing, so the count stops there.
AfterCheck(row, result) ==
  LET n == row.failures + 1
  IN IF result = "up"
     THEN [row EXCEPT !.state = "up", !.failures = 0, !.next = "later"]
     ELSE [row EXCEPT !.failures = IF n > Threshold THEN @ ELSE n, !.next = "later",
                      !.state = IF n >= Threshold THEN "down" ELSE @]

\* A monitor deleted meanwhile refuses the row (foreign key).
RecordUptimeCheck(w) ==
  \E p \in probing[w] :
    /\ probing' = [probing EXCEPT ![w] = @ \ {p}]
    /\ uptime' = IF uptime[p[1]].status = "deleted" THEN uptime
                 ELSE [uptime EXCEPT ![p[1]] = AfterCheck(@, p[2])]
    /\ UNCHANGED <<site, due, edits, faults>>

\* record only logs an error of RecordUptimeCheck.
RecordFails(w) ==
  /\ faults < MaxFaults
  /\ \E p \in probing[w] : probing' = [probing EXCEPT ![w] = @ \ {p}]
  /\ faults' = faults + 1
  /\ UNCHANGED <<uptime, site, due, edits>>

\* Leadership is lost or the process dies: the probes are cancelled, and their
\* records with them.  Another worker, or this one later, ticks at once.
WorkerStops(w) ==
  /\ faults < MaxFaults /\ (due[w] # {} \/ probing[w] # {})
  /\ due' = [due EXCEPT ![w] = {}] /\ probing' = [probing EXCEPT ![w] = {}]
  /\ faults' = faults + 1
  /\ UNCHANGED <<uptime, site, edits>>

\* What the worker does by itself.
Run(w) == tick(w) \/ probe(w) \/ RecordUptimeCheck(w)

handleCreateUptimeMonitor(m) == CreateUptimeMonitor(m)
handleUpdateUptimeMonitor(m) == UpdateUptimeMonitor(m)
handleDeleteUptimeMonitor(m) == DeleteUptimeMonitor(m)

\* ListDownUptimeMonitors: what uptime_down rules alert on.
Down(m) == uptime[m].status = "active" /\ uptime[m].state = "down"

Uptime ==
  \/ \E m \in Monitor :
       \/ handleCreateUptimeMonitor(m) \/ handleUpdateUptimeMonitor(m)
       \/ handleDeleteUptimeMonitor(m) \/ SiteChanges(m) \/ IntervalEnds(m)
  \/ \E w \in Worker : Run(w) \/ RecordFails(w) \/ WorkerStops(w)

Next ==
  \/ kind = "cron" /\ Cron /\ UNCHANGED <<kind, uptimeVars>>
  \/ kind = "uptime" /\ Uptime /\ UNCHANGED <<kind, cronVars>>

\* Time passes, and the worker that leads keeps working: a probe ends at the
\* latest by its timeout.
Fairness ==
  /\ \A m \in Monitor :
       WF_vars(kind = "uptime" /\ IntervalEnds(m) /\ UNCHANGED <<kind, cronVars>>)
  /\ \A w \in Worker : WF_vars(kind = "uptime" /\ Run(w) /\ UNCHANGED <<kind, cronVars>>)

Spec     == Init /\ [][Next]_vars
FairSpec == Spec /\ Fairness

(***************************************************************************)
(* Properties.                                                             *)
(***************************************************************************)
TypeOK ==
  /\ cron \in CronRow
  /\ checkin \in [Checkin -> {"none", "in_progress", "ended"}]
  /\ uptime \in [Monitor -> UptimeRow]
  /\ since \in 0 .. MaxTime /\ outlived \subseteq Checkin

\* A monitor that cron_missed rules alert on has really been silent: since the
\* run it waits for was due nothing was heard of it and nobody changed its
\* schedule or resumed it; and a run still open was left behind by another
\* run's end, not by a repeated or late message (MonitorOverdueSQL,
\* RecordCheckin, UpdateCronMonitor).  The exception is exact: a check-in that
\* computed the next run and was overtaken before it wrote it.
MissedIsReal ==
  Overdue /\ ~overtaken =>
    /\ since < cron.next
    /\ \A c \in Checkin : checkin[c] = "in_progress" => c \in outlived

\* A monitor that stays active tells the truth: once its site stays down it is
\* and remains alerted on, and once it stays up it is not, whatever probes were lost
\* with the leadership, could not be recorded, waited for slots, or were
\* recorded late by the worker that led before (tick, RecordUptimeCheck).
OutageIsNoticed ==
  \A m \in Monitor, s \in {"up", "down"} :
    <>[](uptime[m].status = "active" /\ site[m] = s) => <>[](Down(m) <=> s = "down")
=============================================================================
