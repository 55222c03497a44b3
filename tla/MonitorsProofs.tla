--------------------------- MODULE MonitorsProofs ---------------------------
(***************************************************************************)
(* Proofs about the monitors, for any number of check-ins, requests,       *)
(* schedules, monitors and workers, any grace period and any bounds.       *)
(*                                                                         *)
(* That a missed run is real is not inductive.  Three things carry it: a   *)
(* check-in's transaction holds a next run later than the moment it read   *)
(* the clock (Pending); unless it was overtaken, nothing was heard of the  *)
(* monitor after that moment (Unheard); and a monitor whose row says that  *)
(* nothing runs left every open check-in behind (LeftBehind).              *)
(***************************************************************************)
EXTENDS Monitors, TLAPS

RequestRow ==
  [pc : {"idle", "seen", "tx", "edit"}, checkin : Checkin \cup {None},
   status : {None, "in_progress", "ended", "active", "paused"}, finish : BOOLEAN,
   schedule : Schedule \cup {None}, next : Nat \cup {None}, at : Nat \cup {None},
   overtaken : BOOLEAN]

\* A request that brings a check-in.
Carries(q) == q.checkin \in Checkin /\ q.status \in {"in_progress", "ended"}

\* A request that edits a monitor holds the row it has read.
Edits(q) == q.schedule \in Schedule /\ q.status \in {"active", "paused"}

RequestOK(r) ==
  /\ req[r].pc \in {"seen", "tx"} => Carries(req[r])
  /\ req[r].pc = "edit" => Edits(req[r])

\* A transaction read the clock, and the run it expects is later than that.
Pending(r) ==
  req[r].pc = "tx" =>
    /\ req[r].at \in Nat /\ req[r].next \in Nat
    /\ req[r].at <= now /\ req[r].at < req[r].next

\* Unless it was overtaken, nothing was heard since it read the clock.
Unheard(r) == req[r].pc = "tx" /\ ~req[r].overtaken => since <= req[r].at

\* The run that is expected is later than all that was heard.
Expected == cron.next # None /\ ~overtaken => since < cron.next

LeftBehind ==
  ~cron.running => \A c \in Checkin : checkin[c] = "in_progress" => c \in outlived

CronInv ==
  /\ now \in 0 .. MaxTime /\ since <= now /\ overtaken \in BOOLEAN
  /\ req \in [Request -> RequestRow]
  /\ \A r \in Request : RequestOK(r) /\ Pending(r) /\ Unheard(r)
  /\ Expected /\ LeftBehind

WorkersOK ==
  /\ due \in [Worker -> SUBSET Monitor]
  /\ probing \in [Worker -> SUBSET (Monitor \X {"up", "down"})]
  /\ site \in [Monitor -> {"up", "down"}]

MonitorsInv == TypeOK /\ CronInv /\ WorkersOK

(***************************************************************************)
(* The schedule.                                                           *)
(***************************************************************************)

\* The next run of a schedule is later than the time it is asked for.
LEMMA LaterIsLater ==
  ASSUME NEW p \in Schedule, NEW t \in Nat
  PROVE  Later(p, t) \in Nat /\ t < Later(p, t)
<1>1. p \in Nat /\ p > 0
  BY MonitorsAssumption
<1>2. /\ t \div p \in Nat /\ (t % p) \in 0 .. (p - 1)
      /\ t = p * (t \div p) + (t % p)
  BY <1>1
<1> DEFINE d == t \div p
<1>3. (d + 1) * p = p * d + p /\ (d + 1) * p \in Nat
  BY <1>1, <1>2
<1>4. Later(p, t) = (d + 1) * p
  BY DEF Later
<1> QED
  BY <1>1, <1>2, <1>3, <1>4

(***************************************************************************)
(* Cron monitors.                                                          *)
(***************************************************************************)
CronType ==
  /\ cron \in CronRow
  /\ checkin \in [Checkin -> {"none", "in_progress", "ended"}]
  /\ since \in 0 .. MaxTime /\ outlived \subseteq Checkin

LEMMA CronParts == MonitorsInv <=> CronType /\ CronInv /\ uptime \in [Monitor -> UptimeRow] /\ WorkersOK
  BY DEF MonitorsInv, TypeOK, CronType

\* What a request does before its transaction, and its end.
LEMMA RequestMoves ==
  ASSUME CronInv, NEW r \in Request, NEW row \in RequestRow,
         req' = [req EXCEPT ![r] = row], row.pc # "tx",
         row.pc = "seen" => Carries(row), row.pc = "edit" => Edits(row),
         now' = now, since' = since
  PROVE  /\ req' \in [Request -> RequestRow]
         /\ \A q \in Request : RequestOK(q)' /\ Pending(q)' /\ Unheard(q)'
<1>1. req \in [Request -> RequestRow]
  BY DEF CronInv
<1>2. req' \in [Request -> RequestRow]
  BY <1>1
<1>3. ASSUME NEW q \in Request PROVE RequestOK(q)' /\ Pending(q)' /\ Unheard(q)'
  <2>1. CASE q = r
    <3>1. req'[q] = row
      BY <1>1, <2>1
    <3> QED
      BY <3>1 DEF RequestOK, Pending, Unheard, RequestRow
  <2>2. CASE q # r
    <3>1. req'[q] = req[q]
      BY <1>1, <2>2
    <3> QED
      BY <3>1 DEF CronInv, RequestOK, Pending, Unheard
  <2> QED
    BY <2>1, <2>2
<1> QED
  BY <1>2, <1>3

LEMMA IdleOK == Idle \in RequestRow /\ Idle.pc = "idle"
  BY DEF Idle, RequestRow

\* A step that changes the requests alone.
LEMMA RequestsOnly ==
  ASSUME CronType, CronInv, UNCHANGED <<now, cron, checkin, since, overtaken, outlived>>,
         req' \in [Request -> RequestRow],
         \A q \in Request : RequestOK(q)' /\ Pending(q)' /\ Unheard(q)'
  PROVE  CronType' /\ CronInv'
  BY DEF CronType, CronInv, Expected, LeftBehind

LEMMA RequestEnds ==
  ASSUME CronInv, NEW r \in Request, Done(r), now' = now, since' = since
  PROVE  /\ req' \in [Request -> RequestRow]
         /\ \A q \in Request : RequestOK(q)' /\ Pending(q)' /\ Unheard(q)'
<1>1. req' = [req EXCEPT ![r] = Idle]
  BY DEF Done
<1> QED
  BY <1>1, IdleOK, RequestMoves

LEMMA CheckinReads ==
  ASSUME CronType, CronInv, NEW r \in Request, NEW c \in Checkin,
         NEW st \in {"in_progress", "ended"}, NEW fr \in BOOLEAN, CheckinRead(r, c, st, fr)
  PROVE  CronType' /\ CronInv'
<1> DEFINE row == [Idle EXCEPT !.pc = "seen", !.checkin = c, !.status = st]
<1>1. row \in RequestRow /\ row.pc = "seen" /\ Carries(row)
  BY DEF Idle, RequestRow, Carries
<1>2. req' = [req EXCEPT ![r] = row] /\ UNCHANGED <<now, cron, checkin, since, overtaken, outlived>>
  BY DEF CheckinRead
<1> QED
  BY <1>1, <1>2, RequestMoves, RequestsOnly

LEMMA FinishReads ==
  ASSUME CronType, CronInv, NEW r \in Request, handleCronCheckinFinish(r)
  PROVE  CronType' /\ CronInv'
<1>1. PICK c \in Checkin :
        req' = [req EXCEPT ![r] = [Idle EXCEPT !.pc = "seen", !.checkin = c, !.status = "ended",
                                               !.finish = TRUE]]
  BY DEF handleCronCheckinFinish
<1> DEFINE row == [Idle EXCEPT !.pc = "seen", !.checkin = c, !.status = "ended", !.finish = TRUE]
<1>2. row \in RequestRow /\ row.pc = "seen" /\ Carries(row)
  BY DEF Idle, RequestRow, Carries
<1>3. req' = [req EXCEPT ![r] = row] /\ UNCHANGED <<now, cron, checkin, since, overtaken, outlived>>
  BY <1>1 DEF handleCronCheckinFinish
<1> QED
  BY <1>2, <1>3, RequestMoves, RequestsOnly

LEMMA EditReads ==
  ASSUME CronType, CronInv, NEW r \in Request, EditRead(r)
  PROVE  CronType' /\ CronInv'
<1> DEFINE row == [Idle EXCEPT !.pc = "edit", !.schedule = cron.schedule, !.status = cron.status]
<1>1. cron.schedule \in Schedule /\ cron.status \in {"active", "paused"}
  BY DEF EditRead, Exists, CronType, CronRow
<1>2. row \in RequestRow /\ row.pc = "edit" /\ Edits(row)
  BY <1>1 DEF Idle, RequestRow, Edits
<1>3. req' = [req EXCEPT ![r] = row] /\ UNCHANGED <<now, cron, checkin, since, overtaken, outlived>>
  BY DEF EditRead
<1> QED
  BY <1>2, <1>3, RequestMoves, RequestsOnly

\* A transaction begins: what it holds is later than all that was heard.
LEMMA Begins ==
  ASSUME CronType, CronInv, NEW r \in Request, CheckinBegin(r)
  PROVE  CronType' /\ CronInv'
<1>1. CASE ~Records(r)
  <2>1. Done(r) /\ UNCHANGED <<now, cron, checkin, since, overtaken, outlived>>
    BY <1>1 DEF CheckinBegin
  <2> QED
    BY <2>1, RequestEnds, RequestsOnly
<1>2. CASE Records(r)
  <2> DEFINE n == Later(cron.schedule, now)
             row == [req[r] EXCEPT !.pc = "tx", !.at = now, !.next = n]
  <2>1. /\ req \in [Request -> RequestRow] /\ cron.schedule \in Schedule /\ now \in Nat
        /\ since <= now
    BY MonitorsAssumption DEF CronInv, CronType, CronRow
  <2>2. n \in Nat /\ now < n
    BY <2>1, LaterIsLater
  <2> HIDE DEF n
  <2>3. req' = [req EXCEPT ![r] = row] /\ UNCHANGED <<now, cron, checkin, since, overtaken, outlived>>
    BY <1>2 DEF CheckinBegin, n
  <2>4. /\ row \in RequestRow /\ row.pc = "tx" /\ row.at = now /\ row.next = n
        /\ row.checkin = req[r].checkin /\ row.status = req[r].status
    BY <2>1, <2>2 DEF RequestRow
  <2>5. Carries(req[r])
    BY DEF CheckinBegin, CronInv, RequestOK
  <2> HIDE DEF row
  <2>6. req' \in [Request -> RequestRow]
    BY <2>1, <2>3, <2>4
  <2>7. ASSUME NEW q \in Request PROVE RequestOK(q)' /\ Pending(q)' /\ Unheard(q)'
    <3>1. CASE q = r
      <4>1. req'[q] = row
        BY <2>1, <2>3, <3>1
      <4> QED
        BY <2>1, <2>2, <2>3, <2>4, <2>5, <4>1 DEF RequestOK, Pending, Unheard, Carries
    <3>2. CASE q # r
      <4>1. req'[q] = req[q]
        BY <2>1, <2>3, <3>2
      <4> QED
        BY <2>3, <4>1 DEF CronInv, RequestOK, Pending, Unheard
    <3> QED
      BY <3>1, <3>2
  <2> QED
    BY <2>3, <2>6, <2>7, RequestsOnly
<1> QED
  BY <1>1, <1>2

\* A check-in is written.  Every open one is left behind by the end of a run;
\* if nothing overtook the transaction, nothing was heard since its clock.
LEMMA Commits ==
  ASSUME CronType, CronInv, NEW r \in Request, CheckinCommit(r)
  PROVE  CronType' /\ CronInv'
<1> DEFINE c == req[r].checkin
           st == req[r].status
<1>1. /\ req \in [Request -> RequestRow] /\ req[r].pc = "tx" /\ cron \in CronRow
      /\ c \in Checkin /\ st \in {"in_progress", "ended"}
      /\ req[r].at \in Nat /\ req[r].next \in Nat /\ req[r].at <= now
      /\ req[r].at < req[r].next /\ since \in Nat /\ since <= now /\ now \in Nat /\ now <= MaxTime
      /\ ~req[r].overtaken => since <= req[r].at
      /\ MaxTime \in Nat /\ req[r].overtaken \in BOOLEAN /\ now \in 0 .. MaxTime
  BY MonitorsAssumption
  DEF CheckinCommit, CronInv, CronType, RequestOK, Carries, Pending, Unheard, RequestRow
<1>2. /\ checkin' = [checkin EXCEPT ![c] = st]
      /\ cron' = AfterCheckin(st, req[r].next)
      /\ since' = (IF req[r].at > since THEN req[r].at ELSE since)
      /\ overtaken' = req[r].overtaken
      /\ outlived' = (IF st = "in_progress" THEN outlived \ {c}
                      ELSE (outlived \cup {d \in Checkin \ {c} : checkin[d] = "in_progress"}) \ {c})
      /\ req' = [q \in Request |->
           IF q = r THEN Idle ELSE [req[q] EXCEPT !.overtaken = @ \/ req[q].pc = "tx"]]
      /\ now' = now
  BY DEF CheckinCommit
<1>3. /\ cron' \in CronRow /\ cron'.next = req[r].next
      /\ cron'.running = FALSE => st = "ended"
  BY <1>1, <1>2 DEF AfterCheckin, CronRow
<1>4. since' \in 0 .. MaxTime /\ since' <= now /\ (~req[r].overtaken => since' = req[r].at)
  BY <1>1, <1>2
<1>5. checkin' \in [Checkin -> {"none", "in_progress", "ended"}] /\ outlived' \subseteq Checkin
  BY <1>1, <1>2 DEF CronType
<1>6. CronType'
  BY <1>3, <1>4, <1>5 DEF CronType
<1>7. LeftBehind'
  <2> SUFFICES ASSUME ~cron'.running, NEW d \in Checkin, checkin'[d] = "in_progress"
               PROVE  d \in outlived'
    BY DEF LeftBehind
  <2>1. st = "ended"
    BY <1>1, <1>2, <1>3 DEF AfterCheckin, CronRow
  <2>2. d # c /\ checkin[d] = "in_progress"
    BY <1>1, <1>2, <2>1 DEF CronType
  <2> QED
    BY <1>2, <2>1, <2>2
<1>8. Expected'
  BY <1>1, <1>2, <1>3, <1>4 DEF Expected
<1>9. ASSUME NEW q \in Request
      PROVE  req'[q] \in RequestRow /\ RequestOK(q)' /\ Pending(q)' /\ Unheard(q)'
  <2>1. CASE q = r
    <3>1. req'[q] = Idle
      BY <1>2, <2>1
    <3> QED
      BY <3>1, IdleOK DEF RequestOK, Pending, Unheard
  <2>2. CASE q # r
    <3> DEFINE row == [req[q] EXCEPT !.overtaken = @ \/ req[q].pc = "tx"]
    <3>1. req'[q] = row
      BY <1>2, <2>2
    <3>2. /\ row \in RequestRow /\ row.pc = req[q].pc /\ row.checkin = req[q].checkin
          /\ row.status = req[q].status /\ row.schedule = req[q].schedule
          /\ row.at = req[q].at /\ row.next = req[q].next
      BY <1>1 DEF RequestRow
    <3>3. row.pc = "tx" => row.overtaken
      BY <1>1 DEF RequestRow
    <3>4. RequestOK(q) /\ Pending(q)
      BY DEF CronInv
    <3> HIDE DEF row
    <3> QED
      BY <1>2, <3>1, <3>2, <3>3, <3>4 DEF RequestOK, Pending, Unheard, Carries, Edits
  <2> QED
    BY <2>1, <2>2
<1>10. req' \in [Request -> RequestRow]
  BY <1>2, <1>9
<1> QED
  BY <1>1, <1>2, <1>4, <1>6, <1>7, <1>8, <1>9, <1>10 DEF CronInv

\* An edit that changes the schedule, or resumes, counts as heard of, and
\* overtakes the transactions under way.
LEMMA Updates ==
  ASSUME CronType, CronInv, NEW r \in Request, NEW p \in Schedule,
         NEW st \in {"active", "paused"}, UpdateCronMonitor(r, p, st)
  PROVE  CronType' /\ CronInv'
<1>1. CASE ~Exists
  <2>1. Done(r) /\ UNCHANGED <<now, cron, checkin, since, overtaken, outlived>>
    BY <1>1 DEF UpdateCronMonitor
  <2> QED
    BY <2>1, RequestEnds, RequestsOnly
<1>2. CASE Exists
  <2> DEFINE changes == p # cron.schedule \/ (cron.status = "paused" /\ st = "active")
             n == IF Reschedules(p, st) THEN Later(p, now) ELSE cron.next
             new == [cron EXCEPT !.schedule = p, !.status = st, !.next = n]
  <2>1. /\ cron' = new
        /\ since' = (IF changes THEN now ELSE since)
        /\ overtaken' = (overtaken /\ ~changes)
        /\ req' = [q \in Request |->
             IF q = r THEN Idle
             ELSE [req[q] EXCEPT !.overtaken = @ \/ (changes /\ req[q].pc = "tx")]]
        /\ UNCHANGED <<now, checkin, outlived>>
    BY <1>2 DEF UpdateCronMonitor
  <2>2. /\ req \in [Request -> RequestRow] /\ cron \in CronRow /\ now \in Nat /\ now <= MaxTime
        /\ MaxTime \in Nat /\ since \in Nat /\ since <= now /\ since \in 0 .. MaxTime
        /\ now \in 0 .. MaxTime /\ overtaken \in BOOLEAN
    BY MonitorsAssumption DEF CronInv, CronType
  <2>3. Later(p, now) \in Nat /\ now < Later(p, now)
    BY <2>2, LaterIsLater
  <2>4. n \in Nat \cup {None} /\ (changes /\ n # None => n \in Nat /\ now < n)
    BY <2>2, <2>3 DEF Reschedules, CronRow
  <2>5. ~changes => n = cron.next
    BY DEF Reschedules
  <2> HIDE DEF n
  <2>6. new \in CronRow /\ new.running = cron.running /\ new.next = n
    BY <2>2, <2>4 DEF CronRow
  <2> HIDE DEF new
  <2>7. CronType'
    BY <2>1, <2>2, <2>6 DEF CronType
  <2>8. LeftBehind'
    BY <2>1, <2>6 DEF LeftBehind, CronInv
  <2>9. Expected'
    <3>1. CASE changes
      BY <2>1, <2>4, <2>6, <3>1 DEF Expected
    <3>2. CASE ~changes
      BY <2>1, <2>2, <2>5, <2>6, <3>2 DEF Expected, CronInv
    <3> QED
      BY <3>1, <3>2
  <2>10. ASSUME NEW q \in Request
         PROVE  req'[q] \in RequestRow /\ RequestOK(q)' /\ Pending(q)' /\ Unheard(q)'
    <3>1. CASE q = r
      <4>1. req'[q] = Idle
        BY <2>1, <3>1
      <4> QED
        BY <4>1, IdleOK DEF RequestOK, Pending, Unheard
    <3>2. CASE q # r
      <4> DEFINE row == [req[q] EXCEPT !.overtaken = @ \/ (changes /\ req[q].pc = "tx")]
      <4>1. req'[q] = row
        BY <2>1, <3>2
      <4>2. /\ row \in RequestRow /\ row.pc = req[q].pc /\ row.checkin = req[q].checkin
            /\ row.status = req[q].status /\ row.schedule = req[q].schedule
            /\ row.at = req[q].at /\ row.next = req[q].next
        BY <2>2 DEF RequestRow
      <4>3. /\ changes /\ row.pc = "tx" => row.overtaken
            /\ req[q].overtaken => row.overtaken
        BY <2>2 DEF RequestRow
      <4>4. RequestOK(q) /\ Pending(q) /\ Unheard(q)
        BY DEF CronInv
      <4> HIDE DEF row
      <4>5. RequestOK(q)' /\ Pending(q)'
        BY <2>1, <4>1, <4>2, <4>4 DEF RequestOK, Pending, Carries, Edits
      <4>6. Unheard(q)'
        <5>1. CASE changes
          BY <4>1, <4>3, <5>1 DEF Unheard
        <5>2. CASE ~changes
          BY <2>1, <4>1, <4>2, <4>3, <4>4, <5>2 DEF Unheard
        <5> QED
          BY <5>1, <5>2
      <4> QED
        BY <4>1, <4>2, <4>5, <4>6
    <3> QED
      BY <3>1, <3>2
  <2>11. req' \in [Request -> RequestRow]
    BY <2>1, <2>10
  <2>12. now' \in 0 .. MaxTime /\ since' <= now' /\ overtaken' \in BOOLEAN
    <3>1. CASE changes
      BY <2>1, <2>2, <3>1
    <3>2. CASE ~changes
      BY <2>1, <2>2, <3>2
    <3> QED
      BY <3>1, <3>2
  <2> QED
    BY <2>7, <2>8, <2>9, <2>10, <2>11, <2>12 DEF CronInv
<1> QED
  BY <1>1, <1>2

LEMMA Creates ==
  ASSUME CronType, CronInv, CreateCronMonitor
  PROVE  CronType' /\ CronInv'
<1> DEFINE new == [cron EXCEPT !.status = "active"]
<1>1. cron' = new /\ UNCHANGED <<now, checkin, req, since, overtaken, outlived>>
  BY DEF CreateCronMonitor
<1>2. new \in CronRow /\ new.running = cron.running /\ new.next = cron.next
  BY DEF CronType, CronRow
<1> HIDE DEF new
<1> QED
  BY <1>1, <1>2
  DEF CronType, CronInv, Expected, LeftBehind, RequestOK, Pending, Unheard

LEMMA Deletes ==
  ASSUME CronType, CronInv, DeleteCronMonitor
  PROVE  CronType' /\ CronInv'
<1> DEFINE new == [cron EXCEPT !.status = "deleted"]
<1>1. /\ cron' = new /\ UNCHANGED <<now, req, since, overtaken>>
      /\ checkin' = [c \in Checkin |-> "none"] /\ outlived' = {}
  BY DEF DeleteCronMonitor
<1>2. new \in CronRow /\ new.running = cron.running /\ new.next = cron.next
  BY DEF CronType, CronRow
<1> HIDE DEF new
<1>3. LeftBehind'
  BY <1>1 DEF LeftBehind
<1> QED
  BY <1>1, <1>2, <1>3
  DEF CronType, CronInv, Expected, RequestOK, Pending, Unheard

LEMMA ClockAdvances ==
  ASSUME CronType, CronInv, TimePasses
  PROVE  CronType' /\ CronInv'
<1>1. /\ now' = now + 1 /\ now < MaxTime
      /\ UNCHANGED <<cron, checkin, req, since, overtaken, outlived>>
  BY DEF TimePasses
<1>2. now \in Nat /\ since \in Nat /\ MaxTime \in Nat /\ since <= now
  BY MonitorsAssumption DEF CronInv, CronType
<1>3. now' \in 0 .. MaxTime /\ since' <= now' /\ now < now'
  BY <1>1, <1>2
<1>4. ASSUME NEW r \in Request PROVE RequestOK(r)' /\ Pending(r)' /\ Unheard(r)'
  <2>1. RequestOK(r) /\ Pending(r) /\ Unheard(r)
    BY DEF CronInv
  <2>2. RequestOK(r)' /\ Unheard(r)'
    BY <1>1, <2>1 DEF RequestOK, Unheard
  <2>3. Pending(r)'
    BY <1>1, <1>2, <2>1 DEF Pending
  <2> QED
    BY <2>2, <2>3
<1> QED
  BY <1>1, <1>3, <1>4 DEF CronType, CronInv, Expected, LeftBehind

LEMMA CronStep ==
  ASSUME CronType, CronInv, Cron
  PROVE  CronType' /\ CronInv'
<1>1. CASE handleCreateMonitor
  BY <1>1, Creates DEF handleCreateMonitor
<1>2. CASE handleDeleteMonitor
  BY <1>2, Deletes DEF handleDeleteMonitor
<1>3. CASE TimePasses
  BY <1>3, ClockAdvances
<1>4. ASSUME NEW r \in Request, NEW c \in Checkin,
             \/ CheckinRead(r, c, "ended", TRUE)
             \/ CheckinRead(r, c, "in_progress", TRUE)
             \/ CheckinRead(r, c, "ended", FALSE)
             \/ CheckinRead(r, c, "in_progress", FALSE)
      PROVE  CronType' /\ CronInv'
  BY <1>4, CheckinReads
<1>5. ASSUME NEW r \in Request,
             \/ handleCronPing(r) \/ handleCronCheckinStart(r) \/ handleEnvelopeCheckin(r)
             \/ handleOhDearStarting(r) \/ handleOhDearEnded(r)
      PROVE  CronType' /\ CronInv'
  BY <1>4, <1>5 DEF handleCronPing, handleCronCheckinStart, handleEnvelopeCheckin,
                    handleOhDearStarting, handleOhDearEnded
<1>6. ASSUME NEW r \in Request, handleCronCheckinFinish(r) PROVE CronType' /\ CronInv'
  BY <1>6, FinishReads
<1>7. ASSUME NEW r \in Request, CheckinBegin(r) PROVE CronType' /\ CronInv'
  BY <1>7, Begins
<1>8. ASSUME NEW r \in Request, CheckinCommit(r) PROVE CronType' /\ CronInv'
  BY <1>8, Commits
<1>9. ASSUME NEW r \in Request, CheckinAborts(r) PROVE CronType' /\ CronInv'
  <2>1. Done(r) /\ UNCHANGED <<now, cron, checkin, since, overtaken, outlived>>
    BY <1>9 DEF CheckinAborts
  <2> QED
    BY <2>1, RequestEnds, RequestsOnly
<1>10. ASSUME NEW r \in Request, handleUpdateMonitor(r) PROVE CronType' /\ CronInv'
  BY <1>10, EditReads, Updates DEF handleUpdateMonitor
<1> QED
  BY <1>1, <1>2, <1>3, <1>5, <1>6, <1>7, <1>8, <1>9, <1>10 DEF Cron

(***************************************************************************)
(* Uptime monitors.                                                        *)
(***************************************************************************)
UptimeInv == uptime \in [Monitor -> UptimeRow] /\ WorkersOK

\* What a check leaves is a row, with its count at most at the threshold.
LEMMA CheckedRow ==
  ASSUME NEW row \in UptimeRow, NEW result \in {"up", "down"}
  PROVE  AfterCheck(row, result) \in UptimeRow
<1> DEFINE n == row.failures + 1
           failures == IF n > Threshold THEN row.failures ELSE n
           state == IF n >= Threshold THEN "down" ELSE row.state
<1>1. Threshold \in Nat
  BY MonitorsAssumption
<1>2. failures \in 0 .. Threshold /\ 0 \in 0 .. Threshold
  BY <1>1 DEF UptimeRow
<1>3. state \in {"unknown", "up", "down"}
  BY DEF UptimeRow
<1>4. AfterCheck(row, result) =
        IF result = "up" THEN [row EXCEPT !.state = "up", !.failures = 0, !.next = "later"]
        ELSE [row EXCEPT !.failures = failures, !.next = "later", !.state = state]
  BY DEF AfterCheck
<1> HIDE DEF n, failures, state
<1> QED
  BY <1>2, <1>3, <1>4 DEF UptimeRow

LEMMA UptimeStep ==
  ASSUME UptimeInv, Uptime
  PROVE  UptimeInv'
<1> USE DEF UptimeInv, WorkersOK
<1>1. ASSUME NEW m \in Monitor, CreateUptimeMonitor(m) PROVE UptimeInv'
  BY <1>1 DEF CreateUptimeMonitor, UptimeRow
<1>2. ASSUME NEW m \in Monitor, UpdateUptimeMonitor(m) PROVE UptimeInv'
  BY <1>2 DEF UpdateUptimeMonitor, UptimeRow
<1>3. ASSUME NEW m \in Monitor, DeleteUptimeMonitor(m) PROVE UptimeInv'
  BY <1>3 DEF DeleteUptimeMonitor, UptimeRow
<1>4. ASSUME NEW m \in Monitor, SiteChanges(m) PROVE UptimeInv'
  BY <1>4 DEF SiteChanges
<1>5. ASSUME NEW m \in Monitor, IntervalEnds(m) PROVE UptimeInv'
  BY <1>5 DEF IntervalEnds, UptimeRow
<1>6. ASSUME NEW w \in Worker, tick(w) PROVE UptimeInv'
  BY <1>6 DEF tick
<1>7. ASSUME NEW w \in Worker, probe(w) PROVE UptimeInv'
  <2>1. PICK m \in due[w] :
          /\ due' = [due EXCEPT ![w] = @ \ {m}]
          /\ probing' = [probing EXCEPT ![w] = @ \cup {<<m, site[m]>>}]
    BY <1>7 DEF probe
  <2>2. <<m, site[m]>> \in Monitor \X {"up", "down"}
    OBVIOUS
  <2> QED
    BY <1>7, <2>1, <2>2 DEF probe
<1>8. ASSUME NEW w \in Worker, RecordUptimeCheck(w) PROVE UptimeInv'
  <2>1. PICK p \in probing[w] :
          /\ probing' = [probing EXCEPT ![w] = @ \ {p}]
          /\ uptime' = IF uptime[p[1]].status = "deleted" THEN uptime
                       ELSE [uptime EXCEPT ![p[1]] = AfterCheck(@, p[2])]
          /\ UNCHANGED <<site, due, edits, faults>>
    BY <1>8 DEF RecordUptimeCheck
  <2>2. p[1] \in Monitor /\ p[2] \in {"up", "down"}
    BY <2>1
  <2>3. AfterCheck(uptime[p[1]], p[2]) \in UptimeRow
    BY <2>2, CheckedRow
  <2>4. uptime' \in [Monitor -> UptimeRow]
    BY <2>1, <2>2, <2>3
  <2> QED
    BY <2>1, <2>4
<1>9. ASSUME NEW w \in Worker, RecordFails(w) PROVE UptimeInv'
  BY <1>9 DEF RecordFails
<1>10. ASSUME NEW w \in Worker, WorkerStops(w) PROVE UptimeInv'
  BY <1>10 DEF WorkerStops
<1> QED
  BY <1>1, <1>2, <1>3, <1>4, <1>5, <1>6, <1>7, <1>8, <1>9, <1>10
  DEF Uptime, Run, handleCreateUptimeMonitor, handleUpdateUptimeMonitor, handleDeleteUptimeMonitor

(***************************************************************************)
(* The theorems.                                                           *)
(***************************************************************************)
LEMMA MonitorsInvInit == Init => MonitorsInv
<1> SUFFICES ASSUME Init PROVE MonitorsInv
  OBVIOUS
<1>1. CronType
  BY MonitorsAssumption DEF Init, CronType, CronRow
<1>2. req \in [Request -> RequestRow] /\ \A r \in Request : req[r] = Idle
  BY IdleOK DEF Init
<1>3. \A r \in Request : RequestOK(r) /\ Pending(r) /\ Unheard(r)
  BY <1>2, IdleOK DEF RequestOK, Pending, Unheard
<1>4. now \in 0 .. MaxTime /\ since <= now /\ overtaken \in BOOLEAN
  <2>1. now = 0 /\ since = 0
    BY DEF Init
  <2>2. MaxTime \in Nat
    BY MonitorsAssumption
  <2>3. now \in 0 .. MaxTime /\ since <= now
    BY <2>1, <2>2
  <2>4. overtaken \in BOOLEAN
    BY DEF Init
  <2> QED
    BY <2>3, <2>4
<1>5. Expected /\ LeftBehind
  BY DEF Init, Expected, LeftBehind
<1>6. uptime \in [Monitor -> UptimeRow] /\ WorkersOK
  BY MonitorsAssumption DEF Init, UptimeRow, WorkersOK
<1> QED
  BY <1>1, <1>2, <1>3, <1>4, <1>5, <1>6, CronParts DEF CronInv

LEMMA MonitorsInvStep == MonitorsInv /\ [Next]_vars => MonitorsInv'
<1> SUFFICES ASSUME MonitorsInv, [Next]_vars PROVE MonitorsInv'
  OBVIOUS
<1>a. CronType /\ CronInv /\ UptimeInv
  BY CronParts DEF UptimeInv
<1>1. CASE Cron /\ UNCHANGED <<kind, uptimeVars>>
  <2>1. CronType' /\ CronInv'
    BY <1>1, <1>a, CronStep
  <2>2. UptimeInv'
    BY <1>1, <1>a DEF UptimeInv, WorkersOK, uptimeVars
  <2> QED
    BY <2>1, <2>2 DEF MonitorsInv, TypeOK, CronType, UptimeInv
<1>2. CASE Uptime /\ UNCHANGED <<kind, cronVars>>
  <2>1. UptimeInv'
    BY <1>2, <1>a, UptimeStep
  <2>2. CronType' /\ CronInv'
    BY <1>2, <1>a
    DEF CronType, CronInv, Expected, LeftBehind, RequestOK, Pending, Unheard, cronVars
  <2> QED
    BY <2>1, <2>2 DEF MonitorsInv, TypeOK, CronType, UptimeInv
<1>3. CASE UNCHANGED vars
  <2>1. UptimeInv'
    BY <1>3, <1>a DEF UptimeInv, WorkersOK, uptimeVars, vars
  <2>2. CronType' /\ CronInv'
    BY <1>3, <1>a
    DEF CronType, CronInv, Expected, LeftBehind, RequestOK, Pending, Unheard, cronVars, vars
  <2> QED
    BY <2>1, <2>2 DEF MonitorsInv, TypeOK, CronType, UptimeInv
<1> QED
  BY <1>1, <1>2, <1>3 DEF Next

\* The inductive invariant of the monitors.
THEOREM MonitorsInvHolds == Spec => []MonitorsInv
<1>1. Init => MonitorsInv
  BY MonitorsInvInit
<1>2. MonitorsInv /\ [Next]_vars => MonitorsInv'
  BY MonitorsInvStep
<1> QED
  BY <1>1, <1>2, PTL DEF Spec

\* The rows of monitors and check-ins stay in their types: in particular no
\* monitor counts more failures than its threshold (RecordUptimeCheck).
THEOREM MonitorsTypeCorrect == Spec => []TypeOK
<1>1. MonitorsInv => TypeOK
  BY DEF MonitorsInv
<1> QED
  BY <1>1, MonitorsInvHolds, PTL

\* A monitor reported as missed was silent since the run it waits for was due,
\* and what is open was left behind, unless a check-in was overtaken while it
\* was written (MonitorOverdueSQL, RecordCheckin, UpdateCronMonitor).
THEOREM MissedIsRealHolds == Spec => []MissedIsReal
<1>1. MonitorsInv => MissedIsReal
  BY DEF MonitorsInv, CronInv, Expected, LeftBehind, MissedIsReal, Overdue
<1> QED
  BY <1>1, MonitorsInvHolds, PTL
=============================================================================
