------------------------------ MODULE Retention ------------------------------
(***************************************************************************)
(* What the retention worker deletes (internal/retention/worker.go), for   *)
(* one table at a time.  Its policies take three forms:                    *)
(*                                                                         *)
(*   "age"     rows older than a cutoff, fixed for the pass, in batches    *)
(*             (events, transactions, logs, uptime checks, profiles)       *)
(*   "cron"    the same for check-ins, of which running ones are kept      *)
(*   "rows"    a cap on the number of rows (logs, transactions): the       *)
(*             newest excess row is found once, and what is not newer is   *)
(*             deleted in batches                                          *)
(*   "bytes"   a cap on the size of all profiles,                          *)
(*   "firings" a cap on the firings of each rule, and                      *)
(*   "tokens"  expired sessions, invitations and one-time tokens: all      *)
(*             three list what must go, and delete the list in batches     *)
(*                                                                         *)
(* Rows arrive, end and go with their project meanwhile, and two instances *)
(* may purge at once while leadership changes hands.  What purging events  *)
(* means for their issues is in Issues.                                    *)
(***************************************************************************)
EXTENDS Integers, Sequences, SequencesExt, FiniteSets, FiniteSetsExt, Functions

CONSTANTS
  Policy,   \* the policies to look at, one per behaviour
  Worker,   \* the instances that may purge
  Row,      \* ids, in the order that breaks ties
  MaxTime,  \* bound on the clock
  Age,      \* the retention period
  Limit,    \* the cap on rows, on bytes and on the firings of a rule
  MaxSize,  \* bound on the size of a profile
  MaxBatch, \* agePurgeBatch, txPurgeBatch
  MaxIDs    \* maxIDsPerPass

ASSUME RetentionAssumption ==
  /\ Policy \subseteq {"age", "cron", "rows", "bytes", "firings", "tokens"}
  /\ Row \subseteq Nat \ {0} /\ {MaxTime, Age, Limit} \subseteq Nat
  /\ "owner" \notin Worker
  /\ {MaxSize, MaxBatch, MaxIDs} \subseteq Nat \ {0}

VARIABLES
  policy,   \* the policy of this behaviour
  now,
  rows,     \* the table: the rows by id
  work,     \* what each worker does
  gone,     \* rows that left while a pass was on
  due,      \* the rows that were past the limit when the worker's pass began
  crossed   \* rows left by another hand during the worker's pass

retentionVars == <<policy, now, rows, work, gone, due, crossed>>

\* A pass rests with what it reported, and works on a mark or on a list.
Resting == {"caught up", "behind", "failed"}
Rest(said) == [pc |-> said, mark |-> <<0, 0>>, doomed |-> <<>>, batch |-> 0, total |-> 0]
Working(w) == work[w].pc \notin Resting

\* at is the column that orders the policy's rows: received_at, finished_at,
\* timestamp, fired_at or expires_at.
RowRecord == [at : 0 .. MaxTime, size : 1 .. MaxSize, group : {1, 2}, ended : BOOLEAN]

RetentionInit ==
  /\ policy \in Policy
  /\ now = 0 /\ rows = <<>> /\ gone = <<>>
  /\ work = [w \in Worker |-> Rest("caught up")]
  /\ due = [w \in Worker |-> {}] /\ crossed = [w \in Worker |-> FALSE]

-----------------------------------------------------------------------------
(* What is past the limit. *)

Before(t, r, mark) == t[r].at < mark[1] \/ (t[r].at = mark[1] /\ r < mark[2])

\* status IN ('ok', 'error') AND COALESCE(finished_at, received_at) < mark; the
\* other tables have only rows that ended.
Below(t, mark) == {r \in DOMAIN t : t[r].ended /\ Before(t, r, mark)}

\* The window: a row and the newer ones of its partition.
Upto(t, r) == {s \in DOMAIN t : t[s].group = t[r].group /\ ~ Before(t, s, <<t[r].at, r>>)}
Running(t, r) == SumFunctionOnSet([s \in DOMAIN t |-> t[s].size], Upto(t, r))
Excess(t) == {r \in DOMAIN t : Running(t, r) > Limit}

Ranked == policy \in {"rows", "bytes", "firings"}

\* Tokens go when they have expired, invitations a while later.
Cutoff == <<IF policy = "tokens" THEN now ELSE now - Age, 0>>

PastLimit(t) == IF Ranked THEN Excess(t) ELSE Below(t, Cutoff)

OldestFirst(t, S) ==
  CHOOSE s \in SetToSeqs(S) : \A i, j \in DOMAIN s : i < j => Before(t, s[i], <<t[s[j]].at, s[j]>>)
First(s, n) == SubSeq(s, 1, IF Len(s) < n THEN Len(s) ELSE n)

-----------------------------------------------------------------------------
(* The table. *)

\* The rows of t, and those of u elsewhere.
Over(t, u) == [r \in DOMAIN t \cup DOMAIN u |-> IF r \in DOMAIN t THEN t[r] ELSE u[r]]

\* What can arrive: received_at is the start of a transaction that may have
\* begun a while ago (among rows of one instant, ids stand for that order); clients
\* set the time of logs and transactions; a run may be open at first; a token
\* expires later.  Where rows are ranked, ids stand for their order in time.
Arrivals ==
  LET plain(t) == [at |-> t, size |-> 1, group |-> 1, ended |-> TRUE]
      lately == {t \in {now - 1, now} : t >= 0}
  IN  CASE policy = "age"     -> {plain(t) : t \in lately}
        [] policy = "cron"    -> {[plain(now) EXCEPT !.ended = e] : e \in BOOLEAN}
        [] policy = "rows"    -> {plain(t) : t \in 0 .. MaxTime}
        [] policy = "bytes"   -> {[plain(now) EXCEPT !.size = z] : z \in 1 .. MaxSize}
        [] policy = "firings" -> {[plain(now) EXCEPT !.group = g] : g \in {1, 2}}
        [] policy = "tokens"  -> {plain(t) : t \in {now + 1} \cap 0 .. MaxTime}

\* Names of rows that left are free again when no pass can hold them.
Insert(r) ==
  /\ r \notin DOMAIN rows \cup DOMAIN gone
  /\ \E row \in Arrivals : rows' = Over([s \in {r} |-> row], rows)
  /\ UNCHANGED <<policy, now, work, gone, due, crossed>>

\* The run ends: finished_at is set, and the status is terminal from now on.
FinishRun(r) ==
  /\ r \in DOMAIN rows /\ ~ rows[r].ended
  /\ rows' = [rows EXCEPT ![r].ended = TRUE, ![r].at = now]
  /\ UNCHANGED <<policy, now, work, gone, due, crossed>>

\* Rows leave the table: by the worker w, or by another hand if w is no worker.
Leave(R, w) ==
  LET pass == \E v \in Worker : work'[v].pc \notin Resting
  IN  /\ rows' = Restrict(rows, DOMAIN rows \ R)
      /\ gone' = IF pass THEN Over(Restrict(rows, R \cap DOMAIN rows), gone) ELSE <<>>
      /\ crossed' = [v \in Worker |-> /\ work'[v].pc \notin Resting
                                      /\ crossed[v] \/ (v # w /\ R \cap DOMAIN rows # {})]
      /\ due' = [v \in Worker |-> IF work'[v].pc \in Resting THEN {} ELSE due[v]]

\* Deleting a project, a rule, a monitor or a user takes its rows along; using a
\* token or logging out deletes it.
RemoveRow(r) ==
  /\ r \in DOMAIN rows
  /\ UNCHANGED <<policy, now, work>>
  /\ Leave({r}, "owner")

\* Only periods read the clock.
Tick ==
  /\ ~ Ranked /\ now < MaxTime
  /\ now' = now + 1
  /\ UNCHANGED <<policy, rows, work, gone, due, crossed>>

-----------------------------------------------------------------------------
(* A pass. *)

BeginPass(w, job) ==
  /\ work[w].pc \in Resting
  /\ due' = [due EXCEPT ![w] = PastLimit(rows)]
  /\ crossed' = [crossed EXCEPT ![w] = FALSE]
  /\ work' = [work EXCEPT ![w] = job]
  /\ UNCHANGED <<policy, now, rows, gone>>

\* purgeByAge, purgeCronCheckins: the cutoff is fixed for the pass.
BeginDrain(w) ==
  /\ policy \in {"age", "cron"}
  /\ BeginPass(w, [Rest("drain") EXCEPT !.mark = Cutoff])

\* purgeRowCap: everything up to the newest excess row, which is included.
Boundary == Last(OldestFirst(rows, Excess(rows)))
BeginRowCap(w) ==
  /\ policy = "rows" /\ Excess(rows) # {}
  /\ BeginPass(w, [Rest("drain") EXCEPT !.mark = <<rows[Boundary].at, Boundary + 1>>])

\* purgeAlertFirings, purgeProfilesStorageCap, purgeExpiredTokenTable: the list
\* is cut off at maxIDsPerPass; tokens come in no order.
BeginList(w) ==
  /\ policy \in {"bytes", "firings", "tokens"}
  /\ \E list \in IF policy = "tokens" THEN SetToSeqs(PastLimit(rows))
                ELSE {OldestFirst(rows, PastLimit(rows))} :
       BeginPass(w, [Rest("list") EXCEPT !.doomed = First(list, MaxIDs), !.mark = Cutoff])

\* The pass ends, or goes on with the rest.
EndPass(w, said) == work' = [work EXCEPT ![w] = Rest(said)]

\* Mutant: the cap remembers how many rows are too many, not which.
SelectedExcess(w, batch) ==
  IF policy = "rows"
    THEN LET left == Cardinality(due[w]) - work[w].total
         IN  First(OldestFirst(rows, DOMAIN rows), IF left < batch THEN left ELSE batch)
    ELSE First(OldestFirst(rows, Below(rows, work[w].mark)), batch)

\* The subselect of a batch: the oldest rows below the mark.
Selected(w, batch) == First(OldestFirst(rows, Below(rows, work[w].mark)), batch)

\* The statement takes its snapshot; the size of batches adapts to how long they
\* took (batchSize, adapt).
SelectBatch(w) ==
  /\ work[w].pc = "drain"
  /\ \E batch \in 1 .. MaxBatch :
       work' = [work EXCEPT ![w].pc = "delete", ![w].batch = batch,
                            ![w].doomed = Selected(w, batch)]
  /\ UNCHANGED <<policy, now, rows, gone, due, crossed>>

\* Mutant: a batch that just comes out even passes for the last one.
ShortOffByOne(n, batch) == n <= batch

Short(n, batch) == n < batch

\* It deletes those that are still there; a short batch is the last one.
DeleteBatch(w) ==
  /\ work[w].pc = "delete"
  /\ LET n == Cardinality(ToSet(work[w].doomed) \cap DOMAIN rows)
     IN  IF Short(n, work[w].batch)
           THEN EndPass(w, "caught up")
           ELSE work' = [work EXCEPT ![w].pc = "drain", ![w].doomed = <<>>,
                                     ![w].batch = 0, ![w].total = @ + n]
  /\ Leave(ToSet(work[w].doomed), w)
  /\ UNCHANGED <<policy, now>>

\* The budget of the table is spent after a full batch.
BudgetEnds(w) ==
  /\ work[w].pc = "drain" /\ work[w].total > 0
  /\ EndPass(w, "behind")
  /\ Leave({}, w)
  /\ UNCHANGED <<policy, now>>

\* Tokens are checked again; the other two policies delete what they ranked.
DeleteListed(w) ==
  /\ work[w].pc = "list" /\ work[w].doomed # <<>>
  /\ LET n == First(work[w].doomed, MaxBatch)
         R == {r \in ToSet(n) \cap DOMAIN rows :
                 policy = "tokens" => r \in Below(rows, work[w].mark)}
     IN  /\ work' = [work EXCEPT ![w].doomed = SubSeq(@, Len(n) + 1, Len(@)),
                                 ![w].total = @ + Cardinality(R)]
         /\ Leave(R, w)
  /\ UNCHANGED <<policy, now>>

\* Reaching maxIDsPerPass means that more rows are waiting; tokens do not tell.
ListDone(w) ==
  /\ work[w].pc = "list" /\ work[w].doomed = <<>>
  /\ EndPass(w, IF policy # "tokens" /\ work[w].total >= MaxIDs THEN "behind" ELSE "caught up")
  /\ Leave({}, w)
  /\ UNCHANGED <<policy, now>>

\* A statement fails, or leadership or the process ends.
PassFails(w) ==
  /\ Working(w)
  /\ EndPass(w, "failed")
  /\ Leave({}, w)
  /\ UNCHANGED <<policy, now>>

RetentionNext ==
  \/ \E r \in Row : Insert(r) \/ FinishRun(r) \/ RemoveRow(r)
  \/ \E w \in Worker :
       \/ BeginDrain(w) \/ BeginRowCap(w) \/ BeginList(w)
       \/ SelectBatch(w) \/ DeleteBatch(w) \/ BudgetEnds(w)
       \/ DeleteListed(w) \/ ListDone(w) \/ PassFails(w)
  \/ Tick

RetentionSpec == RetentionInit /\ [][RetentionNext]_retentionVars

-----------------------------------------------------------------------------
(* Properties *)

\* Retention deletes only what is past its limit: a row older than the period, a
\* run that ended that long ago, a token that expired, or a row with enough newer
\* ones to fill the cap.  Two workers that purge at once do not take the same
\* excess off twice (the comment on purgeRowCap); newer rows that left while the
\* pass was on still count.
OnlyExpired ==
  [][ work' # work =>
        \A r \in DOMAIN rows \ DOMAIN rows' : r \in PastLimit(Over(gone, rows)) ]_retentionVars

\* A pass that does not report to be behind leaves nothing of what was past the
\* limit when it began; its worker waits an hour after it.  A row taken by another
\* hand can make a batch come out short, and tokens beyond maxIDsPerPass wait.
CaughtUp ==
  [][ \A w \in Worker :
        /\ Working(w) /\ work'[w].pc = "caught up" /\ ~ crossed[w]
        /\ policy = "tokens" => Cardinality(due[w]) <= MaxIDs
        => due[w] \cap DOMAIN rows' = {} ]_retentionVars
=============================================================================
