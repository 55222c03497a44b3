---------------------------- MODULE IngestQueue ----------------------------
(***************************************************************************)
(* The bounded in-memory queue between the ingestion endpoints and         *)
(* Postgres (internal/ingest/queue.go).  One queue exists for events, one  *)
(* for transactions, one for logs and one for profiles; they differ only   *)
(* in the constants below.  Producers (HTTP handlers) call Push under the  *)
(* queue's mutex; one writer goroutine (run) collects batches and writes   *)
(* each of them in one database transaction, retrying what is safe to      *)
(* retry and splitting a batch that the database refuses for its data.     *)
(*                                                                         *)
(* An Item is one Push call.  Two items may stand for the same record      *)
(* (DedupKey), which is how an SDK's resend of an event looks.             *)
(*                                                                         *)
(* Left out of q.stats: what only feeds the health report (FailedWrites,   *)
(* Retries, LastSuccess, Degraded, byteLimited) and the warning throttle.  *)
(***************************************************************************)
EXTENDS Integers, Sequences, FiniteSets

CONSTANTS
  Item,          \* the records offered to Push, each once
  Bytes,         \* Bytes[S]: total q.size of the items S (0 when q.size is nil)
  DedupKey,      \* DedupKey[i]: the unique key i's row carries, or NoKey
  NoKey,         \* logs and transactions have no deduplication key
  Invalid,       \* items whose row the database always refuses (22, 23, 54)
  Capacity,      \* cap(q.ch)
  MaxBytes,      \* q.maxBytes; 0 means no byte ceiling
  BestEffort,    \* q.bestEffort: refusals count as Dropped, not Rejected
  BatchSize,     \* run's batchSize
  MaxAttempts,   \* 5 in flush
  MaxRecordDrops \* bound on RecordDrop calls

ASSUME QueueAssumption ==
  /\ IsFiniteSet(Item)
  /\ Bytes \in [SUBSET Item -> Nat]
  /\ \A S, T \in SUBSET Item :
       S \cap T = {} => Bytes[S \cup T] = Bytes[S] + Bytes[T]
  /\ NoKey \notin Item
  /\ DOMAIN DedupKey = Item
  /\ Invalid \subseteq Item
  /\ Capacity \in Nat \ {0}
  /\ MaxBytes \in Nat
  /\ BestEffort \in BOOLEAN
  /\ BatchSize \in Nat \ {0}
  /\ MaxAttempts \in Nat \ {0}
  /\ MaxRecordDrops \in Nat

VARIABLES
  ch,        \* q.ch, the channel
  pending,   \* q.pending: everything accepted and not yet finished
  closed,    \* q.closed
  accepted,  \* q.stats.Accepted
  persisted, \* q.stats.Persisted
  rejected,  \* q.stats.Rejected
  dropped,   \* q.stats.Dropped
  unknown,   \* q.stats.Unknown
  pendingBytes, \* q.stats.PendingBytes
  pc,        \* where the writer goroutine stands
  resume,    \* where it continues when the flush in progress returns
  batch,     \* run's batch
  lo,        \* how many items of batch the flush has finished
  ends,      \* right ends of the flush calls on the stack, innermost first
  attempt,   \* flush's attempt; 0 outside the attempt loop
  err,       \* flush's err
  expired,   \* the flush context is over (30 s, or the 10 s drain budget)
  cancelled, \* the writer's context is cancelled
  discarded, \* history: RecordDrop calls by reason
  rows,      \* rows[i]: how many rows of the table were inserted for item i
  fate       \* history: what became of each item

vars == <<ch, pending, closed, accepted, persisted, rejected, dropped, unknown,
          pendingBytes, pc, resume, batch, lo, ends, attempt, err, expired,
          cancelled, discarded, rows, fate>>

stats      == <<accepted, persisted, rejected, dropped, unknown, pendingBytes>>
queueVars  == <<ch, pending, closed, stats, discarded, fate>>
writerVars == <<pc, resume, batch, lo, ends, attempt, err>>

Abandonments == {"write_failed", "deadline", "invalid_record"}
Refusals     == {"shutdown", "buffer_bytes", "buffer_full"}
Discards     == {"invalid_record", "encode_failed"}
DropReasons  == Abandonments \cup Refusals \cup Discards
Settled      == {"persisted", "unknown"} \cup Abandonments
Fates        == {"new", "refused", "pending"} \cup Settled

\* The errors flush tells apart: transient ones (no PgError at all, such as a
\* transport, pool or attempt-timeout failure, and the server states 53300,
\* 57xxx and 08xxx), proof of a rollback (40001, 40P01, ErrTxCommitRollback),
\* data and constraint errors (22, 23, 54), any other SQLSTATE, and the expiry
\* of the flush context.  unknownCommit wraps one of them.
Causes == {"transient", "rolled_back", "data", "other", "ctx"}
Errors == [cause : Causes \cup {"none"}, unknown : BOOLEAN]
NoErr  == [cause |-> "none", unknown |-> FALSE]
CtxErr == [cause |-> "ctx", unknown |-> FALSE]

\* Mutant: every server error counts as a data error.
permanentAny(e) == ~e.unknown /\ e.cause \in {"data", "other"}

permanent(e) == ~e.unknown /\ e.cause = "data"

\* Mutant: an ambiguous commit is retried.
retryableUnknown(e) == e.cause \notin {"data", "other"}

retryable(e) == ~e.unknown /\ e.cause \notin {"data", "other"}

\* Mutant: a failed commit is taken for a rollback.
CommitErrorCertain(cause) == [cause |-> cause, unknown |-> FALSE]

\* atomicWrite: an error of tx.Commit is ambiguous unless it proves a rollback.
CommitError(cause) ==
  [cause |-> cause,
   unknown |-> cause \notin {"rolled_back", "data"}]

\* Mutant: the first half of a split is finished with the parent's batch.
CurrentParent == (lo + 1) .. Len(batch)

\* The call of flush on top of the stack works on batch[lo+1 .. Head(ends)].
Current    == (lo + 1) .. Head(ends)
Segment    == {batch[k] : k \in Current}
SegmentLen == Head(ends) - lo
InBatch    == {batch[k] : k \in (lo + 1) .. Len(batch)}
InChannel  == {ch[k] : k \in 1 .. Len(ch)}

Init ==
  /\ ch = <<>> /\ pending = {} /\ closed = FALSE
  /\ accepted = 0 /\ persisted = 0 /\ rejected = 0 /\ unknown = 0
  /\ dropped = [r \in DropReasons |-> 0]
  /\ pendingBytes = 0
  /\ pc = "loop" /\ resume = "loop"
  /\ batch = <<>> /\ lo = 0 /\ ends = <<>>
  /\ attempt = 0 /\ err = NoErr
  /\ expired = FALSE /\ cancelled = FALSE
  /\ discarded = [r \in Discards |-> 0]
  /\ rows = [i \in Item |-> 0]
  /\ fate = [i \in Item |-> "new"]

-----------------------------------------------------------------------------
(* Producers.  Each of these runs under q.mu. *)

OverBytes(i) == MaxBytes > 0 /\ pendingBytes + Bytes[{i}] > MaxBytes

RefusalReason(i) ==
  IF closed THEN "shutdown"
  ELSE IF OverBytes(i) THEN "buffer_bytes" ELSE "buffer_full"

\* Mutant: the channel's capacity is not looked at.
CanAcceptAlways(i) == ~closed /\ ~OverBytes(i)

CanAccept(i) == ~closed /\ ~OverBytes(i) /\ Len(ch) # Capacity

PushAccept(i) ==
  /\ fate[i] = "new"
  /\ CanAccept(i)
  /\ pending' = pending \cup {i}
  /\ ch' = Append(ch, i)
  /\ accepted' = accepted + 1
  /\ pendingBytes' = pendingBytes + Bytes[{i}]
  /\ fate' = [fate EXCEPT ![i] = "pending"]
  /\ UNCHANGED <<closed, persisted, rejected, dropped, unknown, writerVars,
                 expired, cancelled, rows, discarded>>

PushRefuse(i) ==
  /\ fate[i] = "new"
  /\ ~CanAccept(i)
  /\ IF BestEffort
       THEN dropped' = [dropped EXCEPT ![RefusalReason(i)] = @ + 1] /\ UNCHANGED rejected
       ELSE rejected' = rejected + 1 /\ UNCHANGED dropped
  /\ fate' = [fate EXCEPT ![i] = "refused"]
  /\ UNCHANGED <<ch, pending, closed, accepted, persisted, unknown, pendingBytes,
                 writerVars, expired, cancelled, rows, discarded>>

\* The envelope handler discards a profile it cannot decode or encode.
RecordDrop(reason) ==
  /\ discarded["invalid_record"] + discarded["encode_failed"] < MaxRecordDrops
  /\ dropped' = [dropped EXCEPT ![reason] = @ + 1]
  /\ discarded' = [discarded EXCEPT ![reason] = @ + 1]
  /\ UNCHANGED <<ch, pending, closed, accepted, persisted, rejected, unknown,
                 pendingBytes, fate, writerVars, expired, cancelled, rows>>

StopAccepting ==
  /\ ~closed
  /\ closed' = TRUE
  /\ UNCHANGED <<ch, pending, stats, fate, writerVars, expired,
                 cancelled, rows, discarded>>

\* stopWriters in serveCmd.
Cancel ==
  /\ ~cancelled
  /\ cancelled' = TRUE
  /\ UNCHANGED <<queueVars, writerVars, expired, rows>>

-----------------------------------------------------------------------------
(* The writer goroutine: run. *)

\* A flush of an empty batch returns at once; otherwise it is one call of
\* flush on the whole batch.  In the drain all flushes share one deadline.
StartFlush(b, continue) ==
  /\ lo' = 0 /\ err' = NoErr /\ attempt' = 0
  /\ resume' = continue
  /\ IF b = <<>>
       THEN /\ pc' = continue
            /\ batch' = b /\ ends' = <<>>
       ELSE /\ pc' = "check"
            /\ batch' = b /\ ends' = <<Len(b)>>

\* Top of the loop: shutdown is preferred over a ready ticker or channel.
LoopHead ==
  /\ pc = "loop"
  /\ IF cancelled
       THEN pc' = "drain" /\ closed' = TRUE /\ expired' = FALSE
       ELSE pc' = "select" /\ UNCHANGED <<closed, expired>>
  /\ UNCHANGED <<ch, pending, stats, fate, resume, batch, lo, ends,
                 attempt, err, cancelled, rows, discarded>>

Receive ==
  /\ pc = "select"
  /\ ch # <<>>
  /\ ch' = Tail(ch)
  /\ LET b == Append(batch, Head(ch)) IN
       IF Len(b) >= BatchSize /\ ~cancelled
         THEN StartFlush(b, "loop") /\ expired' = FALSE
         ELSE /\ batch' = b /\ pc' = "loop"
              /\ UNCHANGED <<resume, lo, ends, attempt, err, expired>>
  /\ UNCHANGED <<pending, closed, stats, fate, cancelled, rows, discarded>>

\* Mutant: the ticker does not flush a partial batch.
TickIdle ==
  /\ pc = "select"
  /\ pc' = "loop"
  /\ UNCHANGED <<queueVars, resume, batch, lo, ends, attempt, err, expired,
                 cancelled, rows>>

Tick ==
  /\ pc = "select"
  /\ IF cancelled
       THEN pc' = "loop" /\ UNCHANGED <<resume, batch, lo, ends, attempt, err, expired>>
       ELSE StartFlush(batch, "loop") /\ expired' = FALSE
  /\ UNCHANGED <<queueVars, cancelled, rows>>

CtxDone ==
  /\ pc = "select"
  /\ cancelled
  /\ pc' = "loop"
  /\ UNCHANGED <<queueVars, resume, batch, lo, ends, attempt, err, expired,
                 cancelled, rows>>

DrainReceive ==
  /\ pc = "drain"
  /\ ch # <<>>
  /\ ch' = Tail(ch)
  /\ LET b == Append(batch, Head(ch)) IN
       IF Len(b) >= BatchSize
         THEN StartFlush(b, "drain")
         ELSE batch' = b /\ UNCHANGED <<pc, resume, lo, ends, attempt, err>>
  /\ UNCHANGED <<pending, closed, stats, fate, expired, cancelled,
                 rows, discarded>>

\* Mutant: the drain returns without flushing its last partial batch.
DrainEmptyReturns ==
  /\ pc = "drain"
  /\ ch = <<>>
  /\ pc' = "done"
  /\ UNCHANGED <<queueVars, resume, batch, lo, ends, attempt, err, expired,
                 cancelled, rows>>

DrainEmpty ==
  /\ pc = "drain"
  /\ ch = <<>>
  /\ StartFlush(batch, "done")
  /\ UNCHANGED <<queueVars, expired, cancelled, rows>>

-----------------------------------------------------------------------------
(* flush: attempts, classification, split and finish. *)

InFlush == pc \in {"check", "write", "settle"}

DeadlineExpires ==
  /\ InFlush \/ pc = "drain"
  /\ ~expired
  /\ expired' = TRUE
  /\ UNCHANGED <<queueVars, writerVars, cancelled, rows>>

\* Head of the attempt loop, the back-off before a retry included: the context
\* may end while flush waits, and is looked at again before the write.
BeginAttempt ==
  /\ pc = "check"
  /\ IF expired
       THEN pc' = "settle" /\ err' = CtxErr /\ attempt' = 0
       ELSE pc' = "write" /\ UNCHANGED <<err, attempt>>
  /\ UNCHANGED <<queueVars, resume, batch, lo, ends, expired, cancelled, rows>>

\* What the batch's INSERTs leave once the transaction has committed: a row
\* whose key is in the table, or earlier in the batch, is skipped (ON CONFLICT
\* DO NOTHING); a row without a key is always inserted.
Inserted(k) ==
  LET key == DedupKey[batch[k]] IN
    \/ key = NoKey
    \/ /\ \A j \in Item : DedupKey[j] = key => rows[j] = 0
       /\ \A m \in (lo + 1) .. (k - 1) : DedupKey[batch[m]] # key

CommittedRows ==
  [i \in Item |->
     IF \E k \in Current : batch[k] = i /\ Inserted(k) THEN rows[i] + 1
                                                       ELSE rows[i]]

\* atomicWrite commits and reports success: flush goes on to finish.
WriteCommitted ==
  /\ pc = "write"
  /\ Segment \cap Invalid = {}
  /\ rows' = CommittedRows
  /\ pc' = "settle" /\ err' = NoErr /\ attempt' = 0
  /\ UNCHANGED <<queueVars, resume, batch, lo, ends, expired, cancelled>>

\* Mutant: the number of attempts is not bounded.
FailedForever(e) ==
  /\ IF retryable(e)
       THEN pc' = "check" /\ err' = NoErr /\ UNCHANGED attempt
       ELSE pc' = "settle" /\ err' = e /\ attempt' = 0
  /\ UNCHANGED <<queueVars, resume, batch, lo, ends, expired, cancelled>>

\* One failed attempt, with the error e that write returned.  flush reads the
\* error of the last attempt only, so a retry starts from NoErr.
Failed(e) ==
  /\ IF retryable(e) /\ attempt + 1 < MaxAttempts
       THEN pc' = "check" /\ err' = NoErr /\ attempt' = attempt + 1
       ELSE pc' = "settle" /\ err' = e /\ attempt' = 0
  /\ UNCHANGED <<queueVars, resume, batch, lo, ends, expired, cancelled>>

\* Begin or one of the statements fails: the transaction is rolled back.  A
\* data error means that a row of the segment is invalid, and an invalid row
\* never gets past this point.
WriteFailed(cause) ==
  /\ pc = "write"
  /\ cause = "data" => Segment \cap Invalid # {}
  /\ cause = "ctx" => expired
  /\ Failed([cause |-> cause, unknown |-> FALSE])
  /\ UNCHANGED rows

\* Commit fails.  Only an error that proves a rollback leaves no doubt: after
\* any other the server may have committed (took) before the answer was lost.
CommitFailed(cause, took) ==
  /\ pc = "write"
  /\ Segment \cap Invalid = {}
  /\ cause # "data"
  /\ cause = "ctx" => expired
  /\ cause = "rolled_back" => ~took
  /\ Failed(CommitError(cause))
  /\ rows' = IF took THEN CommittedRows ELSE rows

\* A batch the database refused for its data is split in the middle; both
\* halves share the parent's deadline.
Split ==
  /\ pc = "settle"
  /\ permanent(err) /\ SegmentLen > 1 /\ ~expired
  /\ ends' = <<lo + SegmentLen \div 2>> \o ends
  /\ pc' = "check" /\ err' = NoErr
  /\ UNCHANGED <<queueVars, resume, batch, lo, attempt, expired, cancelled, rows>>

Reason ==
  IF err = NoErr THEN "persisted"
  ELSE IF err.unknown THEN "unknown"
  ELSE IF expired THEN "deadline"
  ELSE IF permanent(err) THEN "invalid_record" ELSE "write_failed"

\* Mutant: a batch counts as one item.
CountBatch(reason, n) ==
  /\ persisted' = IF reason = "persisted" THEN persisted + 1 ELSE persisted
  /\ unknown' = IF reason = "unknown" THEN unknown + 1 ELSE unknown
  /\ dropped' = IF reason \in Abandonments THEN [dropped EXCEPT ![reason] = @ + 1]
                                           ELSE dropped

\* finish's counters for n items.
Count(reason, n) ==
  /\ persisted' = IF reason = "persisted" THEN persisted + n ELSE persisted
  /\ unknown' = IF reason = "unknown" THEN unknown + n ELSE unknown
  /\ dropped' = IF reason \in Abandonments THEN [dropped EXCEPT ![reason] = @ + n]
                                           ELSE dropped

\* finish, and flush's return: to the caller's second half, or to run.
Finish ==
  /\ pc = "settle"
  /\ ~(permanent(err) /\ SegmentLen > 1 /\ ~expired)
  /\ Count(Reason, SegmentLen)
  /\ pending' = pending \ Segment
  /\ pendingBytes' = pendingBytes - Bytes[Segment]
  /\ fate' = [i \in Item |-> IF i \in Segment THEN Reason ELSE fate[i]]
  /\ ends' = Tail(ends)
  /\ err' = NoErr
  /\ IF Len(ends) > 1
       THEN pc' = "check" /\ lo' = Head(ends) /\ UNCHANGED batch
       ELSE pc' = resume /\ lo' = 0 /\ batch' = <<>>
  /\ UNCHANGED <<ch, closed, accepted, rejected, resume, attempt, expired, cancelled,
                 rows, discarded>>

-----------------------------------------------------------------------------
Push(i) == PushAccept(i) \/ PushRefuse(i)

Write ==
  \/ WriteCommitted
  \/ \E cause \in Causes : WriteFailed(cause)
  \/ \E cause \in Causes, took \in BOOLEAN : CommitFailed(cause, took)

Run == LoopHead \/ Receive \/ Tick \/ CtxDone \/ DrainReceive \/ DrainEmpty
Flush == BeginAttempt \/ Write \/ Split \/ Finish

Next ==
  \/ \E i \in Item : Push(i)
  \/ \E reason \in Discards : RecordDrop(reason)
  \/ StopAccepting
  \/ Cancel
  \/ DeadlineExpires
  \/ Run
  \/ Flush

Spec == Init /\ [][Next]_vars

\* The writer goroutine is scheduled; every write attempt ends (5 s timeout);
\* the ticker fires, and select does not starve a case that stays ready.
Fairness ==
  /\ WF_vars(Run \/ Flush)
  /\ SF_vars(Receive)
  /\ SF_vars(Tick)

FairSpec == Spec /\ Fairness

-----------------------------------------------------------------------------
(* Properties *)

\* Every variable has its type: the stack of flush calls is a sequence of
\* positions in the batch, and the counters never become negative (PendingBytes
\* is decremented in finish).
TypeOK ==
  /\ ch \in Seq(Item) /\ pending \in SUBSET Item /\ closed \in BOOLEAN
  /\ accepted \in Nat /\ persisted \in Nat /\ rejected \in Nat /\ unknown \in Nat
  /\ dropped \in [DropReasons -> Nat]
  /\ pendingBytes \in Nat
  /\ pc \in {"loop", "select", "check", "write", "settle", "drain", "done"}
  /\ resume \in {"loop", "drain", "done"}
  /\ batch \in Seq(Item) /\ lo \in Nat /\ ends \in Seq(Nat)
  /\ attempt \in Nat /\ err \in Errors
  /\ expired \in BOOLEAN /\ cancelled \in BOOLEAN
  /\ discarded \in [Discards -> Nat]
  /\ rows \in [Item -> Nat]
  /\ fate \in [Item -> Fates]

\* The list q.pending is exactly what is queued or held by the writer: finish
\* removes the items of its own sub-batch and no others, whatever splits came
\* before it.
PendingIsInFlight ==
  /\ pending = InChannel \cup InBatch
  /\ Cardinality(pending) = Len(ch) + Len(batch) - lo

\* Every item Push accepted is counted in exactly one of Persisted, Unknown and
\* the three abandonment reasons, or is still pending.  (Dropped also counts the
\* records RecordDrop discards under the reason "invalid_record".)
Conservation ==
  accepted + discarded["invalid_record"] =
    persisted + unknown + dropped["write_failed"]
      + dropped["deadline"] + dropped["invalid_record"]
      + Cardinality(pending)

\* The byte accounting does not leak: PendingBytes is the size of what is
\* pending, and it respects the ceiling.
BytesAccounted ==
  /\ pendingBytes = Bytes[pending]
  /\ MaxBytes > 0 => pendingBytes <= MaxBytes

\* Memory is bounded by the channel and one batch, although a batch that fills
\* up as the shutdown arrives is extended by one more item in the drain.
MemoryBound == Cardinality(pending) <= Capacity + BatchSize

SameRecord(i, j) == i = j \/ (DedupKey[i] = DedupKey[j] /\ DedupKey[i] # NoKey)

\* No retry, split or resend stores a record twice: a batch that may have been
\* committed is never written again.
NoDuplicateRows ==
  \A i, j \in Item :
    SameRecord(i, j) => rows[i] + (IF i = j THEN 0 ELSE rows[j]) <= 1

\* Splitting isolates the offending record: an item dropped as invalid is
\* invalid, it is not the healthy neighbour of one.
OnlyInvalidIsolated ==
  \A i \in Item : fate[i] = "invalid_record" => i \in Invalid

\* What the statistics say of an item is true of the database: a persisted item
\* is stored (possibly by an earlier copy of the same record), and one reported
\* dropped left no row behind.  Only Unknown leaves the question open.
\* No record is stored twice on the way, and only invalid ones are blamed for it
\* (flush, atomicWrite, finish).
OutcomeIsTruthful ==
  /\ NoDuplicateRows
  /\ OnlyInvalidIsolated
  /\ \A i \in Item :
       /\ fate[i] = "persisted" => \E j \in Item : SameRecord(i, j) /\ rows[j] = 1
       /\ fate[i] \in Abandonments => rows[i] = 0

\* When the writer returns, nothing is left in the channel or in the batch and
\* nothing can be accepted any more: no accepted item is silently abandoned.
DrainIsComplete ==
  pc = "done" => closed /\ pending = {} /\ ch = <<>>

\* Every accepted item is eventually settled, whatever the database answers.
AcceptedSettles ==
  \A i \in Item : (fate[i] = "pending") ~> (fate[i] \in Settled)

\* The writer returns after its context is cancelled, so serveCmd's wait for
\* the writers ends.
ShutdownCompletes == cancelled ~> (pc = "done")

\* Channel, batch, stack of calls, retries and contexts are hidden.
Contract == INSTANCE IngestContract WITH rows <- rows, fate <- fate

\* The queue implements its contract: whatever is retried, split or given up,
\* an item is settled once, with an outcome that is true of the database.
ImplementsContract == Contract!Spec
=============================================================================
