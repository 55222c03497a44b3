------------------------- MODULE IngestQueueProofs -------------------------
(***************************************************************************)
(* Proofs about the ingestion queue, for every set of items, capacity,     *)
(* batch size and number of attempts.                                      *)
(*                                                                         *)
(* Structure says how the channel, the batch and the stack of flush calls  *)
(* hold the pending items: each of them once, in a position that no        *)
(* finished sub-batch covers.  That is what makes finish remove exactly    *)
(* what it counts, and the accounts follow.                                *)
(*                                                                         *)
(* Truth says what the database holds of an item.  Its heart is InDoubt: a *)
(* pending item that has a row belongs to the sub-batch about to be        *)
(* finished, and the error kept for that sub-batch does not claim that     *)
(* nothing was written.  An item that will be written again therefore has  *)
(* no row: what finish reports is true, no record is stored twice, and     *)
(* every step of the queue is a step of IngestContract or invisible there. *)
(***************************************************************************)
EXTENDS IngestQueue, FiniteSetTheorems, FunctionTheorems, WellFoundedInduction, TLAPS

\* The stack of flush calls is a strictly increasing sequence of positions of
\* the batch that ends at its length; after the shutdown began nothing is
\* accepted, and the last flush starts with an empty channel.
StackShape(e, l, max) ==
  /\ Len(e) > 0
  /\ \A n \in 1 .. Len(e) : l < e[n] /\ e[n] <= max
  /\ \A m, n \in 1 .. Len(e) : m < n => e[m] < e[n]
  /\ e[Len(e)] = max

FlushShape ==
  /\ InFlush => StackShape(ends, lo, Len(batch))
  /\ ~InFlush => lo = 0 /\ ends = <<>>
  /\ pc \in {"drain", "done"} \/ (InFlush /\ resume # "loop") => closed
  /\ pc = "done" \/ (InFlush /\ resume = "done") => ch = <<>>
  /\ pc = "done" => batch = <<>>

\* Each item sits in one place, once.
DistinctIn(c, b) ==
  /\ \A m, n \in 1 .. Len(c) : c[m] = c[n] => m = n
  /\ \A m, n \in 1 .. Len(b) : b[m] = b[n] => m = n
  /\ \A m \in 1 .. Len(c), n \in 1 .. Len(b) : c[m] # b[n]

Distinct == DistinctIn(ch, batch)

\* q.pending is what the channel and the unfinished part of the batch hold.
Held ==
  /\ pending = InChannel \cup InBatch
  /\ \A i \in Item : fate[i] = "pending" <=> i \in pending
  /\ \A n \in 1 .. Len(batch) : fate[batch[n]] # "new"

Accounts ==
  /\ Cardinality(pending) = Len(ch) + Len(batch) - lo
  /\ Conservation
  /\ pendingBytes = Bytes[pending]
  /\ MaxBytes > 0 => pendingBytes <= MaxBytes

Structure == TypeOK /\ FlushShape /\ Distinct /\ Held /\ Accounts

-----------------------------------------------------------------------------
(* Facts about sequences. *)

SeqElems(s) == {s[k] : k \in 1 .. Len(s)}

\* t is s with e appended.
Extends(S, s, e, t) ==
  /\ t \in Seq(S) /\ Len(t) = Len(s) + 1 /\ Len(s) \in Nat
  /\ \A n \in 1 .. Len(s) : t[n] = s[n]
  /\ t[Len(s) + 1] = e
  /\ \A n \in 1 .. Len(t) : n \in 1 .. Len(s) \/ n = Len(s) + 1
  /\ SeqElems(t) = SeqElems(s) \cup {e}

\* t is s without its head e.
Shortens(S, s, e, t) ==
  /\ t \in Seq(S) /\ Len(t) = Len(s) - 1 /\ Len(t) \in Nat /\ Len(s) \in Nat \ {0}
  /\ \A n \in 1 .. Len(t) : t[n] = s[n + 1] /\ n + 1 \in 1 .. Len(s)
  /\ e = s[1] /\ e \in S
  /\ SeqElems(s) = SeqElems(t) \cup {e}

\* Append adds one element at the end.
LEMMA AppendExtends ==
  ASSUME NEW S, NEW s \in Seq(S), NEW e \in S
  PROVE  Extends(S, s, e, Append(s, e))
<1> DEFINE t == Append(s, e)
<1>1. /\ t \in Seq(S) /\ Len(t) = Len(s) + 1 /\ Len(s) \in Nat
      /\ \A n \in 1 .. Len(s) : t[n] = s[n]
      /\ t[Len(s) + 1] = e
  OBVIOUS
<1> HIDE DEF t
<1>2. 1 .. Len(t) = (1 .. Len(s)) \cup {Len(s) + 1}
  BY <1>1
<1>3. SeqElems(t) = SeqElems(s) \cup {e}
  BY <1>1, <1>2 DEF SeqElems
<1>4. Extends(S, s, e, t)
  BY <1>1, <1>2, <1>3 DEF Extends
<1> QED BY <1>4 DEF t

\* Tail removes the first element and shifts the others.
LEMMA TailShortens ==
  ASSUME NEW S, NEW s \in Seq(S), s # <<>>
  PROVE  Shortens(S, s, Head(s), Tail(s))
<1> DEFINE t == Tail(s)
<1>1. /\ t \in Seq(S) /\ Len(t) = Len(s) - 1 /\ Len(t) \in Nat /\ Len(s) \in Nat \ {0}
      /\ \A n \in 1 .. Len(t) : t[n] = s[n + 1] /\ n + 1 \in 1 .. Len(s)
      /\ Head(s) = s[1] /\ Head(s) \in S
  OBVIOUS
<1> HIDE DEF t
<1>2. \A k \in 1 .. Len(s) : k = 1 \/ (k - 1 \in 1 .. Len(t) /\ s[k] = t[k - 1])
  BY <1>1
<1>3. SeqElems(s) \subseteq SeqElems(t) \cup {Head(s)}
  BY <1>1, <1>2 DEF SeqElems
<1>4. SeqElems(t) \cup {Head(s)} \subseteq SeqElems(s)
  BY <1>1 DEF SeqElems
<1>5. Shortens(S, s, Head(s), t)
  BY <1>1, <1>3, <1>4 DEF Shortens
<1> QED BY <1>5 DEF t

\* Appending a new element to one of two disjoint sequences, and moving the
\* head of one to the end of the other, keep every element in one place.
LEMMA DistinctAppend ==
  ASSUME NEW S, NEW c, NEW b, NEW e, NEW t, Extends(S, c, e, t), DistinctIn(c, b),
         \A n \in 1 .. Len(c) : c[n] # e, \A n \in 1 .. Len(b) : b[n] # e
  PROVE  DistinctIn(t, b)
<1>1. \A m, n \in 1 .. Len(t) : t[m] = t[n] => m = n
  BY DEF Extends, DistinctIn
<1>2. \A m \in 1 .. Len(t), n \in 1 .. Len(b) : t[m] # b[n]
  BY DEF Extends, DistinctIn
<1> QED BY <1>1, <1>2 DEF DistinctIn

\* A receive moves the head of the channel to the end of the batch: every item
\* stays in one place.
LEMMA DistinctMove ==
  ASSUME NEW S, NEW c, NEW b, NEW e, NEW t, NEW u,
         Shortens(S, c, e, t), Extends(S, b, e, u), DistinctIn(c, b)
  PROVE  DistinctIn(t, u)
<1>1. \A n \in 1 .. Len(b) : b[n] # e
  BY DEF Shortens, DistinctIn
<1>2. \A n \in 1 .. Len(t) : t[n] # e
  BY DEF Shortens, DistinctIn
<1>3. \A m, n \in 1 .. Len(t) : t[m] = t[n] => m = n
  BY DEF Shortens, DistinctIn
<1>4. \A m, n \in 1 .. Len(u) : u[m] = u[n] => m = n
  BY <1>1 DEF Extends, DistinctIn
<1>5. \A m \in 1 .. Len(t), n \in 1 .. Len(b) : t[m] # b[n]
  BY DEF Shortens, DistinctIn
<1>6. \A m \in 1 .. Len(t), n \in 1 .. Len(u) : t[m] # u[n]
  BY <1>2, <1>5 DEF Extends
<1> QED BY <1>3, <1>4, <1>6 DEF DistinctIn
-----------------------------------------------------------------------------
(* Facts about the sub-batch on top of the stack. *)

\* The sub-batch on top of the stack lies within the unfinished part of the
\* batch, and its items are pending.
LEMMA SegmentFacts ==
  ASSUME TypeOK, FlushShape, Distinct, Held, InFlush
  PROVE  /\ Head(ends) \in Nat /\ lo < Head(ends) /\ Head(ends) <= Len(batch)
         /\ Head(ends) = ends[1]
         /\ Segment \subseteq InBatch /\ Segment \subseteq pending
         /\ Segment \subseteq Item
         /\ SegmentLen \in Nat \ {0}
<1>1. Head(ends) = ends[1] /\ ends[1] \in Nat
  BY DEF TypeOK, FlushShape, StackShape
<1>2. lo < ends[1] /\ ends[1] <= Len(batch)
  BY DEF FlushShape, StackShape, TypeOK
<1>3. Segment \subseteq InBatch
  BY <1>1, <1>2 DEF Segment, Current, InBatch, TypeOK
<1>4. InBatch \subseteq Item
  BY DEF InBatch, TypeOK
<1>5. Segment \subseteq pending
  BY <1>3 DEF Held
<1>6. SegmentLen \in Nat \ {0}
  BY <1>1, <1>2 DEF SegmentLen, TypeOK
<1> QED
  BY <1>1, <1>2, <1>3, <1>4, <1>5, <1>6

\* The sub-batch has as many items as positions, so finish's len(batch) counts
\* items.
LEMMA SegmentCardinality ==
  ASSUME TypeOK, FlushShape, Distinct, Held, InFlush
  PROVE  IsFiniteSet(Segment) /\ Cardinality(Segment) = SegmentLen
<1> DEFINE f == [k \in Current |-> batch[k]]
<1>1. /\ Head(ends) \in Nat /\ lo < Head(ends) /\ Head(ends) <= Len(batch)
      /\ lo \in Nat /\ Len(batch) \in Nat
  BY SegmentFacts DEF TypeOK
<1>2. \A k \in Current : k \in 1 .. Len(batch)
  BY <1>1 DEF Current
<1>3. f \in [Current -> Segment]
  BY DEF Segment
<1>4. \A x, y \in Current : f[x] = f[y] => x = y
  BY <1>2 DEF Distinct, DistinctIn
<1>5. \A t \in Segment : \E s \in Current : f[s] = t
  BY DEF Segment
<1>6. f \in Bijection(Current, Segment)
  <2> HIDE DEF f
  <2> QED BY <1>3, <1>4, <1>5, Fun_IsBij
<1>7. IsFiniteSet(Current) /\ Cardinality(Current) = SegmentLen
  <2>1. lo + 1 \in Int /\ Head(ends) \in Int /\ ~(lo + 1 > Head(ends))
    BY <1>1
  <2>2. /\ IsFiniteSet((lo + 1) .. Head(ends))
        /\ Cardinality((lo + 1) .. Head(ends)) = Head(ends) - (lo + 1) + 1
    BY <2>1, FS_Interval
  <2> QED BY <1>1, <2>2 DEF Current, SegmentLen
<1>8. ExistsBijection(Current, Segment)
  BY <1>6, Fun_ExistsBij
<1> QED
  BY <1>7, <1>8, FS_Bijection

\* q.pending is a finite list.
LEMMA PendingFinite == ASSUME TypeOK PROVE IsFiniteSet(pending) /\ Cardinality(pending) \in Nat
  BY QueueAssumption, FS_Subset, FS_CardinalityType DEF TypeOK

CounterTypes ==
  /\ dropped["write_failed"] \in Nat /\ dropped["deadline"] \in Nat
  /\ dropped["invalid_record"] \in Nat /\ discarded["invalid_record"] \in Nat
  /\ accepted \in Nat /\ persisted \in Nat /\ unknown \in Nat

\* The counters finish and RecordDrop add to are numbers.
LEMMA Counters == ASSUME TypeOK PROVE CounterTypes
  BY DEF TypeOK, DropReasons, Discards, Abandonments, CounterTypes

-----------------------------------------------------------------------------
(* Structure is an inductive invariant. *)

\* An empty queue is in order.
LEMMA StructureInit == Init => Structure
<1> SUFFICES ASSUME Init PROVE Structure
  OBVIOUS
<1> USE DEF Init
<1>1. Bytes[{}] = 0
  BY QueueAssumption
<1>2. TypeOK
  <2>1. dropped \in [DropReasons -> Nat]
    OBVIOUS
  <2>2. discarded \in [Discards -> Nat] /\ rows \in [Item -> Nat]
    OBVIOUS
  <2>3. fate \in [Item -> Fates]
    BY DEF Fates
  <2>4. err \in Errors
    BY DEF NoErr, Errors
  <2>5. <<>> \in Seq(Item) /\ <<>> \in Seq(Nat)
    OBVIOUS
  <2> QED BY <2>1, <2>2, <2>3, <2>4, <2>5 DEF TypeOK
<1>3. FlushShape /\ Distinct
  BY DEF FlushShape, Distinct, DistinctIn, InFlush
<1>4. Held
  BY DEF Held, InChannel, InBatch
<1>5. Accounts
  <2>1. \A r \in DropReasons : dropped[r] = 0
    OBVIOUS
  <2>2. \A r \in Discards : discarded[r] = 0
    OBVIOUS
  <2>3. Conservation
    BY <2>1, <2>2, FS_EmptySet
    DEF Conservation, DropReasons, Discards, Abandonments
  <2> QED
    BY <1>1, <2>3, FS_EmptySet, QueueAssumption DEF Accounts
<1> QED BY <1>2, <1>3, <1>4, <1>5 DEF Structure

\* A step that leaves the containers and the books alone only has to keep the
\* types and the shape.
LEMMA BooksUnchanged ==
  ASSUME Distinct, Held, Accounts,
         UNCHANGED <<ch, pending, stats, batch, lo, discarded, fate>>
  PROVE  Distinct' /\ Held' /\ Accounts'
<1>1. Distinct'
  BY DEF Distinct, DistinctIn
<1>2. Held'
  BY DEF Held, InChannel, InBatch
<1>3. Accounts'
  BY DEF Accounts, Conservation, stats
<1> QED BY <1>1, <1>2, <1>3

\* Push of an accepted item: one more in the channel, in q.pending and in the
\* books.
LEMMA PushAcceptStructure ==
  ASSUME Structure, NEW i \in Item, PushAccept(i)
  PROVE  Structure'
<1> SUFFICES ASSUME TypeOK, FlushShape, Distinct, Held, Accounts
             PROVE  TypeOK' /\ FlushShape' /\ Distinct' /\ Held' /\ Accounts'
  BY DEF Structure
<1>1. i \notin pending /\ (\A n \in 1 .. Len(ch) : ch[n] # i)
      /\ (\A n \in 1 .. Len(batch) : batch[n] # i)
  BY DEF Held, InChannel, TypeOK, PushAccept
<1>2. Extends(Item, ch, i, ch')
  <2>1. ch \in Seq(Item) /\ ch' = Append(ch, i)
    BY DEF TypeOK, PushAccept
  <2>2. Extends(Item, ch, i, Append(ch, i))
    BY <2>1, AppendExtends
  <2> QED BY <2>1, <2>2, Zenon
<1>3. Bytes[pending'] = Bytes[pending] + Bytes[{i}] /\ Bytes[{i}] \in Nat
  <2>1. pending' = pending \cup {i} /\ pending \cap {i} = {}
    BY <1>1 DEF PushAccept
  <2>2. pending \in SUBSET Item /\ {i} \in SUBSET Item
    BY DEF TypeOK
  <2> QED BY <2>1, <2>2, QueueAssumption
<1>4. TypeOK'
  <2>1. ch' \in Seq(Item)
    BY <1>2 DEF Extends
  <2>2. pendingBytes' \in Nat /\ accepted' \in Nat /\ pending' \in SUBSET Item
    <3>1. /\ pendingBytes \in Nat /\ accepted \in Nat /\ pending \in SUBSET Item
          /\ pendingBytes' = pendingBytes + Bytes[{i}]
          /\ accepted' = accepted + 1
          /\ pending' = pending \cup {i}
      BY DEF TypeOK, PushAccept
    <3> QED BY <1>3, <3>1
  <2>3. fate' \in [Item -> Fates]
    BY DEF TypeOK, Fates, PushAccept
  <2>4. UNCHANGED <<closed, persisted, rejected, dropped, unknown, pc, resume, batch, lo,
                    ends, attempt, err, expired, cancelled, rows, discarded>>
    BY DEF PushAccept, writerVars
  <2> QED BY <2>1, <2>2, <2>3, <2>4 DEF TypeOK
<1>5. FlushShape'
  BY DEF FlushShape, InFlush, PushAccept, CanAccept, writerVars
<1>6. Distinct'
  <2>1. batch' = batch
    BY DEF PushAccept, writerVars
  <2>2. DistinctIn(ch', batch)
    BY <1>1, <1>2, DistinctAppend DEF Distinct
  <2> QED BY <2>1, <2>2 DEF Distinct
<1>7. Held'
  <2>1. InChannel' = InChannel \cup {i}
    BY <1>2 DEF InChannel, SeqElems, Extends
  <2>2. InBatch' = InBatch
    BY DEF InBatch, PushAccept, writerVars
  <2>3. \A n \in 1 .. Len(batch) : fate'[batch[n]] # "new"
    BY <1>1 DEF Held, TypeOK, PushAccept
  <2> QED BY <2>1, <2>2, <2>3 DEF Held, TypeOK, PushAccept, writerVars
<1>8. Accounts'
  <2>1. Cardinality(pending') = Cardinality(pending) + 1 /\ Cardinality(pending) \in Nat
    BY <1>1, PendingFinite, FS_AddElement DEF PushAccept
  <2>2. Conservation'
    <3>1. accepted' = accepted + 1
          /\ UNCHANGED <<persisted, unknown, dropped, discarded>>
      BY DEF PushAccept
    <3>2. Conservation
      BY DEF Accounts
    <3>3. CounterTypes
      BY Counters
    <3> QED BY <2>1, <3>1, <3>2, <3>3 DEF Conservation, CounterTypes
  <2>3. Cardinality(pending') = Len(ch') + Len(batch') - lo'
    <3>1. Len(ch') = Len(ch) + 1 /\ Len(ch) \in Nat
      BY <1>2 DEF Extends
    <3>2. Len(batch) \in Nat /\ lo \in Nat /\ UNCHANGED <<batch, lo>>
      BY DEF TypeOK, PushAccept, writerVars
    <3> QED BY <2>1, <3>1, <3>2 DEF Accounts
  <2>4. pendingBytes' = Bytes[pending']
    BY <1>3 DEF Accounts, PushAccept
  <2>5. MaxBytes > 0 => pendingBytes' <= MaxBytes
    BY <1>3, QueueAssumption DEF OverBytes, TypeOK, PushAccept, CanAccept
  <2> QED BY <2>2, <2>3, <2>4, <2>5 DEF Accounts
<1> QED BY <1>4, <1>5, <1>6, <1>7, <1>8

\* Push of a refused item only counts the refusal.
LEMMA PushRefuseStructure ==
  ASSUME Structure, NEW i \in Item, PushRefuse(i)
  PROVE  Structure'
<1> SUFFICES ASSUME TypeOK, FlushShape, Distinct, Held, Accounts
             PROVE  TypeOK' /\ FlushShape' /\ Distinct' /\ Held' /\ Accounts'
  BY DEF Structure
<1>1. i \notin pending /\ (\A n \in 1 .. Len(batch) : batch[n] # i)
  BY DEF Held, TypeOK, PushRefuse
<1>2. /\ dropped' \in [DropReasons -> Nat] /\ rejected' \in Nat
      /\ \A r \in Abandonments : dropped'[r] = dropped[r]
  <2>1. RefusalReason(i) \in DropReasons /\ RefusalReason(i) \notin Abandonments
    BY DEF RefusalReason, DropReasons, Refusals, Abandonments
  <2>2. Abandonments \subseteq DropReasons
    BY DEF DropReasons
  <2>3. BestEffort \in BOOLEAN
    BY QueueAssumption
  <2>4. CASE BestEffort
    BY <2>1, <2>2, <2>4 DEF TypeOK, PushRefuse
  <2>5. CASE ~BestEffort
    BY <2>5 DEF TypeOK, PushRefuse
  <2> QED BY <2>3, <2>4, <2>5
<1>3. TypeOK'
  BY <1>2 DEF TypeOK, Fates, PushRefuse, writerVars
<1>4. FlushShape'
  BY DEF FlushShape, InFlush, PushRefuse, writerVars
<1>5. Distinct'
  BY DEF Distinct, DistinctIn, PushRefuse, writerVars
<1>6. Held'
  <2>1. InChannel' = InChannel /\ InBatch' = InBatch
    BY DEF InChannel, InBatch, PushRefuse, writerVars
  <2> QED BY <1>1, <2>1 DEF Held, TypeOK, PushRefuse, writerVars
<1>7. Accounts'
  BY <1>2 DEF Accounts, Conservation, Abandonments, PushRefuse, writerVars
<1> QED BY <1>3, <1>4, <1>5, <1>6, <1>7

\* RecordDrop counts a record that was never accepted.
LEMMA RecordDropStructure ==
  ASSUME Structure, NEW r \in Discards, RecordDrop(r)
  PROVE  Structure'
<1> SUFFICES ASSUME TypeOK, FlushShape, Distinct, Held, Accounts
             PROVE  TypeOK' /\ FlushShape' /\ Distinct' /\ Held' /\ Accounts'
  BY DEF Structure
<1>1. r \in DropReasons
  BY DEF DropReasons
<1>2. TypeOK'
  BY <1>1 DEF TypeOK, RecordDrop, writerVars
<1>3. FlushShape' /\ Distinct'
  BY DEF FlushShape, InFlush, Distinct, DistinctIn, RecordDrop, writerVars
<1>4. Held'
  BY DEF Held, InChannel, InBatch, RecordDrop, writerVars
<1>5. Accounts'
  <2>1. Cardinality(pending) \in Nat
    BY PendingFinite
  <2>2. /\ \A q \in DropReasons : dropped'[q] = IF q = r THEN dropped[q] + 1 ELSE dropped[q]
        /\ \A q \in Discards : discarded'[q] = IF q = r THEN discarded[q] + 1
                                                      ELSE discarded[q]
    BY <1>1 DEF TypeOK, RecordDrop
  <2>3. {"write_failed", "deadline", "invalid_record"} \subseteq DropReasons
        /\ r \in {"invalid_record", "encode_failed"}
        /\ "invalid_record" \in Discards
    BY DEF DropReasons, Discards, Abandonments
  <2>4. Conservation'
    <3>1. dropped'["write_failed"] = dropped["write_failed"]
          /\ dropped'["deadline"] = dropped["deadline"]
      BY <2>2, <2>3
    <3>2. CounterTypes /\ Conservation
      BY Counters DEF Accounts
    <3>3. /\ UNCHANGED <<accepted, persisted, unknown>>
          /\ Cardinality(pending') = Cardinality(pending)
      BY DEF RecordDrop
    <3>4. CASE r = "invalid_record"
      <4>1. dropped'["invalid_record"] = dropped["invalid_record"] + 1
            /\ discarded'["invalid_record"] = discarded["invalid_record"] + 1
        BY <2>2, <2>3, <3>4
      <4>2. accepted' + discarded'["invalid_record"]
              = (accepted + discarded["invalid_record"]) + 1
        BY <3>2, <3>3, <4>1 DEF CounterTypes
      <4>3. persisted' + unknown' + dropped'["write_failed"]
              + dropped'["deadline"] + dropped'["invalid_record"] + Cardinality(pending')
            = (persisted + unknown + dropped["write_failed"]
              + dropped["deadline"] + dropped["invalid_record"] + Cardinality(pending)) + 1
        BY <2>1, <3>1, <3>2, <3>3, <4>1 DEF CounterTypes
      <4> QED BY <3>2, <4>2, <4>3 DEF Conservation
    <3>5. CASE r # "invalid_record"
      <4>1. dropped'["invalid_record"] = dropped["invalid_record"]
            /\ discarded'["invalid_record"] = discarded["invalid_record"]
        BY <2>2, <2>3, <3>5
      <4> QED BY <2>1, <3>1, <3>2, <3>3, <4>1 DEF Conservation, CounterTypes
    <3> QED BY <3>4, <3>5
  <2> QED BY <2>4 DEF Accounts, RecordDrop, writerVars
<1> QED BY <1>2, <1>3, <1>4, <1>5

\* Steps of the environment, and those of the writer that only move its
\* program counter or classify an error.
LEMMA QuietStructure ==
  ASSUME Structure,
         \/ StopAccepting \/ Cancel \/ DeadlineExpires
         \/ LoopHead \/ CtxDone \/ BeginAttempt
  PROVE  Structure'
<1> SUFFICES ASSUME TypeOK, FlushShape, Distinct, Held, Accounts
             PROVE  TypeOK' /\ FlushShape' /\ Distinct' /\ Held' /\ Accounts'
  BY DEF Structure
<1>1. UNCHANGED <<ch, pending, stats, batch, lo, discarded, fate>>
  BY DEF StopAccepting, Cancel, DeadlineExpires, LoopHead, CtxDone, BeginAttempt,
         queueVars, writerVars
<1>2. Distinct' /\ Held' /\ Accounts'
  BY <1>1, BooksUnchanged
<1>3. TypeOK' /\ FlushShape'
  <2>1. CASE StopAccepting
    BY <2>1 DEF StopAccepting, TypeOK, FlushShape, InFlush, stats, writerVars
  <2>2. CASE Cancel
    BY <2>2 DEF Cancel, TypeOK, FlushShape, InFlush, stats, queueVars, writerVars
  <2>3. CASE DeadlineExpires
    BY <2>3 DEF DeadlineExpires, TypeOK, FlushShape, InFlush, stats, queueVars, writerVars
  <2>4. CASE LoopHead
    BY <2>4 DEF LoopHead, TypeOK, FlushShape, InFlush, stats
  <2>5. CASE CtxDone
    BY <2>5 DEF CtxDone, TypeOK, FlushShape, InFlush, stats, queueVars
  <2>6. CASE BeginAttempt
    <3>1. CtxErr \in Errors
      BY DEF CtxErr, Errors, Causes
    <3>2. err' \in Errors /\ attempt' \in Nat /\ pc = "check" /\ pc' \in {"settle", "write"}
      BY <2>6, <3>1 DEF BeginAttempt, TypeOK
    <3>3. UNCHANGED <<queueVars, resume, batch, lo, ends, expired, cancelled, rows>>
      BY <2>6 DEF BeginAttempt
    <3> QED BY <3>2, <3>3 DEF TypeOK, FlushShape, InFlush, stats, queueVars
  <2> QED BY <2>1, <2>2, <2>3, <2>4, <2>5, <2>6
<1> QED BY <1>2, <1>3

\* A commit changes how many rows there are, nothing else.
LEMMA CommittedRowsType ==
  ASSUME TypeOK PROVE CommittedRows \in [Item -> Nat]
  BY DEF TypeOK, CommittedRows

\* What one write attempt does to the writer, whatever its result.
LEMMA WriteEffect ==
  ASSUME TypeOK, Write
  PROVE  /\ pc = "write" /\ pc' \in {"settle", "check"}
         /\ err' \in Errors /\ attempt' \in Nat
         /\ rows' \in [Item -> Nat]
         /\ UNCHANGED <<queueVars, resume, batch, lo, ends, expired, cancelled>>
<1>1. NoErr \in Errors /\ attempt \in Nat /\ rows \in [Item -> Nat]
  BY DEF TypeOK, NoErr, Errors
<1>2. ASSUME NEW e \in Errors, Failed(e)
      PROVE  /\ pc' \in {"settle", "check"} /\ err' \in Errors /\ attempt' \in Nat
             /\ UNCHANGED <<queueVars, resume, batch, lo, ends, expired, cancelled>>
  BY <1>1, <1>2 DEF Failed
<1>3. CommittedRows \in [Item -> Nat]
  BY CommittedRowsType
<1>4. CASE WriteCommitted
  BY <1>1, <1>3, <1>4 DEF WriteCommitted
<1>5. ASSUME NEW cause \in Causes, WriteFailed(cause)
      PROVE  /\ pc = "write" /\ pc' \in {"settle", "check"}
             /\ err' \in Errors /\ attempt' \in Nat
             /\ rows' \in [Item -> Nat]
             /\ UNCHANGED <<queueVars, resume, batch, lo, ends, expired, cancelled>>
  <2>1. [cause |-> cause, unknown |-> FALSE] \in Errors
    BY DEF Errors
  <2>2. Failed([cause |-> cause, unknown |-> FALSE]) /\ pc = "write" /\ rows' = rows
    BY <1>5 DEF WriteFailed
  <2> QED BY <1>1, <1>2, <2>1, <2>2
<1>6. ASSUME NEW cause \in Causes, NEW took \in BOOLEAN, CommitFailed(cause, took)
      PROVE  /\ pc = "write" /\ pc' \in {"settle", "check"}
             /\ err' \in Errors /\ attempt' \in Nat
             /\ rows' \in [Item -> Nat]
             /\ UNCHANGED <<queueVars, resume, batch, lo, ends, expired, cancelled>>
  <2>1. CommitError(cause) \in Errors
    BY DEF Errors, CommitError
  <2>2. Failed(CommitError(cause)) /\ pc = "write"
        /\ rows' = IF took THEN CommittedRows ELSE rows
    BY <1>6 DEF CommitFailed
  <2>3. rows' \in [Item -> Nat]
    BY <1>1, <1>3, <2>2
  <2> QED BY <1>2, <2>1, <2>2, <2>3
<1> QED BY <1>4, <1>5, <1>6 DEF Write

\* A write attempt, whatever its result, leaves the books alone.
LEMMA WriteStructure ==
  ASSUME Structure, Write
  PROVE  Structure'
<1> SUFFICES ASSUME TypeOK, FlushShape, Distinct, Held, Accounts
             PROVE  TypeOK' /\ FlushShape' /\ Distinct' /\ Held' /\ Accounts'
  BY DEF Structure
<1>1. /\ pc = "write" /\ pc' \in {"settle", "check"}
      /\ err' \in Errors /\ attempt' \in Nat
      /\ rows' \in [Item -> Nat]
      /\ UNCHANGED <<ch, pending, closed, stats, discarded, fate, resume, batch, lo,
                     ends, expired, cancelled>>
  BY WriteEffect DEF queueVars
<1>2. Distinct' /\ Held' /\ Accounts'
  BY <1>1, BooksUnchanged
<1>3. TypeOK'
  BY <1>1 DEF TypeOK, stats
<1>4. FlushShape'
  BY <1>1 DEF FlushShape, InFlush
<1> QED BY <1>2, <1>3, <1>4

\* StartFlush(b, k): the batch is b, and unless b is empty one flush call
\* covers all of it.
LEMMA StartFlushShape ==
  ASSUME NEW b \in Seq(Item), NEW k \in {"loop", "drain", "done"}, StartFlush(b, k)
  PROVE  /\ batch' = b /\ lo' = 0 /\ resume' = k /\ attempt' \in Nat /\ err' \in Errors
         /\ ends' \in Seq(Nat)
         /\ b = <<>> => pc' = k /\ ends' = <<>>
         /\ b # <<>> => pc' = "check" /\ Len(ends') = 1 /\ ends'[1] = Len(b) /\ Len(b) > 0
<1>1. Len(b) \in Nat /\ (b # <<>> => Len(b) > 0)
  OBVIOUS
<1>2. <<Len(b)>> \in Seq(Nat) /\ Len(<<Len(b)>>) = 1 /\ <<Len(b)>>[1] = Len(b)
      /\ <<>> \in Seq(Nat) /\ NoErr \in Errors
  BY <1>1 DEF NoErr, Errors
<1> QED BY <1>1, <1>2 DEF StartFlush

\* Shape and types after StartFlush, when the channel and the closed flag allow
\* the continuation k.
LEMMA StartFlushStructure ==
  ASSUME NEW b \in Seq(Item), NEW k \in {"loop", "drain", "done"}, StartFlush(b, k),
         k # "loop" => closed', k = "done" => ch' = <<>>
  PROVE  /\ FlushShape'
         /\ /\ pc' \in {"loop", "select", "check", "write", "settle", "drain", "done"}
            /\ resume' \in {"loop", "drain", "done"}
            /\ batch' \in Seq(Item) /\ lo' \in Nat /\ ends' \in Seq(Nat)
            /\ attempt' \in Nat /\ err' \in Errors
<1>1. /\ batch' = b /\ lo' = 0 /\ resume' = k /\ attempt' \in Nat /\ err' \in Errors
      /\ ends' \in Seq(Nat)
      /\ b = <<>> => pc' = k /\ ends' = <<>>
      /\ b # <<>> => pc' = "check" /\ Len(ends') = 1 /\ ends'[1] = Len(b) /\ Len(b) > 0
  BY StartFlushShape
<1>2. CASE b = <<>>
  BY <1>1, <1>2 DEF FlushShape, InFlush
<1>3. CASE b # <<>>
  <2>1. /\ pc' = "check" /\ Len(ends') = 1 /\ ends'[1] = Len(batch') /\ Len(batch') > 0
        /\ lo' = 0 /\ resume' = k /\ Len(batch') \in Nat
    BY <1>1, <1>3
  <2>2. \A n \in 1 .. Len(ends') : n = 1
    BY <2>1
  <2>3. /\ \A n \in 1 .. Len(ends') : lo' < ends'[n] /\ ends'[n] <= Len(batch')
        /\ \A m, n \in 1 .. Len(ends') : m < n => ends'[m] < ends'[n]
        /\ ends'[Len(ends')] = Len(batch') /\ Len(ends') > 0
    BY <2>1, <2>2
  <2>4. FlushShape'
    BY <2>1, <2>3 DEF FlushShape, StackShape, InFlush
  <2> QED BY <1>1, <1>3, <2>4
<1> QED BY <1>1, <1>2, <1>3

\* Moving the head of the channel to the end of the batch keeps the books.
LEMMA MoveBooks ==
  ASSUME Structure, ~InFlush, ch # <<>>, ch' = Tail(ch),
         batch' = Append(batch, Head(ch)), lo' = 0,
         UNCHANGED <<pending, stats, discarded, fate>>
  PROVE  ch' \in Seq(Item) /\ batch' \in Seq(Item) /\ Distinct' /\ Held' /\ Accounts'
<1>1. /\ ch \in Seq(Item) /\ batch \in Seq(Item) /\ Len(ch) \in Nat /\ Len(batch) \in Nat
      /\ lo = 0
  BY DEF Structure, TypeOK, FlushShape
<1>2. Shortens(Item, ch, Head(ch), ch')
  <2>1. Shortens(Item, ch, Head(ch), Tail(ch))
    BY <1>1, TailShortens
  <2> QED BY <2>1, Zenon
<1>3. Extends(Item, batch, Head(ch), batch')
  <2>1. Head(ch) \in Item
    BY <1>2 DEF Shortens
  <2>2. Extends(Item, batch, Head(ch), Append(batch, Head(ch)))
    BY <1>1, <2>1, AppendExtends
  <2> QED BY <2>2, Zenon
<1> DEFINE e == Head(ch)
<1>4. Shortens(Item, ch, e, ch') /\ Extends(Item, batch, e, batch')
  BY <1>2, <1>3
<1>5. /\ Distinct /\ Held /\ Accounts
      /\ UNCHANGED <<pending, stats, discarded, fate>> /\ lo' = 0
  BY DEF Structure
<1> HIDE DEF e
<1>6. Distinct'
  BY <1>4, <1>5, DistinctMove DEF Distinct
<1>7. InChannel = SeqElems(ch) /\ InBatch = SeqElems(batch)
      /\ InChannel' = SeqElems(ch') /\ InBatch' = SeqElems(batch')
  BY <1>1, <1>5 DEF InChannel, InBatch, SeqElems
<1>8. pending' = InChannel' \cup InBatch'
  <2>1. SeqElems(ch) = SeqElems(ch') \cup {e} /\ SeqElems(batch') = SeqElems(batch) \cup {e}
    BY <1>4 DEF Shortens, Extends
  <2> QED BY <1>5, <1>7, <2>1 DEF Held
<1>9. Held'
  <2>1. e \in pending /\ e \in Item
    BY <1>4, <1>5, <1>7 DEF Shortens, Held
  <2>2. \A n \in 1 .. Len(batch') : fate'[batch'[n]] # "new"
    BY <1>4, <1>5, <2>1 DEF Extends, Held
  <2> QED BY <1>5, <1>8, <2>2 DEF Held
<1>10. Accounts'
  <2>1. Len(ch') = Len(ch) - 1 /\ Len(batch') = Len(batch) + 1
    BY <1>4 DEF Shortens, Extends
  <2>2. Cardinality(pending') = Len(ch') + Len(batch') - lo'
    BY <1>1, <1>5, <2>1 DEF Accounts
  <2>3. Conservation'
    BY <1>5 DEF Accounts, Conservation, stats
  <2> QED BY <1>5, <2>2, <2>3 DEF Accounts, stats
<1> QED BY <1>4, <1>6, <1>9, <1>10 DEF Shortens, Extends

\* A receive, in the loop or in the drain, with the flush it may start.
LEMMA ReceiveStructure ==
  ASSUME Structure, Receive \/ DrainReceive
  PROVE  Structure'
<1> DEFINE b == Append(batch, Head(ch))
           k == IF pc = "drain" THEN "drain" ELSE "loop"
<1>1. /\ TypeOK /\ FlushShape /\ ch \in Seq(Item) /\ batch \in Seq(Item)
      /\ lo = 0 /\ ends = <<>> /\ ~InFlush /\ ch # <<>> /\ pc \in {"select", "drain"}
  BY DEF Structure, TypeOK, FlushShape, Receive, DrainReceive, InFlush
<1>2. /\ ch' = Tail(ch)
      /\ UNCHANGED <<pending, closed, stats, fate, cancelled, rows, discarded>>
      /\ expired' \in BOOLEAN
  BY DEF Receive, DrainReceive, Structure, TypeOK
<1>3. b \in Seq(Item) /\ b # <<>>
  <2>1. Head(ch) \in Item
    BY <1>1, TailShortens DEF Shortens
  <2>2. Extends(Item, batch, Head(ch), b)
    BY <1>1, <2>1, AppendExtends
  <2> HIDE DEF b
  <2>3. b \in Seq(Item) /\ Len(b) = Len(batch) + 1 /\ Len(batch) \in Nat
    BY <2>2 DEF Extends
  <2> QED BY <2>3
<1>4. \/ StartFlush(b, k)
      \/ batch' = b /\ pc' = k /\ UNCHANGED <<resume, lo, ends, attempt, err>>
  BY DEF Receive, DrainReceive
<1> HIDE DEF b
<1>5. batch' = b /\ lo' = 0
  BY <1>1, <1>3, <1>4, StartFlushShape
<1>6. ch' \in Seq(Item) /\ batch' \in Seq(Item) /\ Distinct' /\ Held' /\ Accounts'
  BY <1>1, <1>2, <1>5, MoveBooks DEF b
<1>7. /\ FlushShape'
      /\ /\ pc' \in {"loop", "select", "check", "write", "settle", "drain", "done"}
         /\ resume' \in {"loop", "drain", "done"}
         /\ lo' \in Nat /\ ends' \in Seq(Nat)
         /\ attempt' \in Nat /\ err' \in Errors
  <2>1. k \in {"loop", "drain"} /\ (k # "loop" => closed')
    BY <1>1, <1>2 DEF FlushShape
  <2> HIDE DEF k
  <2>2. CASE StartFlush(b, k)
    BY <1>3, <2>1, <2>2, StartFlushStructure
  <2>3. CASE batch' = b /\ pc' = k /\ UNCHANGED <<resume, lo, ends, attempt, err>>
    BY <1>1, <2>1, <2>3 DEF FlushShape, InFlush, TypeOK
  <2> QED BY <1>4, <2>2, <2>3
<1>8. TypeOK'
  BY <1>1, <1>2, <1>6, <1>7 DEF TypeOK, stats
<1> QED BY <1>6, <1>7, <1>8 DEF Structure

\* The ticker's flush and the drain's last one.
LEMMA TickStructure ==
  ASSUME Structure, Tick \/ DrainEmpty
  PROVE  Structure'
<1> DEFINE k == IF pc = "drain" THEN "done" ELSE "loop"
<1>1. /\ TypeOK /\ FlushShape /\ Distinct /\ Held /\ Accounts
      /\ batch \in Seq(Item)
      /\ lo = 0 /\ ends = <<>> /\ pc \in {"select", "drain"}
  BY DEF Structure, TypeOK, FlushShape, Tick, DrainEmpty, InFlush
<1>2. /\ UNCHANGED <<queueVars, cancelled, rows>>
      /\ expired' \in BOOLEAN /\ (pc = "drain" => ch = <<>>)
  BY DEF Tick, DrainEmpty, Structure, TypeOK
<1>3. \/ StartFlush(batch, k)
      \/ pc' = "loop" /\ UNCHANGED <<resume, batch, lo, ends, attempt, err>>
  BY DEF Tick, DrainEmpty
<1>4. batch' = batch /\ lo' = lo
  BY <1>1, <1>3, StartFlushShape
<1>5. Distinct' /\ Held' /\ Accounts'
  BY <1>1, <1>2, <1>4, BooksUnchanged DEF queueVars
<1>6. /\ FlushShape'
      /\ /\ pc' \in {"loop", "select", "check", "write", "settle", "drain", "done"}
         /\ resume' \in {"loop", "drain", "done"}
         /\ lo' \in Nat /\ ends' \in Seq(Nat)
         /\ attempt' \in Nat /\ err' \in Errors
  <2>1. /\ k \in {"loop", "done"} /\ (k # "loop" => closed') /\ (k = "done" => ch' = <<>>)
    BY <1>1, <1>2 DEF FlushShape, queueVars
  <2> HIDE DEF k
  <2>2. CASE StartFlush(batch, k)
    BY <1>1, <2>1, <2>2, StartFlushStructure
  <2>3. CASE pc' = "loop" /\ UNCHANGED <<resume, batch, lo, ends, attempt, err>>
    BY <1>1, <2>3 DEF FlushShape, InFlush, TypeOK
  <2> QED BY <1>3, <2>2, <2>3
<1>7. TypeOK'
  BY <1>1, <1>2, <1>4, <1>6 DEF TypeOK, queueVars, stats
<1> QED BY <1>5, <1>6, <1>7 DEF Structure
-----------------------------------------------------------------------------
(* Splitting a batch and finishing a part of it. *)

\* Splitting pushes the first half onto the stack of flush calls.
LEMMA StackPush ==
  ASSUME NEW e \in Seq(Nat), NEW l \in Nat, NEW max \in Nat, StackShape(e, l, max),
         NEW m \in Nat, l < m, m < e[1]
  PROVE  <<m>> \o e \in Seq(Nat) /\ StackShape(<<m>> \o e, l, max)
<1> DEFINE t == <<m>> \o e
<1>1. Len(e) \in Nat \ {0} /\ e[1] \in Nat
  BY DEF StackShape
<1>2. /\ t \in Seq(Nat) /\ Len(t) = Len(e) + 1 /\ t[1] = m
      /\ \A n \in 1 .. Len(e) : t[n + 1] = e[n]
  BY <1>1
<1> HIDE DEF t
<1>3. \A n \in 1 .. Len(t) : n = 1 \/ (n - 1 \in 1 .. Len(e) /\ t[n] = e[n - 1])
  <2> SUFFICES ASSUME NEW n \in 1 .. Len(t), n # 1
               PROVE  n - 1 \in 1 .. Len(e) /\ t[n] = e[n - 1]
    OBVIOUS
  <2>1. n - 1 \in 1 .. Len(e) /\ (n - 1) + 1 = n
    BY <1>1, <1>2
  <2>2. t[(n - 1) + 1] = e[n - 1]
    BY <1>2, <2>1
  <2> QED BY <2>1, <2>2
<1>4. /\ \A n \in 1 .. Len(e) : e[n] \in Nat
      /\ \A n \in 1 .. Len(e) : l < e[n] /\ e[n] <= max
      /\ \A j, n \in 1 .. Len(e) : j < n => e[j] < e[n]
      /\ 1 \in 1 .. Len(e)
  BY <1>1 DEF StackShape
<1>5. \A n \in 1 .. Len(t) : l < t[n] /\ t[n] <= max
  <2> SUFFICES ASSUME NEW n \in 1 .. Len(t) PROVE l < t[n] /\ t[n] <= max
    OBVIOUS
  <2>1. CASE n = 1
    BY <1>1, <1>2, <1>4, <2>1
  <2>2. CASE n - 1 \in 1 .. Len(e) /\ t[n] = e[n - 1]
    BY <1>4, <2>2
  <2> QED BY <1>3, <2>1, <2>2
<1>6. \A j, n \in 1 .. Len(t) : j < n => t[j] < t[n]
  <2> SUFFICES ASSUME NEW j \in 1 .. Len(t), NEW n \in 1 .. Len(t), j < n
               PROVE  t[j] < t[n]
    OBVIOUS
  <2>1. n - 1 \in 1 .. Len(e) /\ t[n] = e[n - 1] /\ t[n] \in Nat
    BY <1>3, <1>4
  <2>2. e[1] <= t[n]
    <3>1. CASE n - 1 = 1
      BY <1>1, <2>1, <3>1
    <3>2. CASE 1 < n - 1
      <4>1. e[1] < e[n - 1]
        BY <1>4, <2>1, <3>2
      <4> QED BY <1>1, <2>1, <4>1
    <3> QED BY <1>1, <1>2, <2>1, <3>1, <3>2
  <2>3. CASE j = 1
    <3>1. t[j] = m
      BY <1>2, <2>3
    <3> QED BY <1>1, <2>1, <2>2, <3>1
  <2>4. CASE j - 1 \in 1 .. Len(e) /\ t[j] = e[j - 1]
    <3>1. j - 1 < n - 1
      OBVIOUS
    <3> QED BY <1>4, <2>1, <2>4, <3>1
  <2> QED BY <1>3, <2>3, <2>4
<1>7. t[Len(t)] = max /\ Len(t) > 0
  BY <1>1, <1>2, <1>3 DEF StackShape
<1>8. StackShape(t, l, max)
  BY <1>5, <1>6, <1>7 DEF StackShape
<1> QED BY <1>2, <1>8 DEF t

\* Finishing the sub-batch on top leaves the rest of the stack in order.
LEMMA StackPop ==
  ASSUME NEW e \in Seq(Nat), NEW l \in Nat, NEW max \in Nat, StackShape(e, l, max)
  PROVE  /\ Tail(e) \in Seq(Nat) /\ Head(e) = e[1] /\ Head(e) \in Nat
         /\ Len(e) > 1 => StackShape(Tail(e), Head(e), max)
         /\ ~(Len(e) > 1) => Head(e) = max /\ Tail(e) = <<>>
<1> DEFINE t == Tail(e)
           h == Head(e)
<1>1. /\ Len(e) \in Nat \ {0} /\ e # <<>>
      /\ \A n \in 1 .. Len(e) : e[n] \in Nat
      /\ \A n \in 1 .. Len(e) : l < e[n] /\ e[n] <= max
      /\ \A j, n \in 1 .. Len(e) : j < n => e[j] < e[n]
      /\ 1 \in 1 .. Len(e) /\ e[Len(e)] = max
  BY DEF StackShape
<1>2. Shortens(Nat, e, h, t)
  BY <1>1, TailShortens
<1> HIDE DEF t, h
<1>3. CASE Len(e) > 1
  <2>1. /\ Len(t) = Len(e) - 1 /\ Len(t) \in Nat \ {0} /\ h = e[1] /\ h \in Nat
        /\ \A n \in 1 .. Len(t) : t[n] = e[n + 1] /\ n + 1 \in 1 .. Len(e)
    <3>1. /\ Len(t) = Len(e) - 1 /\ Len(t) \in Nat /\ h = e[1] /\ h \in Nat
          /\ \A n \in 1 .. Len(t) : t[n] = e[n + 1] /\ n + 1 \in 1 .. Len(e)
      BY <1>2 DEF Shortens
    <3> QED BY <1>1, <1>3, <3>1
  <2>2. \A n \in 1 .. Len(t) : h < t[n] /\ t[n] <= max
    <3> SUFFICES ASSUME NEW n \in 1 .. Len(t) PROVE h < t[n] /\ t[n] <= max
      OBVIOUS
    <3>1. n + 1 \in 1 .. Len(e) /\ t[n] = e[n + 1] /\ 1 < n + 1
      BY <2>1
    <3> QED BY <1>1, <2>1, <3>1
  <2>3. \A j, n \in 1 .. Len(t) : j < n => t[j] < t[n]
    <3> SUFFICES ASSUME NEW j \in 1 .. Len(t), NEW n \in 1 .. Len(t), j < n
                 PROVE  t[j] < t[n]
      OBVIOUS
    <3>1. /\ j + 1 \in 1 .. Len(e) /\ t[j] = e[j + 1]
          /\ n + 1 \in 1 .. Len(e) /\ t[n] = e[n + 1] /\ j + 1 < n + 1
      BY <2>1
    <3> QED BY <1>1, <3>1
  <2>4. t[Len(t)] = max
    <3>1. Len(t) \in 1 .. Len(t) /\ Len(t) + 1 = Len(e)
      BY <1>1, <2>1
    <3> QED BY <1>1, <2>1, <3>1
  <2> QED BY <1>2, <1>3, <2>1, <2>2, <2>3, <2>4 DEF StackShape, Shortens, t, h
<1>4. CASE ~(Len(e) > 1)
  <2>1. Len(e) = 1 /\ h = e[1] /\ h \in Nat /\ t \in Seq(Nat) /\ Len(t) = 0
    BY <1>1, <1>2, <1>4 DEF Shortens
  <2>2. t = <<>>
    BY <2>1
  <2> QED BY <1>4, <2>1, <2>2 DEF StackShape, t, h
<1> QED BY <1>3, <1>4

\* A split only pushes onto the stack.
LEMMA SplitStructure ==
  ASSUME Structure, Split
  PROVE  Structure'
<1>1. TypeOK /\ FlushShape /\ Distinct /\ Held /\ Accounts /\ InFlush
  BY DEF Structure, Split, InFlush
<1>2. /\ UNCHANGED <<queueVars, resume, batch, lo, attempt, expired, cancelled, rows>>
      /\ pc' = "check" /\ err' = NoErr /\ SegmentLen > 1 /\ pc = "settle"
      /\ ends' = <<lo + SegmentLen \div 2>> \o ends
  BY DEF Split
<1>3. Distinct' /\ Held' /\ Accounts'
  BY <1>1, <1>2, BooksUnchanged DEF queueVars
<1>4. ends' \in Seq(Nat) /\ StackShape(ends', lo, Len(batch))
  <2> DEFINE m == lo + SegmentLen \div 2
  <2>1. ends \in Seq(Nat) /\ lo \in Nat /\ Len(batch) \in Nat
    BY <1>1 DEF TypeOK
  <2>2. ends[1] \in Nat /\ lo < ends[1] /\ SegmentLen = ends[1] - lo
    BY <1>1, SegmentFacts DEF SegmentLen
  <2>3. m \in Nat /\ lo < m /\ m < ends[1]
    BY <1>2, <2>1, <2>2
  <2>4. StackShape(ends, lo, Len(batch))
    BY <1>1 DEF FlushShape
  <2> HIDE DEF m
  <2>5. <<m>> \o ends \in Seq(Nat) /\ StackShape(<<m>> \o ends, lo, Len(batch))
    BY <2>1, <2>3, <2>4, StackPush
  <2> QED BY <1>2, <2>5, Zenon DEF m
<1>5. TypeOK'
  <2>1. err' \in Errors
    BY <1>2 DEF NoErr, Errors
  <2>2. ends' \in Seq(Nat) /\ pc' = "check"
        /\ UNCHANGED <<queueVars, resume, batch, lo, attempt, expired, cancelled, rows>>
    BY <1>2, <1>4
  <2> QED BY <1>1, <2>1, <2>2 DEF TypeOK, queueVars, stats
<1>6. FlushShape'
  <2>1. pc' = "check" /\ pc = "settle" /\ UNCHANGED <<queueVars, resume, batch, lo>>
    BY <1>2
  <2> QED BY <1>1, <1>4, <2>1 DEF FlushShape, InFlush, queueVars
<1> QED BY <1>3, <1>5, <1>6 DEF Structure

\* finish gives an item one of the five outcomes.
LEMMA ReasonSettled ==
  Reason \in Settled /\ Reason \in {"persisted", "unknown", "write_failed", "deadline",
                                    "invalid_record"}
  BY DEF Reason, Settled, Abandonments

\* finish adds n to exactly one of the five outcome counters.
LEMMA CountAdds ==
  ASSUME TypeOK, NEW n \in Nat,
         NEW reason \in {"persisted", "unknown", "write_failed", "deadline", "invalid_record"},
         Count(reason, n)
  PROVE  /\ persisted' \in Nat /\ unknown' \in Nat /\ dropped' \in [DropReasons -> Nat]
         /\ persisted' + unknown' + dropped'["write_failed"]
              + dropped'["deadline"] + dropped'["invalid_record"]
            = (persisted + unknown + dropped["write_failed"]
              + dropped["deadline"] + dropped["invalid_record"]) + n
<1>1. /\ persisted \in Nat /\ unknown \in Nat /\ dropped \in [DropReasons -> Nat]
      /\ dropped["write_failed"] \in Nat /\ dropped["deadline"] \in Nat
      /\ dropped["invalid_record"] \in Nat
  BY Counters DEF TypeOK, CounterTypes
<1>2. Abandonments = {"write_failed", "deadline", "invalid_record"}
      /\ Abandonments \subseteq DropReasons
  BY DEF Abandonments, DropReasons
<1>3. CASE reason = "persisted"
  <2>1. persisted' = persisted + n /\ unknown' = unknown /\ dropped' = dropped
    BY <1>2, <1>3 DEF Count
  <2> QED BY <1>1, <2>1
<1>4. CASE reason = "unknown"
  <2>1. persisted' = persisted /\ unknown' = unknown + n /\ dropped' = dropped
    BY <1>2, <1>4 DEF Count
  <2> QED BY <1>1, <2>1
<1>5. CASE reason \in Abandonments
  <2>1. /\ persisted' = persisted /\ unknown' = unknown
        /\ dropped' = [dropped EXCEPT ![reason] = @ + n]
    BY <1>2, <1>5 DEF Count
  <2>2. dropped' \in [DropReasons -> Nat]
    <3>1. dropped[reason] + n \in Nat
      BY <1>1, <1>2, <1>5
    <3> QED BY <1>1, <2>1, <3>1
  <2>3. \A r \in Abandonments : dropped'[r] = IF r = reason THEN dropped[r] + n ELSE dropped[r]
    BY <1>1, <1>2, <2>1
  <2>4. CASE reason = "write_failed"
    <3>1. /\ dropped'["write_failed"] = dropped["write_failed"] + n
          /\ dropped'["deadline"] = dropped["deadline"]
          /\ dropped'["invalid_record"] = dropped["invalid_record"]
      BY <1>2, <2>3, <2>4
    <3> QED BY <1>1, <2>1, <2>2, <3>1
  <2>5. CASE reason = "deadline"
    <3>1. /\ dropped'["write_failed"] = dropped["write_failed"]
          /\ dropped'["deadline"] = dropped["deadline"] + n
          /\ dropped'["invalid_record"] = dropped["invalid_record"]
      BY <1>2, <2>3, <2>5
    <3> QED BY <1>1, <2>1, <2>2, <3>1
  <2>6. CASE reason = "invalid_record"
    <3>1. /\ dropped'["write_failed"] = dropped["write_failed"]
          /\ dropped'["deadline"] = dropped["deadline"]
          /\ dropped'["invalid_record"] = dropped["invalid_record"] + n
      BY <1>2, <2>3, <2>6
    <3> QED BY <1>1, <2>1, <2>2, <3>1
  <2> QED BY <1>2, <1>5, <2>4, <2>5, <2>6
<1> QED BY <1>2, <1>3, <1>4, <1>5

\* Where the writer stands after finish: at the second half of a split batch,
\* or back in run with the batch used up.
LEMMA FinishShape ==
  ASSUME Structure, Finish
  PROVE  /\ FlushShape' /\ ends' \in Seq(Nat) /\ batch' \in Seq(Item) /\ lo' \in Nat
         /\ pc' \in {"check", "loop", "drain", "done"}
         /\ \/ batch' = batch /\ lo' = Head(ends)
            \/ batch' = <<>> /\ lo' = 0 /\ Head(ends) = Len(batch)
<1>1. /\ TypeOK /\ FlushShape /\ InFlush /\ pc = "settle"
  BY DEF Structure, Finish, InFlush
<1>2. /\ ends \in Seq(Nat) /\ lo \in Nat /\ Len(batch) \in Nat /\ batch \in Seq(Item)
      /\ resume \in {"loop", "drain", "done"}
  BY <1>1 DEF TypeOK
<1>3. StackShape(ends, lo, Len(batch))
  BY <1>1 DEF FlushShape
<1>4. /\ Tail(ends) \in Seq(Nat) /\ Head(ends) \in Nat
      /\ Len(ends) > 1 => StackShape(Tail(ends), Head(ends), Len(batch))
      /\ ~(Len(ends) > 1) => Head(ends) = Len(batch) /\ Tail(ends) = <<>>
  BY <1>2, <1>3, StackPop
<1>5. closed' = closed /\ ch' = ch /\ resume' = resume
  BY DEF Finish
<1>6. CASE Len(ends) > 1
  <2>1. ends' = Tail(ends) /\ pc' = "check" /\ lo' = Head(ends) /\ batch' = batch
    BY <1>6 DEF Finish
  <2>2. StackShape(ends', lo', Len(batch'))
    <3>1. StackShape(Tail(ends), Head(ends), Len(batch))
      BY <1>4, <1>6
    <3> QED BY <2>1, <3>1, Zenon
  <2>3. FlushShape'
    BY <1>1, <1>5, <2>1, <2>2 DEF FlushShape, InFlush
  <2> QED BY <1>2, <1>4, <2>1, <2>3
<1>7. CASE ~(Len(ends) > 1)
  <2>1. ends' = <<>> /\ pc' = resume /\ lo' = 0 /\ batch' = <<>>
    BY <1>4, <1>7 DEF Finish
  <2>2. FlushShape'
    BY <1>1, <1>2, <1>5, <2>1 DEF FlushShape, InFlush
  <2>3. ends' \in Seq(Nat) /\ batch' \in Seq(Item)
    BY <2>1
  <2> QED BY <1>2, <1>4, <1>7, <2>1, <2>2, <2>3
<1> QED BY <1>6, <1>7

\* finish removes its own sub-batch from q.pending, the bytes and the books.
LEMMA FinishStructure ==
  ASSUME Structure, Finish
  PROVE  Structure'
<1>1. /\ TypeOK /\ FlushShape /\ Distinct /\ Held /\ Accounts /\ InFlush
  BY DEF Structure, Finish, InFlush
<1>2. /\ Head(ends) \in Nat /\ lo < Head(ends) /\ Head(ends) <= Len(batch)
      /\ lo \in Nat /\ Len(batch) \in Nat /\ Len(ch) \in Nat
      /\ Segment \subseteq InBatch /\ Segment \subseteq pending
      /\ Segment \subseteq Item /\ SegmentLen \in Nat \ {0}
      /\ SegmentLen = Head(ends) - lo
  BY <1>1, SegmentFacts DEF TypeOK, SegmentLen
<1>3. /\ FlushShape' /\ ends' \in Seq(Nat) /\ batch' \in Seq(Item) /\ lo' \in Nat
      /\ pc' \in {"check", "loop", "drain", "done"}
      /\ \/ batch' = batch /\ lo' = Head(ends)
         \/ batch' = <<>> /\ lo' = 0 /\ Head(ends) = Len(batch)
  BY FinishShape
<1>4. /\ pending' = pending \ Segment /\ pendingBytes' = pendingBytes - Bytes[Segment]
      /\ fate' = [i \in Item |-> IF i \in Segment THEN Reason ELSE fate[i]]
      /\ Count(Reason, SegmentLen) /\ err' = NoErr
      /\ UNCHANGED <<ch, closed, accepted, rejected, resume, attempt, expired, cancelled,
                     rows, discarded>>
  BY DEF Finish
<1>5. /\ persisted' \in Nat /\ unknown' \in Nat /\ dropped' \in [DropReasons -> Nat]
      /\ persisted' + unknown' + dropped'["write_failed"]
           + dropped'["deadline"] + dropped'["invalid_record"]
         = (persisted + unknown + dropped["write_failed"]
           + dropped["deadline"] + dropped["invalid_record"]) + SegmentLen
  BY <1>1, <1>2, <1>4, CountAdds, ReasonSettled
<1>6. /\ Bytes[pending] = Bytes[Segment] + Bytes[pending'] /\ Bytes[pending'] \in Nat
      /\ Bytes[Segment] \in Nat
  <2>1. /\ Segment \in SUBSET Item /\ pending' \in SUBSET Item
        /\ Segment \cap pending' = {} /\ Segment \cup pending' = pending
    BY <1>1, <1>2, <1>4 DEF TypeOK
  <2> QED BY <2>1, QueueAssumption
<1>7. Cardinality(pending') = Cardinality(pending) - SegmentLen
      /\ Cardinality(pending) \in Nat /\ Cardinality(pending') \in Nat
  <2>1. IsFiniteSet(pending) /\ Cardinality(pending) \in Nat
    BY <1>1, PendingFinite
  <2>2. IsFiniteSet(pending \ Segment)
        /\ Cardinality(pending \ Segment) = Cardinality(pending) - Cardinality(pending \cap Segment)
    BY <2>1, FS_Difference
  <2>3. pending \cap Segment = Segment
    BY <1>2
  <2>4. Cardinality(Segment) = SegmentLen
    BY <1>1, SegmentCardinality
  <2>5. Cardinality(pending \ Segment) \in Nat
    BY <2>2, FS_CardinalityType
  <2> QED BY <1>4, <2>1, <2>2, <2>3, <2>4, <2>5
<1>8. TypeOK'
  <2>1. pendingBytes' \in Nat
    <3>1. pendingBytes = Bytes[pending]
      BY <1>1 DEF Accounts
    <3> QED BY <1>4, <1>6, <3>1
  <2>2. fate' \in [Item -> Fates]
    <3>1. Reason \in Fates
      BY ReasonSettled DEF Fates
    <3> QED BY <1>1, <1>4, <3>1 DEF TypeOK
  <2>3. err' \in Errors
    BY <1>4 DEF NoErr, Errors
  <2>4. pending' \in SUBSET Item
    BY <1>1, <1>4 DEF TypeOK
  <2>5. UNCHANGED <<ch, closed, accepted, rejected, resume, attempt, expired, cancelled,
                    rows, discarded>>
    BY <1>4
  <2> QED BY <1>1, <1>3, <1>5, <2>1, <2>2, <2>3, <2>4, <2>5 DEF TypeOK
<1>9. Distinct'
  <2>1. DistinctIn(ch, batch) /\ ch' = ch
    BY <1>1, <1>4 DEF Distinct
  <2>2. CASE batch' = batch
    BY <2>1, <2>2 DEF Distinct
  <2>3. CASE batch' = <<>>
    BY <2>1, <2>3 DEF Distinct, DistinctIn
  <2> QED BY <1>3, <2>2, <2>3
<1>10. Held'
  <2>1. InBatch' = InBatch \ Segment
    <3>1. \A m, n \in 1 .. Len(batch) : batch[m] = batch[n] => m = n
      BY <1>1 DEF Distinct, DistinctIn
    <3>2. InBatch \ Segment = {batch[k] : k \in (Head(ends) + 1) .. Len(batch)}
      <4>1. \A k \in (lo + 1) .. Len(batch) :
              /\ k \in 1 .. Len(batch)
              /\ k \in (lo + 1) .. Head(ends) \/ k \in (Head(ends) + 1) .. Len(batch)
        BY <1>2
      <4>2. \A k \in (Head(ends) + 1) .. Len(batch) :
              k \in (lo + 1) .. Len(batch) /\ k \notin (lo + 1) .. Head(ends)
        BY <1>2
      <4>3. \A k \in (lo + 1) .. Head(ends) : k \in 1 .. Len(batch)
        BY <1>2
      <4> QED BY <3>1, <4>1, <4>2, <4>3 DEF InBatch, Segment, Current
    <3>3. CASE batch' = batch /\ lo' = Head(ends)
      BY <3>2, <3>3 DEF InBatch
    <3>4. CASE batch' = <<>> /\ lo' = 0 /\ Head(ends) = Len(batch)
      <4>1. (Head(ends) + 1) .. Len(batch) = {} /\ (lo' + 1) .. Len(batch') = {}
        BY <1>2, <3>4
      <4> QED BY <3>2, <4>1 DEF InBatch
    <3> QED BY <1>3, <3>3, <3>4
  <2>2. InChannel' = InChannel /\ InChannel \cap Segment = {}
    <3>1. \A m \in 1 .. Len(ch), n \in 1 .. Len(batch) : ch[m] # batch[n]
      BY <1>1 DEF Distinct, DistinctIn
    <3>2. \A k \in (lo + 1) .. Head(ends) : k \in 1 .. Len(batch)
      BY <1>2
    <3> QED BY <1>4, <3>1, <3>2 DEF InChannel, Segment, Current
  <2>3. pending' = InChannel' \cup InBatch'
    BY <1>1, <1>4, <2>1, <2>2 DEF Held
  <2>4. \A i \in Item : fate'[i] = "pending" <=> i \in pending'
    BY <1>1, <1>4, ReasonSettled DEF Held
  <2>5. \A n \in 1 .. Len(batch') : fate'[batch'[n]] # "new"
    <3>1. CASE batch' = <<>>
      BY <3>1
    <3>2. CASE batch' = batch
      <4>1. \A n \in 1 .. Len(batch) : batch[n] \in Item /\ fate[batch[n]] # "new"
        BY <1>1 DEF Held, TypeOK
      <4> QED BY <1>4, <3>2, <4>1, ReasonSettled
    <3> QED BY <1>3, <3>1, <3>2
  <2> QED BY <2>3, <2>4, <2>5 DEF Held
<1>11. Accounts'
  <2>1. /\ Cardinality(pending) = Len(ch) + Len(batch) - lo /\ Conservation
        /\ pendingBytes = Bytes[pending] /\ (MaxBytes > 0 => pendingBytes <= MaxBytes)
    BY <1>1 DEF Accounts
  <2>2. Cardinality(pending') = Len(ch') + Len(batch') - lo'
    <3>1. Len(ch') = Len(ch)
      BY <1>4
    <3>2. CASE batch' = batch /\ lo' = Head(ends)
      BY <1>2, <1>7, <2>1, <3>1, <3>2
    <3>3. CASE batch' = <<>> /\ lo' = 0 /\ Head(ends) = Len(batch)
      <4>1. Len(batch') = 0
        BY <3>3
      <4> QED BY <1>2, <1>7, <2>1, <3>1, <3>3, <4>1
    <3> QED BY <1>3, <3>2, <3>3
  <2>3. Conservation'
    <3>1. CounterTypes
      BY <1>1, Counters
    <3>2. accepted' = accepted /\ discarded' = discarded
      BY <1>4
    <3>3. accepted + discarded["invalid_record"]
            = (persisted + unknown + dropped["write_failed"]
                + dropped["deadline"] + dropped["invalid_record"]) + Cardinality(pending)
      BY <2>1 DEF Conservation
    <3> DEFINE A == persisted + unknown + dropped["write_failed"]
                      + dropped["deadline"] + dropped["invalid_record"]
               B == persisted' + unknown' + dropped'["write_failed"]
                      + dropped'["deadline"] + dropped'["invalid_record"]
    <3>4. A \in Nat
      BY <3>1 DEF CounterTypes
    <3>5. B = A + SegmentLen
      BY <1>5
    <3>6. accepted + discarded["invalid_record"] = A + Cardinality(pending)
      BY <3>3
    <3> HIDE DEF A, B
    <3>7. accepted + discarded["invalid_record"] = B + Cardinality(pending')
      BY <1>2, <1>7, <3>4, <3>5, <3>6
    <3> QED BY <3>2, <3>7 DEF A, B, Conservation
  <2>4. pendingBytes' = Bytes[pending'] /\ pendingBytes' <= pendingBytes
    BY <1>4, <1>6, <2>1
  <2>5. MaxBytes > 0 => pendingBytes' <= MaxBytes
    BY <1>4, <1>6, <2>1, <2>4, QueueAssumption
  <2> QED BY <2>2, <2>3, <2>4, <2>5 DEF Accounts
<1> QED BY <1>3, <1>8, <1>9, <1>10, <1>11 DEF Structure
-----------------------------------------------------------------------------
\* Every step keeps Structure.
LEMMA StructureNext == Structure /\ [Next]_vars => Structure'
<1> SUFFICES ASSUME Structure, [Next]_vars PROVE Structure'
  OBVIOUS
<1>1. CASE UNCHANGED vars
  <2>1. UNCHANGED <<ch, pending, stats, batch, lo, discarded, fate>>
    BY <1>1 DEF vars, stats
  <2>2. Distinct' /\ Held' /\ Accounts'
    BY <2>1, BooksUnchanged DEF Structure
  <2>3. TypeOK' /\ FlushShape'
    BY <1>1 DEF vars, Structure, TypeOK, FlushShape, InFlush
  <2> QED BY <2>2, <2>3 DEF Structure
<1>2. ASSUME NEW i \in Item, Push(i) PROVE Structure'
  BY <1>2, PushAcceptStructure, PushRefuseStructure DEF Push
<1>3. ASSUME NEW r \in Discards, RecordDrop(r) PROVE Structure'
  BY <1>3, RecordDropStructure
<1>4. CASE StopAccepting \/ Cancel \/ DeadlineExpires
  BY <1>4, QuietStructure
<1>5. CASE Run
  BY <1>5, QuietStructure, ReceiveStructure, TickStructure DEF Run
<1>6. CASE Flush
  BY <1>6, QuietStructure, WriteStructure, SplitStructure, FinishStructure DEF Flush
<1> QED BY <1>1, <1>2, <1>3, <1>4, <1>5, <1>6 DEF Next

\* Structure holds throughout: the channel, the batch and the stack of flush
\* calls hold every pending item exactly once.
THEOREM StructureHolds == Spec => []Structure
  BY StructureInit, StructureNext, PTL DEF Spec

\* The variables keep their types; in particular finish never makes a counter
\* or PendingBytes negative.
THEOREM TypeCorrect == Spec => []TypeOK
<1>1. Structure => TypeOK
  BY DEF Structure
<1> QED BY <1>1, StructureHolds, PTL

\* q.pending is exactly what the channel and the writer hold.
THEOREM PendingIsInFlightHolds == Spec => []PendingIsInFlight
<1>1. Structure => PendingIsInFlight
  BY DEF Structure, Held, Accounts, PendingIsInFlight
<1> QED BY <1>1, StructureHolds, PTL

\* No accepted item is lost or counted twice by the statistics.
THEOREM ConservationHolds == Spec => []Conservation
<1>1. Structure => Conservation
  BY DEF Structure, Accounts
<1> QED BY <1>1, StructureHolds, PTL

\* PendingBytes is the size of what is pending and stays under the ceiling.
THEOREM BytesAccountedHolds == Spec => []BytesAccounted
<1>1. Structure => BytesAccounted
  BY DEF Structure, Accounts, BytesAccounted
<1> QED BY <1>1, StructureHolds, PTL

\* The writer returns only when nothing accepted is left and nothing more can
\* be accepted.
THEOREM DrainIsCompleteHolds == Spec => []DrainIsComplete
<1>1. Structure => DrainIsComplete
  <2> SUFFICES ASSUME Structure, pc = "done" PROVE closed /\ pending = {} /\ ch = <<>>
    BY DEF DrainIsComplete
  <2>1. closed /\ ch = <<>> /\ batch = <<>> /\ lo = 0
    BY DEF Structure, FlushShape, InFlush
  <2>2. InChannel = {} /\ InBatch = {}
    BY <2>1 DEF InChannel, InBatch
  <2> QED BY <2>1, <2>2 DEF Structure, Held
<1> QED BY <1>1, StructureHolds, PTL

(***************************************************************************)
(* The contract: what finish reports, memory, and the refinement.          *)
(***************************************************************************)
Stored(i) == \E j \in Item : SameRecord(i, j) /\ rows[j] > 0

\* The error kept by flush proves that the sub-batch was not written.
Certain == err # NoErr /\ ~err.unknown

RowOfPending(i) == fate[i] = "pending" /\ rows[i] > 0

NeverStored ==
  \A i \in Item : fate[i] \in {"new", "refused"} \cup Abandonments => rows[i] = 0

PersistedStored == \A i \in Item : fate[i] = "persisted" => Stored(i)

InDoubt == \A i \in Item : RowOfPending(i) => pc = "settle" /\ ~Certain /\ i \in Segment

WriteSeen == pc = "settle" /\ err = NoErr => \A i \in Segment : Stored(i)

Blame == pc = "settle" /\ permanent(err) => Segment \cap Invalid # {}

Truth ==
  /\ NoDuplicateRows /\ NeverStored /\ PersistedStored
  /\ InDoubt /\ WriteSeen /\ Blame /\ OnlyInvalidIsolated

-----------------------------------------------------------------------------
(* What a committed write stores. *)

\* A set of numbers that is not empty has a least element.
LEMMA LeastNatural ==
  ASSUME NEW T \in SUBSET Nat, T # {}
  PROVE  \E m \in T : \A n \in T : m <= n
<1>1. PICK m \in T : \A n \in T : ~ (<<n, m>> \in OpToRel(<, Nat))
  BY NatLessThanWellFounded, WFMin
<1>2. \A n \in T : ~ (n < m)
  BY <1>1 DEF OpToRel
<1> QED BY <1>2

\* The items for which CommittedRows inserts a row.
NewRows == {i \in Item : \E k \in Current : batch[k] = i /\ Inserted(k)}

\* The INSERTs of a batch store a set of records that the table lacks, each
\* once, and afterwards every record of the batch is there (insertEvent,
\* ON CONFLICT DO NOTHING).
LEMMA CommitStores ==
  ASSUME Structure, Truth, pc = "write"
  PROVE  /\ NewRows \subseteq Segment
         /\ \A i \in NewRows : ~Stored(i)
         /\ \A i, j \in NewRows : SameRecord(i, j) => i = j
         /\ CommittedRows = [i \in Item |-> IF i \in NewRows THEN 1 ELSE rows[i]]
         /\ \A i \in Segment : \E j \in Item : SameRecord(i, j) /\ CommittedRows[j] > 0
<1>1. /\ TypeOK /\ FlushShape /\ Distinct /\ Held /\ InFlush
      /\ rows \in [Item -> Nat] /\ lo \in Nat
  BY DEF Structure, InFlush, TypeOK
<1>2. /\ Head(ends) \in Nat /\ Head(ends) <= Len(batch) /\ Len(batch) \in Nat
      /\ Segment \subseteq pending /\ Segment \subseteq Item
  BY <1>1, SegmentFacts DEF TypeOK
<1>3. \A i \in Segment : rows[i] = 0
  <2>1. \A i \in Segment : ~RowOfPending(i) /\ fate[i] = "pending"
    BY <1>1, <1>2 DEF Truth, InDoubt, Held
  <2> QED BY <1>1, <1>2, <2>1 DEF RowOfPending
<1>4. NewRows \subseteq Segment
  BY DEF NewRows, Segment
<1>5. \A i \in NewRows : ~Stored(i)
  <2> SUFFICES ASSUME NEW i \in NewRows, NEW j \in Item, SameRecord(i, j), rows[j] > 0
               PROVE  FALSE
    BY DEF Stored
  <2>1. i # j
    BY <1>3, <1>4
  <2>2. PICK k \in Current : batch[k] = i /\ Inserted(k)
    BY DEF NewRows
  <2> QED BY <2>1, <2>2 DEF SameRecord, Inserted
<1>6. \A i, j \in NewRows : SameRecord(i, j) => i = j
  <2> SUFFICES ASSUME NEW i \in NewRows, NEW j \in NewRows, SameRecord(i, j), i # j
               PROVE  FALSE
    OBVIOUS
  <2>1. PICK k \in Current : batch[k] = i /\ Inserted(k)
    BY DEF NewRows
  <2>2. PICK m \in Current : batch[m] = j /\ Inserted(m)
    BY DEF NewRows
  <2>3. DedupKey[i] = DedupKey[j] /\ DedupKey[i] # NoKey
    BY DEF SameRecord
  <2>4. CASE k < m
    <3>1. k \in (lo + 1) .. (m - 1)
      BY <1>1, <1>2, <2>4 DEF Current
    <3> QED BY <2>1, <2>2, <2>3, <3>1 DEF Inserted
  <2>5. CASE m < k
    <3>1. m \in (lo + 1) .. (k - 1)
      BY <1>1, <1>2, <2>5 DEF Current
    <3> QED BY <2>1, <2>2, <2>3, <3>1 DEF Inserted
  <2> QED BY <1>1, <1>2, <2>1, <2>2, <2>4, <2>5 DEF Current
<1>7. CommittedRows = [i \in Item |-> IF i \in NewRows THEN 1 ELSE rows[i]]
  <2>1. \A i \in NewRows : rows[i] + 1 = 1
    BY <1>3, <1>4
  <2>2. \A i \in Item : (\E k \in Current : batch[k] = i /\ Inserted(k)) <=> i \in NewRows
    BY DEF NewRows
  <2> QED BY <2>1, <2>2 DEF CommittedRows
<1>8. ASSUME NEW i \in Segment
      PROVE  \E j \in Item : SameRecord(i, j) /\ CommittedRows[j] > 0
  <2>1. i \in Item
    BY <1>2
  <2>2. CASE \E j \in Item : SameRecord(i, j) /\ rows[j] > 0
    <3>1. PICK j \in Item : SameRecord(i, j) /\ rows[j] > 0
      BY <2>2
    <3>2. CommittedRows[j] > 0
      BY <1>7, <3>1
    <3> QED BY <3>1, <3>2
  <2>3. CASE ~\E j \in Item : SameRecord(i, j) /\ rows[j] > 0
    <3>1. PICK k \in Current : batch[k] = i
      BY DEF Segment
    <3> DEFINE T == {n \in Current : DedupKey[batch[n]] = DedupKey[i]}
    <3>2. T \in SUBSET Nat /\ k \in T
      BY <1>1, <1>2, <3>1 DEF Current
    <3>3. PICK m \in T : \A n \in T : m <= n
      <4> HIDE DEF T
      <4> QED BY <3>2, LeastNatural
    <3>4. m \in Current /\ m \in Nat /\ DedupKey[batch[m]] = DedupKey[i]
      BY <3>2
    <3>5. batch[m] \in Segment /\ batch[m] \in Item
      BY <1>2, <3>4 DEF Segment
    <3>6. CASE DedupKey[i] = NoKey
      <4>1. Inserted(k)
        BY <3>1, <3>6 DEF Inserted
      <4>2. i \in NewRows
        BY <2>1, <3>1, <4>1 DEF NewRows
      <4> QED BY <1>7, <2>1, <4>2 DEF SameRecord
    <3>7. CASE DedupKey[i] # NoKey
      <4>1. SameRecord(i, batch[m])
        BY <3>4, <3>7 DEF SameRecord
      <4>2. \A j \in Item : DedupKey[j] = DedupKey[i] => rows[j] = 0
        BY <1>1, <2>3, <3>7 DEF SameRecord
      <4>3. ASSUME NEW n \in (lo + 1) .. (m - 1) PROVE DedupKey[batch[n]] # DedupKey[i]
        <5>1. n \in Current /\ ~(m <= n)
          BY <1>1, <1>2, <3>4 DEF Current
        <5> QED BY <3>3, <5>1
      <4>4. Inserted(m)
        BY <3>4, <4>2, <4>3 DEF Inserted
      <4>5. batch[m] \in NewRows
        BY <3>4, <3>5, <4>4 DEF NewRows
      <4> QED BY <1>7, <3>5, <4>1, <4>5
    <3> QED BY <3>6, <3>7
  <2> QED BY <2>2, <2>3
<1> QED BY <1>4, <1>5, <1>6, <1>7, <1>8
-----------------------------------------------------------------------------
(* Truth is an inductive invariant. *)

\* An empty queue has stored nothing.
LEMMA TruthInit == Init => Truth
  BY DEF Init, Truth, NoDuplicateRows, NeverStored, PersistedStored, InDoubt, WriteSeen,
         Blame, OnlyInvalidIsolated, Abandonments, RowOfPending, permanent

\* A step that changes no row and no fate keeps Truth when no pending item has
\* a row, and an error it keeps for finish blames an invalid row truly.
LEMMA TruthMoves ==
  ASSUME Truth, UNCHANGED <<rows, fate>>, \A i \in Item : ~RowOfPending(i),
         pc' = "settle" => /\ err' # NoErr
                           /\ permanent(err') => Segment' \cap Invalid # {}
  PROVE  Truth'
<1>1. NoDuplicateRows' /\ NeverStored' /\ PersistedStored' /\ OnlyInvalidIsolated'
  BY DEF Truth, NoDuplicateRows, NeverStored, PersistedStored, OnlyInvalidIsolated, Stored
<1>2. InDoubt'
  BY DEF InDoubt, RowOfPending
<1>3. WriteSeen' /\ Blame'
  BY DEF WriteSeen, Blame, permanent
<1> QED BY <1>1, <1>2, <1>3 DEF Truth

\* A step that leaves the flush in progress alone keeps Truth.
LEMMA TruthStutters ==
  ASSUME Truth, UNCHANGED <<rows, fate, pc, err, batch, lo, ends>>
  PROVE  Truth'
<1>1. Segment' = Segment
  BY DEF Segment, Current
<1> QED
  BY <1>1 DEF Truth, NoDuplicateRows, NeverStored, PersistedStored, OnlyInvalidIsolated, Stored,
              InDoubt, RowOfPending, Certain, WriteSeen, Blame, permanent

\* Push decides about an item that has no row.
LEMMA TruthPush ==
  ASSUME Structure, Truth, NEW i \in Item, Push(i)
  PROVE  Truth'
<1>1. /\ fate \in [Item -> Fates] /\ fate[i] = "new"
      /\ UNCHANGED <<rows, pc, err, batch, lo, ends>>
      /\ \E f \in {"pending", "refused"} : fate' = [fate EXCEPT ![i] = f]
  BY DEF Structure, TypeOK, Push, PushAccept, PushRefuse, writerVars
<1>2. PICK f \in {"pending", "refused"} : fate' = [fate EXCEPT ![i] = f]
  BY <1>1
<1>3. fate'[i] = f /\ \A j \in Item : j # i => fate'[j] = fate[j]
  BY <1>1, <1>2
<1>4. rows[i] = 0
  BY <1>1 DEF Truth, NeverStored
<1>5. Segment' = Segment
  BY <1>1 DEF Segment, Current
<1>6. NoDuplicateRows' /\ NeverStored' /\ PersistedStored' /\ OnlyInvalidIsolated'
  BY <1>1, <1>3, <1>4
  DEF Truth, NoDuplicateRows, NeverStored, PersistedStored, OnlyInvalidIsolated, Stored
<1>7. InDoubt' /\ WriteSeen' /\ Blame'
  BY <1>1, <1>3, <1>4, <1>5
  DEF Truth, InDoubt, RowOfPending, Certain, WriteSeen, Blame, Stored, permanent
<1> QED BY <1>6, <1>7 DEF Truth

\* Away from finish no pending item has a row, and at finish none has if the
\* error proves a rollback.
LEMMA NoRowOfPending ==
  ASSUME Truth, pc # "settle" \/ Certain
  PROVE  \A i \in Item : ~RowOfPending(i)
  BY DEF Truth, InDoubt

\* The steps of run, the head of the attempt loop and a split write nothing:
\* what they go on with has no row.
LEMMA TruthRun ==
  ASSUME Truth, Run \/ BeginAttempt \/ Split, Structure
  PROVE  Truth'
<1>1. CASE Run
  <2>1. pc # "settle" /\ UNCHANGED <<rows, fate>>
    BY <1>1 DEF Run, LoopHead, Receive, Tick, CtxDone, DrainReceive, DrainEmpty, queueVars
  <2>2. pc' # "settle"
    <3>1. ASSUME NEW b, NEW k \in {"loop", "drain", "done"}, StartFlush(b, k)
          PROVE  pc' # "settle"
      BY <3>1 DEF StartFlush
    <3>2. CASE Receive
      BY <3>1, <3>2 DEF Receive
    <3>3. CASE DrainReceive
      BY <3>1, <3>3 DEF DrainReceive
    <3>4. CASE Tick \/ DrainEmpty
      BY <3>1, <3>4 DEF Tick, DrainEmpty
    <3>5. CASE LoopHead \/ CtxDone
      BY <3>5 DEF LoopHead, CtxDone
    <3> QED BY <1>1, <3>2, <3>3, <3>4, <3>5 DEF Run
  <2> QED BY <2>1, <2>2, NoRowOfPending, TruthMoves
<1>2. CASE BeginAttempt
  <2>1. pc # "settle" /\ UNCHANGED <<rows, fate>>
    BY <1>2 DEF BeginAttempt, queueVars
  <2>2. pc' = "settle" => err' = CtxErr
    BY <1>2 DEF BeginAttempt
  <2>3. CtxErr # NoErr /\ ~permanent(CtxErr)
    BY DEF CtxErr, NoErr, permanent
  <2> QED BY <2>1, <2>2, <2>3, NoRowOfPending, TruthMoves
<1>3. CASE Split
  <2>1. permanent(err) /\ pc' = "check" /\ UNCHANGED <<rows, fate>>
    BY <1>3 DEF Split, queueVars
  <2>2. Certain
    BY <2>1 DEF Certain, permanent, NoErr
  <2> QED BY <2>1, <2>2, NoRowOfPending, TruthMoves
<1> QED BY <1>1, <1>2, <1>3

\* A failed attempt goes round again without an error, or keeps one that
\* flush may not retry any more.
LEMMA FailedKeeps ==
  ASSUME NEW e \in Errors, e # NoErr, Failed(e)
  PROVE  /\ pc' = "settle" => err' = e
         /\ e.unknown => pc' = "settle"
         /\ UNCHANGED <<fate, batch, lo, ends>>
  BY DEF Failed, retryable, queueVars

\* An attempt that wrote leaves the flush at finish with success or with an
\* ambiguous error; one that did not write leaves every row as it was.
LEMMA WriteOutcome ==
  ASSUME Structure, Truth, Write
  PROVE  /\ pc = "write" /\ UNCHANGED <<fate, batch, lo, ends>>
         /\ Segment' = Segment
         /\ \/ /\ rows' = CommittedRows
               /\ pc' = "settle" /\ (err' = NoErr \/ err'.unknown)
            \/ /\ UNCHANGED rows
               /\ pc' = "settle" => err' # NoErr /\ (permanent(err') => Segment \cap Invalid # {})
<1>1. pc = "write" /\ UNCHANGED <<fate, batch, lo, ends>>
  BY WriteEffect DEF Structure, queueVars
<1>2. Segment' = Segment
  BY <1>1 DEF Segment, Current
<1>3. CASE WriteCommitted
  BY <1>1, <1>2, <1>3 DEF WriteCommitted
<1>4. ASSUME NEW cause \in Causes, WriteFailed(cause)
      PROVE  /\ UNCHANGED rows
             /\ pc' = "settle" => err' # NoErr /\ (permanent(err') => Segment \cap Invalid # {})
  <2> DEFINE e == [cause |-> cause, unknown |-> FALSE]
  <2>1. e \in Errors /\ e # NoErr /\ Failed(e) /\ UNCHANGED rows
        /\ (e.cause = "data" => Segment \cap Invalid # {})
    BY <1>4 DEF WriteFailed, Errors, NoErr, Causes
  <2> HIDE DEF e
  <2>2. pc' = "settle" => err' = e
    BY <2>1, FailedKeeps
  <2> QED BY <2>1, <2>2 DEF permanent
<1>5. ASSUME NEW cause \in Causes, NEW took \in BOOLEAN, CommitFailed(cause, took)
      PROVE  \/ /\ rows' = CommittedRows
                /\ pc' = "settle" /\ (err' = NoErr \/ err'.unknown)
             \/ /\ UNCHANGED rows
                /\ pc' = "settle" =>
                     err' # NoErr /\ (permanent(err') => Segment \cap Invalid # {})
  <2> DEFINE e == CommitError(cause)
  <2>1. /\ e \in Errors /\ e # NoErr /\ Failed(e) /\ e.cause # "data"
        /\ took => e.unknown
        /\ rows' = IF took THEN CommittedRows ELSE rows
    BY <1>5 DEF CommitFailed, CommitError, Errors, NoErr, Causes
  <2> HIDE DEF e
  <2>2. /\ pc' = "settle" => err' = e
        /\ e.unknown => pc' = "settle"
    BY <2>1, FailedKeeps
  <2> QED BY <2>1, <2>2 DEF permanent
<1> QED BY <1>1, <1>2, <1>3, <1>4, <1>5 DEF Write

\* A write attempt stores the batch with success or in doubt, or nothing.
LEMMA TruthWrite ==
  ASSUME Structure, Truth, Write
  PROVE  Truth'
<1>1. /\ pc = "write" /\ UNCHANGED <<fate, batch, lo, ends>> /\ Segment' = Segment
      /\ rows \in [Item -> Nat]
  BY WriteOutcome DEF Structure, TypeOK
<1>2. \A i \in Item : ~RowOfPending(i)
  BY <1>1, NoRowOfPending
<1>3. CASE /\ UNCHANGED rows
           /\ pc' = "settle" => err' # NoErr /\ (permanent(err') => Segment \cap Invalid # {})
  BY <1>1, <1>2, <1>3, TruthMoves
<1>4. CASE rows' = CommittedRows /\ pc' = "settle" /\ (err' = NoErr \/ err'.unknown)
  <2>1. /\ NewRows \subseteq Segment
        /\ \A i \in NewRows : ~Stored(i)
        /\ \A i, j \in NewRows : SameRecord(i, j) => i = j
        /\ rows' = [i \in Item |-> IF i \in NewRows THEN 1 ELSE rows[i]]
        /\ \A i \in Segment : Stored(i)'
    BY <1>1, <1>4, CommitStores DEF Stored, SameRecord
  <2>2. \A i \in Segment : i \in Item /\ fate[i] = "pending"
    BY <1>1, SegmentFacts DEF Structure, InFlush, Held
  <2>3. \A i \in Item : rows'[i] = (IF i \in NewRows THEN 1 ELSE rows[i])
    BY <2>1
  <2>4. NoDuplicateRows'
    <3> SUFFICES ASSUME NEW i \in Item, NEW j \in Item, SameRecord(i, j)
                 PROVE  rows'[i] + (IF i = j THEN 0 ELSE rows'[j]) <= 1
      BY DEF NoDuplicateRows, SameRecord
    <3>1. rows[i] + (IF i = j THEN 0 ELSE rows[j]) <= 1 /\ rows[i] \in Nat /\ rows[j] \in Nat
      BY <1>1 DEF Truth, NoDuplicateRows
    <3>2. SameRecord(j, i)
      BY DEF SameRecord
    <3>3. CASE i \in NewRows /\ j \in NewRows
      BY <2>1, <2>3, <3>3
    <3>4. CASE i \in NewRows /\ j \notin NewRows
      BY <2>1, <2>3, <3>1, <3>4 DEF Stored
    <3>5. CASE i \notin NewRows /\ j \in NewRows
      BY <2>1, <2>3, <3>1, <3>2, <3>5 DEF Stored
    <3>6. CASE i \notin NewRows /\ j \notin NewRows
      BY <2>3, <3>1, <3>6
    <3> QED BY <3>3, <3>4, <3>5, <3>6
  <2>5. NeverStored'
    BY <1>1, <2>1, <2>2, <2>3 DEF Truth, NeverStored, Abandonments
  <2>6. PersistedStored'
    <3> SUFFICES ASSUME NEW i \in Item, fate[i] = "persisted" PROVE Stored(i)'
      BY <1>1 DEF PersistedStored
    <3>1. PICK j \in Item : SameRecord(i, j) /\ rows[j] > 0
      BY DEF Truth, PersistedStored, Stored
    <3>2. rows'[j] > 0
      BY <2>3, <3>1
    <3> QED BY <3>1, <3>2 DEF Stored, SameRecord
  <2>7. InDoubt'
    <3> SUFFICES ASSUME NEW i \in Item, RowOfPending(i)'
                 PROVE  ~Certain' /\ i \in Segment
      BY <1>1, <1>4 DEF InDoubt
    <3>1. i \in NewRows
      BY <1>1, <1>2, <2>3 DEF RowOfPending
    <3> QED BY <1>4, <2>1, <3>1 DEF Certain
  <2>8. WriteSeen' /\ Blame' /\ OnlyInvalidIsolated'
    BY <1>1, <1>4, <2>1
    DEF WriteSeen, Blame, permanent, NoErr, Truth, OnlyInvalidIsolated
  <2> QED BY <2>4, <2>5, <2>6, <2>7, <2>8 DEF Truth
<1> QED BY <1>3, <1>4, WriteOutcome

\* What finish reports is true of its sub-batch: stored if it says persisted,
\* without a row if it says dropped, and one invalid item if it blames one.
LEMMA FinishReports ==
  ASSUME Structure, Truth, Finish
  PROVE  /\ Segment \subseteq Item /\ \A i \in Segment : fate[i] = "pending"
         /\ Reason = "persisted" => \A i \in Segment : Stored(i)
         /\ Reason \in Abandonments => \A i \in Segment : rows[i] = 0
         /\ Reason = "invalid_record" => Segment \subseteq Invalid
         /\ \A i \in Item \ Segment : ~RowOfPending(i)
<1>1. /\ TypeOK /\ FlushShape /\ Distinct /\ Held /\ InFlush /\ pc = "settle"
      /\ rows \in [Item -> Nat] /\ lo \in Nat
      /\ ~(permanent(err) /\ SegmentLen > 1 /\ ~expired)
  BY DEF Structure, Finish, InFlush, TypeOK
<1>2. /\ Head(ends) \in Nat /\ Segment \subseteq pending /\ Segment \subseteq Item
      /\ SegmentLen \in Nat \ {0}
  BY <1>1, SegmentFacts
<1>3. \A i \in Segment : fate[i] = "pending"
  BY <1>1, <1>2 DEF Held
<1>4. Reason = "persisted" => \A i \in Segment : Stored(i)
  BY <1>1 DEF Reason, Truth, WriteSeen
<1>5. Reason \in Abandonments => \A i \in Segment : rows[i] = 0
  <2> SUFFICES ASSUME Reason \in Abandonments, NEW i \in Segment PROVE rows[i] = 0
    OBVIOUS
  <2>1. Certain
    BY DEF Reason, Abandonments, Certain
  <2>2. ~RowOfPending(i)
    BY <1>2, <2>1, NoRowOfPending
  <2> QED BY <1>1, <1>2, <1>3, <2>2 DEF RowOfPending
<1>6. Reason = "invalid_record" => Segment \subseteq Invalid
  <2> SUFFICES ASSUME Reason = "invalid_record" PROVE Segment \subseteq Invalid
    OBVIOUS
  <2>1. permanent(err) /\ ~expired
    BY DEF Reason
  <2>2. SegmentLen = 1
    BY <1>1, <1>2, <2>1
  <2>3. Current = {lo + 1}
    BY <1>1, <1>2, <2>2 DEF Current, SegmentLen
  <2>4. Segment = {batch[lo + 1]}
    BY <2>3 DEF Segment
  <2> QED BY <1>1, <2>1, <2>4 DEF Truth, Blame
<1>7. \A i \in Item \ Segment : ~RowOfPending(i)
  BY DEF Truth, InDoubt
<1> QED BY <1>2, <1>3, <1>4, <1>5, <1>6, <1>7

\* finish settles its sub-batch with an outcome that is true, and no pending
\* item is left in doubt.
LEMMA TruthFinish ==
  ASSUME Structure, Truth, Finish
  PROVE  Truth'
<1>1. /\ UNCHANGED rows /\ pc' # "settle" /\ Reason \in Settled
      /\ fate' = [i \in Item |-> IF i \in Segment THEN Reason ELSE fate[i]]
  <2>1. pc' \in {"check", "loop", "drain", "done"}
    BY FinishShape
  <2>2. Reason \in Settled
    BY ReasonSettled
  <2> QED BY <2>1, <2>2 DEF Finish
<1>2. /\ Segment \subseteq Item /\ \A i \in Segment : fate[i] = "pending"
      /\ Reason = "persisted" => \A i \in Segment : Stored(i)
      /\ Reason \in Abandonments => \A i \in Segment : rows[i] = 0
      /\ Reason = "invalid_record" => Segment \subseteq Invalid
      /\ \A i \in Item \ Segment : ~RowOfPending(i)
  BY FinishReports
<1>3. \A i \in Item : fate'[i] = (IF i \in Segment THEN Reason ELSE fate[i])
  BY <1>1
<1>4. NoDuplicateRows'
  BY <1>1 DEF Truth, NoDuplicateRows
<1>5. NeverStored'
  BY <1>1, <1>2, <1>3 DEF Truth, NeverStored, Settled, Abandonments
<1>6. PersistedStored' /\ OnlyInvalidIsolated'
  BY <1>1, <1>2, <1>3 DEF Truth, PersistedStored, OnlyInvalidIsolated, Stored
<1>7. InDoubt'
  <2>1. Reason # "pending"
    BY <1>1 DEF Settled, Abandonments
  <2> QED BY <1>1, <1>2, <1>3, <2>1 DEF InDoubt, RowOfPending
<1>8. WriteSeen' /\ Blame'
  BY <1>1 DEF WriteSeen, Blame
<1> QED BY <1>4, <1>5, <1>6, <1>7, <1>8 DEF Truth

\* Every step keeps Truth.
LEMMA TruthNext == Structure /\ Truth /\ [Next]_vars => Truth'
<1> SUFFICES ASSUME Structure, Truth, [Next]_vars PROVE Truth'
  OBVIOUS
<1>1. CASE UNCHANGED vars
  BY <1>1, TruthStutters DEF vars
<1>2. ASSUME NEW i \in Item, Push(i) PROVE Truth'
  BY <1>2, TruthPush
<1>3. ASSUME NEW r \in Discards, RecordDrop(r) PROVE Truth'
  BY <1>3, TruthStutters DEF RecordDrop, writerVars
<1>4. CASE StopAccepting \/ Cancel \/ DeadlineExpires
  BY <1>4, TruthStutters DEF StopAccepting, Cancel, DeadlineExpires, queueVars, writerVars
<1>5. CASE Run
  BY <1>5, TruthRun
<1>6. CASE Flush
  BY <1>6, TruthRun, TruthWrite, TruthFinish DEF Flush
<1> QED BY <1>1, <1>2, <1>3, <1>4, <1>5, <1>6 DEF Next

\* Truth holds throughout.
THEOREM TruthHolds == Spec => []Truth
<1>1. Structure /\ Truth /\ [Next]_vars => Truth'
  BY TruthNext
<1> QED BY <1>1, TruthInit, StructureHolds, PTL DEF Spec

\* What the statistics say of an item is true of the database, whatever is
\* retried, split, given up or sent twice.
THEOREM OutcomeIsTruthfulHolds == Spec => []OutcomeIsTruthful
<1>1. Structure /\ Truth => OutcomeIsTruthful
  <2> SUFFICES ASSUME Structure, Truth PROVE OutcomeIsTruthful
    OBVIOUS
  <2>1. rows \in [Item -> Nat]
    BY DEF Structure, TypeOK
  <2>2. \A j \in Item : rows[j] > 0 => rows[j] = 1
    BY <2>1 DEF Truth, NoDuplicateRows, SameRecord
  <2>3. ASSUME NEW i \in Item
        PROVE  /\ fate[i] = "persisted" => \E j \in Item : SameRecord(i, j) /\ rows[j] = 1
               /\ fate[i] \in Abandonments => rows[i] = 0
    BY <2>2 DEF Truth, PersistedStored, Stored, NeverStored
  <2> QED BY <2>3 DEF Truth, OutcomeIsTruthful
<1> QED BY <1>1, StructureHolds, TruthHolds, PTL
-----------------------------------------------------------------------------
(* Memory: the channel and one batch. *)

\* The batch has room for what select may receive.  A batch that filled up
\* as the shutdown arrived is not flushed and gets one more item in the drain,
\* but by then nothing is accepted any more.
Room ==
  /\ Len(ch) <= Capacity
  /\ pc = "select" => Len(batch) < BatchSize
  /\ pc = "loop" => Len(batch) <= BatchSize /\ (~cancelled => Len(batch) < BatchSize)
  /\ InFlush /\ resume = "loop" => Len(batch) <= BatchSize
  /\ Len(ch) + Len(batch) <= Capacity + BatchSize

\* A step that leaves the containers, the flush and the context alone keeps
\* Room.
LEMMA RoomStutters ==
  ASSUME Room, UNCHANGED <<ch, batch, pc, resume, cancelled>>
  PROVE  Room'
  BY DEF Room, InFlush

\* Push never accepts beyond the channel's capacity, nor in the drain.
LEMMA RoomPush ==
  ASSUME Structure, Room, NEW i \in Item, Push(i)
  PROVE  Room'
<1>1. CASE PushRefuse(i)
  BY <1>1, RoomStutters DEF PushRefuse, writerVars
<1>2. CASE PushAccept(i)
  <2>1. /\ ch \in Seq(Item) /\ Len(ch) \in Nat /\ Len(batch) \in Nat
        /\ ch' = Append(ch, i) /\ UNCHANGED <<batch, pc, resume, cancelled>>
        /\ ~closed /\ Len(ch) # Capacity
        /\ pc \in {"loop", "select", "check", "write", "settle", "drain", "done"}
    BY <1>2 DEF PushAccept, CanAccept, writerVars, Structure, TypeOK
  <2>2. Len(ch') = Len(ch) + 1
    BY <2>1
  <2>3. Len(batch) <= BatchSize
    <3>1. pc \in {"loop", "select"} \/ (InFlush /\ resume = "loop")
      BY <2>1 DEF Structure, FlushShape, InFlush
    <3>2. BatchSize \in Nat
      BY QueueAssumption
    <3> QED BY <2>1, <3>1, <3>2 DEF Room
  <2>4. Len(ch') <= Capacity /\ Len(ch') + Len(batch) <= Capacity + BatchSize
    BY <2>1, <2>2, <2>3, QueueAssumption DEF Room
  <2> QED BY <2>1, <2>4 DEF Room, InFlush
<1> QED BY <1>1, <1>2 DEF Push

\* A receive moves one item from the channel to the batch.
LEMMA RoomReceive ==
  ASSUME Structure, Room, Receive \/ DrainReceive
  PROVE  Room'
<1> DEFINE b == Append(batch, Head(ch))
<1>1. /\ ch \in Seq(Item) /\ batch \in Seq(Item) /\ ch # <<>>
      /\ ch' = Tail(ch) /\ UNCHANGED cancelled /\ pc \in {"select", "drain"}
      /\ cancelled \in BOOLEAN /\ BatchSize \in Nat /\ Capacity \in Nat
  BY QueueAssumption DEF Receive, DrainReceive, Structure, TypeOK
<1>2. /\ Len(ch') = Len(ch) - 1 /\ Len(ch') \in Nat /\ Len(ch) \in Nat /\ Head(ch) \in Item
  BY <1>1, TailShortens DEF Shortens
<1>3. b \in Seq(Item) /\ Len(b) = Len(batch) + 1 /\ Len(batch) \in Nat /\ b # <<>>
  <2>1. Extends(Item, batch, Head(ch), b)
    BY <1>1, <1>2, AppendExtends
  <2> HIDE DEF b
  <2>2. b \in Seq(Item) /\ Len(b) = Len(batch) + 1 /\ Len(batch) \in Nat
    BY <2>1 DEF Extends
  <2> QED BY <2>2
<1>4. \/ StartFlush(b, "loop") /\ pc = "select"
      \/ StartFlush(b, "drain") /\ pc = "drain"
      \/ batch' = b /\ pc = "select" /\ pc' = "loop" /\ (Len(b) < BatchSize \/ cancelled)
      \/ batch' = b /\ pc = "drain" /\ pc' = "drain"
  BY <1>1, <1>3 DEF Receive, DrainReceive
<1> HIDE DEF b
<1>5. /\ batch' = b
      /\ \/ pc = "select" /\ pc' = "check" /\ resume' = "loop"
         \/ pc = "drain" /\ pc' = "check" /\ resume' = "drain"
         \/ pc = "select" /\ pc' = "loop" /\ (Len(b) < BatchSize \/ cancelled)
         \/ pc = "drain" /\ pc' = "drain"
  BY <1>3, <1>4, StartFlushShape
<1> QED BY <1>1, <1>2, <1>3, <1>5 DEF Room, InFlush

\* Every step keeps Room.
LEMMA RoomNext == Structure /\ Room /\ [Next]_vars => Room'
<1> SUFFICES ASSUME Structure, Room, [Next]_vars PROVE Room'
  OBVIOUS
<1>1. CASE UNCHANGED vars
  BY <1>1, RoomStutters DEF vars
<1>2. ASSUME NEW i \in Item, Push(i) PROVE Room'
  BY <1>2, RoomPush
<1>3. ASSUME NEW r \in Discards, RecordDrop(r) PROVE Room'
  BY <1>3, RoomStutters DEF RecordDrop, writerVars
<1>4. CASE StopAccepting \/ DeadlineExpires
  BY <1>4, RoomStutters DEF StopAccepting, DeadlineExpires, queueVars, writerVars
<1>5. CASE Cancel
  BY <1>5 DEF Cancel, queueVars, writerVars, Room, InFlush
<1>6. CASE LoopHead
  BY <1>6 DEF LoopHead, Room, InFlush
<1>7. CASE CtxDone
  BY <1>7, QueueAssumption DEF CtxDone, queueVars, Room, InFlush, Structure, TypeOK
<1>8. CASE Receive \/ DrainReceive
  BY <1>8, RoomReceive
<1>9. CASE Tick \/ DrainEmpty
  <2>1. /\ batch \in Seq(Item) /\ Len(batch) \in Nat /\ ch' = ch /\ cancelled' = cancelled
        /\ BatchSize \in Nat \ {0} /\ pc \in {"select", "drain"}
    BY <1>9, QueueAssumption DEF Tick, DrainEmpty, queueVars, Structure, TypeOK
  <2>2. \/ StartFlush(batch, "loop") /\ pc = "select"
        \/ StartFlush(batch, "done") /\ pc = "drain"
        \/ pc = "select" /\ pc' = "loop" /\ UNCHANGED <<batch, resume>>
    BY <1>9 DEF Tick, DrainEmpty
  <2>3. /\ batch' = batch
        /\ \/ pc = "select" /\ pc' = "check" /\ resume' = "loop"
           \/ pc = "drain" /\ pc' = "check" /\ resume' = "done"
           \/ pc = "select" /\ pc' = "loop"
           \/ pc = "drain" /\ pc' = "done"
    BY <2>1, <2>2, StartFlushShape
  <2> QED BY <2>1, <2>3 DEF Room, InFlush
<1>10. CASE BeginAttempt \/ Write \/ Split
  <2>1. /\ UNCHANGED <<ch, batch, resume, cancelled>>
        /\ InFlush /\ pc' \in {"check", "write", "settle"}
    BY <1>10, WriteEffect DEF BeginAttempt, Split, Structure, queueVars, InFlush
  <2> QED BY <2>1 DEF Room, InFlush
<1>11. CASE Finish
  <2>1. /\ UNCHANGED <<ch, resume, cancelled>> /\ InFlush /\ pc = "settle"
        /\ Capacity \in Nat /\ BatchSize \in Nat \ {0} /\ Len(ch) \in Nat /\ Len(batch) \in Nat
        /\ \/ pc' = "check" /\ batch' = batch
           \/ pc' = resume /\ batch' = <<>>
        /\ resume \in {"loop", "drain", "done"}
    BY <1>11, QueueAssumption DEF Finish, InFlush, Structure, TypeOK
  <2> QED BY <2>1 DEF Room, InFlush
<1> QED
  BY <1>1, <1>2, <1>3, <1>4, <1>5, <1>6, <1>7, <1>8, <1>9, <1>10, <1>11 DEF Next, Run, Flush

\* What is pending never exceeds the channel and one batch, although the drain
\* extends a full batch by one.
THEOREM MemoryBoundHolds == Spec => []MemoryBound
<1>1. Init => Room
  BY QueueAssumption DEF Init, Room, InFlush
<1>2. Structure /\ Room => MemoryBound
  BY QueueAssumption DEF Structure, Accounts, Room, MemoryBound, TypeOK
<1> QED BY <1>1, <1>2, RoomNext, StructureHolds, PTL DEF Spec
-----------------------------------------------------------------------------
(* The queue implements its contract. *)

\* The two modules mean the same by the record of an item and by stored.
LEMMA SameNotions ==
  /\ \A i, j : Contract!SameRecord(i, j) <=> SameRecord(i, j)
  /\ \A i \in Item : Contract!Stored(i) <=> Stored(i)
  /\ Contract!Abandoned = Abandonments
  BY DEF Contract!SameRecord, SameRecord, Contract!Stored, Stored, Contract!Abandoned,
         Abandonments

\* Push is the contract's decision about an item.
LEMMA PushRefines ==
  ASSUME NEW i \in Item, Push(i)
  PROVE  Contract!Next
<1>1. CASE PushAccept(i)
  <2>1. Contract!Accept(i)
    BY <1>1 DEF PushAccept, Contract!Accept
  <2> QED BY <2>1 DEF Contract!Next
<1>2. CASE PushRefuse(i)
  <2>1. Contract!Refuse(i)
    BY <1>2 DEF PushRefuse, Contract!Refuse
  <2> QED BY <2>1 DEF Contract!Next
<1> QED BY <1>1, <1>2 DEF Push

\* A committed transaction stores a set of pending records that were missing.
LEMMA WriteRefines ==
  ASSUME Structure, Truth, Write
  PROVE  [Contract!Next]_Contract!vars
<1>1. pc = "write" /\ UNCHANGED fate /\ (UNCHANGED rows \/ rows' = CommittedRows)
  BY WriteOutcome
<1>2. CASE UNCHANGED rows
  BY <1>1, <1>2 DEF Contract!vars
<1>3. CASE rows' = CommittedRows
  <2>1. /\ NewRows \subseteq Segment
        /\ \A i \in NewRows : ~Stored(i)
        /\ \A i, j \in NewRows : SameRecord(i, j) => i = j
        /\ rows' = [i \in Item |-> IF i \in NewRows THEN 1 ELSE rows[i]]
    BY <1>1, <1>3, CommitStores
  <2>2. Segment \subseteq Item /\ \A i \in Segment : fate[i] = "pending"
    BY <1>1, SegmentFacts DEF Structure, InFlush, Held
  <2>3. Contract!Store(NewRows)
    BY <1>1, <2>1, <2>2, SameNotions DEF Contract!Store
  <2>4. NewRows \in SUBSET Item
    BY <2>1, <2>2
  <2> QED BY <2>3, <2>4 DEF Contract!Next
<1> QED BY <1>1, <1>2, <1>3

\* finish is one report of the contract.
LEMMA FinishRefines ==
  ASSUME Structure, Truth, Finish
  PROVE  Contract!Next
<1>1. /\ Segment \subseteq Item /\ \A i \in Segment : fate[i] = "pending"
      /\ Reason = "persisted" => \A i \in Segment : Stored(i)
      /\ Reason \in Abandonments => \A i \in Segment : rows[i] = 0
      /\ Reason = "invalid_record" => Segment \subseteq Invalid
  BY FinishReports
<1>2. /\ UNCHANGED rows
      /\ fate' = [i \in Item |-> IF i \in Segment THEN Reason ELSE fate[i]]
  BY DEF Finish
<1>3. Contract!Settle(Segment, Reason)
  BY <1>1, <1>2, SameNotions DEF Contract!Settle
<1>4. Segment \in SUBSET Item /\ Reason \in {"persisted", "unknown"} \cup Contract!Abandoned
  BY <1>1, ReasonSettled, SameNotions DEF Settled
<1> QED BY <1>3, <1>4 DEF Contract!Next

\* Every other step is invisible in the contract.
LEMMA StepRefines ==
  Structure /\ Truth /\ [Next]_vars => [Contract!Next]_Contract!vars
<1> SUFFICES ASSUME Structure, Truth, [Next]_vars PROVE [Contract!Next]_Contract!vars
  OBVIOUS
<1>1. CASE UNCHANGED vars
  BY <1>1 DEF vars, Contract!vars
<1>2. ASSUME NEW i \in Item, Push(i) PROVE Contract!Next
  BY <1>2, PushRefines
<1>3. ASSUME NEW r \in Discards, RecordDrop(r) PROVE UNCHANGED <<rows, fate>>
  BY <1>3 DEF RecordDrop
<1>4. CASE StopAccepting \/ Cancel \/ DeadlineExpires
  BY <1>4 DEF StopAccepting, Cancel, DeadlineExpires, queueVars, Contract!vars
<1>5. CASE Run
  BY <1>5 DEF Run, LoopHead, Receive, Tick, CtxDone, DrainReceive, DrainEmpty, queueVars,
              Contract!vars
<1>6. CASE BeginAttempt \/ Split
  BY <1>6 DEF BeginAttempt, Split, queueVars, Contract!vars
<1>7. CASE Write
  BY <1>7, WriteRefines
<1>8. CASE Finish
  BY <1>8, FinishRefines
<1> QED
  BY <1>1, <1>2, <1>3, <1>4, <1>5, <1>6, <1>7, <1>8 DEF Next, Flush, Contract!vars

\* The queue implements its contract: whatever is retried, split or given up,
\* an item is settled once, with an outcome that is true of the database.
THEOREM ImplementsContractHolds == Spec => ImplementsContract
<1>1. Init => Contract!Init
  BY DEF Init, Contract!Init
<1>2. Structure /\ Truth /\ [Next]_vars => [Contract!Next]_Contract!vars
  BY StepRefines
<1> QED BY <1>1, <1>2, StructureHolds, TruthHolds, PTL DEF Spec, ImplementsContract, Contract!Spec
=============================================================================
