------------------------------ MODULE Profiles ------------------------------
(***************************************************************************)
(* Profiles: how a profile item is normalised before it is stored          *)
(* (internal/ingest/profile.go), and how the profile of a transaction is   *)
(* found and folded into a flame graph (internal/profiles).                *)
(*                                                                         *)
(* A frame is what it is merged on (frameKey).  Samples refer to stacks,   *)
(* and stacks to frames, by 0-based index as in the code.  Times are whole *)
(* numbers on the clock of the client.                                     *)
(***************************************************************************)
EXTENDS Items, Integers, FiniteSetsExt

CONSTANTS
  MaxSamples,       \* maxProfileSamples
  MaxDuration,      \* maxProfileDuration
  MaxChunkDuration, \* maxProfileChunkDuration
  Lookback,         \* maxChunkDuration of the read path
  MaxChunks,        \* maxChunksPerTransaction
  MaxFutureSkew,
  ServerNow         \* the clock of the server

\* The read path assumes that no stored chunk is longer than its look-back.
ASSUME ProfilesAssumption ==
  /\ {MaxSamples, MaxDuration, MaxChunkDuration, MaxChunks} \subseteq Nat \ {0}
  /\ {Lookback, MaxFutureSkew, ServerNow} \subseteq Nat
  /\ MaxChunkDuration <= Lookback

Rejected == [format |-> 0]
NoGraph  == [count |-> 0]

(***************************************************************************)
(* Ingestion.                                                              *)
(***************************************************************************)
Valid(id, table) == id \in 0 .. Len(table) - 1
Entry(id, table) == table[id + 1]
Blank(p, s) == Entry(s.stack, p.stacks) = <<>>

\* Samples of the threads with more than one that shows something.
dropSingleSampleThreads(p) ==
  LET shows(s)  == Valid(s.stack, p.stacks) /\ ~Blank(p, s)
      shown(th) == {i \in DOMAIN p.samples : p.samples[i].thread = th /\ shows(p.samples[i])}
  IN SelectSeq(p.samples, LAMBDA s : Cardinality(shown(s.thread)) > 1)

Sound(p) ==
  /\ \A i \in DOMAIN p.samples : Valid(p.samples[i].stack, p.stacks)
  /\ \A i \in DOMAIN p.stacks : \A f \in ToSet(p.stacks[i]) : Valid(f, p.frames)

ByTime(samples) == SortSeq(samples, LAMBDA s, t : s.time < t.time)

\* A chunk has no origin of its own (0): its first sample is.
normalize(p, maxDuration) ==
  LET kept == dropSingleSampleThreads(p)
      q    == [p EXCEPT !.samples = ByTime(kept)]
      from == q.samples[1].time
      to   == q.samples[Len(kept)].time
      base == IF p.base = 0 THEN from ELSE p.base
  IN IF kept = <<>> \/ ~Sound(q) \/ to - base > maxDuration THEN Rejected
     ELSE [q EXCEPT !.base = base, !.start = from, !.end = to]

\* A wire profile has offsets (v1) or times (v2) of its samples in `at`.
adopted(raw, base) ==
  [format |-> raw.format, row |-> 0, id |-> raw.id, base |-> base, start |-> 0, end |-> 0,
   transaction |-> raw.transaction, profiler |-> raw.profiler, thread |-> raw.thread,
   frames |-> raw.frames, stacks |-> raw.stacks,
   samples |-> [i \in DOMAIN raw.samples |->
     [stack |-> raw.samples[i].stack, thread |-> raw.samples[i].thread,
      time |-> base + raw.samples[i].at]]]

\* A v1 profile has to name its transaction, with or without an id.  Samples from
\* outside the transaction are left out, when it says where it was.
ParseProfile(raw) ==
  LET inside == SelectSeq(raw.samples, LAMBDA s : s.at >= raw.from /\ s.at <= raw.to)
      cut    == IF raw.to > 0 THEN [raw EXCEPT !.samples = inside] ELSE raw
  IN IF ~raw.named \/ Len(cut.samples) > MaxSamples THEN Rejected
     ELSE normalize(adopted(cut, raw.base), MaxDuration)

ParseProfileChunk(raw) ==
  IF Len(raw.samples) > MaxSamples THEN Rejected
  ELSE normalize(adopted(raw, 0), MaxChunkDuration)

ParseProfileItem(raw) ==
  CASE raw.version \notin {0, raw.format} -> Rejected
    [] raw.format = 1                     -> ParseProfile(raw)
    [] raw.format = 2                     -> ParseProfileChunk(raw)

\* Patterns apply to the texts of frames, and fields do not.
ScrubProfile(p, cfg) ==
  IF p = Rejected THEN p
  ELSE [p EXCEPT !.frames = [i \in DOMAIN @ |-> scrubString(@[i], Marks(cfg))]]

\* A profile whose transaction, or a chunk whose id, is there already is not
\* stored again.
UniqueID(p) == IF p.format = 1 THEN p.transaction ELSE p.id
writeProfile(rows, p) ==
  IF p = Rejected \/ \E r \in rows : r.format = p.format /\ UniqueID(p) \in {UniqueID(r)} \ {""}
  THEN rows ELSE rows \cup {[p EXCEPT !.row = Cardinality(rows)]}

(***************************************************************************)
(* Folding.  A node of the tree is its path of frames from the root <<>>;  *)
(* total and self are functions of the nodes.                              *)
(***************************************************************************)
Chosen(p, opt) ==
  SelectSeq(p.samples, LAMBDA s :
    /\ opt.thread # "" => s.thread = opt.thread
    /\ opt.from # 0 => s.time >= opt.from
    /\ opt.to # 0 => s.time <= opt.to)

\* Stacks are leaf first.
PathOf(p, s) ==
  LET stack == Entry(s.stack, p.stacks)
  IN [i \in 1 .. Len(stack) |-> Entry(stack[Len(stack) - i + 1], p.frames)]

Grown(counts, nodes) ==
  [n \in DOMAIN counts \cup nodes |->
     (IF n \in DOMAIN counts THEN counts[n] ELSE 0) + (IF n \in nodes THEN 1 ELSE 0)]

\* The nodes that a sample passes through.
Visited(path) == Prefixes(path)

AddSample(g, p, s) ==
  IF Blank(p, s) THEN [g EXCEPT !.idle = @ + 1]
  ELSE [g EXCEPT !.count = @ + 1,
                 !.total = Grown(@, Visited(PathOf(p, s))),
                 !.self  = Grown(@, {PathOf(p, s)})]

\* The lengths between samples of one thread, shortest first, and their median.
Gaps(samples) ==
  LET times(th) == {samples[i].time : i \in {i \in DOMAIN samples : samples[i].thread = th}}
      next(th, t) == Min({u \in times(th) : u > t})
      gaps(th) == {<<th, t>> : t \in {t \in times(th) : t # Max(times(th))}}
      all == UNION {gaps(samples[i].thread) : i \in DOMAIN samples}
      lengths == [g \in all |-> next(g[1], g[2]) - g[2]]
  IN SetToSortSeq({<<lengths[g], g>> : g \in all}, LAMBDA a, b : a[1] < b[1])

medianInterval(samples) ==
  LET gaps == Gaps(samples) IN IF gaps = <<>> THEN 0 ELSE gaps[(Len(gaps) \div 2) + 1][1]

Fold(profs, opt) ==
  LET empty == [count |-> 0, idle |-> 0, total |-> <<>> :> 0, self |-> <<>> :> 0, interval |-> 0]
      walk(g, p) == FoldLeft(LAMBDA h, s : AddSample(h, p, s), g, Chosen(p, opt))
      times == FoldLeft(LAMBDA ss, p : ss \o Chosen(p, opt), <<>>, profs)
  IN [FoldLeft(walk, empty, profs) EXCEPT !.interval = medianInterval(times)]

(***************************************************************************)
(* Reading.  A transaction refers to its profile by its event id, or to a  *)
(* profiler and a thread and the time it ran.                              *)
(***************************************************************************)
FutureShift(end) == IF end - ServerNow > MaxFutureSkew THEN ServerNow - end ELSE 0

\* As parseTransaction stores it.
Ref(tx) == [tx EXCEPT !.start = @ + FutureShift(tx.end), !.end = @ + FutureShift(tx.end)]

foldV1(rows, ref) ==
  LET found == {p \in rows : p.format = 1 /\ p.transaction = ref.event}
      p     == CHOOSE p \in found : TRUE
      has   == \E i \in DOMAIN p.samples : p.samples[i].thread = p.thread
  IN IF found = {} THEN NoGraph ELSE
       Fold(<<p>>, [thread |-> IF has THEN p.thread ELSE "", from |-> 0, to |-> 0])

\* Mutant: only the chunks that begin in the transaction.
StartedWithin(rows, ref) ==
  {p \in rows : /\ p.format = 2 /\ p.profiler = ref.profiler
                /\ p.start >= ref.start /\ p.start <= ref.end}

\* The query for chunks, which looks no further back than Lookback.
Overlapping(rows, ref) ==
  {p \in rows : /\ p.format = 2 /\ p.profiler = ref.profiler
                /\ p.start >= ref.start - Lookback /\ p.start <= ref.end
                /\ p.end >= ref.start}

foldV2(rows, ref) ==
  LET sorted == SetToSortSeq(Overlapping(rows, ref), LAMBDA p, q : p.start < q.start)
      profs  == SubSeq(sorted, 1, Min({Len(sorted), MaxChunks}))
      graph  == Fold(profs, [thread |-> ref.thread, from |-> ref.start, to |-> ref.end])
  IN IF graph.count = 0 THEN NoGraph ELSE graph

FlameGraphForTransaction(rows, ref) ==
  IF ref.event # "" /\ foldV1(rows, ref) # NoGraph THEN foldV1(rows, ref)
  ELSE IF ref.profiler # "" THEN foldV2(rows, ref)
  ELSE NoGraph
=============================================================================
