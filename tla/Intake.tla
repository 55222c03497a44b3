------------------------------- MODULE Intake -------------------------------
(***************************************************************************)
(* The envelope endpoint of one instance (internal/api/ingest.go), the     *)
(* caches and limiters in front of it (internal/api/envelope_cache.go,     *)
(* internal/api/ratelimit.go) and the forwarder behind it                  *)
(* (internal/ingest/passthrough.go).                                       *)
(*                                                                         *)
(* A request passes the throttle for unknown keys, looks the project up,   *)
(* passes the project's rate limit and the event limit, has its body read, *)
(* pushes its items one by one, hands the scrubbed items to the forwarder  *)
(* and is answered.  Each step below is one critical section of a cache, a *)
(* limiter or a queue together with the local code around it, so steps of  *)
(* other requests, of edits of the project, of forwarders and of the       *)
(* shutdown come in between.                                               *)
(*                                                                         *)
(* The buffers behind Push are IngestQueue: here a push is accepted or     *)
(* refused.  A project is represented by the version of its settings.      *)
(* Items have contents only in the workloads about them; what is done to   *)
(* contents is in Items and Profiles.                                      *)
(***************************************************************************)
EXTENDS Profiles

CONSTANTS
  Workload,       \* what is going on: the parts that are busy (of "limits",
                  \* "forward", "contents"), the requests that are sent and how
                  \* many, the number of edits, the contents that items of each
                  \* kind may have, and how the project scrubs them
  Request,        \* requests in flight at one time
  BogusKey,       \* public keys of no project
  Client,         \* clients, by ipRateLimitKey
  CacheMax,       \* projectKeyCache.max
  TTL,            \* projectKeyCacheTTL and monthlyCountTTL
  Window,         \* the window of both limiters
  EnvelopeLimit,  \* limit of envelopeRL; 0 disables it
  UnknownLimit,   \* limit of unknownKeyRL
  MaxKeys,        \* maxKeys of unknownKeyRL
  EventLimit,     \* EVENT_LIMIT; 0 for none
  Envelope, Kinds,\* Kinds[e]: the kinds of the items of envelope e
  Transaction,    \* transactions with a profiler, by the client's clock
  Forwards,       \* the versions of the settings that have a passthrough DSN
  Worker,         \* passthroughWorkers
  QueueSize,      \* passthroughQueueSize
  MaxTime,        \* bound on the clock
  None

Kind == {"event", "transaction", "log", "profile", "other"}

ASSUME IntakeAssumption ==
  /\ {CacheMax, TTL, Window, UnknownLimit, MaxKeys, QueueSize} \subseteq Nat \ {0}
  /\ {EnvelopeLimit, EventLimit, MaxTime} \subseteq Nat
  /\ Kinds \in [Envelope -> Seq(Kind)]
  /\ Forwards \subseteq Nat /\ None \notin Nat \cup Envelope \cup [count : Nat, resetAt : Int]
  /\ "dsn" \notin BogusKey
  /\ IsFiniteSet(Worker)
  /\ \A b \in Workload :
       /\ b.changes \in Nat
       /\ b.requests \subseteq [env : Envelope, key : {"dsn"} \cup BogusKey, client : Client]

VARIABLES
  busy,       \* the workload of this behaviour
  now,
  version,    \* of the project's row
  deleted,    \* the project's row is gone
  saved,      \* edits through this instance between the write and invalidate()
  applied,    \* newest version that a local edit has written and invalidated
  replaced,   \* replaced[v]: when version v was written over
  cache,      \* projectKeyCache.entries
  envelopeRL, unknownRL,  \* entries of the limiters
  events,     \* events of this month
  reached,    \* when they reached EventLimit
  monthly,    \* monthlyCountCache
  taken,      \* taken[t]: requests the rate limit let through at time t
  req, sends,
  accepted,   \* accepted[e]: 200 answers to e that had something to forward
  jobs,       \* Forwarder.jobs
  sending,    \* sending[w]: what worker w is delivering
  settled,    \* settled[e]: deliveries of e that ended, well or not
  dropped,    \* dropped[e]: of Forwarder.dropped, by envelope
  server,     \* progress of the shutdown
  handled,    \* items with contents, and what became of each
  profiles    \* rows of profile_chunks

settingVars == <<version, deleted, saved, applied, replaced>>
limitVars   == <<envelopeRL, unknownRL, events, reached, monthly, taken>>
forwardVars == <<accepted, jobs, sending, settled, dropped>>
contentVars == <<handled, profiles>>
vars == <<busy, now, settingVars, cache, limitVars, req, sends, forwardVars, server, contentVars>>

\* Limits are off (0) in the workloads that are not about them.
Limit(n) == IF "limits" \in busy.parts THEN n ELSE 0

Key   == {"dsn"} \cup BogusKey
Time  == 0 .. MaxTime
Idle  == [pc |-> "idle", env |-> None, key |-> None, client |-> None, floor |-> 0,
          version |-> None, at |-> 0, slow |-> 0, crossed |-> FALSE, items |-> <<>>]
Fresh == [count |-> 0, resetAt |-> -1]

Init ==
  /\ busy \in Workload
  /\ now = 0 /\ version = 0 /\ deleted = FALSE /\ saved = {} /\ applied = 0
  /\ replaced = [v \in 0 .. busy.changes |-> None]
  /\ cache = [k \in Key |-> None]
  /\ envelopeRL = Fresh /\ unknownRL = [c \in Client |-> None]
  /\ events = 0 /\ reached = None /\ monthly = None
  /\ taken = [t \in Time |-> 0]
  /\ req = [r \in Request |-> Idle] /\ sends = 0
  /\ accepted = [e \in Envelope |-> 0]
  /\ jobs = <<>> /\ sending = [w \in Worker |-> None]
  /\ settled = [e \in Envelope |-> 0] /\ dropped = [e \in Envelope |-> 0]
  /\ server = "up"
  /\ handled = <<>> /\ profiles = {}

(***************************************************************************)
(* Edits of the project.                                                   *)
(***************************************************************************)
Write(gone) ==
  /\ version < busy.changes /\ ~deleted
  /\ version' = version + 1
  /\ deleted' = gone
  /\ replaced' = [replaced EXCEPT ![version] = now]

\* Settings, or the scrubbing, are saved through this instance ...
handleUpdateProject ==
  /\ Write(FALSE) /\ saved' = saved \cup {version'}
  /\ UNCHANGED <<busy, now, applied, cache, limitVars, req, sends, forwardVars, server, contentVars>>

\* ... or the project is deleted ...
handleDeleteProject ==
  /\ Write(TRUE) /\ saved' = saved \cup {version'}
  /\ UNCHANGED <<busy, now, applied, cache, limitVars, req, sends, forwardVars, server, contentVars>>

\* ... or another instance saves them, whose cache this is not.
RemoteUpdate ==
  /\ Write(FALSE)
  /\ UNCHANGED <<busy, now, saved, applied, cache, limitVars, req, sends, forwardVars, server, contentVars>>

\* Mutant: only entries that are out of date anyway are cleared.
ClearedExpired == [k \in Key |->
  IF cache[k] # None /\ now < cache[k].expires THEN cache[k] ELSE None]

Cleared == [k \in Key |-> None]

\* invalidate, at the end of the handler's write.  Lookups that have read the
\* old row and not stored it yet are crossed by it.
invalidate(v) ==
  /\ v \in saved
  /\ saved' = saved \ {v}
  /\ applied' = Max({applied, v})
  /\ cache' = Cleared
  /\ req' = [r \in Request |-> [req[r] EXCEPT !.crossed = @ \/ req[r].pc = "store"]]
  /\ UNCHANGED <<busy, now, version, deleted, replaced, limitVars, sends, forwardVars, server, contentVars>>

(***************************************************************************)
(* The limiters.  An entry is missing (None) or may have ended; the zero   *)
(* entry of a missing key has ended.                                       *)
(***************************************************************************)
Ended(entry) == entry = None \/ now > entry.resetAt

peek(entry) == IF Ended(entry) THEN 0 ELSE entry.count

\* Mutant: one request too many per window.
OverOffByOne(entry, limit) == entry.count > limit

Over(entry, limit) == entry.count >= limit

allow(entry, limit) == limit = 0 \/ Ended(entry) \/ ~Over(entry, limit)

Counted(entry, limit) ==
  IF limit = 0 THEN entry
  ELSE IF Ended(entry) THEN [count |-> 1, resetAt |-> now + Window]
  ELSE IF Over(entry, limit) THEN entry
  ELSE [entry EXCEPT !.count = @ + 1]

\* allow of unknownKeyRL, which tracks at most MaxKeys clients: ended entries
\* are pruned when it is full, and now and then; a client it has no room for
\* goes uncounted.
Pruned(rl) == [c \in Client |-> IF Ended(rl[c]) THEN None ELSE rl[c]]
Tracked(rl) == {c \in Client : rl[c] # None}
CountUnknown(c) ==
  \E rl \in {unknownRL, Pruned(unknownRL)} :
    LET full == rl[c] = None /\ Cardinality(Tracked(rl)) >= MaxKeys
        room == IF full THEN Pruned(rl) ELSE rl
    IN unknownRL' = IF full /\ Cardinality(Tracked(room)) >= MaxKeys THEN room
                    ELSE [room EXCEPT ![c] = Counted(@, UnknownLimit)]

(***************************************************************************)
(* The endpoint.                                                           *)
(***************************************************************************)
Step(r, next) == req' = [req EXCEPT ![r] = next]
Answer(r) == Step(r, Idle)

\* A request arrives, also one sent before: SDKs send an envelope again when
\* it was refused, or when the answer was lost.
Receive(r, e, k, c) ==
  /\ req[r].pc = "idle" /\ server = "up" /\ sends < busy.sends
  /\ sends' = sends + 1
  /\ peek(unknownRL[c]) < UnknownLimit
  /\ Step(r, [Idle EXCEPT !.pc = "lookup", !.env = e, !.key = k, !.client = c,
                          !.floor = applied])
  /\ UNCHANGED <<busy, now, settingVars, cache, limitVars, forwardVars, server, contentVars>>

Usable(k) == cache[k] # None /\ now < cache[k].expires

LookupHit(r) ==
  LET entry == cache[req[r].key]
  IN /\ req[r].pc = "lookup" /\ Usable(req[r].key)
     /\ Step(r, [req[r] EXCEPT !.pc = "found", !.version = entry.version,
                               !.crossed = entry.crossed, !.slow = entry.slow, !.at = now])
     /\ UNCHANGED <<busy, now, settingVars, cache, limitVars, sends, forwardVars, server, contentVars>>

\* GetByPublicKey, without the cache's lock.
LookupQuery(r) ==
  /\ req[r].pc = "lookup" /\ ~Usable(req[r].key)
  /\ Step(r, [req[r] EXCEPT !.pc = "store", !.at = now,
       !.version = IF req[r].key = "dsn" THEN version ELSE None])
  /\ UNCHANGED <<busy, now, settingVars, cache, limitVars, sends, forwardVars, server, contentVars>>

LookupStore(r) ==
  LET full == Cardinality({k \in Key : cache[k] # None}) >= CacheMax
      kept == IF full THEN [k \in Key |-> None] ELSE cache
  IN /\ req[r].pc = "store"
     /\ cache' = [kept EXCEPT ![req[r].key] =
          [version |-> req[r].version, expires |-> now + TTL, crossed |-> req[r].crossed,
           slow |-> now - req[r].at]]
     /\ Step(r, [req[r] EXCEPT !.pc = "found", !.crossed = FALSE, !.slow = now - req[r].at,
                               !.at = now])
     /\ UNCHANGED <<busy, now, settingVars, limitVars, sends, forwardVars, server, contentVars>>

lookup(r) == LookupHit(r) \/ LookupQuery(r) \/ LookupStore(r)

\* The query fails: 500.
LookupFails(r) ==
  /\ req[r].pc = "lookup" /\ ~Usable(req[r].key)
  /\ Answer(r)
  /\ UNCHANGED <<busy, now, settingVars, cache, limitVars, sends, forwardVars, server, contentVars>>

Found(v) == v # None /\ ~(deleted /\ v = version)

\* 401, and the client's budget for unknown keys is charged.
UnknownKey(r) ==
  /\ req[r].pc = "found" /\ ~Found(req[r].version)
  /\ CountUnknown(req[r].client)
  /\ Answer(r)
  /\ UNCHANGED <<busy, now, settingVars, cache, envelopeRL, events, reached, monthly, taken,
                 sends, forwardVars, server, contentVars>>

\* The project's budget is charged, or spent (429).
RateLimit(r) ==
  /\ req[r].pc = "found" /\ Found(req[r].version)
  /\ envelopeRL' = Counted(envelopeRL, Limit(EnvelopeLimit))
  /\ IF allow(envelopeRL, Limit(EnvelopeLimit))
     THEN /\ taken' = IF Limit(EnvelopeLimit) = 0 THEN taken ELSE [taken EXCEPT ![now] = @ + 1]
          /\ Step(r, [Idle EXCEPT !.pc = "admit", !.env = req[r].env,
                                  !.version = req[r].version])
     ELSE Answer(r) /\ UNCHANGED taken
  /\ UNCHANGED <<busy, now, settingVars, cache, unknownRL, events, reached, monthly, sends,
                 forwardVars, server, contentVars>>

\* monthlyCountCache.get, whose lock is held over the query, and the limit.
MonthlyCount ==
  IF monthly # None /\ now - monthly.at < TTL THEN monthly ELSE [count |-> events, at |-> now]

EventLimitCheck(r) ==
  /\ req[r].pc = "admit"
  /\ monthly' = IF Limit(EventLimit) = 0 THEN monthly ELSE MonthlyCount
  /\ IF Limit(EventLimit) > 0 /\ MonthlyCount.count >= EventLimit
     THEN Answer(r)
     ELSE Step(r, [req[r] EXCEPT !.pc = "body", !.at = now])
  /\ UNCHANGED <<busy, now, settingVars, cache, envelopeRL, unknownRL, events, reached, taken,
                 sends, forwardVars, server, contentVars>>

EventsStored ==
  /\ "limits" \in busy.parts /\ events < EventLimit
  /\ events' = events + 1
  /\ reached' = IF events' = EventLimit THEN now ELSE reached
  /\ UNCHANGED <<busy, now, settingVars, cache, envelopeRL, unknownRL, monthly, taken, req,
                 sends, forwardVars, server, contentVars>>

\* The body is read, decoded and parsed, or is refused: 415, 400, 413, 408.
ReadBody(r) ==
  /\ req[r].pc = "body"
  /\ \/ Answer(r)
     \/ Step(r, [req[r] EXCEPT !.pc = "items", !.items = Kinds[req[r].env], !.at = 0])
  /\ UNCHANGED <<busy, now, settingVars, cache, limitVars, sends, forwardVars, server, contentVars>>

\* What becomes of an item of one kind: logs and profiles that find no room, and
\* profiles that cannot be used, are dropped alone.
Handle(kind) ==
  \/ /\ busy.contents[kind] = {} \/ kind \in {"log", "profile"}
     /\ UNCHANGED contentVars
  \/ \E v \in busy.contents[kind] :
       IF kind = "profile"
       THEN LET p == ScrubProfile(ParseProfileItem(v), busy.scrub)
            IN /\ profiles' = writeProfile(profiles, p)
               /\ handled' = Append(handled, [kind |-> kind, profile |-> p])
       ELSE /\ handled' = Append(handled,
                 [kind |-> kind, item |-> v, passed |-> Passed(kind, v, busy.scrub),
                  kept |-> IF Stores(kind, v) THEN Kept(kind, v, busy.scrub) ELSE Dropped])
            /\ UNCHANGED profiles

\* One item: an event or a transaction that Push refuses ends the request with
\* 429.  Transactions that cannot be read, and all other items, are skipped or
\* pushed with no regard to the outcome.
PushItem(r) ==
  /\ req[r].pc = "items" /\ req[r].items # <<>>
  /\ \/ /\ server \notin {"drained", "gaveup"} \/ Head(req[r].items) # "event"
        /\ Step(r, [req[r] EXCEPT !.items = Tail(@)])
        /\ Handle(Head(req[r].items))
     \/ /\ Head(req[r].items) \in {"event", "transaction"}
        /\ Answer(r)
        /\ UNCHANGED contentVars
  /\ UNCHANGED <<busy, now, settingVars, cache, limitVars, sends, forwardVars, server>>

Closed == server \in {"closing", "drained", "gaveup"}

\* Enqueue, and the answer 200.
Finish(r) ==
  LET e == req[r].env
  IN /\ req[r].pc = "items" /\ req[r].items = <<>>
     /\ IF req[r].version \in Forwards /\ Kinds[e] # <<>>
        THEN /\ accepted' = [accepted EXCEPT ![e] = @ + 1]
             /\ IF Closed \/ Len(jobs) >= QueueSize
                THEN dropped' = [dropped EXCEPT ![e] = @ + 1] /\ UNCHANGED jobs
                ELSE jobs' = Append(jobs, e) /\ UNCHANGED dropped
        ELSE UNCHANGED <<accepted, jobs, dropped>>
     /\ Answer(r)
     /\ UNCHANGED <<busy, now, settingVars, cache, limitVars, sends, sending, settled, server, contentVars>>

handleEnvelope(r) ==
  \/ \E m \in busy.requests : Receive(r, m.env, m.key, m.client)
  \/ lookup(r) \/ LookupFails(r) \/ UnknownKey(r) \/ RateLimit(r) \/ EventLimitCheck(r)
  \/ ReadBody(r) \/ PushItem(r) \/ Finish(r)

(***************************************************************************)
(* The forwarder and the shutdown.                                         *)
(***************************************************************************)
TakeJob(w) ==
  /\ sending[w] = None /\ jobs # <<>>
  /\ sending' = [sending EXCEPT ![w] = Head(jobs)]
  /\ jobs' = Tail(jobs)
  /\ UNCHANGED <<busy, now, settingVars, cache, limitVars, req, sends, accepted, settled,
                 dropped, server, contentVars>>

\* forwardEnvelope returns; it is not tried again.
forwardEnvelope(w) ==
  /\ sending[w] # None
  /\ settled' = [settled EXCEPT ![sending[w]] = @ + 1]
  /\ sending' = [sending EXCEPT ![w] = None]
  /\ UNCHANGED <<busy, now, settingVars, cache, limitVars, req, sends, accepted, jobs, dropped,
                 server, contentVars>>

Shutdown(from, to) ==
  /\ "forward" \in busy.parts /\ server = from /\ server' = to
  /\ UNCHANGED <<busy, now, settingVars, cache, limitVars, req, sends, forwardVars, contentVars>>

\* srv.Shutdown takes no new requests and waits for the others; at its deadline
\* handlers may still be running.
ServerShutdown == Shutdown("up", "stopping")

\* Mutant: Close waits until the queue is empty, not for the workers.
DrainedQueue == jobs = <<>>

\* The workers have seen the closed channel's end.
Drained == jobs = <<>> /\ \A w \in Worker : sending[w] = None

\* Close: the queue takes no more; it is drained or the deadline passes.
Close ==
  \/ Shutdown("stopping", "closing")
  \/ Drained /\ Shutdown("closing", "drained")
  \/ Shutdown("closing", "gaveup")

TimePasses ==
  /\ busy.parts \cap {"forward", "contents"} = {} /\ now < MaxTime
  /\ now' = now + 1
  /\ UNCHANGED <<busy, settingVars, cache, limitVars, req, sends, forwardVars, server, contentVars>>

Next ==
  \/ handleUpdateProject \/ handleDeleteProject \/ RemoteUpdate
  \/ \E v \in saved : invalidate(v)
  \/ \E r \in Request : handleEnvelope(r)
  \/ EventsStored
  \/ \E w \in Worker : TakeJob(w) \/ forwardEnvelope(w)
  \/ ServerShutdown \/ Close
  \/ TimePasses

Spec == Init /\ [][Next]_vars

(***************************************************************************)
(* Properties.                                                             *)
(***************************************************************************)
TypeOK ==
  /\ version \in 0 .. busy.changes /\ saved \subseteq 1 .. version /\ applied <= version
  /\ events \in Nat /\ taken \in [Time -> Nat]
  /\ jobs \in Seq(Envelope) /\ Len(jobs) <= QueueSize
  /\ sending \in [Worker -> Envelope \cup {None}]
  /\ server \in {"up", "stopping", "closing", "drained", "gaveup"}

\* How stale the settings of a request may be.  Settings saved through this
\* instance apply to every request that arrives after the save is answered,
\* also when lookups are in flight, keys are evicted and edits overlap; the
\* exception is exact: an entry stored by a lookup that had read the row before
\* the edit and stored it after the edit cleared the cache.  Settings replaced
\* anywhere are used no longer than TTL and the time such a lookup took
\* (projectKeyCache.lookup, invalidate).
SettingsFresh ==
  \A r \in Request : req[r].pc = "found" /\ req[r].version # None =>
    /\ ~req[r].crossed => req[r].version >= req[r].floor
    /\ replaced[req[r].version] # None =>
         req[r].at - replaced[req[r].version] <= TTL + req[r].slow

\* The limits hold across the ends of windows and of cached counts: in any
\* stretch as long as a window the rate limit lets fewer than twice its limit
\* through, and no request passes the event limit later than TTL after it was
\* reached (rateLimiter.allow, monthlyCountCache.get).
LimitsHold ==
  /\ EnvelopeLimit > 0 => \A t \in Time :
       MapThenSumSet(LAMBDA u : taken[u], {u \in Time : t <= u /\ u <= t + Window})
         <= 2 * EnvelopeLimit - 1
  /\ \A r \in Request : req[r].pc = "body" /\ reached # None => req[r].at - reached < TTL

\* Upstream gets an envelope once for each time it was accepted in full, and
\* never for a request that was refused half way; once Close has reported that
\* the queue is drained every accepted envelope was delivered, tried, or
\* counted as dropped, those of handlers that outlived the shutdown too
\* (Enqueue, NewForwarder, Close).
ForwardedOnce ==
  /\ \A e \in Envelope : settled[e] + dropped[e] <= accepted[e]
  /\ server = "drained" => \A e \in Envelope : settled[e] + dropped[e] = accepted[e]

Item == {i \in DOMAIN handled : handled[i].kind # "profile"}
StoredItem == {i \in Item : handled[i].kept # Dropped}

\* An end user is one and the same app user in all that is stored of them, and
\* never the placeholder or something that is scrubbed.  The exceptions are
\* exact: a number as the id escapes the patterns in events and logs, and in logs
\* a blocked "user" blocks no attribute (ScrubTransaction, UserIdentity,
\* ParseSentryUserFromPayload, ParseSentryUserFromAttrs).
OneAppUser ==
  LET identity(i) == handled[i].kept.identity
      numeric(i)  == \E p \in DOMAIN handled[i].item : Number \in handled[i].item[p]
      differ(i)   == handled[i].kind = "log" /\ <<"user">> \in busy.scrub.fields
  IN \A i, j \in StoredItem :
       /\ identity(i) # {Filtered}
       /\ numeric(i) \/ identity(i) \cap Marks(busy.scrub) = {}
       /\ numeric(i) \/ differ(i) \/ differ(j) \/ identity(i) = identity(j)

\* Upstream is told nothing of a stored item that Tindra does not keep.  The
\* exceptions are exact: fields of span data are blocked by their path in the
\* data only where they are stored; a number, as in OneAppUser; and of a log
\* attribute that is an object, what is not its value when it is blocked, and
\* the fields inside its value when they are (handleEnvelope's forward,
\* ScrubEvent, ScrubLogItems).
UpstreamKnowsNoMore ==
  \A i \in StoredItem :
    LET passed == handled[i].passed
        stored == handled[i].kept.stored
        flat(p) == IF Len(p) > 2 /\ p[3] = Value THEN SubSeq(p, 1, 2) \o SubSeq(p, 4, Len(p)) ELSE p
        told(p) == passed[p] \ {Filtered}
        excepted(p) ==
          CASE handled[i].kind = "event"       -> FALSE
            [] handled[i].kind = "transaction" ->
                 \/ Number \in passed[p]
                 \/ IsPrefix(Data, p) /\ Blocked(SubSeq(p, 3, Len(p)), busy.scrub, <<>>)
            [] handled[i].kind = "log" ->
                 /\ p[1] = <<"attributes">>
                 /\ \/ Len(p) = 3 /\ p[3] = Type
                    \/ p[2] \in busy.scrub.fields /\ Len(p) > 2 /\ p[3] # Value
                    \/ Len(p) > 3 /\ p[3] = Value /\ Blocked(Tail(flat(p)), busy.scrub, <<>>)
    IN \A p \in DOMAIN passed :
         excepted(p) \/ told(p) \subseteq At(stored, p) \cup At(stored, flat(p))

\* Scrubbing hides the same of an item from the users' table, from storage and
\* from upstream.
ScrubbingAgrees == OneAppUser /\ UpstreamKnowsNoMore

Adds(g) ==
  \A n \in DOMAIN g.total :
    g.total[n] = (IF n \in DOMAIN g.self THEN g.self[n] ELSE 0)
      + MapThenSumSet(LAMBDA m : g.total[m],
                      {m \in DOMAIN g.total : Len(m) = Len(n) + 1 /\ IsPrefix(n, m)})

\* Every stored profile can be seen: a transaction with a v1 profile always draws
\* a graph, of at least two samples; one that a profiler ran along with draws
\* exactly the samples of its thread and its time from all the chunks that were
\* sent, each that has an id once however often it was sent, unless the client's clock
\* is ahead, when transactions are moved to the server's time and chunks are not.
\* In a graph the samples through a node are those that end there and those that
\* go on (normalize, writeProfileBatch, FlameGraphForTransaction, Fold).
ProfilesDraw ==
  LET sent(k) == {handled[i].profile : i \in {i \in DOMAIN handled :
                    handled[i].kind = "profile" /\ handled[i].profile.format = k}}
      drawn(tx) == FlameGraphForTransaction(profiles, Ref(tx))
  IN handled # <<>> =>
     /\ \A p \in sent(1) : p.transaction # "" =>
          LET g == drawn([event |-> p.transaction, profiler |-> "", start |-> 0, end |-> 0])
          IN g # NoGraph /\ g.count >= 2 /\ g.total[<<>>] = g.count /\ Adds(g)
     /\ \A tx \in Transaction :
          LET beside == {p \in sent(2) : p.profiler = tx.profiler
                                        /\ p.start <= tx.end /\ p.end >= tx.start}
              seen(p) == {j \in DOMAIN p.samples :
                            /\ tx.thread \in {"", p.samples[j].thread}
                            /\ ~Blank(p, p.samples[j])
                            /\ p.samples[j].time \in tx.start .. tx.end}
              samples == MapThenSumSet(LAMBDA p : Cardinality(seen(p)), beside)
          IN (/\ Cardinality(beside) <= MaxChunks /\ \A p \in beside : p.id # ""
              /\ tx.end - ServerNow <= MaxFutureSkew) =>
               IF samples = 0 THEN drawn(tx) = NoGraph
               ELSE drawn(tx) # NoGraph /\ drawn(tx).count = samples /\ Adds(drawn(tx))
=============================================================================
