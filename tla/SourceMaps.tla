------------------------------ MODULE SourceMaps ------------------------------
(***************************************************************************)
(* Source maps of one project (internal/sourcemaps/store.go, cache.go and  *)
(* verify.go, internal/storage/sourcemaps.go): a map's contents live in a  *)
(* file named by their hash, its row in PostgreSQL names the file, and no  *)
(* transaction spans both.  Readers of events look the row up and then use *)
(* the parsed map, which is cached by project and hash; where no map helps *)
(* they fetch the script itself, one fetch per URL, and cache its lines.   *)
(*                                                                         *)
(* A map is its hash; what is in it is in Positions.                       *)
(***************************************************************************)
EXTENDS Integers, Sequences, SequencesExt, FiniteSetsExt, Functions

CONSTANTS
  Slot,       \* what rows are unique by: release and normalized URL
  Hash,       \* contents
  Contents,   \* what may be uploaded for each slot
  Script,     \* URLs of scripts
  Uploader, Deleter, Reader,
  Workload,   \* the sets of frames that readers may have, one per behaviour
  Size,       \* Size[x]: accounted bytes of a parsed map or of a script's lines
  CacheBytes, \* cacheBytesMax
  CacheMax,   \* fileCacheMax, and the 64 of parsedOrder
  FlightMax,  \* fetches at a time
  None

\* A frame has the slots it is looked up by, abs_path before filename (none
\* without a release), and the script that is fetched if they do not help.
Frame == [slots : Seq(Slot), script : Script \cup {None}]

ASSUME SourceMapsAssumption ==
  /\ Contents \in [Slot -> SUBSET Hash]
  /\ None \notin Slot \cup Hash \cup Script \cup Reader /\ Hash \cap Script = {}
  /\ Hash \cap {"lines", "no lines", "no map", "unreadable", "cancelled", None} = {}
  /\ \A frames \in Workload : frames \subseteq Frame
  /\ Size \in [Hash \cup Script -> Nat \ {0}]
  /\ {CacheBytes, CacheMax, FlightMax} \subseteq Nat \ {0}

VARIABLES
  frames,     \* the frames of this behaviour
  sourcemaps, \* the table: the content_hash of each slot's row, or None
  files,      \* the files in the data directory
  upload, deletion, reader,
  parsed, parsedOrder, parsedBytes, \* the cache of parsed maps, by hash
  parseGate,  \* the reader that parses, or None
  fileCache, fileOrder, fileBytes,  \* the cache of lines, by script
  flights,    \* the reader that fetches, by script
  raced,      \* contents whose file a deletion took from under an upload
  refused     \* scripts that a fetch, not cut short, did not get

parsedVars == <<parsed, parsedOrder, parsedBytes, parseGate>>
lineVars == <<fileCache, fileOrder, fileBytes, flights, refused>>
storeVars == <<sourcemaps, files, upload, deletion, raced>>
vars == <<frames, storeVars, reader, parsedVars, lineVars>>

NoUpload == [pc |-> "idle", slot |-> None, hash |-> None]
NoDeletion == [pc |-> "idle", hash |-> None, overlap |-> FALSE]
NoReader == [pc |-> "idle", slots |-> <<>>, script |-> None, verifies |-> FALSE, hash |-> None, got |-> None]

Init ==
  /\ frames \in Workload
  /\ sourcemaps = [s \in Slot |-> None] /\ files = {}
  /\ upload = [u \in Uploader |-> NoUpload]
  /\ deletion = [d \in Deleter |-> NoDeletion]
  /\ reader = [r \in Reader |-> NoReader]
  /\ parsed = <<>> /\ parsedOrder = <<>> /\ parsedBytes = 0 /\ parseGate = None
  /\ fileCache = <<>> /\ fileOrder = <<>> /\ fileBytes = 0 /\ flights = <<>>
  /\ raced = {} /\ refused = {}

\* f with v for x.
Put(f, x, v) == [y \in DOMAIN f \cup {x} |-> IF y = x THEN v ELSE f[y]]

-----------------------------------------------------------------------------
(* Upload and Delete. *)

\* The contents among R whose file is gone and that a row or an upload refers to.
Missing(R) == {h \in R : /\ h \notin files'
                         /\ \/ \E s \in Slot : sourcemaps'[s] = h
                            \/ \E u \in Uploader : upload'[u].hash = h}

\* The complete file is published under its name before the row is written.
Publish(u, slot, hash) ==
  /\ upload[u].pc = "idle"
  /\ \E f \in frames : slot \in ToSet(f.slots)
  /\ files' = files \cup {hash}
  /\ upload' = [upload EXCEPT ![u] = [pc |-> "upsert", slot |-> slot, hash |-> hash]]
  /\ UNCHANGED sourcemaps /\ raced' = Missing(raced)
  /\ UNCHANGED <<frames, deletion, reader, parsedVars, lineVars>>

\* A row of the same slot is replaced; the file it named stays.
UpsertSourcemap(u) ==
  /\ upload[u].pc = "upsert"
  /\ sourcemaps' = [sourcemaps EXCEPT ![upload[u].slot] = upload[u].hash]
  /\ upload' = [upload EXCEPT ![u] = NoUpload]
  /\ deletion' = [d \in Deleter |-> IF deletion[d].pc = "remove" /\ deletion[d].hash = upload[u].hash
                                      THEN [deletion[d] EXCEPT !.overlap = TRUE] ELSE deletion[d]]
  /\ UNCHANGED files /\ raced' = Missing(raced)
  /\ UNCHANGED <<frames, reader, parsedVars, lineVars>>

\* The statement fails, or the process dies: the file stays.
UploadFails(u) ==
  /\ upload[u].pc = "upsert"
  /\ upload' = [upload EXCEPT ![u] = NoUpload]
  /\ UNCHANGED <<sourcemaps, files>> /\ raced' = Missing(raced)
  /\ UNCHANGED <<frames, deletion, reader, parsedVars, lineVars>>

DeleteSourcemap(d, slot) ==
  /\ deletion[d].pc = "idle" /\ sourcemaps[slot] # None
  /\ sourcemaps' = [sourcemaps EXCEPT ![slot] = None]
  /\ deletion' = [deletion EXCEPT ![d] = [NoDeletion EXCEPT !.pc = "count", !.hash = sourcemaps[slot]]]
  /\ UNCHANGED <<files, upload>> /\ raced' = Missing(raced)
  /\ UNCHANGED <<frames, reader, parsedVars, lineVars>>

\* Mutant: the file goes with its row, whoever shares it.
UnusedAlways(hash) == hash \in Hash

Unused(hash) == \A s \in Slot : sourcemaps[s] # hash

\* If the count fails, or the process dies, the file stays.
CountSourcemapsByHash(d, fails) ==
  /\ deletion[d].pc = "count"
  /\ deletion' = [deletion EXCEPT ![d] = IF Unused(@.hash) /\ ~ fails
                                          THEN [@ EXCEPT !.pc = "remove"] ELSE NoDeletion]
  /\ UNCHANGED <<frames, sourcemaps, files, upload, raced, reader, parsedVars, lineVars>>

RemoveFile(d) ==
  /\ deletion[d].pc = "remove"
  /\ files' = files \ {deletion[d].hash}
  /\ deletion' = [deletion EXCEPT ![d] = NoDeletion]
  /\ UNCHANGED <<sourcemaps, upload>>
  /\ raced' = Missing(IF deletion[d].overlap \/ \E u \in Uploader : upload[u].hash = deletion[d].hash
                         THEN raced \cup {deletion[d].hash} ELSE raced)
  /\ UNCHANGED <<frames, reader, parsedVars, lineVars>>

-----------------------------------------------------------------------------
(* Looking up a frame's map: resolveFrame, VerifyEvent, loadSourceMap. *)

Begin(r, frame, verifies) ==
  /\ reader[r].pc = "idle"
  /\ reader' = [reader EXCEPT ![r] = [NoReader EXCEPT
       !.pc = "lookup", !.slots = frame.slots, !.script = frame.script, !.verifies = verifies]]
  /\ UNCHANGED <<frames, storeVars, parsedVars, lineVars>>

\* What a reader is left with: the map it got and the hash it was looked up by, or
\* nothing; the reasons why it got none are left out.
Ended(q, result) ==
  IF result \in Hash THEN [NoReader EXCEPT !.got = result, !.hash = reader[q].hash] ELSE NoReader
Got(r, result) == [reader EXCEPT ![r] = Ended(r, result)]

\* The metadata is read before the cache.
GetSourcemap(r) ==
  /\ reader[r].pc = "lookup" /\ reader[r].slots # <<>>
  /\ LET hash == sourcemaps[Head(reader[r].slots)]
     IN  reader' = IF hash = None THEN [reader EXCEPT ![r].slots = Tail(@)]
                   ELSE [reader EXCEPT ![r].pc = "parsed", ![r].hash = hash]
  /\ UNCHANGED <<frames, storeVars, parsedVars, lineVars>>

\* No map: events are verified by maps only, a reader fetches the script.
NoMap(r) ==
  /\ reader[r].pc = "lookup" /\ reader[r].slots = <<>>
  /\ reader' = IF reader[r].verifies \/ reader[r].script = None
                 THEN Got(r, "no map") ELSE [reader EXCEPT ![r].pc = "lines"]
  /\ UNCHANGED <<frames, storeVars, parsedVars, lineVars>>

-----------------------------------------------------------------------------
(* parsedSourceMap. *)

Key(r) == reader[r].hash

\* A map that cannot be had: VerifyEvent reports it, resolveFrame goes on with
\* the next name.
Unreadable(r) ==
  IF reader[r].verifies THEN Got(r, "unreadable")
  ELSE [reader EXCEPT ![r].pc = "lookup", ![r].slots = Tail(@), ![r].hash = None]

\* The map decides even if it cannot place the position or has no source text;
\* a reader then still fetches the script.
Served(r, map, placed) ==
  IF placed \/ reader[r].verifies \/ reader[r].script = None THEN Got(r, map)
  ELSE [reader EXCEPT ![r].pc = "lines", ![r].got = map]

CacheHit(r) ==
  /\ reader[r].pc = "parsed" /\ Key(r) \in DOMAIN parsed
  /\ \E placed \in BOOLEAN : reader' = Served(r, parsed[Key(r)], placed)
  /\ UNCHANGED <<frames, storeVars, parsedVars, lineVars>>

CacheMiss(r) ==
  /\ reader[r].pc = "parsed" /\ Key(r) \notin DOMAIN parsed
  /\ reader' = [reader EXCEPT ![r].pc = "queue"]
  /\ UNCHANGED <<frames, storeVars, parsedVars, lineVars>>

\* Mutant: who waited for the gate does not look again.
CachedMeanwhileIgnored(r) == FALSE /\ Key(r) \in DOMAIN parsed

CachedMeanwhile(r) == Key(r) \in DOMAIN parsed

\* One parses at a time.  Waiters look again: nobody else caches a map while they
\* hold the gate.
TakeGate(r) ==
  /\ reader[r].pc = "queue" /\ parseGate = None
  /\ IF CachedMeanwhile(r)
       THEN (\E placed \in BOOLEAN : reader' = Served(r, parsed[Key(r)], placed)) /\ UNCHANGED parseGate
       ELSE reader' = [reader EXCEPT ![r].pc = "gate"] /\ parseGate' = r
  /\ UNCHANGED <<frames, storeVars, parsed, parsedOrder, parsedBytes, lineVars>>

ReadFile(r) ==
  /\ reader[r].pc = "gate"
  /\ IF reader[r].hash \in files
       THEN reader' = [reader EXCEPT ![r].pc = "parse"] /\ UNCHANGED parseGate
       ELSE reader' = Unreadable(r) /\ parseGate' = None
  /\ UNCHANGED <<frames, storeVars, parsed, parsedOrder, parsedBytes, lineVars>>

\* What stays of a cache when the oldest entries go until it fits.
Kept(order, sizes) ==
  LET rest(k) == SubSeq(order, k + 1, Len(order))
      fits(s) == Len(s) <= CacheMax /\ SumFunctionOnSet(sizes, ToSet(s)) <= CacheBytes
  IN  rest(Min({k \in 0 .. Len(order) : fits(rest(k))}))

MapSizes(cache) == [k \in DOMAIN cache |-> Size[cache[k]]]

\* A map larger than the cache is used and not kept.
Parse(r) ==
  /\ reader[r].pc = "parse"
  /\ LET map == reader[r].hash
         cache == Put(parsed, Key(r), map)
         kept == Kept(Append(parsedOrder, Key(r)), MapSizes(cache))
         evicted == DOMAIN cache \ ToSet(kept)
     IN  /\ IF Size[map] > CacheBytes THEN UNCHANGED <<parsed, parsedOrder, parsedBytes>>
            ELSE /\ parsed' = Restrict(cache, ToSet(kept))
                 /\ parsedOrder' = kept
                 /\ parsedBytes' = parsedBytes + Size[map] - SumFunctionOnSet(MapSizes(cache), evicted)
         /\ \E placed \in BOOLEAN : reader' = Served(r, map, placed)
  /\ parseGate' = None
  /\ UNCHANGED <<frames, storeVars, lineVars>>

\* The file cannot be read or parsed.
ParseFails(r) ==
  /\ reader[r].pc \in {"gate", "parse"}
  /\ reader' = Unreadable(r) /\ parseGate' = None
  /\ UNCHANGED <<frames, storeVars, parsed, parsedOrder, parsedBytes, lineVars>>

-----------------------------------------------------------------------------
(* sharedLines. *)

Fresh(url) == url \in DOMAIN fileCache /\ ~ fileCache[url].stale

\* fileCacheTTL, failureCacheTTL
LinesExpire(url) ==
  /\ Fresh(url)
  /\ fileCache' = [fileCache EXCEPT ![url].stale = TRUE]
  /\ UNCHANGED <<frames, storeVars, reader, parsedVars, fileOrder, fileBytes, flights, refused>>

LinesCached(r) ==
  /\ reader[r].pc = "lines" /\ Fresh(reader[r].script)
  /\ reader' = Got(r, fileCache[reader[r].script].lines)
  /\ UNCHANGED <<frames, storeVars, parsedVars, lineVars>>

\* Someone fetches the script already: wait for it.
JoinFlight(r) ==
  /\ reader[r].pc = "lines" /\ ~ Fresh(reader[r].script)
  /\ reader[r].script \in DOMAIN flights
  /\ reader' = [reader EXCEPT ![r].pc = "wait"]
  /\ UNCHANGED <<frames, storeVars, parsedVars, lineVars>>

TooManyFlights(r) ==
  /\ reader[r].pc = "lines" /\ ~ Fresh(reader[r].script)
  /\ reader[r].script \notin DOMAIN flights /\ Cardinality(DOMAIN flights) >= FlightMax
  /\ reader' = Got(r, "no lines")
  /\ UNCHANGED <<frames, storeVars, parsedVars, lineVars>>

StartFlight(r) ==
  /\ reader[r].pc = "lines" /\ ~ Fresh(reader[r].script)
  /\ reader[r].script \notin DOMAIN flights /\ Cardinality(DOMAIN flights) < FlightMax
  /\ flights' = Put(flights, reader[r].script, r)
  /\ reader' = [reader EXCEPT ![r].pc = "fetch"]
  /\ UNCHANGED <<frames, storeVars, parsedVars, fileCache, fileOrder, fileBytes, refused>>

\* cacheLines: an entry that is replaced keeps its place in the order.  Having
\* no lines takes little room.
SizeOf(url, entry) == IF entry.lines = "lines" THEN Size[url] ELSE 1
LineSizes(cache) == [u \in DOMAIN cache |-> SizeOf(u, cache[u])]

cacheLines(url, lines) ==
  LET entry == [lines |-> lines, stale |-> FALSE]
      cache == Put(fileCache, url, entry)
      order == IF url \in DOMAIN fileCache THEN fileOrder ELSE Append(fileOrder, url)
      kept == Kept(order, LineSizes(cache))
      gone == {u \in DOMAIN fileCache : u = url \/ u \notin ToSet(kept)}
  IN  IF SizeOf(url, entry) > CacheBytes THEN UNCHANGED <<fileCache, fileOrder, fileBytes>>
      ELSE /\ fileCache' = Restrict(cache, ToSet(kept))
           /\ fileOrder' = kept
           /\ fileBytes' = fileBytes - SumFunctionOnSet(LineSizes(fileCache), gone)
                           + (IF url \in ToSet(kept) THEN SizeOf(url, entry) ELSE 0)

\* Mutant: what a cancelled request did not get counts as a failure of the script.
KeepsLinesAlways(cancelled) == cancelled \in BOOLEAN

KeepsLines(cancelled) == ~ cancelled

\* The fetch ends; who waited gets the same.  A cancelled owner is not cached.
Fetched(r, lines, cancelled) ==
  /\ reader[r].pc = "fetch"
  /\ LET url == reader[r].script
     IN  /\ cancelled => lines = "no lines"
         /\ IF KeepsLines(cancelled) THEN cacheLines(url, lines)
              ELSE UNCHANGED <<fileCache, fileOrder, fileBytes>>
         /\ flights' = Restrict(flights, DOMAIN flights \ {url})
         /\ refused' = IF ~ cancelled /\ lines = "no lines" THEN refused \cup {url} ELSE refused
         /\ reader' = [q \in Reader |->
              IF q = r \/ (reader[q].pc = "wait" /\ reader[q].script = url)
                THEN Ended(q, lines) ELSE reader[q]]
  /\ UNCHANGED <<frames, storeVars, parsedVars>>

\* The request is cancelled, or its enrichmentTimeout ends; the owner of a fetch
\* ends through Fetched.
Cancel(r) ==
  /\ reader[r].pc \notin {"idle", "fetch"}
  /\ reader' = Got(r, "cancelled")
  /\ parseGate' = IF parseGate = r THEN None ELSE parseGate
  /\ UNCHANGED <<frames, storeVars, parsed, parsedOrder, parsedBytes, lineVars>>

-----------------------------------------------------------------------------
Store ==
  \/ \E u \in Uploader :
       \/ \E s \in Slot : \E h \in Contents[s] : Publish(u, s, h)
       \/ UpsertSourcemap(u) \/ UploadFails(u)
  \/ \E d \in Deleter :
       \/ \E s \in Slot : DeleteSourcemap(d, s)
       \/ \E fails \in BOOLEAN : CountSourcemapsByHash(d, fails)
       \/ RemoveFile(d)

Read(r) ==
  \/ \E frame \in frames, verifies \in BOOLEAN : Begin(r, frame, verifies)
  \/ GetSourcemap(r) \/ NoMap(r)
  \/ CacheHit(r) \/ CacheMiss(r) \/ TakeGate(r) \/ ReadFile(r) \/ Parse(r) \/ ParseFails(r)
  \/ LinesCached(r) \/ JoinFlight(r) \/ TooManyFlights(r) \/ StartFlight(r)
  \/ \E lines \in {"lines", "no lines"}, cancelled \in BOOLEAN : Fetched(r, lines, cancelled)
  \/ Cancel(r)

Next ==
  \/ Store
  \/ \E r \in Reader : Read(r)
  \/ \E url \in Script : LinesExpire(url)

Spec == Init /\ [][Next]_vars

-----------------------------------------------------------------------------
(* Properties *)

\* A row's map can be read: crashes and failures leave files without a row, never
\* a row without its file, and deleting one of several rows with the same contents
\* leaves the file to the others.  The exception is a deletion that found no other
\* row while an upload of the same contents was under way (Delete in store.go).
MapsReadable ==
  \A s \in Slot : sourcemaps[s] = None \/ sourcemaps[s] \in files \cup raced

\* A reader gets the map of the row it looked up, although rows are replaced and
\* deleted under the cache, by other instances too (parsedSourceMap's comment:
\* changes "never resolve through stale metadata").
ServedCurrent ==
  \A r \in Reader : reader[r].got \in Hash => reader[r].got = reader[r].hash

\* Both caches stay within their limits, and their order and byte counts are those
\* of their entries: an entry entered twice would be evicted twice.  A script is
\* held to be unavailable only after a fetch of it failed by itself, and no one
\* waits for a fetch or a gate that nobody will release.
CachesSound ==
  /\ IsInjective(parsedOrder) /\ ToSet(parsedOrder) = DOMAIN parsed
  /\ parsedBytes = SumFunction(MapSizes(parsed))
  /\ IsInjective(fileOrder) /\ ToSet(fileOrder) = DOMAIN fileCache
  /\ fileBytes = SumFunction(LineSizes(fileCache))
  /\ Len(parsedOrder) <= CacheMax /\ Len(fileOrder) <= CacheMax
  /\ parsedBytes <= CacheBytes /\ fileBytes <= CacheBytes
  /\ \A url \in DOMAIN fileCache : fileCache[url].lines = "no lines" => url \in refused
  /\ \A url \in DOMAIN flights : reader[flights[url]].pc = "fetch" /\ reader[flights[url]].script = url
  /\ \A r \in Reader : reader[r].pc = "wait" => reader[r].script \in DOMAIN flights
  /\ parseGate # None => reader[parseGate].pc \in {"gate", "parse"}

\* A reader may trust the caches (parsedSourceMap, sharedLines, cacheLines).
CachesTrustworthy == ServedCurrent /\ CachesSound
=============================================================================
