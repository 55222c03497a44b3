---------------------------- MODULE IntakeProofs ----------------------------
(***************************************************************************)
(* Proofs about the envelope endpoint, for any workload and any number of  *)
(* requests, clients, keys and forwarding workers, and any limits.         *)
(*                                                                         *)
(* SettingsInv says what an entry of the cache and a lookup under way know *)
(* of the settings: neither is older than the last edit that cleared the   *)
(* cache, unless that edit crossed it, and both know since when they may   *)
(* be out of date.                                                         *)
(*                                                                         *)
(* ForwardInv is the balance of the forwarder: what was accepted of an     *)
(* envelope is queued, in a worker's hand, settled or dropped.             *)
(*                                                                         *)
(* Paced says how the limiter's window fits the passes of a client: it     *)
(* began with one of them and counts all since.  A stretch that may reach  *)
(* into the window holds less than the limit before it, so that two        *)
(* windows that meet in one stretch stay below twice the limit.  EventInv  *)
(* ties the cached count of the month to the moment its limit was reached. *)
(***************************************************************************)
EXTENDS Intake, FiniteSetTheorems, FunctionTheorems, WellFoundedInduction, TLAPS

RequestRow ==
  [pc : {"idle", "lookup", "store", "found", "admit", "body", "items"},
   env : Envelope \cup {None}, key : Key \cup {None}, client : Client \cup {None},
   floor : Nat, version : Nat \cup {None}, at : Nat, slow : Nat, crossed : BOOLEAN,
   items : Seq(Kind)]

CacheEntry == [version : Nat \cup {None}, expires : Nat, crossed : BOOLEAN, slow : Nat]

SettingsOK ==
  /\ busy \in Workload /\ now \in Nat
  /\ version \in 0 .. busy.changes /\ applied \in 0 .. version /\ saved \subseteq 1 .. version
  /\ replaced \in [0 .. busy.changes -> Nat \cup {None}]
  /\ \A v \in 0 .. busy.changes : replaced[v] # None => v < version /\ replaced[v] <= now

\* Settings v were those of the project until time t at least.
CurrentUntil(v, t) == replaced[v] # None => t <= replaced[v]

EntryOK(e) ==
  /\ e.expires <= now + TTL
  /\ e.version # None =>
       /\ e.version <= version
       /\ ~e.crossed => applied <= e.version
       /\ CurrentUntil(e.version, e.expires - TTL - e.slow)

RowOK(q) ==
  /\ q.at <= now
  /\ q.pc # "idle" => q.env \in Envelope
  /\ q.pc \in {"lookup", "store", "found"} => q.key \in Key
  /\ q.pc = "lookup" => q.floor <= applied
  /\ q.pc = "store" /\ q.version # None =>
       /\ q.version <= version /\ q.floor <= q.version
       /\ ~q.crossed => applied <= q.version
       /\ CurrentUntil(q.version, q.at)
  /\ q.pc = "found" /\ q.version # None =>
       /\ q.version <= version
       /\ ~q.crossed => q.floor <= q.version
       /\ CurrentUntil(q.version, q.at - TTL - q.slow)

CacheOK ==
  /\ cache \in [Key -> CacheEntry \cup {None}]
  /\ \A k \in Key : cache[k] # None => EntryOK(cache[k])

RequestsOK ==
  /\ req \in [Request -> RequestRow]
  /\ \A r \in Request : RowOK(req[r])

SettingsInv == SettingsOK /\ CacheOK /\ RequestsOK

(***************************************************************************)
(* The settings.                                                           *)
(***************************************************************************)

\* Max of two numbers.
LEMMA MaxOfTwo ==
  ASSUME NEW a \in Nat, NEW b \in Nat
  PROVE  Max({a, b}) \in {a, b} /\ a <= Max({a, b}) /\ b <= Max({a, b})
<1>1. \E x \in {a, b} : \A y \in {a, b} : x >= y
  <2>1. CASE a >= b
    BY <2>1
  <2>2. CASE ~(a >= b)
    <3>1. b >= a
      BY <2>2
    <3> QED BY <3>1
  <2> QED BY <2>1, <2>2
<1>2. Max({a, b}) \in {a, b} /\ \A y \in {a, b} : Max({a, b}) >= y
  BY <1>1 DEF Max
<1> QED BY <1>2

LEMMA Constants ==
  /\ TTL \in Nat /\ TTL > 0 /\ None \notin Nat /\ None \notin Envelope
  /\ \A b \in Workload : b.changes \in Nat
  /\ \A b \in Workload : \A m \in b.requests : m.env \in Envelope /\ m.key \in Key /\ m.client \in Client
  BY IntakeAssumption DEF Key

LEMMA IdleOK ==
  ASSUME SettingsOK
  PROVE  Idle \in RequestRow /\ Idle.pc = "idle" /\ RowOK(Idle)
<1>1. Idle \in RequestRow /\ Idle.pc = "idle" /\ Idle.at = 0
  BY DEF Idle, RequestRow
<1> QED BY <1>1 DEF RowOK, SettingsOK

\* A request makes a step; the settings and the cache stay.
LEMMA RequestMoves ==
  ASSUME SettingsInv, NEW r \in Request, NEW row \in RequestRow, RowOK(row), Step(r, row),
         UNCHANGED <<busy, now, settingVars, cache>>
  PROVE  SettingsInv'
<1>1. req \in [Request -> RequestRow] /\ \A q \in Request : RowOK(req[q])
  BY DEF SettingsInv, RequestsOK
<1>2. req' = [req EXCEPT ![r] = row]
  BY DEF Step
<1>3. RequestsOK'
  <2>1. req' \in [Request -> RequestRow]
    BY <1>1, <1>2
  <2>2. ASSUME NEW q \in Request PROVE RowOK(req[q])'
    <3>1. CASE q = r
      <4>1. req'[q] = row
        BY <1>1, <1>2, <3>1
      <4> QED BY <4>1 DEF RowOK, CurrentUntil, settingVars
    <3>2. CASE q # r
      <4>1. req'[q] = req[q]
        BY <1>1, <1>2, <3>2
      <4> QED BY <1>1, <4>1 DEF RowOK, CurrentUntil, settingVars
    <3> QED BY <3>1, <3>2
  <2> QED BY <2>1, <2>2 DEF RequestsOK
<1> QED
  BY <1>3 DEF SettingsInv, SettingsOK, CacheOK, EntryOK, CurrentUntil, settingVars

LEMMA RequestEnds ==
  ASSUME SettingsInv, NEW r \in Request, Answer(r), UNCHANGED <<busy, now, settingVars, cache>>
  PROVE  SettingsInv'
  BY IdleOK, RequestMoves DEF SettingsInv, Answer

LEMMA RequestsStay ==
  ASSUME SettingsInv, UNCHANGED <<busy, now, settingVars, cache, req>>
  PROVE  SettingsInv'
  BY DEF SettingsInv, SettingsOK, CacheOK, RequestsOK, RowOK, EntryOK, CurrentUntil, settingVars

\* What was current keeps being so until now at least.
LEMMA SettingsWritten ==
  ASSUME SettingsInv, NEW gone \in BOOLEAN, Write(gone),
         saved' \subseteq saved \cup {version'},
         UNCHANGED <<busy, now, applied, cache, req>>
  PROVE  SettingsInv'
<1> USE Constants
<1>1. /\ version < busy.changes /\ version' = version + 1
      /\ replaced' = [replaced EXCEPT ![version] = now]
  BY DEF Write
<1>2. /\ SettingsOK /\ busy.changes \in Nat /\ version \in Nat /\ now \in Nat
      /\ version \in 0 .. busy.changes /\ applied \in Nat /\ applied <= version
      /\ replaced \in [0 .. busy.changes -> Nat \cup {None}] /\ saved \subseteq 1 .. version
  BY DEF SettingsInv, SettingsOK
<1>3. replaced'[version] = now /\ \A v \in 0 .. busy.changes : v # version => replaced'[v] = replaced[v]
  BY <1>1, <1>2
<1>4. SettingsOK'
  <2>1. version' \in 0 .. busy.changes /\ applied \in 0 .. version' /\ saved' \subseteq 1 .. version'
    BY <1>1, <1>2
  <2>2. replaced' \in [0 .. busy.changes -> Nat \cup {None}]
    BY <1>1, <1>2
  <2>3. ASSUME NEW v \in 0 .. busy.changes, replaced'[v] # None
        PROVE  v < version' /\ replaced'[v] <= now
    <3>1. CASE v = version
      BY <1>1, <1>2, <1>3, <3>1
    <3>2. CASE v # version
      <4>1. v < version /\ replaced[v] <= now
        BY <1>2, <1>3, <2>3, <3>2 DEF SettingsOK
      <4> QED BY <1>1, <1>2, <1>3, <3>2, <4>1
    <3> QED BY <3>1, <3>2
  <2> QED BY <1>2, <2>1, <2>2, <2>3 DEF SettingsOK
<1>5. ASSUME NEW v \in Nat, NEW t \in Int, v <= version, t <= now, CurrentUntil(v, t)
      PROVE  v <= version' /\ CurrentUntil(v, t)'
  <2>1. v \in 0 .. busy.changes
    BY <1>2, <1>5
  <2> QED BY <1>1, <1>2, <1>3, <1>5, <2>1 DEF CurrentUntil
<1>6. ASSUME NEW k \in Key, cache[k] # None PROVE EntryOK(cache[k])'
  <2> DEFINE e == cache[k]
             t == e.expires - TTL - e.slow
  <2>1. e \in CacheEntry /\ EntryOK(e)
    BY <1>6 DEF SettingsInv, CacheOK
  <2>2. t \in Int /\ t <= now /\ e.expires \in Nat /\ e.slow \in Nat
    BY <1>2, <2>1 DEF EntryOK, CacheEntry
  <2>3. e.version # None => e.version \in Nat
    BY <2>1 DEF CacheEntry
  <2>4. e.version # None => e.version <= version' /\ CurrentUntil(e.version, t)'
    BY <1>5, <2>1, <2>2, <2>3 DEF EntryOK
  <2> QED BY <2>1, <2>4 DEF EntryOK
<1>7. ASSUME NEW r \in Request PROVE RowOK(req[r])'
  <2> DEFINE q == req[r]
             t == q.at - TTL - q.slow
  <2>1. q \in RequestRow /\ RowOK(q)
    BY DEF SettingsInv, RequestsOK
  <2>2. q.at \in Nat /\ q.slow \in Nat /\ q.at <= now
    BY <2>1 DEF RequestRow, RowOK
  <2>3. q.at \in Int /\ t \in Int /\ t <= now
    BY <1>2, <2>2
  <2>4. q.version # None => q.version \in Nat
    BY <2>1 DEF RequestRow
  <2>5. q.pc = "store" /\ q.version # None => q.version <= version' /\ CurrentUntil(q.version, q.at)'
    BY <1>5, <2>1, <2>2, <2>3, <2>4 DEF RowOK
  <2>6. q.pc = "found" /\ q.version # None => q.version <= version' /\ CurrentUntil(q.version, t)'
    BY <1>5, <2>1, <2>2, <2>3, <2>4 DEF RowOK
  <2> QED BY <2>1, <2>5, <2>6 DEF RowOK
<1> QED
  BY <1>4, <1>6, <1>7 DEF SettingsInv, CacheOK, RequestsOK

\* An edit clears the cache: only lookups under way are older, and are crossed.
LEMMA Invalidates ==
  ASSUME SettingsInv, NEW v \in saved, invalidate(v)
  PROVE  SettingsInv'
<1>1. /\ saved' = saved \ {v} /\ applied' = Max({applied, v}) /\ cache' = Cleared
      /\ req' = [r \in Request |-> [req[r] EXCEPT !.crossed = @ \/ req[r].pc = "store"]]
      /\ UNCHANGED <<busy, now, version, deleted, replaced>>
  BY DEF invalidate
<1>2. /\ SettingsOK /\ RequestsOK /\ version \in Nat /\ applied \in Nat /\ v \in Nat
      /\ applied <= version /\ v <= version
  <2>1. SettingsOK /\ RequestsOK
    BY DEF SettingsInv
  <2>2. busy \in Workload /\ version \in 0 .. busy.changes /\ applied \in 0 .. version /\ v \in 1 .. version
    BY <2>1 DEF SettingsOK
  <2>3. busy.changes \in Nat
    BY <2>2, Constants
  <2>4. version \in Nat
    BY <2>2, <2>3
  <2> QED BY <2>1, <2>2, <2>4
<1>3. applied' \in 0 .. version /\ applied <= applied'
  <2>1. Max({applied, v}) \in {applied, v} /\ applied <= Max({applied, v})
    BY <1>2, MaxOfTwo
  <2> QED BY <1>1, <1>2, <2>1
<1>4. SettingsOK'
  BY <1>1, <1>2, <1>3 DEF SettingsOK
<1>5. CacheOK'
  BY <1>1 DEF CacheOK, Cleared
<1>6. ASSUME NEW r \in Request PROVE req'[r] \in RequestRow /\ RowOK(req[r])'
  <2> DEFINE q == req[r]
             p == [q EXCEPT !.crossed = @ \/ q.pc = "store"]
  <2>1. q \in RequestRow /\ RowOK(q)
    BY <1>2 DEF RequestsOK
  <2>2. req'[r] = p
    BY <1>1
  <2>3. /\ p \in RequestRow /\ p.pc = q.pc /\ p.env = q.env /\ p.key = q.key
        /\ p.floor = q.floor /\ p.version = q.version /\ p.at = q.at /\ p.slow = q.slow
    BY <2>1 DEF RequestRow
  <2>4. /\ q.pc = "store" => p.crossed
        /\ q.crossed => p.crossed
    BY <2>1 DEF RequestRow
  <2>5. q.floor \in Nat
    BY <2>1 DEF RequestRow
  <2> HIDE DEF p
  <2>6. p.pc = "lookup" => p.floor <= applied'
    BY <1>2, <1>3, <2>1, <2>3, <2>5 DEF RowOK
  <2>7. RowOK(req[r])'
    BY <1>1, <2>1, <2>2, <2>3, <2>4, <2>6 DEF RowOK, CurrentUntil
  <2> QED BY <2>2, <2>3, <2>7
<1>7. RequestsOK'
  BY <1>1, <1>6 DEF RequestsOK
<1> QED BY <1>4, <1>5, <1>7 DEF SettingsInv

LEMMA Receives ==
  ASSUME SettingsInv, NEW r \in Request, NEW m \in busy.requests,
         Receive(r, m.env, m.key, m.client)
  PROVE  SettingsInv'
<1> DEFINE row == [Idle EXCEPT !.pc = "lookup", !.env = m.env, !.key = m.key,
                               !.client = m.client, !.floor = applied]
<1>1. Step(r, row) /\ UNCHANGED <<busy, now, settingVars, cache>>
  BY DEF Receive
<1>2. m.env \in Envelope /\ m.key \in Key /\ m.client \in Client
  BY Constants DEF SettingsInv, SettingsOK
<1>3. applied \in Nat /\ now \in Nat
  BY Constants DEF SettingsInv, SettingsOK
<1>4. /\ row \in RequestRow /\ row.pc = "lookup" /\ row.at = 0 /\ row.floor = applied
      /\ row.env = m.env /\ row.key = m.key
  <2>1. Idle \in RequestRow /\ Idle.at = 0
    BY IdleOK DEF Idle, SettingsInv
  <2> QED BY <1>2, <1>3, <2>1 DEF RequestRow
<1> HIDE DEF row
<1>5. RowOK(row)
  BY <1>2, <1>3, <1>4 DEF RowOK
<1> QED BY <1>1, <1>4, <1>5, RequestMoves

\* An entry that is still valid was stored no longer than TTL ago.
LEMMA Hits ==
  ASSUME SettingsInv, NEW r \in Request, LookupHit(r)
  PROVE  SettingsInv'
<1> DEFINE q == req[r]
           e == cache[q.key]
           row == [q EXCEPT !.pc = "found", !.version = e.version, !.crossed = e.crossed,
                            !.slow = e.slow, !.at = now]
<1>1. Step(r, row) /\ UNCHANGED <<busy, now, settingVars, cache>> /\ q.pc = "lookup" /\ Usable(q.key)
  BY DEF LookupHit
<1>2. q \in RequestRow /\ RowOK(q)
  BY DEF SettingsInv, RequestsOK
<1>3. q.key \in Key /\ q.env \in Envelope /\ q.floor \in Nat /\ q.floor <= applied
  BY <1>1, <1>2 DEF RowOK, RequestRow
<1>4. e \in CacheEntry /\ EntryOK(e) /\ now < e.expires
  BY <1>1, <1>3 DEF SettingsInv, CacheOK, Usable
<1>5. /\ applied \in Nat /\ now \in Nat /\ version \in Nat /\ busy.changes \in Nat
      /\ version <= busy.changes
      /\ \A v \in 0 .. busy.changes : replaced[v] \in Nat \cup {None}
      /\ TTL \in Nat /\ None \notin Nat
  BY Constants DEF SettingsInv, SettingsOK
<1>6. /\ row \in RequestRow /\ row.pc = "found" /\ row.at = now /\ row.floor = q.floor
      /\ row.env = q.env /\ row.key = q.key /\ row.version = e.version /\ row.slow = e.slow
      /\ row.crossed = e.crossed
  BY <1>2, <1>4, <1>5 DEF RequestRow, CacheEntry
<1>7. /\ e.version \in Nat \cup {None} /\ e.slow \in Nat /\ e.expires \in Nat
  BY <1>4 DEF CacheEntry
<1> HIDE DEF row, e, q
<1>8. ASSUME e.version # None PROVE CurrentUntil(e.version, now - TTL - e.slow)
  <2>1. e.version \in 0 .. busy.changes
    BY <1>4, <1>5, <1>7, <1>8 DEF EntryOK
  <2> DEFINE x == replaced[e.version]
  <2>2. x \in Nat \cup {None} /\ (x # None => e.expires - TTL - e.slow <= x)
    BY <1>4, <1>5, <1>8, <2>1 DEF EntryOK, CurrentUntil
  <2> HIDE DEF x
  <2>3. x # None => now - TTL - e.slow <= x
    BY <1>4, <1>5, <1>7, <2>2
  <2> QED BY <2>3 DEF CurrentUntil, x
<1>9. e.version # None /\ ~e.crossed => q.floor <= e.version
  BY <1>3, <1>4, <1>5, <1>7 DEF EntryOK
<1>10. RowOK(row)
  BY <1>3, <1>4, <1>5, <1>6, <1>8, <1>9 DEF RowOK, EntryOK
<1> QED BY <1>1, <1>6, <1>10, RequestMoves DEF q

LEMMA Queries ==
  ASSUME SettingsInv, NEW r \in Request, LookupQuery(r)
  PROVE  SettingsInv'
<1> DEFINE q == req[r]
           w == IF q.key = "dsn" THEN version ELSE None
           row == [q EXCEPT !.pc = "store", !.at = now, !.version = w]
<1>1. Step(r, row) /\ UNCHANGED <<busy, now, settingVars, cache>> /\ q.pc = "lookup"
  <2>1. Step(r, [req[r] EXCEPT !.pc = "store", !.at = now,
                   !.version = IF req[r].key = "dsn" THEN version ELSE None])
    BY DEF LookupQuery
  <2> QED BY <2>1 DEF LookupQuery
<1>2. q \in RequestRow /\ RowOK(q)
  BY DEF SettingsInv, RequestsOK
<1>3. q.key \in Key /\ q.env \in Envelope /\ q.floor \in Nat /\ q.floor <= applied
  BY <1>1, <1>2 DEF RowOK, RequestRow
<1>4. /\ applied \in Nat /\ now \in Nat /\ version \in Nat /\ applied <= version
      /\ version \in 0 .. busy.changes /\ (replaced[version] # None => version < version)
  BY Constants DEF SettingsInv, SettingsOK
<1>5. w \in Nat \cup {None} /\ (w # None => w = version)
  BY <1>4
<1> HIDE DEF w
<1>6. /\ row \in RequestRow /\ row.pc = "store" /\ row.at = now /\ row.floor = q.floor
      /\ row.env = q.env /\ row.key = q.key /\ row.version = w
  BY <1>2, <1>4, <1>5 DEF RequestRow
<1> HIDE DEF row, q
<1>7. w # None => CurrentUntil(w, now) /\ w <= version /\ q.floor <= w /\ applied <= w
  BY <1>3, <1>4, <1>5 DEF CurrentUntil
<1>8. RowOK(row)
  BY <1>3, <1>4, <1>6, <1>7 DEF RowOK
<1> QED BY <1>1, <1>6, <1>8, RequestMoves DEF q

\* What is stored was current when the lookup read it.
LEMMA LookupStores ==
  ASSUME SettingsInv, NEW r \in Request, LookupStore(r)
  PROVE  SettingsInv'
<1> DEFINE q == req[r]
           lag == now - q.at
           e == [version |-> q.version, expires |-> now + TTL, crossed |-> q.crossed, slow |-> lag]
           row == [q EXCEPT !.pc = "found", !.crossed = FALSE, !.slow = lag, !.at = now]
           full == Cardinality({k \in Key : cache[k] # None}) >= CacheMax
           kept == IF full THEN [k \in Key |-> None] ELSE cache
<1>1. /\ Step(r, row) /\ UNCHANGED <<busy, now, settingVars>> /\ q.pc = "store"
      /\ cache' = [kept EXCEPT ![q.key] = e]
  BY DEF LookupStore
<1>2. q \in RequestRow /\ RowOK(q) /\ req \in [Request -> RequestRow]
  BY DEF SettingsInv, RequestsOK
<1>3. /\ q.key \in Key /\ q.env \in Envelope /\ q.floor \in Nat /\ q.at \in Nat /\ q.at <= now
      /\ q.version \in Nat \cup {None} /\ q.crossed \in BOOLEAN
  BY <1>1, <1>2 DEF RowOK, RequestRow
<1>4. /\ now \in Nat /\ TTL \in Nat /\ None \notin Nat /\ version \in Nat
      /\ busy.changes \in Nat /\ version <= busy.changes
      /\ \A v \in 0 .. busy.changes : replaced[v] \in Nat \cup {None}
  BY Constants DEF SettingsInv, SettingsOK
<1>5. lag \in Nat /\ q.at = now + TTL - TTL - lag /\ now - TTL - lag <= q.at
  BY <1>3, <1>4
<1> HIDE DEF lag
<1>6. /\ e \in CacheEntry /\ e.version = q.version /\ e.expires = now + TTL
      /\ e.crossed = q.crossed /\ e.slow = lag
  BY <1>3, <1>4, <1>5 DEF CacheEntry
<1>7. /\ row \in RequestRow /\ row.pc = "found" /\ row.at = now /\ row.floor = q.floor
      /\ row.env = q.env /\ row.key = q.key /\ row.version = q.version /\ row.slow = lag
  BY <1>2, <1>4, <1>5 DEF RequestRow
<1>8. /\ kept \in [Key -> CacheEntry \cup {None}]
      /\ \A k \in Key : kept[k] # None => EntryOK(kept[k])
  <2>1. CASE full
    BY <2>1
  <2>2. CASE ~full
    BY <2>2 DEF SettingsInv, CacheOK
  <2> QED BY <2>1, <2>2
<1> HIDE DEF e, row, kept, full, q
<1>9. ASSUME q.version # None
      PROVE  /\ q.version <= version /\ q.floor <= q.version
             /\ ~q.crossed => applied <= q.version
             /\ CurrentUntil(q.version, q.at)
  BY <1>1, <1>2, <1>9 DEF RowOK
<1>10. q.version # None => CurrentUntil(q.version, now - TTL - lag)
  <2> SUFFICES ASSUME q.version # None, replaced[q.version] # None
               PROVE  now - TTL - lag <= replaced[q.version]
    BY DEF CurrentUntil
  <2> DEFINE x == replaced[q.version]
  <2>1. q.version \in 0 .. busy.changes
    BY <1>3, <1>4, <1>9
  <2>2. x \in Nat /\ q.at <= x
    BY <1>4, <1>9, <2>1 DEF CurrentUntil
  <2> HIDE DEF x
  <2>3. now - TTL - lag <= x
    BY <1>3, <1>4, <1>5, <2>2
  <2> QED BY <2>3 DEF x
<1>11. EntryOK(e)
  BY <1>4, <1>5, <1>6, <1>9 DEF EntryOK
<1>12. RowOK(row)
  BY <1>3, <1>4, <1>7, <1>9, <1>10 DEF RowOK
<1>13. CacheOK'
  <2>1. cache' \in [Key -> CacheEntry \cup {None}]
    BY <1>1, <1>3, <1>6, <1>8
  <2>2. ASSUME NEW k \in Key, cache'[k] # None PROVE EntryOK(cache[k])'
    <3>1. cache'[k] = e \/ cache'[k] = kept[k]
      BY <1>1, <1>3, <1>8
    <3>2. cache'[k] = e => EntryOK(cache[k])'
      BY <1>1, <1>11 DEF EntryOK, CurrentUntil, settingVars
    <3>3. cache'[k] = kept[k] => EntryOK(cache[k])'
      BY <1>1, <1>8, <2>2 DEF EntryOK, CurrentUntil, settingVars
    <3> QED BY <3>1, <3>2, <3>3
  <2> QED BY <2>1, <2>2 DEF CacheOK
<1>14. RequestsOK'
  <2>1. req' = [req EXCEPT ![r] = row]
    BY <1>1 DEF Step
  <2>2. req' \in [Request -> RequestRow]
    BY <1>2, <1>7, <2>1
  <2>3. ASSUME NEW p \in Request PROVE RowOK(req[p])'
    <3>1. CASE p = r
      <4>1. req'[p] = row
        BY <1>2, <2>1, <3>1
      <4> QED BY <1>1, <1>12, <4>1 DEF RowOK, CurrentUntil, settingVars
    <3>2. CASE p # r
      <4>1. req'[p] = req[p] /\ RowOK(req[p])
        BY <1>2, <2>1, <3>2 DEF SettingsInv, RequestsOK
      <4> QED BY <1>1, <4>1 DEF RowOK, CurrentUntil, settingVars
    <3> QED BY <3>1, <3>2
  <2> QED BY <2>2, <2>3 DEF RequestsOK
<1>15. SettingsOK'
  BY <1>1 DEF SettingsInv, SettingsOK, settingVars
<1> QED BY <1>13, <1>14, <1>15 DEF SettingsInv

\* Past the lookup a request uses its settings, and nothing is said of them.
LEMMA BeyondLookup ==
  ASSUME SettingsInv, NEW r \in Request, NEW row \in RequestRow, Step(r, row),
         row.pc \in {"admit", "body", "items"}, row.env = req[r].env, req[r].pc # "idle",
         row.at <= now, UNCHANGED <<busy, now, settingVars, cache>>
  PROVE  SettingsInv'
<1>1. req[r].env \in Envelope
  BY DEF SettingsInv, RequestsOK, RowOK
<1>2. RowOK(row)
  BY <1>1 DEF RowOK
<1> QED BY <1>2, RequestMoves

LEMMA Admits ==
  ASSUME SettingsInv, NEW r \in Request, RateLimit(r)
  PROVE  SettingsInv'
<1>1. /\ UNCHANGED <<busy, now, settingVars, cache>> /\ req[r].pc = "found"
      /\ Answer(r) \/ Step(r, [Idle EXCEPT !.pc = "admit", !.env = req[r].env,
                                           !.version = req[r].version])
  BY DEF RateLimit
<1> DEFINE row == [Idle EXCEPT !.pc = "admit", !.env = req[r].env, !.version = req[r].version]
<1>2. Idle \in RequestRow /\ Idle.at = 0 /\ now \in Nat
  BY Constants, IdleOK DEF Idle, SettingsInv, SettingsOK
<1>3. req[r] \in RequestRow
  BY DEF SettingsInv, RequestsOK
<1>4. row \in RequestRow /\ row.pc = "admit" /\ row.env = req[r].env /\ row.at = 0
  BY <1>2, <1>3 DEF RequestRow
<1> HIDE DEF row
<1>5. row.at <= now
  BY <1>2, <1>4
<1>6. Step(r, row) => SettingsInv'
  BY <1>1, <1>4, <1>5, BeyondLookup
<1> QED BY <1>1, <1>6, RequestEnds DEF row

LEMMA ChecksEvents ==
  ASSUME SettingsInv, NEW r \in Request, EventLimitCheck(r)
  PROVE  SettingsInv'
<1> DEFINE row == [req[r] EXCEPT !.pc = "body", !.at = now]
<1>1. /\ UNCHANGED <<busy, now, settingVars, cache>> /\ req[r].pc = "admit"
      /\ Answer(r) \/ Step(r, row)
  BY DEF EventLimitCheck
<1>2. req[r] \in RequestRow /\ now \in Nat
  BY Constants DEF SettingsInv, RequestsOK, SettingsOK
<1>3. row \in RequestRow /\ row.pc = "body" /\ row.env = req[r].env /\ row.at = now
  BY <1>2 DEF RequestRow
<1> HIDE DEF row
<1>4. row.at <= now
  BY <1>2, <1>3
<1>5. Step(r, row) => SettingsInv'
  BY <1>1, <1>3, <1>4, BeyondLookup
<1> QED BY <1>1, <1>5, RequestEnds

LEMMA Reads ==
  ASSUME SettingsInv, NEW r \in Request, ReadBody(r)
  PROVE  SettingsInv'
<1> DEFINE ks == Kinds[req[r].env]
           row == [req[r] EXCEPT !.pc = "items", !.items = ks, !.at = 0]
<1>1. /\ UNCHANGED <<busy, now, settingVars, cache>> /\ req[r].pc = "body"
      /\ Answer(r) \/ Step(r, row)
  BY DEF ReadBody
<1>2. req[r] \in RequestRow /\ now \in Nat /\ req[r].env \in Envelope
  BY <1>1, Constants DEF SettingsInv, RequestsOK, SettingsOK, RowOK
<1>3. ks \in Seq(Kind)
  BY <1>2, IntakeAssumption
<1> HIDE DEF ks
<1>4. row \in RequestRow /\ row.pc = "items" /\ row.env = req[r].env /\ row.at = 0
  BY <1>2, <1>3 DEF RequestRow
<1> HIDE DEF row
<1>5. row.at <= now
  BY <1>2, <1>4
<1>6. Step(r, row) => SettingsInv'
  BY <1>1, <1>4, <1>5, BeyondLookup
<1> QED BY <1>1, <1>6, RequestEnds

LEMMA Pushes ==
  ASSUME SettingsInv, NEW r \in Request, PushItem(r)
  PROVE  SettingsInv'
<1> DEFINE q == req[r]
           rest == Tail(q.items)
           row == [q EXCEPT !.items = rest]
<1>1. /\ UNCHANGED <<busy, now, settingVars, cache>> /\ q.pc = "items" /\ q.items # <<>>
      /\ Answer(r) \/ Step(r, row)
  BY DEF PushItem
<1>2. q \in RequestRow /\ RowOK(q)
  BY DEF SettingsInv, RequestsOK
<1>3. q.items \in Seq(Kind)
  BY <1>2 DEF RequestRow
<1>4. rest \in Seq(Kind)
  BY <1>1, <1>3
<1> HIDE DEF rest
<1>5. /\ row \in RequestRow /\ row.pc = q.pc /\ row.env = q.env /\ row.at = q.at
  BY <1>2, <1>4 DEF RequestRow
<1> HIDE DEF row
<1>6. row.at <= now
  BY <1>2, <1>5 DEF RowOK
<1>7. Step(r, row) => SettingsInv'
  BY <1>1, <1>5, <1>6, BeyondLookup
<1> QED BY <1>1, <1>7, RequestEnds

LEMMA ClockAdvances ==
  ASSUME SettingsInv, TimePasses
  PROVE  SettingsInv'
<1>1. now' = now + 1 /\ UNCHANGED <<busy, settingVars, cache, req>>
  BY DEF TimePasses
<1>2. now \in Nat /\ TTL \in Nat
  BY Constants DEF SettingsInv, SettingsOK
<1>3. \A n \in Nat : n <= now => n <= now'
  BY <1>1, <1>2
<1>4. SettingsOK'
  <2>1. now' \in Nat
    BY <1>1, <1>2
  <2>2. ASSUME NEW v \in 0 .. busy.changes, replaced[v] # None
        PROVE  v < version /\ replaced[v] <= now'
    <3>1. replaced[v] \in Nat /\ replaced[v] <= now /\ v < version
      BY <2>2 DEF SettingsInv, SettingsOK
    <3> QED BY <1>3, <3>1
  <2> QED BY <1>1, <2>1, <2>2 DEF SettingsInv, SettingsOK, settingVars
<1>5. ASSUME NEW k \in Key, cache[k] # None PROVE EntryOK(cache[k])'
  <2>1. cache[k] \in CacheEntry /\ EntryOK(cache[k])
    BY <1>5 DEF SettingsInv, CacheOK
  <2>2. cache[k].expires \in Nat /\ cache[k].expires <= now + TTL
    BY <2>1 DEF CacheEntry, EntryOK
  <2>3. cache[k].expires <= now' + TTL
    BY <1>1, <1>2, <2>2
  <2> QED BY <1>1, <2>1, <2>3 DEF EntryOK, CurrentUntil, settingVars
<1>6. CacheOK'
  BY <1>1, <1>5 DEF SettingsInv, CacheOK
<1>7. RequestsOK'
  <2>1. ASSUME NEW r \in Request PROVE RowOK(req[r])'
    <3>1. req[r].at \in Nat /\ RowOK(req[r])
      BY DEF SettingsInv, RequestsOK, RequestRow
    <3>2. req[r].at <= now'
      BY <1>3, <3>1 DEF RowOK
    <3> QED BY <1>1, <3>1, <3>2 DEF RowOK, CurrentUntil, settingVars
  <2> QED BY <1>1, <2>1 DEF SettingsInv, RequestsOK
<1> QED BY <1>4, <1>6, <1>7 DEF SettingsInv

LEMMA SettingsInvInit == Init => SettingsInv
<1> SUFFICES ASSUME Init PROVE SettingsInv
  OBVIOUS
<1>1. SettingsOK
  <2>1. busy \in Workload /\ now = 0 /\ version = 0 /\ applied = 0 /\ saved = {}
    BY DEF Init
  <2>2. busy.changes \in Nat
    BY <2>1, Constants
  <2>3. replaced = [v \in 0 .. busy.changes |-> None]
    BY DEF Init
  <2>4. 0 \in 0 .. busy.changes /\ now \in Nat /\ applied \in 0 .. version
    BY <2>1, <2>2
  <2> QED BY <2>1, <2>3, <2>4 DEF SettingsOK
<1>2. CacheOK
  BY DEF Init, CacheOK
<1>3. RequestsOK
  BY <1>1, IdleOK DEF Init, RequestsOK
<1> QED BY <1>1, <1>2, <1>3 DEF SettingsInv

LEMMA SettingsInvStep == SettingsInv /\ [Next]_vars => SettingsInv'
<1> SUFFICES ASSUME SettingsInv, [Next]_vars PROVE SettingsInv'
  OBVIOUS
<1>1. CASE handleUpdateProject
  <2>1. Write(FALSE) /\ saved' \subseteq saved \cup {version'} /\ UNCHANGED <<busy, now, applied, cache, req>>
    BY <1>1 DEF handleUpdateProject
  <2> QED BY <2>1, SettingsWritten
<1>2. CASE handleDeleteProject
  <2>1. Write(TRUE) /\ saved' \subseteq saved \cup {version'} /\ UNCHANGED <<busy, now, applied, cache, req>>
    BY <1>2 DEF handleDeleteProject
  <2> QED BY <2>1, SettingsWritten
<1>3. CASE RemoteUpdate
  <2>1. Write(FALSE) /\ saved' \subseteq saved \cup {version'} /\ UNCHANGED <<busy, now, applied, cache, req>>
    BY <1>3 DEF RemoteUpdate
  <2> QED BY <2>1, SettingsWritten
<1>4. CASE \E v \in saved : invalidate(v)
  BY <1>4, Invalidates
<1>5. ASSUME NEW r \in Request, handleEnvelope(r) PROVE SettingsInv'
  <2>1. CASE \E m \in busy.requests : Receive(r, m.env, m.key, m.client)
    BY <2>1, Receives
  <2>2. CASE lookup(r)
    BY <2>2, Hits, Queries, LookupStores DEF lookup
  <2>3. CASE LookupFails(r)
    BY <2>3, RequestEnds DEF LookupFails
  <2>4. CASE UnknownKey(r)
    BY <2>4, RequestEnds DEF UnknownKey
  <2>5. CASE RateLimit(r)
    BY <2>5, Admits
  <2>6. CASE EventLimitCheck(r)
    BY <2>6, ChecksEvents
  <2>7. CASE ReadBody(r)
    BY <2>7, Reads
  <2>8. CASE PushItem(r)
    BY <2>8, Pushes
  <2>9. CASE Finish(r)
    BY <2>9, RequestEnds DEF Finish
  <2> QED
    BY <1>5, <2>1, <2>2, <2>3, <2>4, <2>5, <2>6, <2>7, <2>8, <2>9 DEF handleEnvelope
<1>6. CASE EventsStored
  BY <1>6, RequestsStay DEF EventsStored
<1>7. ASSUME NEW w \in Worker, TakeJob(w) PROVE SettingsInv'
  BY <1>7, RequestsStay DEF TakeJob
<1>8. ASSUME NEW w \in Worker, forwardEnvelope(w) PROVE SettingsInv'
  BY <1>8, RequestsStay DEF forwardEnvelope
<1>9. CASE ServerShutdown \/ Close
  BY <1>9, RequestsStay DEF ServerShutdown, Close, Shutdown
<1>10. CASE TimePasses
  BY <1>10, ClockAdvances
<1>11. CASE UNCHANGED vars
  BY <1>11, RequestsStay DEF vars
<1> QED
  BY <1>1, <1>2, <1>3, <1>4, <1>5, <1>6, <1>7, <1>8, <1>9, <1>10, <1>11 DEF Next

\* The inductive invariant of the project's settings and their cache.
THEOREM SettingsInvHolds == Spec => []SettingsInv
<1>1. SettingsInv /\ [Next]_vars => SettingsInv'
  BY SettingsInvStep
<1> QED BY <1>1, SettingsInvInit, PTL DEF Spec

\* A request uses settings that are at least as new as the last edit saved here
\* before it arrived, or was crossed; and none that were replaced longer ago
\* than TTL and the lookup's own time (projectKeyCache.lookup, invalidate).
THEOREM SettingsFreshHolds == Spec => []SettingsFresh
<1>1. ASSUME SettingsInv PROVE SettingsFresh
  <2> SUFFICES ASSUME NEW r \in Request, req[r].pc = "found", req[r].version # None
               PROVE  /\ ~req[r].crossed => req[r].version >= req[r].floor
                      /\ replaced[req[r].version] # None =>
                           req[r].at - replaced[req[r].version] <= TTL + req[r].slow
    BY DEF SettingsFresh
  <2> DEFINE q == req[r]
             x == replaced[q.version]
  <2>1. q \in RequestRow /\ RowOK(q)
    BY <1>1 DEF SettingsInv, RequestsOK
  <2>2. /\ q.version \in Nat /\ q.version <= version /\ q.floor \in Nat /\ q.at \in Nat /\ q.slow \in Nat
        /\ ~q.crossed => q.floor <= q.version
        /\ x # None => q.at - TTL - q.slow <= x
    BY <2>1 DEF RowOK, RequestRow, CurrentUntil
  <2>3. version \in 0 .. busy.changes /\ busy.changes \in Nat /\ TTL \in Nat
    BY <1>1, Constants DEF SettingsInv, SettingsOK
  <2>4. q.version \in 0 .. busy.changes
    BY <2>2, <2>3
  <2>5. x # None => x \in Nat
    BY <1>1, <2>4 DEF SettingsInv, SettingsOK
  <2> HIDE DEF q, x
  <2>6. /\ ~q.crossed => q.version >= q.floor
        /\ x # None => q.at - x <= TTL + q.slow
    BY <2>2, <2>3, <2>5
  <2> QED BY <2>6 DEF q, x
<1>2. SettingsInv => SettingsFresh
  BY <1>1
<1> QED BY <1>2, SettingsInvHolds, PTL

(***************************************************************************)
(* The forwarder.                                                          *)
(***************************************************************************)
Queued(s, e) == {n \in 1 .. Len(s) : s[n] = e}
InHand(f, e) == {w \in Worker : f[w] = e}

\* Every accepted envelope is settled, dropped, queued or in a worker's hands.
Balance(e) ==
  settled[e] + dropped[e] + Cardinality(Queued(jobs, e)) + Cardinality(InHand(sending, e))
    = accepted[e]

ForwardInv ==
  /\ jobs \in Seq(Envelope) /\ sending \in [Worker -> Envelope \cup {None}]
  /\ {accepted, settled, dropped} \subseteq [Envelope -> Nat]
  /\ \A e \in Envelope : Balance(e)
  /\ server = "drained" => Drained

LEMMA QueuedCounts ==
  ASSUME NEW s \in Seq(Envelope), NEW e
  PROVE  IsFiniteSet(Queued(s, e)) /\ Cardinality(Queued(s, e)) \in Nat
<1>1. IsFiniteSet(1 .. Len(s))
  BY FS_Interval
<1>2. Queued(s, e) \subseteq 1 .. Len(s)
  BY DEF Queued
<1> QED BY <1>1, <1>2, FS_Subset, FS_CardinalityType

LEMMA InHandCounts ==
  ASSUME NEW f, NEW e
  PROVE  IsFiniteSet(InHand(f, e)) /\ Cardinality(InHand(f, e)) \in Nat
<1>1. IsFiniteSet(Worker)
  BY IntakeAssumption
<1>2. InHand(f, e) \subseteq Worker
  BY DEF InHand
<1> QED BY <1>1, <1>2, FS_Subset, FS_CardinalityType

LEMMA QueuedAppended ==
  ASSUME NEW s \in Seq(Envelope), NEW x \in Envelope, NEW e \in Envelope
  PROVE  Cardinality(Queued(Append(s, x), e)) =
           IF e = x THEN Cardinality(Queued(s, e)) + 1 ELSE Cardinality(Queued(s, e))
<1> DEFINE n == Len(s) + 1
           t == Append(s, x)
<1>1. /\ Len(s) \in Nat /\ Len(t) = n /\ t[n] = x /\ n \notin 1 .. Len(s)
      /\ \A k \in 1 .. Len(s) : t[k] = s[k]
      /\ 1 .. Len(t) = (1 .. Len(s)) \cup {n}
  OBVIOUS
<1> HIDE DEF t, n
<1>2. CASE e = x
  <2>1. Queued(t, e) = Queued(s, e) \cup {n} /\ n \notin Queued(s, e)
    BY <1>1, <1>2 DEF Queued
  <2> QED BY <1>2, <2>1, QueuedCounts, FS_AddElement DEF t
<1>3. CASE e # x
  <2>1. Queued(t, e) = Queued(s, e)
    BY <1>1, <1>3 DEF Queued
  <2> QED BY <1>3, <2>1 DEF t
<1> QED BY <1>2, <1>3

\* The positions of the rest are those of the whole, one earlier.
LEMMA QueuedTaken ==
  ASSUME NEW s \in Seq(Envelope), s # <<>>, NEW e \in Envelope
  PROVE  Cardinality(Queued(s, e)) =
           IF e = Head(s) THEN Cardinality(Queued(Tail(s), e)) + 1
           ELSE Cardinality(Queued(Tail(s), e))
<1> DEFINE t == Tail(s)
           S == Queued(t, e)
           T == Queued(s, e) \ {1}
           f == [n \in S |-> n + 1]
<1>1. /\ Len(s) \in Nat /\ Len(s) > 0 /\ t \in Seq(Envelope) /\ Len(t) = Len(s) - 1
      /\ \A n \in 1 .. Len(t) : t[n] = s[n + 1]
      /\ Head(s) = s[1]
  OBVIOUS
<1> HIDE DEF t
<1>2. \A n \in S : n \in 1 .. Len(t) /\ t[n] = e
  BY DEF Queued
<1>3. \A n \in S : n + 1 \in T
  <2> SUFFICES ASSUME NEW n \in S PROVE n + 1 \in T
    OBVIOUS
  <2>1. n \in 1 .. Len(t) /\ s[n + 1] = e
    BY <1>1, <1>2
  <2>2. n + 1 \in 1 .. Len(s) /\ n + 1 # 1
    BY <1>1, <2>1
  <2> QED BY <2>1, <2>2 DEF Queued
<1>4. f \in [S -> T]
  BY <1>3
<1>5. \A a, b \in S : f[a] = f[b] => a = b
  BY <1>2
<1>6. \A m \in T : \E n \in S : f[n] = m
  <2> SUFFICES ASSUME NEW m \in T PROVE \E n \in S : f[n] = m
    OBVIOUS
  <2>1. m \in 1 .. Len(s) /\ s[m] = e /\ m # 1
    BY DEF Queued
  <2>2. m - 1 \in 1 .. Len(t) /\ (m - 1) + 1 = m
    BY <1>1, <2>1
  <2>3. t[m - 1] = e
    BY <1>1, <2>1, <2>2
  <2>4. m - 1 \in S
    BY <2>2, <2>3 DEF Queued
  <2>5. f[m - 1] = m
    BY <2>2, <2>4
  <2> QED BY <2>4, <2>5
<1> HIDE DEF f
<1>7. ExistsBijection(S, T)
  BY <1>4, <1>5, <1>6, Fun_IsBij, Fun_ExistsBij
<1>8. IsFiniteSet(S) /\ Cardinality(S) \in Nat
  BY <1>1, QueuedCounts
<1>9. Cardinality(T) = Cardinality(S)
  BY <1>7, <1>8, FS_Bijection
<1>10. /\ IsFiniteSet(Queued(s, e)) /\ Cardinality(Queued(s, e)) \in Nat
       /\ 1 \in Queued(s, e) <=> e = Head(s)
  <2>1. 1 \in Queued(s, e) <=> e = Head(s)
    BY <1>1 DEF Queued
  <2> QED BY <2>1, QueuedCounts
<1>11. Cardinality(T) = IF 1 \in Queued(s, e) THEN Cardinality(Queued(s, e)) - 1
                        ELSE Cardinality(Queued(s, e))
  BY <1>10, FS_RemoveElement
<1> HIDE DEF S, T
<1>12. Cardinality(Queued(s, e)) = IF e = Head(s) THEN Cardinality(S) + 1 ELSE Cardinality(S)
  BY <1>8, <1>9, <1>10, <1>11
<1> QED BY <1>12 DEF S, t

LEMMA HandTakes ==
  ASSUME NEW f \in [Worker -> Envelope \cup {None}], NEW w \in Worker, f[w] = None,
         NEW x \in Envelope, NEW e \in Envelope
  PROVE  Cardinality(InHand([f EXCEPT ![w] = x], e)) =
           IF e = x THEN Cardinality(InHand(f, e)) + 1 ELSE Cardinality(InHand(f, e))
<1> DEFINE g == [f EXCEPT ![w] = x]
<1>1. g[w] = x /\ \A v \in Worker : v # w => g[v] = f[v]
  OBVIOUS
<1>2. w \notin InHand(f, e)
  BY Constants DEF InHand
<1> HIDE DEF g
<1>3. CASE e = x
  <2>1. InHand(g, e) = InHand(f, e) \cup {w}
    BY <1>1, <1>3 DEF InHand
  <2> QED BY <1>2, <1>3, <2>1, InHandCounts, FS_AddElement DEF g
<1>4. CASE e # x
  <2>1. InHand(g, e) = InHand(f, e)
    BY <1>1, <1>2, <1>4 DEF InHand
  <2> QED BY <1>4, <2>1 DEF g
<1> QED BY <1>3, <1>4

LEMMA HandEmpties ==
  ASSUME NEW f \in [Worker -> Envelope \cup {None}], NEW w \in Worker, f[w] # None,
         NEW e \in Envelope
  PROVE  Cardinality(InHand(f, e)) =
           IF e = f[w] THEN Cardinality(InHand([f EXCEPT ![w] = None], e)) + 1
           ELSE Cardinality(InHand([f EXCEPT ![w] = None], e))
<1> DEFINE g == [f EXCEPT ![w] = None]
<1>1. g[w] = None /\ \A v \in Worker : v # w => g[v] = f[v]
  OBVIOUS
<1>2. w \in InHand(f, e) <=> e = f[w]
  BY DEF InHand
<1> HIDE DEF g
<1>3. InHand(g, e) = InHand(f, e) \ {w}
  BY <1>1, Constants DEF InHand
<1>4. Cardinality(InHand(g, e)) = IF w \in InHand(f, e) THEN Cardinality(InHand(f, e)) - 1
                                  ELSE Cardinality(InHand(f, e))
  BY <1>3, InHandCounts, FS_RemoveElement
<1>5. Cardinality(InHand(f, e)) \in Nat
  BY InHandCounts
<1> QED BY <1>2, <1>4, <1>5 DEF g

LEMMA FinishForwards ==
  ASSUME SettingsInv, ForwardInv, NEW r \in Request, Finish(r)
  PROVE  ForwardInv'
<1> DEFINE e == req[r].env
<1>1. e \in Envelope
  BY DEF Finish, SettingsInv, RequestsOK, RowOK
<1>2. UNCHANGED <<sending, settled, server>>
  BY DEF Finish
<1>3. /\ jobs \in Seq(Envelope) /\ sending \in [Worker -> Envelope \cup {None}]
      /\ accepted \in [Envelope -> Nat] /\ settled \in [Envelope -> Nat] /\ dropped \in [Envelope -> Nat]
      /\ \A x \in Envelope : Balance(x)
      /\ server = "drained" => Drained
  BY DEF ForwardInv
<1>4. \A x \in Envelope : /\ Cardinality(Queued(jobs, x)) \in Nat
                          /\ Cardinality(InHand(sending, x)) \in Nat
  BY <1>3, QueuedCounts, InHandCounts
<1> HIDE DEF e
<1>5. CASE UNCHANGED <<accepted, jobs, dropped>>
  BY <1>2, <1>3, <1>5 DEF ForwardInv, Balance, Drained
<1>6. CASE /\ accepted' = [accepted EXCEPT ![e] = @ + 1]
           /\ dropped' = [dropped EXCEPT ![e] = @ + 1] /\ UNCHANGED jobs
  <2>1. accepted' \in [Envelope -> Nat] /\ dropped' \in [Envelope -> Nat]
    BY <1>1, <1>3, <1>6
  <2>2. ASSUME NEW x \in Envelope PROVE Balance(x)'
    <3>1. CASE x = e
      <4>1. accepted'[x] = accepted[x] + 1 /\ dropped'[x] = dropped[x] + 1
        BY <1>1, <1>3, <1>6, <3>1
      <4> QED BY <1>2, <1>3, <1>4, <1>6, <4>1 DEF Balance
    <3>2. CASE x # e
      <4>1. accepted'[x] = accepted[x] /\ dropped'[x] = dropped[x]
        BY <1>1, <1>3, <1>6, <3>2
      <4> QED BY <1>2, <1>3, <1>6, <4>1 DEF Balance
    <3> QED BY <3>1, <3>2
  <2> QED BY <1>2, <1>3, <1>6, <2>1, <2>2 DEF ForwardInv, Drained
<1>7. CASE /\ accepted' = [accepted EXCEPT ![e] = @ + 1]
           /\ jobs' = Append(jobs, e) /\ UNCHANGED dropped /\ ~Closed
  <2>1. accepted' \in [Envelope -> Nat] /\ jobs' \in Seq(Envelope)
    BY <1>1, <1>3, <1>7
  <2>2. ASSUME NEW x \in Envelope PROVE Balance(x)'
    <3> DEFINE c == Cardinality(Queued(jobs, x))
               d == Cardinality(Queued(jobs', x))
    <3>1. d = IF x = e THEN c + 1 ELSE c
      BY <1>1, <1>3, <1>7, QueuedAppended
    <3>2. accepted'[x] = IF x = e THEN accepted[x] + 1 ELSE accepted[x]
      BY <1>1, <1>3, <1>7
    <3>3. settled[x] + dropped[x] + c + Cardinality(InHand(sending, x)) = accepted[x]
      BY <1>3 DEF Balance
    <3>4. c \in Nat /\ settled[x] \in Nat /\ dropped[x] \in Nat
          /\ Cardinality(InHand(sending, x)) \in Nat
      BY <1>3, <1>4
    <3> HIDE DEF c, d
    <3>5. settled[x] + dropped[x] + d + Cardinality(InHand(sending, x)) = accepted'[x]
      BY <3>1, <3>2, <3>3, <3>4
    <3> QED BY <1>2, <1>7, <3>5 DEF Balance, d
  <2>3. server # "drained"
    BY <1>7 DEF Closed
  <2> QED BY <1>2, <1>3, <1>7, <2>1, <2>2, <2>3 DEF ForwardInv
<1> QED
  BY <1>5, <1>6, <1>7 DEF Finish, e

LEMMA TakesJob ==
  ASSUME ForwardInv, NEW w \in Worker, TakeJob(w)
  PROVE  ForwardInv'
<1> DEFINE h == Head(jobs)
<1>1. /\ sending[w] = None /\ jobs # <<>> /\ jobs' = Tail(jobs)
      /\ sending' = [sending EXCEPT ![w] = h] /\ UNCHANGED <<accepted, settled, dropped, server>>
  BY DEF TakeJob
<1>2. /\ jobs \in Seq(Envelope) /\ sending \in [Worker -> Envelope \cup {None}]
      /\ \A x \in Envelope : Balance(x) /\ settled[x] \in Nat /\ dropped[x] \in Nat
  BY DEF ForwardInv
<1>3. h \in Envelope /\ jobs' \in Seq(Envelope)
  BY <1>1, <1>2
<1>4. sending' \in [Worker -> Envelope \cup {None}]
  BY <1>1, <1>2, <1>3
<1> HIDE DEF h
<1>5. ASSUME NEW x \in Envelope PROVE Balance(x)'
  <2> DEFINE c == Cardinality(Queued(jobs, x))
             d == Cardinality(Queued(jobs', x))
             a == Cardinality(InHand(sending, x))
             b == Cardinality(InHand(sending', x))
  <2>1. c = IF x = h THEN d + 1 ELSE d
    BY <1>1, <1>2, QueuedTaken DEF h
  <2>2. b = IF x = h THEN a + 1 ELSE a
    BY <1>1, <1>2, <1>3, HandTakes
  <2>3. d \in Nat /\ a \in Nat
    BY <1>3, QueuedCounts, InHandCounts
  <2>4. settled[x] + dropped[x] + c + a = accepted[x]
    BY <1>2 DEF Balance
  <2>6. settled[x] \in Nat /\ dropped[x] \in Nat
    BY <1>2
  <2> HIDE DEF a, b, c, d
  <2>5. settled[x] + dropped[x] + d + b = accepted[x]
    BY <2>1, <2>2, <2>3, <2>4, <2>6
  <2> QED BY <1>1, <2>5 DEF Balance, b, d
<1>6. server # "drained"
  BY <1>1 DEF ForwardInv, Drained
<1> QED BY <1>1, <1>3, <1>4, <1>5, <1>6 DEF ForwardInv

LEMMA Delivers ==
  ASSUME ForwardInv, NEW w \in Worker, forwardEnvelope(w)
  PROVE  ForwardInv'
<1> DEFINE h == sending[w]
<1>1. /\ h # None /\ settled' = [settled EXCEPT ![h] = @ + 1]
      /\ sending' = [sending EXCEPT ![w] = None] /\ UNCHANGED <<accepted, jobs, dropped, server>>
  BY DEF forwardEnvelope
<1>2. /\ jobs \in Seq(Envelope) /\ sending \in [Worker -> Envelope \cup {None}]
      /\ settled \in [Envelope -> Nat]
      /\ \A x \in Envelope : Balance(x) /\ settled[x] \in Nat /\ dropped[x] \in Nat
  BY DEF ForwardInv
<1>3. h \in Envelope
  BY <1>1, <1>2
<1>4. sending' \in [Worker -> Envelope \cup {None}] /\ settled' \in [Envelope -> Nat]
  BY <1>1, <1>2, <1>3
<1>5. ASSUME NEW x \in Envelope PROVE Balance(x)'
  <2> DEFINE c == Cardinality(Queued(jobs, x))
             a == Cardinality(InHand(sending, x))
             b == Cardinality(InHand(sending', x))
  <2>1. a = IF x = h THEN b + 1 ELSE b
    BY <1>1, <1>2, HandEmpties
  <2>2. settled'[x] = IF x = h THEN settled[x] + 1 ELSE settled[x]
    BY <1>1, <1>2, <1>3
  <2>3. c \in Nat /\ a \in Nat /\ b \in Nat
    BY <1>2, QueuedCounts, InHandCounts
  <2>4. settled[x] + dropped[x] + c + a = accepted[x]
    BY <1>2 DEF Balance
  <2>6. settled[x] \in Nat /\ dropped[x] \in Nat
    BY <1>2
  <2> HIDE DEF a, b, c, h
  <2>5. settled'[x] + dropped[x] + c + b = accepted[x]
    BY <2>1, <2>2, <2>3, <2>4, <2>6
  <2> QED BY <1>1, <2>5 DEF Balance, b, c
<1>6. server # "drained"
  BY <1>1 DEF ForwardInv, Drained
<1> QED BY <1>1, <1>4, <1>5, <1>6 DEF ForwardInv

LEMMA ShutsDown ==
  ASSUME ForwardInv, ServerShutdown \/ Close
  PROVE  ForwardInv'
<1>1. UNCHANGED <<accepted, jobs, sending, settled, dropped>>
  BY DEF ServerShutdown, Close, Shutdown, forwardVars
<1>2. server' = "drained" => Drained
  BY DEF ServerShutdown, Close, Shutdown
<1> QED BY <1>1, <1>2 DEF ForwardInv, Balance, Drained

LEMMA ForwardInvInit == Init => ForwardInv
<1> SUFFICES ASSUME Init PROVE ForwardInv
  OBVIOUS
<1>1. /\ jobs = <<>> /\ sending = [w \in Worker |-> None] /\ server = "up"
      /\ accepted = [x \in Envelope |-> 0] /\ settled = [x \in Envelope |-> 0]
      /\ dropped = [x \in Envelope |-> 0]
  BY DEF Init
<1>2. ASSUME NEW x \in Envelope PROVE Balance(x)
  <2>1. Queued(jobs, x) = {}
    BY <1>1 DEF Queued
  <2>2. InHand(sending, x) = {}
    BY <1>1, Constants DEF InHand
  <2>3. Cardinality(Queued(jobs, x)) = 0 /\ Cardinality(InHand(sending, x)) = 0
    BY <2>1, <2>2, FS_EmptySet
  <2>4. accepted[x] = 0 /\ settled[x] = 0 /\ dropped[x] = 0
    BY <1>1
  <2> QED BY <2>3, <2>4 DEF Balance
<1>3. /\ jobs \in Seq(Envelope) /\ sending \in [Worker -> Envelope \cup {None}]
      /\ {accepted, settled, dropped} \subseteq [Envelope -> Nat]
  BY <1>1
<1> QED BY <1>1, <1>2, <1>3 DEF ForwardInv

LEMMA ForwardInvStep == SettingsInv /\ ForwardInv /\ [Next]_vars => ForwardInv'
<1> SUFFICES ASSUME SettingsInv, ForwardInv, [Next]_vars PROVE ForwardInv'
  OBVIOUS
<1>1. ASSUME UNCHANGED <<forwardVars, server>> PROVE ForwardInv'
  BY <1>1 DEF ForwardInv, Balance, Drained, forwardVars
<1>2. CASE handleUpdateProject \/ handleDeleteProject \/ RemoteUpdate
  BY <1>1, <1>2 DEF handleUpdateProject, handleDeleteProject, RemoteUpdate
<1>3. CASE \E v \in saved : invalidate(v)
  BY <1>1, <1>3 DEF invalidate
<1>4. ASSUME NEW r \in Request, handleEnvelope(r) PROVE ForwardInv'
  <2>1. CASE \E m \in busy.requests : Receive(r, m.env, m.key, m.client)
    BY <1>1, <2>1 DEF Receive
  <2>2. CASE lookup(r) \/ LookupFails(r)
    BY <1>1, <2>2 DEF lookup, LookupHit, LookupQuery, LookupStore, LookupFails
  <2>3. CASE UnknownKey(r) \/ RateLimit(r) \/ EventLimitCheck(r)
    BY <1>1, <2>3 DEF UnknownKey, RateLimit, EventLimitCheck
  <2>4. CASE ReadBody(r) \/ PushItem(r)
    BY <1>1, <2>4 DEF ReadBody, PushItem
  <2>5. CASE Finish(r)
    BY <2>5, FinishForwards
  <2> QED
    BY <1>4, <2>1, <2>2, <2>3, <2>4, <2>5 DEF handleEnvelope
<1>5. CASE EventsStored \/ TimePasses
  BY <1>1, <1>5 DEF EventsStored, TimePasses
<1>6. ASSUME NEW w \in Worker, TakeJob(w) \/ forwardEnvelope(w) PROVE ForwardInv'
  BY <1>6, TakesJob, Delivers
<1>7. CASE ServerShutdown \/ Close
  BY <1>7, ShutsDown
<1>8. CASE UNCHANGED vars
  BY <1>1, <1>8 DEF vars
<1> QED
  BY <1>2, <1>3, <1>4, <1>5, <1>6, <1>7, <1>8 DEF Next

\* Upstream gets an envelope at most once for each time it was accepted, and
\* when Close says that the queue is drained every acceptance is accounted for
\* (Enqueue, forwardEnvelope, Close).
THEOREM ForwardedOnceHolds == Spec => []ForwardedOnce
<1>1. SettingsInv /\ ForwardInv /\ [Next]_vars => ForwardInv'
  BY ForwardInvStep
<1>2. ASSUME ForwardInv PROVE ForwardedOnce
  <2>1. ASSUME NEW e \in Envelope
        PROVE  /\ settled[e] + dropped[e] <= accepted[e]
               /\ server = "drained" => settled[e] + dropped[e] = accepted[e]
    <3> DEFINE c == Cardinality(Queued(jobs, e))
               a == Cardinality(InHand(sending, e))
    <3>1. settled[e] \in Nat /\ dropped[e] \in Nat /\ c \in Nat /\ a \in Nat
      BY <1>2, QueuedCounts, InHandCounts DEF ForwardInv
    <3>2. settled[e] + dropped[e] + c + a = accepted[e]
      BY <1>2 DEF ForwardInv, Balance
    <3>3. ASSUME server = "drained" PROVE c = 0 /\ a = 0
      <4>1. jobs = <<>> /\ \A w \in Worker : sending[w] = None
        BY <1>2, <3>3 DEF ForwardInv, Drained
      <4>2. Queued(jobs, e) = {} /\ InHand(sending, e) = {}
        BY <4>1, Constants DEF Queued, InHand
      <4> QED BY <4>2, FS_EmptySet
    <3> HIDE DEF a, c
    <3> QED BY <3>1, <3>2, <3>3
  <2> QED BY <2>1 DEF ForwardedOnce
<1>3. ForwardInv => ForwardedOnce
  BY <1>2
<1> QED BY <1>1, <1>3, ForwardInvInit, SettingsInvHolds, PTL DEF Spec

(***************************************************************************)
(* Sums.  What the rate limit let through is counted by a set of passes,   *)
(* the nth at time u being <<u, n>>: the sum over some times is the number *)
(* of passes then.                                                         *)
(***************************************************************************)
Takes(c, S) == {p \in S \X Nat : 1 <= p[2] /\ p[2] <= c[p[1]]}

\* A set of numbers that is not empty has a least element.
LEMMA LeastNatural ==
  ASSUME NEW T \in SUBSET Nat, T # {}
  PROVE  \E m \in T : \A n \in T : m <= n
<1>1. PICK m \in T : \A n \in T : ~ (<<n, m>> \in OpToRel(<, Nat))
  BY NatLessThanWellFounded, WFMin
<1>2. \A n \in T : ~ (n < m)
  BY <1>1 DEF OpToRel
<1> QED BY <1>2

LEMMA TimesFinite == ASSUME NEW S \in SUBSET Time
                     PROVE  IsFiniteSet(S) /\ Cardinality(S) \in Nat
<1>1. IsFiniteSet(Time)
  BY IntakeAssumption, FS_Interval DEF Time
<1> QED BY <1>1, FS_Subset, FS_CardinalityType

LEMMA TakesOne ==
  ASSUME NEW c \in [Time -> Nat], NEW u \in Time
  PROVE  IsFiniteSet(Takes(c, {u})) /\ Cardinality(Takes(c, {u})) = c[u]
<1>1. Takes(c, {u}) = {u} \X (1 .. c[u])
  <2>1. ASSUME NEW p \in Takes(c, {u}) PROVE p \in {u} \X (1 .. c[u])
    BY DEF Takes
  <2>2. ASSUME NEW p \in {u} \X (1 .. c[u]) PROVE p \in Takes(c, {u})
    <3>1. p = <<p[1], p[2]>> /\ p[1] = u /\ p[2] \in 1 .. c[u]
      OBVIOUS
    <3> QED BY <3>1 DEF Takes
  <2> QED BY <2>1, <2>2
<1>2. IsFiniteSet({u}) /\ Cardinality({u}) = 1
  BY FS_Singleton
<1>3. IsFiniteSet(1 .. c[u]) /\ Cardinality(1 .. c[u]) = c[u]
  <2>1. c[u] \in Nat
    OBVIOUS
  <2> QED BY <2>1, FS_Interval
<1> DEFINE A == {u}
           B == 1 .. c[u]
<1>4. IsFiniteSet(A) /\ IsFiniteSet(B) /\ Cardinality(A) = 1 /\ Cardinality(B) = c[u]
  BY <1>2, <1>3
<1>5. Takes(c, {u}) = A \X B /\ c[u] \in Nat
  BY <1>1
<1> HIDE DEF A, B
<1>6. IsFiniteSet(A \X B) /\ Cardinality(A \X B) = Cardinality(A) * Cardinality(B)
  BY <1>4, FS_Product
<1>7. 1 * c[u] = c[u]
  BY <1>5
<1> QED BY <1>4, <1>5, <1>6, <1>7

LEMMA TakesSplit ==
  ASSUME NEW c, NEW S, NEW T
  PROVE  Takes(c, S \cup T) = Takes(c, S) \cup Takes(c, T)
  BY DEF Takes

\* The passes of a set of times are finitely many: by least counterexample.
LEMMA TakesFinite ==
  ASSUME NEW c \in [Time -> Nat], NEW S \in SUBSET Time
  PROVE  IsFiniteSet(Takes(c, S)) /\ Cardinality(Takes(c, S)) \in Nat
<1> DEFINE Bad == {n \in Nat : \E s \in SUBSET Time : Cardinality(s) = n /\ ~IsFiniteSet(Takes(c, s))}
<1>1. Bad = {}
  <2> SUFFICES ASSUME Bad # {} PROVE FALSE
    OBVIOUS
  <2>1. PICK m \in Bad : \A n \in Bad : m <= n
    <3>1. Bad \in SUBSET Nat
      OBVIOUS
    <3> HIDE DEF Bad
    <3> QED BY <3>1, LeastNatural
  <2>2. PICK s \in SUBSET Time : Cardinality(s) = m /\ ~IsFiniteSet(Takes(c, s))
    BY <2>1
  <2>3. s # {}
    <3>1. Takes(c, {}) = {}
      BY DEF Takes
    <3> QED BY <2>2, <3>1, FS_EmptySet
  <2>4. PICK u \in s : TRUE
    BY <2>3
  <2> DEFINE t == s \ {u}
  <2>5. t \in SUBSET Time /\ Cardinality(t) = m - 1 /\ m - 1 \in Nat
    <3>1. IsFiniteSet(s) /\ Cardinality(t) \in Nat
      BY TimesFinite
    <3> QED BY <2>2, <3>1, FS_RemoveElement
  <2>6. IsFiniteSet(Takes(c, t))
    <3>1. m \in Nat /\ ~(m <= m - 1)
      BY <2>5, <2>1
    <3>2. m - 1 \notin Bad
      BY <2>1, <3>1
    <3> QED BY <2>5, <3>2
  <2>7. Takes(c, s) = Takes(c, t) \cup Takes(c, {u})
    <3>1. s = t \cup {u}
      BY <2>4
    <3> QED BY <3>1, TakesSplit
  <2>8. IsFiniteSet(Takes(c, {u}))
    BY <2>4, TakesOne
  <2>9. IsFiniteSet(Takes(c, t) \cup Takes(c, {u}))
    BY <2>6, <2>8, FS_Union
  <2> QED BY <2>2, <2>7, <2>9
<1>2. IsFiniteSet(Takes(c, S))
  <2>1. Cardinality(S) \in Nat
    BY TimesFinite
  <2> QED BY <1>1, <2>1
<1> QED BY <1>2, FS_CardinalityType

\* Passes at times that are not shared add up.
LEMMA TakesAdd ==
  ASSUME NEW c \in [Time -> Nat], NEW S \in SUBSET Time, NEW T \in SUBSET Time, S \cap T = {}
  PROVE  Cardinality(Takes(c, S \cup T)) = Cardinality(Takes(c, S)) + Cardinality(Takes(c, T))
<1> DEFINE P == Takes(c, S)
           Q == Takes(c, T)
<1>1. IsFiniteSet(P) /\ IsFiniteSet(Q) /\ Cardinality(P) \in Nat /\ Cardinality(Q) \in Nat
  BY TakesFinite
<1>2. P \cap Q = {}
  BY DEF Takes
<1>3. Takes(c, S \cup T) = P \cup Q
  BY TakesSplit
<1> HIDE DEF P, Q
<1>4. Cardinality(P \cup Q) = Cardinality(P) + Cardinality(Q) - Cardinality(P \cap Q)
  BY <1>1, FS_Union
<1>5. Cardinality(P \cup Q) = Cardinality(P) + Cardinality(Q)
  <2>1. Cardinality(P \cap Q) = 0
    BY <1>2, FS_EmptySet
  <2> QED BY <1>1, <1>4, <2>1
<1> QED BY <1>3, <1>5 DEF P, Q

\* What MapThenSumSet does with one set, given the sums of the smaller ones.
Pick(s) == CHOOSE x \in s : TRUE
SumStep(c, g, s) == IF s = {} THEN 0 ELSE c[Pick(s)] + g[s \ {Pick(s)}]

LEMMA SumIsTakes ==
  ASSUME NEW c \in [Time -> Nat], NEW S \in SUBSET Time
  PROVE  MapThenSumSet(LAMBDA u : c[u], S) = Cardinality(Takes(c, S))
<1> DEFINE g == [s \in SUBSET S |-> Cardinality(Takes(c, s))]
           h == CHOOSE f : f = [s \in SUBSET S |-> SumStep(c, f, s)]
           Bad == {n \in Nat : \E s \in SUBSET S : Cardinality(s) = n /\ h[s] # g[s]}
<1>1. ASSUME NEW s \in SUBSET S PROVE g[s] = SumStep(c, g, s)
  <2>1. CASE s = {}
    <3>1. Takes(c, s) = {}
      BY <2>1 DEF Takes
    <3> QED BY <2>1, <3>1, FS_EmptySet DEF SumStep
  <2>2. CASE s # {}
    <3> DEFINE u == Pick(s)
               t == s \ {u}
    <3>1. u \in s /\ u \in Time
      BY <2>2 DEF Pick
    <3>2. s = t \cup {u} /\ t \cap {u} = {} /\ t \in SUBSET Time /\ t \in SUBSET S /\ {u} \in SUBSET Time
      BY <3>1
    <3> HIDE DEF u, t
    <3>3. Cardinality(Takes(c, s)) = Cardinality(Takes(c, t)) + Cardinality(Takes(c, {u}))
      BY <3>2, TakesAdd
    <3>4. Cardinality(Takes(c, {u})) = c[u] /\ c[u] \in Nat /\ Cardinality(Takes(c, t)) \in Nat
      BY <3>1, <3>2, TakesOne, TakesFinite
    <3>5. g[s] = c[u] + g[t]
      BY <3>2, <3>3, <3>4
    <3> QED BY <2>2, <3>5 DEF SumStep, u, t
  <2> QED BY <2>1, <2>2
<1>2. g = [s \in SUBSET S |-> SumStep(c, g, s)]
  BY <1>1
<1> HIDE DEF g
<1>3. h = [s \in SUBSET S |-> SumStep(c, h, s)]
  BY <1>2
<1> HIDE DEF h
<1>4. Bad = {}
  <2> SUFFICES ASSUME Bad # {} PROVE FALSE
    OBVIOUS
  <2>1. PICK m \in Bad : \A n \in Bad : m <= n
    <3>1. Bad \in SUBSET Nat
      OBVIOUS
    <3> HIDE DEF Bad
    <3> QED BY <3>1, LeastNatural
  <2>2. PICK s \in SUBSET S : Cardinality(s) = m /\ h[s] # g[s]
    BY <2>1
  <2>3. h[s] = SumStep(c, h, s) /\ g[s] = SumStep(c, g, s)
    BY <1>1, <1>3
  <2>4. s # {}
    BY <2>2, <2>3 DEF SumStep
  <2> DEFINE t == s \ {Pick(s)}
  <2>5. Pick(s) \in s
    BY <2>4 DEF Pick
  <2>6. t \in SUBSET S /\ Cardinality(t) = m - 1 /\ m - 1 \in Nat
    <3>1. IsFiniteSet(s) /\ Cardinality(t) \in Nat
      BY TimesFinite
    <3> QED BY <2>2, <2>5, <3>1, FS_RemoveElement
  <2>7. h[t] = g[t]
    <3>1. m \in Nat /\ ~(m <= m - 1)
      BY <2>1, <2>6
    <3>2. m - 1 \notin Bad
      BY <2>1, <3>1
    <3> QED BY <2>6, <3>2
  <2> QED BY <2>2, <2>3, <2>4, <2>7 DEF SumStep
<1>5. h[S] = g[S]
  <2>1. Cardinality(S) \in Nat
    BY TimesFinite
  <2> QED BY <1>4, <2>1
<1>6. MapThenSumSet(LAMBDA u : c[u], S) = h[S]
  BY DEF MapThenSumSet, MapThenFoldSet, SumStep, Pick, h
<1> QED BY <1>5, <1>6 DEF g

(***************************************************************************)
(* The limits.                                                             *)
(***************************************************************************)
Between(a, b) == {u \in Time : a <= u /\ u <= b}
PassedIn(c, a, b) == Cardinality(Takes(c, Between(a, b)))

\* A window of the limiter began with a pass, its entry counts all passes
\* since, and a stretch that reaches back before it misses one pass at least of
\* the windows before: their first.
Paced(c, n, e) ==
  /\ c \in [Time -> Nat] /\ n \in Time /\ e \in [count : Nat, resetAt : Int]
  /\ \A u \in Time : c[u] > 0 => u <= n /\ u <= e.resetAt
  /\ e.count = 0 => e.resetAt = -1
  /\ e.count > 0 =>
       LET s == e.resetAt - Window
       IN /\ s \in Time /\ s <= n /\ c[s] > 0
          /\ e.count <= EnvelopeLimit /\ PassedIn(c, s, MaxTime) = e.count
          /\ \A t \in Time : t < s /\ s <= t + Window => PassedIn(c, t, s - 1) < EnvelopeLimit
  /\ EnvelopeLimit > 0 => \A t \in Time : PassedIn(c, t, t + Window) <= 2 * EnvelopeLimit - 1

LEMMA LimitConstants ==
  /\ Window \in Nat /\ Window > 0 /\ EnvelopeLimit \in Nat /\ MaxTime \in Nat
  /\ Time = 0 .. MaxTime /\ \A u \in Time : u \in Nat /\ u <= MaxTime
<1>1. Window \in Nat /\ Window > 0 /\ EnvelopeLimit \in Nat /\ MaxTime \in Nat
  BY IntakeAssumption
<1> QED BY <1>1 DEF Time

LEMMA PassedType ==
  ASSUME NEW c \in [Time -> Nat], NEW a, NEW b
  PROVE  Between(a, b) \in SUBSET Time /\ PassedIn(c, a, b) \in Nat
  BY TakesFinite DEF Between, PassedIn

\* Fewer times, fewer passes.
LEMMA TakesFewer ==
  ASSUME NEW c \in [Time -> Nat], NEW T \in SUBSET Time, NEW S \in SUBSET T
  PROVE  Cardinality(Takes(c, S)) <= Cardinality(Takes(c, T))
<1>1. IsFiniteSet(Takes(c, T))
  BY TakesFinite
<1>2. Takes(c, S) \in SUBSET Takes(c, T)
  BY DEF Takes
<1> QED BY <1>1, <1>2, FS_Subset

\* Without a time at which something passed, fewer by one at least.
LEMMA TakesMissing ==
  ASSUME NEW c \in [Time -> Nat], NEW T \in SUBSET Time, NEW x \in T, c[x] > 0,
         NEW S \in SUBSET T, x \notin S
  PROVE  Cardinality(Takes(c, S)) < Cardinality(Takes(c, T))
<1>1. S \cup {x} \in SUBSET T /\ S \in SUBSET Time /\ {x} \in SUBSET Time /\ S \cap {x} = {}
  OBVIOUS
<1>2. Cardinality(Takes(c, S \cup {x})) = Cardinality(Takes(c, S)) + Cardinality(Takes(c, {x}))
  BY <1>1, TakesAdd
<1>3. Cardinality(Takes(c, {x})) = c[x] /\ c[x] \in Nat
  BY TakesOne
<1>4. Cardinality(Takes(c, S \cup {x})) <= Cardinality(Takes(c, T))
  BY <1>1, TakesFewer
<1>5. Cardinality(Takes(c, S)) \in Nat /\ Cardinality(Takes(c, T)) \in Nat
  BY <1>1, TakesFinite
<1> QED BY <1>2, <1>3, <1>4, <1>5

LEMMA TakesNone ==
  ASSUME NEW c \in [Time -> Nat], NEW S \in SUBSET Time, \A u \in S : ~(c[u] > 0)
  PROVE  Cardinality(Takes(c, S)) = 0
<1>1. ASSUME NEW p \in Takes(c, S) PROVE FALSE
  <2>1. p[1] \in S /\ p[2] \in Nat /\ 1 <= p[2] /\ p[2] <= c[p[1]]
    BY DEF Takes
  <2>2. c[p[1]] \in Nat /\ ~(c[p[1]] > 0)
    BY <2>1
  <2> QED BY <2>1, <2>2
<1>2. Takes(c, S) = {}
  BY <1>1
<1> QED BY <1>2, FS_EmptySet

\* One more pass counts where its time does.
LEMMA TakesOneMore ==
  ASSUME NEW c \in [Time -> Nat], NEW x \in Time, NEW S \in SUBSET Time
  PROVE  Cardinality(Takes([c EXCEPT ![x] = @ + 1], S)) =
           IF x \in S THEN Cardinality(Takes(c, S)) + 1 ELSE Cardinality(Takes(c, S))
<1> DEFINE d == [c EXCEPT ![x] = @ + 1]
           T == S \ {x}
<1>1. d \in [Time -> Nat] /\ d[x] = c[x] + 1 /\ \A u \in Time : u # x => d[u] = c[u]
  OBVIOUS
<1> HIDE DEF d
<1>2. T \in SUBSET Time /\ {x} \in SUBSET Time /\ T \cap {x} = {} /\ x \notin T
  OBVIOUS
<1> HIDE DEF T
<1>3. Takes(d, T) = Takes(c, T)
  BY <1>1, <1>2 DEF Takes
<1>4. CASE x \in S
  <2>1. S = T \cup {x}
    BY <1>4 DEF T
  <2>2. /\ Cardinality(Takes(d, S)) = Cardinality(Takes(d, T)) + Cardinality(Takes(d, {x}))
        /\ Cardinality(Takes(c, S)) = Cardinality(Takes(c, T)) + Cardinality(Takes(c, {x}))
    BY <1>1, <1>2, <2>1, TakesAdd
  <2>3. Cardinality(Takes(d, {x})) = c[x] + 1 /\ Cardinality(Takes(c, {x})) = c[x] /\ c[x] \in Nat
    BY <1>1, TakesOne
  <2>4. Cardinality(Takes(c, T)) \in Nat
    BY <1>2, TakesFinite
  <2> QED BY <1>3, <1>4, <2>2, <2>3, <2>4 DEF d
<1>5. CASE x \notin S
  <2>1. S = T
    BY <1>5 DEF T
  <2> QED BY <1>3, <1>5, <2>1 DEF d
<1> QED BY <1>4, <1>5

\* A stretch in two parts.
LEMMA PassedParts ==
  ASSUME NEW c \in [Time -> Nat], NEW a \in Int, NEW b \in Int, NEW m \in Int
  PROVE  PassedIn(c, a, b) <= PassedIn(c, a, m - 1) + PassedIn(c, m, MaxTime)
<1> DEFINE S == Between(a, m - 1)
           T == Between(m, MaxTime)
           B == Between(a, b)
<1>1. S \in SUBSET Time /\ T \in SUBSET Time /\ B \in SUBSET Time
  BY DEF Between
<1>2. B \in SUBSET (S \cup T) /\ S \cap T = {}
  <2>1. ASSUME NEW u \in B PROVE u \in S \cup T
    <3>1. u \in Time /\ u \in Nat /\ a <= u /\ u <= MaxTime
      BY LimitConstants DEF Between
    <3>2. u <= m - 1 \/ m <= u
      BY <3>1
    <3> QED BY <3>1, <3>2 DEF Between
  <2>2. ASSUME NEW u \in S, u \in T PROVE FALSE
    <3>1. u \in Nat /\ u <= m - 1 /\ m <= u
      BY <2>2, LimitConstants DEF Between
    <3> QED BY <3>1
  <2> QED BY <2>1, <2>2
<1> HIDE DEF S, T, B
<1>3. Cardinality(Takes(c, B)) <= Cardinality(Takes(c, S \cup T))
  <2>1. S \cup T \in SUBSET Time
    BY <1>1
  <2> QED BY <1>2, <2>1, TakesFewer
<1>4. Cardinality(Takes(c, S \cup T)) = Cardinality(Takes(c, S)) + Cardinality(Takes(c, T))
  BY <1>1, <1>2, TakesAdd
<1> QED BY <1>3, <1>4 DEF PassedIn, S, T, B

LEMMA WindowBegins ==
  ASSUME NEW c, NEW n, NEW e, Paced(c, n, e), EnvelopeLimit > 0, n > e.resetAt
  PROVE  Paced([c EXCEPT ![n] = @ + 1], n, [count |-> 1, resetAt |-> n + Window])
<1> DEFINE d == [c EXCEPT ![n] = @ + 1]
           f == [count |-> 1, resetAt |-> n + Window]
           L == EnvelopeLimit
           s == e.resetAt - Window
<1> USE LimitConstants
<1>1. /\ c \in [Time -> Nat] /\ n \in Time /\ n \in Nat /\ e.count \in Nat /\ e.resetAt \in Int
      /\ \A u \in Time : c[u] > 0 => u <= e.resetAt
      /\ \A t \in Time : PassedIn(c, t, t + Window) <= 2 * L - 1
  BY DEF Paced
<1>2. d \in [Time -> Nat] /\ d[n] = c[n] + 1 /\ \A u \in Time : u # n => d[u] = c[u]
  BY <1>1
<1>3. \A S \in SUBSET Time : Cardinality(Takes(d, S)) =
        IF n \in S THEN Cardinality(Takes(c, S)) + 1 ELSE Cardinality(Takes(c, S))
  BY <1>1, TakesOneMore
<1> HIDE DEF d
<1>4. f \in [count : Nat, resetAt : Int] /\ f.count = 1 /\ f.resetAt = n + Window
      /\ f.resetAt - Window = n
  BY <1>1
<1> HIDE DEF f
<1>5. PassedIn(c, n, MaxTime) = 0
  <2>1. \A u \in Between(n, MaxTime) : ~(c[u] > 0)
    <3> SUFFICES ASSUME NEW u \in Between(n, MaxTime), c[u] > 0 PROVE FALSE
      OBVIOUS
    <3>1. u \in Nat /\ n <= u /\ u <= e.resetAt
      BY <1>1 DEF Between
    <3> QED BY <1>1, <3>1
  <2> QED BY <1>1, <2>1, PassedType, TakesNone DEF PassedIn
\* A stretch that ends before the new window misses the first pass of the last.
<1>6. ASSUME NEW t \in Time, t <= n, n <= t + Window PROVE PassedIn(c, t, n - 1) < L
  <2> DEFINE S == Between(t, n - 1)
  <2>1. S \in SUBSET Time
    BY DEF Between
  <2>2. CASE e.count = 0
    <3>1. e.resetAt = -1
      BY <2>2 DEF Paced
    <3>2. \A u \in S : ~(c[u] > 0)
      <4> SUFFICES ASSUME NEW u \in S, c[u] > 0 PROVE FALSE
        OBVIOUS
      <4>1. u \in Nat /\ u <= e.resetAt
        BY <1>1, <2>1
      <4> QED BY <3>1, <4>1
    <3>3. Cardinality(Takes(c, S)) = 0
      BY <1>1, <2>1, <3>2, TakesNone
    <3> QED BY <3>3 DEF PassedIn
  <2>3. CASE e.count # 0
    <3>1. /\ s \in Time /\ c[s] > 0 /\ e.count <= L /\ PassedIn(c, s, MaxTime) = e.count
      BY <1>1, <2>3 DEF Paced
    <3>2. s < t
      BY <1>1, <1>6, <3>1
    <3> HIDE DEF s
    <3>3. s \notin S /\ s \in Between(s, MaxTime) /\ S \in SUBSET Between(s, MaxTime)
      BY <1>1, <3>1, <3>2 DEF Between
    <3>4. Between(s, MaxTime) \in SUBSET Time
      BY DEF Between
    <3>5. Cardinality(Takes(c, S)) < Cardinality(Takes(c, Between(s, MaxTime)))
      BY <1>1, <3>1, <3>3, <3>4, TakesMissing
    <3>6. Cardinality(Takes(c, S)) \in Nat
      BY <1>1, <2>1, TakesFinite
    <3> QED BY <1>1, <3>1, <3>5, <3>6 DEF PassedIn
  <2> QED BY <2>2, <2>3
<1>7. \A u \in Time : d[u] > 0 => u <= n /\ u <= f.resetAt
  <2> SUFFICES ASSUME NEW u \in Time, d[u] > 0 PROVE u <= n /\ u <= f.resetAt
    OBVIOUS
  <2>1. CASE u = n
    BY <1>1, <1>4, <2>1
  <2>2. CASE u # n
    <3>1. d[u] = c[u]
      BY <1>2, <2>2
    <3>2. c[u] > 0
      BY <3>1
    <3>3. u <= e.resetAt /\ u \in Nat
      BY <1>1, <3>2
    <3> QED BY <1>1, <1>4, <3>3
  <2> QED BY <2>1, <2>2
<1>8. PassedIn(d, n, MaxTime) = 1
  <2>1. n \in Between(n, MaxTime) /\ Between(n, MaxTime) \in SUBSET Time
    BY <1>1 DEF Between
  <2> QED BY <1>3, <1>5, <2>1 DEF PassedIn
<1>9. ASSUME NEW t \in Time, t < n, n <= t + Window PROVE PassedIn(d, t, n - 1) < L
  <2>1. n \notin Between(t, n - 1) /\ Between(t, n - 1) \in SUBSET Time
    BY <1>1 DEF Between
  <2>2. PassedIn(d, t, n - 1) = PassedIn(c, t, n - 1)
    BY <1>3, <2>1 DEF PassedIn
  <2>3. t <= n
    BY <1>1, <1>9
  <2> QED BY <1>6, <1>9, <2>2, <2>3
<1>10. ASSUME NEW t \in Time PROVE PassedIn(d, t, t + Window) <= 2 * L - 1
  <2> DEFINE B == Between(t, t + Window)
  <2>1. B \in SUBSET Time
    BY DEF Between
  <2>2. CASE n \notin B
    BY <1>1, <1>3, <2>1, <2>2 DEF PassedIn
  <2>3. CASE n \in B
    <3>1. t <= n /\ n <= t + Window
      BY <2>3 DEF Between
    <3>2. PassedIn(d, t, t + Window) = PassedIn(c, t, t + Window) + 1
      BY <1>3, <2>1, <2>3 DEF PassedIn
    <3>3. PassedIn(c, t, t + Window) <= PassedIn(c, t, n - 1) + PassedIn(c, n, MaxTime)
      <4>1. t \in Int /\ t + Window \in Int /\ n \in Int
        BY <1>1
      <4> QED BY <1>1, <4>1, PassedParts
    <3>4. /\ PassedIn(c, t, t + Window) \in Nat /\ PassedIn(c, t, n - 1) \in Nat
          /\ PassedIn(c, t, n - 1) < L
      BY <1>1, <1>6, <3>1, PassedType
    <3> QED BY <1>5, <3>2, <3>3, <3>4
  <2> QED BY <2>2, <2>3
<1>11. n <= n /\ d[n] > 0 /\ 1 <= L
  BY <1>1, <1>2
<1> HIDE DEF L
<1>12. Paced(d, n, f)
  BY <1>1, <1>2, <1>4, <1>7, <1>8, <1>9, <1>10, <1>11 DEF Paced, L
<1> QED BY <1>12 DEF d, f

LEMMA WindowGoesOn ==
  ASSUME NEW c, NEW n, NEW e, Paced(c, n, e), e.count < EnvelopeLimit, ~(n > e.resetAt)
  PROVE  Paced([c EXCEPT ![n] = @ + 1], n, [e EXCEPT !.count = @ + 1])
<1> DEFINE d == [c EXCEPT ![n] = @ + 1]
           f == [e EXCEPT !.count = @ + 1]
           L == EnvelopeLimit
           s == e.resetAt - Window
<1> USE LimitConstants
<1>1. /\ c \in [Time -> Nat] /\ n \in Time /\ n \in Nat /\ e \in [count : Nat, resetAt : Int]
      /\ \A u \in Time : c[u] > 0 => u <= n /\ u <= e.resetAt
  BY DEF Paced
<1>2. e.count \in Nat /\ e.resetAt \in Int /\ n <= e.resetAt /\ L > 0
  BY <1>1
<1>3. e.count > 0
  <2>1. e.count = 0 => e.resetAt = -1
    BY DEF Paced
  <2> QED BY <1>1, <1>2, <2>1
<1>4. /\ s \in Time /\ s <= n /\ c[s] > 0 /\ PassedIn(c, s, MaxTime) = e.count
      /\ \A t \in Time : t < s /\ s <= t + Window => PassedIn(c, t, s - 1) < L
      /\ \A t \in Time : PassedIn(c, t, t + Window) <= 2 * L - 1
  BY <1>2, <1>3 DEF Paced
<1>5. d \in [Time -> Nat] /\ d[n] = c[n] + 1 /\ \A u \in Time : u # n => d[u] = c[u]
  BY <1>1
<1>6. \A S \in SUBSET Time : Cardinality(Takes(d, S)) =
        IF n \in S THEN Cardinality(Takes(c, S)) + 1 ELSE Cardinality(Takes(c, S))
  BY <1>1, TakesOneMore
<1> HIDE DEF d
<1>7. /\ f \in [count : Nat, resetAt : Int] /\ f.count = e.count + 1 /\ f.resetAt = e.resetAt
  BY <1>1, <1>2
<1> HIDE DEF f
<1>8. f.resetAt - Window = s
  BY <1>7
<1> HIDE DEF s
<1>9. \A u \in Time : d[u] > 0 => u <= n /\ u <= f.resetAt
  <2> SUFFICES ASSUME NEW u \in Time, d[u] > 0 PROVE u <= n /\ u <= f.resetAt
    OBVIOUS
  <2>1. CASE u = n
    BY <1>1, <1>2, <1>7, <2>1
  <2>2. CASE u # n
    <3>1. d[u] = c[u]
      BY <1>5, <2>2
    <3>2. c[u] > 0
      BY <3>1
    <3> QED BY <1>1, <1>7, <3>2
  <2> QED BY <2>1, <2>2
<1>10. PassedIn(d, s, MaxTime) = f.count
  <2>1. n \in Between(s, MaxTime) /\ Between(s, MaxTime) \in SUBSET Time
    BY <1>1, <1>4 DEF Between
  <2> QED BY <1>4, <1>6, <1>7, <2>1 DEF PassedIn
<1>11. ASSUME NEW t \in Time, t < s, s <= t + Window PROVE PassedIn(d, t, s - 1) < L
  <2>1. n \notin Between(t, s - 1) /\ Between(t, s - 1) \in SUBSET Time
    BY <1>1, <1>4 DEF Between
  <2>2. PassedIn(d, t, s - 1) = PassedIn(c, t, s - 1)
    BY <1>6, <2>1 DEF PassedIn
  <2> QED BY <1>4, <1>11, <2>2
<1>12. ASSUME NEW t \in Time PROVE PassedIn(d, t, t + Window) <= 2 * L - 1
  <2> DEFINE B == Between(t, t + Window)
  <2>1. B \in SUBSET Time
    BY DEF Between
  <2>2. CASE n \notin B
    BY <1>4, <1>6, <2>1, <2>2 DEF PassedIn
  <2>3. CASE n \in B /\ s <= t
    <3>1. B \in SUBSET Between(s, MaxTime) /\ Between(s, MaxTime) \in SUBSET Time
      BY <1>4, <2>3 DEF Between
    <3>2. PassedIn(d, t, t + Window) <= PassedIn(d, s, MaxTime)
      BY <1>5, <3>1, TakesFewer DEF PassedIn
    <3>3. PassedIn(d, t, t + Window) \in Nat
      BY <1>5, PassedType
    <3> QED BY <1>2, <1>7, <1>10, <3>2, <3>3
  <2>4. CASE n \in B /\ t < s
    <3>1. n <= t + Window
      BY <2>4 DEF Between
    <3>2. s <= t + Window
      BY <1>1, <1>4, <3>1
    <3>3. PassedIn(d, t, s - 1) < L
      BY <1>11, <2>4, <3>2
    <3>4. PassedIn(d, t, t + Window) <= PassedIn(d, t, s - 1) + PassedIn(d, s, MaxTime)
      <4>1. t \in Int /\ t + Window \in Int /\ s \in Int
        BY <1>4
      <4> QED BY <1>5, <4>1, PassedParts
    <3>5. PassedIn(d, t, t + Window) \in Nat /\ PassedIn(d, t, s - 1) \in Nat
      BY <1>5, PassedType
    <3> QED BY <1>2, <1>7, <1>10, <3>3, <3>4, <3>5
  <2>5. s <= t \/ t < s
    BY <1>4
  <2> QED BY <2>2, <2>3, <2>4, <2>5
<1>13. d[s] > 0
  <2>1. CASE s = n
    <3>1. d[s] = c[s] + 1 /\ c[s] > 0 /\ c[s] \in Nat
      BY <1>1, <1>4, <1>5, <2>1
    <3> QED BY <3>1
  <2>2. CASE s # n
    <3>1. d[s] = c[s] /\ c[s] > 0
      BY <1>4, <1>5, <2>2
    <3> QED BY <3>1
  <2> QED BY <2>1, <2>2
<1>14. f.count <= L /\ f.count > 0
  BY <1>2, <1>7
<1> HIDE DEF L
<1>15. f.count > 0 =>
         LET z == f.resetAt - Window
         IN /\ z \in Time /\ z <= n /\ d[z] > 0
            /\ f.count <= EnvelopeLimit /\ PassedIn(d, z, MaxTime) = f.count
            /\ \A t \in Time : t < z /\ z <= t + Window => PassedIn(d, t, z - 1) < EnvelopeLimit
  BY <1>4, <1>8, <1>10, <1>11, <1>13, <1>14 DEF L
<1>16. EnvelopeLimit > 0 => \A t \in Time : PassedIn(d, t, t + Window) <= 2 * EnvelopeLimit - 1
  BY <1>12 DEF L
<1>17. f.count # 0
  BY <1>14
<1>18. Paced(d, n, f)
  BY <1>1, <1>5, <1>7, <1>9, <1>15, <1>16, <1>17 DEF Paced
<1> QED BY <1>18 DEF d, f

LEMMA PaceInTime ==
  ASSUME NEW c, NEW n, NEW e, Paced(c, n, e), n < MaxTime
  PROVE  Paced(c, n + 1, e)
<1>1. n \in Time /\ n \in Nat
  BY LimitConstants DEF Paced
<1>2. n + 1 \in Time /\ \A u \in Nat : u <= n => u <= n + 1
  BY <1>1, LimitConstants
<1>3. \A u \in Time : c[u] > 0 => u <= n + 1 /\ u <= e.resetAt
  <2>1. \A u \in Time : c[u] > 0 => u <= n /\ u <= e.resetAt
    BY DEF Paced
  <2> QED BY <1>2, <2>1, LimitConstants
<1>4. e.count > 0 => e.resetAt - Window <= n + 1
  <2>1. e.count > 0 => e.resetAt - Window \in Time /\ e.resetAt - Window <= n
    BY DEF Paced
  <2> QED BY <1>2, <2>1, LimitConstants
<1> QED BY <1>2, <1>3, <1>4 DEF Paced

RateInv == Paced(taken, now, envelopeRL)

LEMMA RateInvInit == Init => RateInv
<1> SUFFICES ASSUME Init PROVE RateInv
  OBVIOUS
<1>1. taken = [t \in Time |-> 0] /\ now = 0 /\ envelopeRL = Fresh
  BY DEF Init
<1>2. /\ taken \in [Time -> Nat] /\ \A u \in Time : ~(taken[u] > 0)
      /\ now \in Time /\ envelopeRL \in [count : Nat, resetAt : Int]
      /\ envelopeRL.count = 0 /\ envelopeRL.resetAt = -1
  BY <1>1, LimitConstants DEF Fresh
<1>3. ASSUME EnvelopeLimit > 0, NEW t \in Time
      PROVE  PassedIn(taken, t, t + Window) <= 2 * EnvelopeLimit - 1
  <2>1. Between(t, t + Window) \in SUBSET Time
    BY DEF Between
  <2>2. Cardinality(Takes(taken, Between(t, t + Window))) = 0
    BY <1>2, <2>1, TakesNone
  <2>3. PassedIn(taken, t, t + Window) = 0
    BY <2>2 DEF PassedIn
  <2> QED BY <1>3, <2>3, LimitConstants
<1>4. EnvelopeLimit > 0 => \A t \in Time : PassedIn(taken, t, t + Window) <= 2 * EnvelopeLimit - 1
  BY <1>3
<1>5. \A u \in Time : taken[u] > 0 => u <= now /\ u <= envelopeRL.resetAt
  BY <1>2
<1>6. ~(envelopeRL.count > 0)
  BY <1>2
<1> QED BY <1>2, <1>4, <1>5, <1>6 DEF RateInv, Paced

LEMMA RateLimitPaces ==
  ASSUME RateInv, NEW r \in Request, RateLimit(r)
  PROVE  RateInv'
<1> DEFINE L == Limit(EnvelopeLimit)
<1>1. /\ now' = now /\ envelopeRL' = Counted(envelopeRL, L)
      /\ IF allow(envelopeRL, L)
         THEN taken' = IF L = 0 THEN taken ELSE [taken EXCEPT ![now] = @ + 1]
         ELSE taken' = taken
  BY DEF RateLimit
<1>2. /\ envelopeRL \in [count : Nat, resetAt : Int] /\ envelopeRL.count \in Nat
      /\ envelopeRL # None /\ now \in Nat
  <2>1. envelopeRL \in [count : Nat, resetAt : Int] /\ now \in Time
    BY DEF RateInv, Paced
  <2> QED BY <2>1, IntakeAssumption, LimitConstants
<1>3. L = 0 \/ (L = EnvelopeLimit /\ EnvelopeLimit > 0)
  BY LimitConstants DEF Limit
<1>4. EnvelopeLimit \in Nat
  BY LimitConstants
<1> HIDE DEF L
<1>5. CASE L = 0
  <2>1. taken' = taken /\ envelopeRL' = envelopeRL
    BY <1>1, <1>5 DEF Counted, allow
  <2> QED BY <1>1, <2>1 DEF RateInv
<1>6. CASE L # 0 /\ now > envelopeRL.resetAt
  <2>1. Ended(envelopeRL) /\ allow(envelopeRL, L)
    BY <1>6 DEF Ended, allow
  <2>2. taken' = [taken EXCEPT ![now] = @ + 1] /\ envelopeRL' = [count |-> 1, resetAt |-> now + Window]
    BY <1>1, <1>6, <2>1 DEF Counted
  <2>3. Paced([taken EXCEPT ![now] = @ + 1], now, [count |-> 1, resetAt |-> now + Window])
    BY <1>3, <1>6, WindowBegins DEF RateInv
  <2> QED BY <1>1, <2>2, <2>3 DEF RateInv
<1>7. CASE L # 0 /\ ~(now > envelopeRL.resetAt) /\ Over(envelopeRL, L)
  <2>1. ~Ended(envelopeRL) /\ ~allow(envelopeRL, L)
    BY <1>2, <1>7 DEF Ended, allow
  <2>2. taken' = taken /\ envelopeRL' = envelopeRL
    BY <1>1, <1>7, <2>1 DEF Counted
  <2> QED BY <1>1, <2>2 DEF RateInv
<1>8. CASE L # 0 /\ ~(now > envelopeRL.resetAt) /\ ~Over(envelopeRL, L)
  <2>1. ~Ended(envelopeRL) /\ allow(envelopeRL, L)
    BY <1>2, <1>8 DEF Ended, allow
  <2>2. /\ taken' = [taken EXCEPT ![now] = @ + 1]
        /\ envelopeRL' = [envelopeRL EXCEPT !.count = @ + 1]
    BY <1>1, <1>8, <2>1 DEF Counted
  <2>3. L = EnvelopeLimit /\ envelopeRL.count < EnvelopeLimit
    BY <1>2, <1>3, <1>4, <1>8 DEF Over
  <2>4. Paced([taken EXCEPT ![now] = @ + 1], now, [envelopeRL EXCEPT !.count = @ + 1])
    BY <1>8, <2>3, WindowGoesOn DEF RateInv
  <2> QED BY <1>1, <2>2, <2>4 DEF RateInv
<1> QED BY <1>5, <1>6, <1>7, <1>8

LEMMA RateInvStep == RateInv /\ [Next]_vars => RateInv'
<1> SUFFICES ASSUME RateInv, [Next]_vars PROVE RateInv'
  OBVIOUS
<1>1. ASSUME UNCHANGED <<now, envelopeRL, taken>> PROVE RateInv'
  BY <1>1 DEF RateInv
<1>2. CASE handleUpdateProject \/ handleDeleteProject \/ RemoteUpdate
  BY <1>1, <1>2 DEF handleUpdateProject, handleDeleteProject, RemoteUpdate, limitVars
<1>3. CASE \E v \in saved : invalidate(v)
  BY <1>1, <1>3 DEF invalidate, limitVars
<1>4. ASSUME NEW r \in Request, handleEnvelope(r) PROVE RateInv'
  <2>1. CASE \E m \in busy.requests : Receive(r, m.env, m.key, m.client)
    BY <1>1, <2>1 DEF Receive, limitVars
  <2>2. CASE lookup(r) \/ LookupFails(r)
    BY <1>1, <2>2 DEF lookup, LookupHit, LookupQuery, LookupStore, LookupFails, limitVars
  <2>3. CASE UnknownKey(r) \/ EventLimitCheck(r)
    BY <1>1, <2>3 DEF UnknownKey, EventLimitCheck
  <2>4. CASE RateLimit(r)
    BY <2>4, RateLimitPaces
  <2>5. CASE ReadBody(r) \/ PushItem(r) \/ Finish(r)
    BY <1>1, <2>5 DEF ReadBody, PushItem, Finish, limitVars
  <2> QED
    BY <1>4, <2>1, <2>2, <2>3, <2>4, <2>5 DEF handleEnvelope
<1>5. CASE EventsStored
  BY <1>1, <1>5 DEF EventsStored
<1>6. ASSUME NEW w \in Worker, TakeJob(w) \/ forwardEnvelope(w) PROVE RateInv'
  BY <1>1, <1>6 DEF TakeJob, forwardEnvelope, limitVars
<1>7. CASE ServerShutdown \/ Close
  BY <1>1, <1>7 DEF ServerShutdown, Close, Shutdown, limitVars
<1>8. CASE TimePasses
  <2>1. now < MaxTime /\ now' = now + 1 /\ UNCHANGED <<envelopeRL, taken>>
    BY <1>8 DEF TimePasses, limitVars
  <2>2. Paced(taken, now + 1, envelopeRL)
    BY <2>1, PaceInTime DEF RateInv
  <2> QED BY <2>1, <2>2 DEF RateInv
<1>9. CASE UNCHANGED vars
  BY <1>1, <1>9 DEF vars, limitVars
<1> QED
  BY <1>2, <1>3, <1>4, <1>5, <1>6, <1>7, <1>8, <1>9 DEF Next

\* The count of events is read again TTL after it was read: a count below the
\* limit was read no later than the limit was reached.
EventsOK ==
  /\ events \in Nat
  /\ reached # None =>
       /\ reached \in Nat /\ reached <= now /\ events = EventLimit
       /\ "limits" \in busy.parts /\ EventLimit > 0

MonthlyOK ==
  monthly # None =>
    /\ monthly.count \in Nat /\ monthly.at \in Nat /\ monthly.at <= now
    /\ reached # None /\ monthly.count < EventLimit => monthly.at <= reached

Late(q) == q.pc = "body" /\ reached # None => q.at - reached < TTL

EventInv == EventsOK /\ MonthlyOK /\ \A r \in Request : Late(req[r])

LEMMA EventConstants ==
  EventLimit \in Nat /\ TTL \in Nat /\ TTL > 0 /\ None \notin Nat
  BY IntakeAssumption

\* No request gets past the event limit, and time may pass.
LEMMA EventsStay ==
  ASSUME EventInv, UNCHANGED <<busy, events, reached, monthly>>, now \in Nat,
         now' = now \/ now' = now + 1,
         \A r \in Request : req'[r].pc = "body" => req[r].pc = "body" /\ req'[r].at = req[r].at
  PROVE  EventInv'
<1>1. now' \in Nat /\ \A n \in Nat : n <= now => n <= now'
  OBVIOUS
<1>2. EventsOK'
  BY <1>1 DEF EventInv, EventsOK
<1>3. MonthlyOK'
  BY <1>1 DEF EventInv, MonthlyOK
<1>4. ASSUME NEW r \in Request PROVE Late(req[r])'
  BY DEF EventInv, Late
<1> QED BY <1>2, <1>3, <1>4 DEF EventInv

LEMMA EventsStayStep ==
  ASSUME EventInv, SettingsInv, UNCHANGED <<busy, now, events, reached, monthly>>,
         NEW r \in Request, NEW row, Step(r, row), row.pc # "body"
  PROVE  EventInv'
<1>1. req' = [req EXCEPT ![r] = row] /\ req \in [Request -> RequestRow] /\ now \in Nat
  BY DEF Step, SettingsInv, SettingsOK, RequestsOK
<1>2. ASSUME NEW q \in Request, req'[q].pc = "body"
      PROVE  req[q].pc = "body" /\ req'[q].at = req[q].at
  <2>1. q # r
    <3>1. req'[r] = row
      BY <1>1
    <3> QED BY <1>2, <3>1
  <2>2. req'[q] = req[q]
    BY <1>1, <2>1
  <2> QED BY <1>2, <2>2
<1> QED BY <1>1, <1>2, EventsStay

LEMMA EventsStayAnswer ==
  ASSUME EventInv, SettingsInv, UNCHANGED <<busy, now, events, reached, monthly>>,
         NEW r \in Request, Answer(r)
  PROVE  EventInv'
<1>1. Idle.pc # "body"
  BY DEF Idle
<1> QED BY <1>1, EventsStayStep DEF Answer

LEMMA EventsStayRequests ==
  ASSUME EventInv, SettingsInv, UNCHANGED <<busy, now, events, reached, monthly, req>>
  PROVE  EventInv'
<1>1. now \in Nat
  BY DEF SettingsInv, SettingsOK
<1> QED BY <1>1, EventsStay

\* A request passes with a count that was read less than TTL ago, and then the
\* limit was not reached.
LEMMA EventsChecked ==
  ASSUME EventInv, SettingsInv, NEW r \in Request, EventLimitCheck(r)
  PROVE  EventInv'
<1> DEFINE m == MonthlyCount
           L == Limit(EventLimit)
<1>1. /\ UNCHANGED <<busy, now, events, reached>>
      /\ monthly' = IF L = 0 THEN monthly ELSE m
      /\ IF L > 0 /\ m.count >= EventLimit THEN Answer(r)
         ELSE Step(r, [req[r] EXCEPT !.pc = "body", !.at = now])
  BY DEF EventLimitCheck
<1>2. now \in Nat /\ EventLimit \in Nat /\ TTL \in Nat /\ TTL > 0 /\ None \notin Nat
  BY EventConstants DEF SettingsInv, SettingsOK
<1>3. EventsOK /\ MonthlyOK
  BY DEF EventInv
<1>4. EventsOK'
  BY <1>1, <1>3 DEF EventsOK
\* The count that is used.
<1>5. /\ m.count \in Nat /\ m.at \in Nat /\ m.at <= now /\ now - m.at < TTL
      /\ reached # None /\ m.count < EventLimit => m.at <= reached
  <2>1. CASE monthly # None /\ now - monthly.at < TTL
    <3>1. m = monthly
      BY <2>1 DEF MonthlyCount
    <3> QED BY <1>3, <2>1, <3>1 DEF MonthlyOK
  <2>2. CASE ~(monthly # None /\ now - monthly.at < TTL)
    <3>1. m = [count |-> events, at |-> now]
      BY <2>2 DEF MonthlyCount
    <3>2. m.count = events /\ m.at = now
      BY <3>1
    <3> HIDE DEF m
    <3>3. events \in Nat /\ (reached # None => events = EventLimit)
      BY <1>3 DEF EventsOK
    <3> QED BY <1>2, <3>2, <3>3
  <2> QED BY <2>1, <2>2
<1> HIDE DEF m
<1>6. MonthlyOK'
  <2>1. CASE monthly' = monthly
    BY <1>1, <1>3, <2>1 DEF MonthlyOK
  <2>2. CASE monthly' = m
    BY <1>1, <1>5, <2>2 DEF MonthlyOK
  <2> QED BY <1>1, <2>1, <2>2
<1>7. ASSUME NEW q \in Request PROVE Late(req[q])'
  <2>1. req \in [Request -> RequestRow] /\ Late(req[q])
    BY DEF SettingsInv, RequestsOK, EventInv
  <2>2. CASE L > 0 /\ m.count >= EventLimit
    <3>1. req' = [req EXCEPT ![r] = Idle]
      BY <1>1, <2>2 DEF Answer, Step
    <3>2. req'[q].pc = "body" => req'[q] = req[q]
      <4>1. CASE q = r
        <5>1. req'[q] = Idle
          BY <2>1, <3>1, <4>1
        <5> QED BY <5>1 DEF Idle
      <4>2. CASE q # r
        BY <2>1, <3>1, <4>2
      <4> QED BY <4>1, <4>2
    <3> QED BY <1>1, <2>1, <3>2 DEF Late
  <2>3. CASE ~(L > 0 /\ m.count >= EventLimit)
    <3>1. req' = [req EXCEPT ![r] = [req[r] EXCEPT !.pc = "body", !.at = now]]
      BY <1>1, <2>3 DEF Step
    <3>2. CASE q # r
      <4>1. req'[q] = req[q]
        BY <2>1, <3>1, <3>2
      <4> QED BY <1>1, <2>1, <4>1 DEF Late
    <3>3. CASE q = r
      <4>1. req'[q] = [req[r] EXCEPT !.pc = "body", !.at = now]
        BY <2>1, <3>1, <3>3
      <4>2. req'[q].at = now
        BY <2>1, <4>1 DEF RequestRow
      <4>3. ASSUME reached # None PROVE now - reached < TTL
        <5>1. /\ reached \in Nat /\ reached <= now /\ EventLimit > 0
              /\ "limits" \in busy.parts
          BY <1>3, <4>3 DEF EventsOK
        <5>2. L = EventLimit
          BY <5>1 DEF Limit
        <5> HIDE DEF L
        <5>3. m.count < EventLimit
          BY <1>2, <1>5, <2>3, <5>1, <5>2
        <5>4. m.at <= reached
          BY <1>5, <4>3, <5>3
        <5> QED BY <1>2, <1>5, <5>1, <5>4
      <4> QED BY <1>1, <4>2, <4>3 DEF Late
    <3> QED BY <3>2, <3>3
  <2> QED BY <2>2, <2>3
<1> QED BY <1>4, <1>6, <1>7 DEF EventInv

LEMMA EventsGrow ==
  ASSUME EventInv, SettingsInv, EventsStored
  PROVE  EventInv'
<1>1. /\ "limits" \in busy.parts /\ events < EventLimit /\ events' = events + 1
      /\ reached' = IF events' = EventLimit THEN now ELSE reached
      /\ UNCHANGED <<busy, now, monthly, req>>
  BY DEF EventsStored
<1>2. now \in Nat /\ EventLimit \in Nat /\ TTL \in Nat /\ TTL > 0 /\ None \notin Nat
  BY EventConstants DEF SettingsInv, SettingsOK
<1>3. events \in Nat /\ reached = None
  <2>1. EventsOK
    BY DEF EventInv
  <2>2. events \in Nat /\ (reached # None => events = EventLimit)
    BY <2>1 DEF EventsOK
  <2> QED BY <1>1, <1>2, <2>2
<1>4. EventLimit > 0 /\ events' \in Nat
  BY <1>1, <1>2, <1>3
<1>5. reached' = None \/ (reached' = now /\ events' = EventLimit)
  BY <1>1, <1>3
<1>6. EventsOK'
  BY <1>1, <1>2, <1>4, <1>5 DEF EventsOK
<1>7. MonthlyOK'
  <2>1. MonthlyOK
    BY DEF EventInv
  <2> QED BY <1>1, <1>2, <1>5, <2>1 DEF MonthlyOK
<1>8. ASSUME NEW r \in Request PROVE Late(req[r])'
  <2>1. req[r] \in RequestRow /\ req[r].at <= now
    BY DEF SettingsInv, RequestsOK, RowOK
  <2>2. req[r].at \in Nat
    BY <2>1 DEF RequestRow
  <2>3. req'[r] = req[r]
    BY <1>1
  <2> QED BY <1>1, <1>2, <1>5, <2>1, <2>2, <2>3 DEF Late
<1> QED BY <1>6, <1>7, <1>8 DEF EventInv

LEMMA EventInvInit == Init => EventInv
<1> SUFFICES ASSUME Init PROVE EventInv
  OBVIOUS
<1>1. events = 0 /\ reached = None /\ monthly = None
  BY DEF Init
<1> QED BY <1>1 DEF EventInv, EventsOK, MonthlyOK, Late

LEMMA EventInvStep == SettingsInv /\ EventInv /\ [Next]_vars => EventInv'
<1> SUFFICES ASSUME SettingsInv, EventInv, [Next]_vars PROVE EventInv'
  OBVIOUS
<1>1. ASSUME NEW r \in Request PROVE req[r] \in RequestRow
  BY DEF SettingsInv, RequestsOK
<1>2. CASE handleUpdateProject \/ handleDeleteProject \/ RemoteUpdate
  BY <1>2, EventsStayRequests DEF handleUpdateProject, handleDeleteProject, RemoteUpdate, limitVars
<1>3. ASSUME NEW v \in saved, invalidate(v) PROVE EventInv'
  <2>1. /\ UNCHANGED <<busy, now, events, reached, monthly>>
        /\ req' = [r \in Request |-> [req[r] EXCEPT !.crossed = @ \/ req[r].pc = "store"]]
    BY <1>3 DEF invalidate, limitVars
  <2>2. ASSUME NEW r \in Request PROVE req'[r].pc = req[r].pc /\ req'[r].at = req[r].at
    <3>1. req'[r] = [req[r] EXCEPT !.crossed = @ \/ req[r].pc = "store"]
      BY <2>1
    <3> QED BY <1>1, <3>1 DEF RequestRow
  <2>3. UNCHANGED <<busy, events, reached, monthly>> /\ now' = now /\ now \in Nat
    BY <2>1 DEF SettingsInv, SettingsOK
  <2> QED BY <2>2, <2>3, EventsStay
<1>4. ASSUME NEW r \in Request, handleEnvelope(r) PROVE EventInv'
  <2>1. CASE \E m \in busy.requests : Receive(r, m.env, m.key, m.client)
    <3>1. PICK m \in busy.requests : Receive(r, m.env, m.key, m.client)
      BY <2>1
    <3> DEFINE row == [Idle EXCEPT !.pc = "lookup", !.env = m.env, !.key = m.key,
                                   !.client = m.client, !.floor = applied]
    <3>2. UNCHANGED <<busy, now, events, reached, monthly>> /\ Step(r, row)
      BY <3>1 DEF Receive, limitVars
    <3>3. row.pc # "body"
      BY DEF Idle
    <3> HIDE DEF row
    <3> QED BY <3>2, <3>3, EventsStayStep
  <2>2. CASE LookupHit(r)
    <3> DEFINE row == [req[r] EXCEPT !.pc = "found", !.version = cache[req[r].key].version,
                         !.crossed = cache[req[r].key].crossed, !.slow = cache[req[r].key].slow,
                         !.at = now]
    <3>1. UNCHANGED <<busy, now, events, reached, monthly>> /\ Step(r, row)
      BY <2>2 DEF LookupHit, limitVars
    <3>2. row.pc # "body"
      BY <1>1 DEF RequestRow
    <3> HIDE DEF row
    <3> QED BY <3>1, <3>2, EventsStayStep
  <2>3. CASE LookupQuery(r)
    <3> DEFINE row == [req[r] EXCEPT !.pc = "store", !.at = now,
                         !.version = IF req[r].key = "dsn" THEN version ELSE None]
    <3>1. UNCHANGED <<busy, now, events, reached, monthly>> /\ Step(r, row)
      BY <2>3 DEF LookupQuery, limitVars
    <3>2. row.pc # "body"
      BY <1>1 DEF RequestRow
    <3> HIDE DEF row
    <3> QED BY <3>1, <3>2, EventsStayStep
  <2>4. CASE LookupStore(r)
    <3> DEFINE row == [req[r] EXCEPT !.pc = "found", !.crossed = FALSE,
                         !.slow = now - req[r].at, !.at = now]
    <3>1. UNCHANGED <<busy, now, events, reached, monthly>> /\ Step(r, row)
      BY <2>4 DEF LookupStore, limitVars
    <3>2. row.pc # "body"
      BY <1>1 DEF RequestRow
    <3> HIDE DEF row
    <3> QED BY <3>1, <3>2, EventsStayStep
  <2>5. CASE LookupFails(r) \/ UnknownKey(r) \/ Finish(r)
    BY <2>5, EventsStayAnswer DEF LookupFails, UnknownKey, Finish, limitVars
  <2>6. CASE RateLimit(r)
    <3> DEFINE row == [Idle EXCEPT !.pc = "admit", !.env = req[r].env,
                                   !.version = req[r].version]
    <3>1. /\ UNCHANGED <<busy, now, events, reached, monthly>>
          /\ Answer(r) \/ Step(r, row)
      BY <2>6 DEF RateLimit
    <3>2. row.pc # "body"
      BY DEF Idle
    <3> HIDE DEF row
    <3> QED BY <3>1, <3>2, EventsStayStep, EventsStayAnswer
  <2>7. CASE EventLimitCheck(r)
    BY <2>7, EventsChecked
  <2>8. CASE ReadBody(r)
    <3> DEFINE row == [req[r] EXCEPT !.pc = "items", !.items = Kinds[req[r].env], !.at = 0]
    <3>1. /\ UNCHANGED <<busy, now, events, reached, monthly>>
          /\ Answer(r) \/ Step(r, row)
      BY <2>8 DEF ReadBody, limitVars
    <3>2. row.pc # "body"
      BY <1>1 DEF RequestRow
    <3> HIDE DEF row
    <3> QED BY <3>1, <3>2, EventsStayStep, EventsStayAnswer
  <2>9. CASE PushItem(r)
    <3> DEFINE row == [req[r] EXCEPT !.items = Tail(@)]
    <3>1. /\ UNCHANGED <<busy, now, events, reached, monthly>> /\ req[r].pc = "items"
          /\ Answer(r) \/ Step(r, row)
      BY <2>9 DEF PushItem, limitVars
    <3>2. row.pc # "body"
      BY <1>1, <3>1 DEF RequestRow
    <3> HIDE DEF row
    <3> QED BY <3>1, <3>2, EventsStayStep, EventsStayAnswer
  <2> QED
    BY <1>4, <2>1, <2>2, <2>3, <2>4, <2>5, <2>6, <2>7, <2>8, <2>9 DEF handleEnvelope, lookup
<1>5. CASE EventsStored
  BY <1>5, EventsGrow
<1>6. ASSUME NEW w \in Worker, TakeJob(w) \/ forwardEnvelope(w) PROVE EventInv'
  BY <1>6, EventsStayRequests DEF TakeJob, forwardEnvelope, limitVars
<1>7. CASE ServerShutdown \/ Close
  BY <1>7, EventsStayRequests DEF ServerShutdown, Close, Shutdown, limitVars
<1>8. CASE TimePasses
  <2>1. UNCHANGED <<busy, events, reached, monthly, req>> /\ now' = now + 1 /\ now \in Nat
    BY <1>8 DEF TimePasses, limitVars, SettingsInv, SettingsOK
  <2> QED BY <2>1, EventsStay
<1>9. CASE UNCHANGED vars
  BY <1>9, EventsStayRequests DEF vars, limitVars
<1> QED
  BY <1>2, <1>3, <1>4, <1>5, <1>6, <1>7, <1>8, <1>9 DEF Next

\* In any stretch as long as a window fewer than twice the limit pass, and no
\* request passes the event limit TTL after it was reached or later
\* (rateLimiter.allow, monthlyCountCache.get).
THEOREM LimitsHoldAlways == Spec => []LimitsHold
<1>1. RateInv /\ [Next]_vars => RateInv'
  BY RateInvStep
<1>2. SettingsInv /\ EventInv /\ [Next]_vars => EventInv'
  BY EventInvStep
<1>3. RateInv /\ EventInv => LimitsHold
  <2> SUFFICES ASSUME RateInv, EventInv PROVE LimitsHold
    OBVIOUS
  <2>1. ASSUME EnvelopeLimit > 0, NEW t \in Time
        PROVE  MapThenSumSet(LAMBDA u : taken[u], {u \in Time : t <= u /\ u <= t + Window})
                 <= 2 * EnvelopeLimit - 1
    <3>1. taken \in [Time -> Nat]
      BY DEF RateInv, Paced
    <3>2. Between(t, t + Window) \in SUBSET Time
      BY DEF Between
    <3>3. MapThenSumSet(LAMBDA u : taken[u], Between(t, t + Window)) = PassedIn(taken, t, t + Window)
      BY <3>1, <3>2, SumIsTakes DEF PassedIn
    <3>4. PassedIn(taken, t, t + Window) <= 2 * EnvelopeLimit - 1
      BY <2>1 DEF RateInv, Paced
    <3> QED BY <3>3, <3>4 DEF Between
  <2>2. ASSUME NEW r \in Request, req[r].pc = "body", reached # None
        PROVE  req[r].at - reached < TTL
    BY <2>2 DEF EventInv, Late
  <2> QED BY <2>1, <2>2 DEF LimitsHold
<1> QED
  BY <1>1, <1>2, <1>3, RateInvInit, EventInvInit, SettingsInvHolds, PTL DEF Spec
=============================================================================
