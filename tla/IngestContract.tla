--------------------------- MODULE IngestContract ---------------------------
(***************************************************************************)
(* What an ingestion queue promises, without its channel, batches, retries *)
(* and contexts (package ingest): an offered item is refused or accepted;  *)
(* accepted items are stored in groups, each group at most once; and every *)
(* item is settled once, with an outcome that is true of the database.     *)
(***************************************************************************)
EXTENDS Naturals

CONSTANTS Item, DedupKey, NoKey, Invalid

VARIABLES rows, fate
vars == <<rows, fate>>

Abandoned == {"write_failed", "deadline", "invalid_record"}

SameRecord(i, j) == i = j \/ (DedupKey[i] = DedupKey[j] /\ DedupKey[i] # NoKey)

Stored(i) == \E j \in Item : SameRecord(i, j) /\ rows[j] > 0

Init ==
  /\ rows = [i \in Item |-> 0]
  /\ fate = [i \in Item |-> "new"]

Refuse(i) ==
  /\ fate[i] = "new"
  /\ fate' = [fate EXCEPT ![i] = "refused"]
  /\ UNCHANGED rows

Accept(i) ==
  /\ fate[i] = "new"
  /\ fate' = [fate EXCEPT ![i] = "pending"]
  /\ UNCHANGED rows

\* One transaction: a set of accepted items becomes stored, each record by one
\* new row unless it is there already.
Store(S) ==
  /\ \A i \in S : fate[i] = "pending" /\ ~Stored(i)
  /\ \A i, j \in S : SameRecord(i, j) => i = j
  /\ rows' = [i \in Item |-> IF i \in S THEN 1 ELSE rows[i]]
  /\ UNCHANGED fate

\* One report: a set of accepted items leaves with the same outcome.
Settle(S, outcome) ==
  /\ \A i \in S : fate[i] = "pending"
  /\ outcome = "persisted" => \A i \in S : Stored(i)
  /\ outcome \in Abandoned => \A i \in S : rows[i] = 0
  /\ outcome = "invalid_record" => S \subseteq Invalid
  /\ fate' = [i \in Item |-> IF i \in S THEN outcome ELSE fate[i]]
  /\ UNCHANGED rows

Next ==
  \/ \E i \in Item : Refuse(i) \/ Accept(i)
  \/ \E S \in SUBSET Item : Store(S)
  \/ \E S \in SUBSET Item, outcome \in {"persisted", "unknown"} \cup Abandoned :
       Settle(S, outcome)

Spec == Init /\ [][Next]_vars
=============================================================================
