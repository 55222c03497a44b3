---------------------------- MODULE MCIngestQueue ----------------------------
(* Instances of the ingestion queue for TLC: the queue of events and that of
   profiles. *)
EXTENDS IngestQueue, FiniteSetsExt

CONSTANTS i1, i2, i3, i4, k1

ItemSize == [i \in Item |-> IF i = i4 THEN 2 ELSE 1]
MCBytes == [S \in SUBSET Item |-> MapThenSumSet(LAMBDA i : ItemSize[i], S)]

\* Only profiles have a byte ceiling.
MCNoBytes == [S \in SUBSET Item |-> 0]

\* i1 and i2 are two deliveries of the same record.
MCKeys == [i \in Item |-> IF i \in {i1, i2} THEN k1 ELSE NoKey]
=============================================================================
