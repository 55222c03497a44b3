------------------------------ MODULE MCIssues ------------------------------
(***************************************************************************)
(* Instances of the issue tables and of the fingerprints for TLC; a        *)
(* behaviour is of one of the two.                                         *)
(***************************************************************************)
EXTENDS Issues, Fingerprints, TLC

CONSTANTS e1, e2, e3, f1, f2, f3, g1, g2, a1, a2

\* e2 was fingerprinted as f1 by the older scheme.
MCFpOf == [e \in Event |-> IF e = e1 THEN f1 ELSE f2]
MCLegacyFp == [e \in Event |-> IF e = e2 THEN f1 ELSE None]

MCName == {"", "?", "other", "javascript", a1, a2}
Frame(function, inApp) == [function |-> function, module |-> "", inApp |-> inApp]
Frames == {Frame(a1, "true"), [Frame(a1, "true") EXCEPT !.module = a2], Frame(a1, "unknown"),
           Frame(a2, "false"), Frame("?", "true"), Undecodable}
Exception(type, value, frames) == [type |-> type, value |-> value, frames |-> frames]
Messages == [template : {"", a1}, formatted : {"", a2}]
Blank == [platform |-> "other", fingerprint |-> <<>>, exceptions |-> <<>>, transaction |-> "",
          message |-> [template |-> "", formatted |-> ""],
          logentry |-> [template |-> "", formatted |-> ""]]
Raised == [Blank EXCEPT !.exceptions = <<Exception(a1, a2, <<Frame(a1, "true")>>)>>]
Said == [Blank EXCEPT !.message.template = a1]

\* Every stack of three frames; every exception and transaction; every message;
\* every list of two exceptions; every fingerprint of two parts.
MCPayload ==
  {[Blank EXCEPT !.exceptions = <<Exception(a1, a2, s)>>] : s \in SeqOf(Frames, 3)}
  \cup {[Blank EXCEPT !.exceptions = <<Exception(t, v, s)>>, !.platform = p, !.transaction = x] :
           t \in {a1, ""}, v \in {a1, a2, ""}, s \in {<<>>, <<Frame(a1, "true")>>},
           p \in {"other", "javascript"}, x \in {a2, ""}}
  \cup {[Blank EXCEPT !.message = m, !.logentry = l, !.transaction = x] :
           m \in Messages, l \in Messages, x \in {a2, ""}}
  \cup {[Said EXCEPT !.exceptions = l] :
           l \in SeqOf({Undecodable, Null, Exception(a1, a2, <<>>), Exception(a2, "", <<>>)}, 2)}
  \cup {[p EXCEPT !.fingerprint = f] : p \in {Raised, Said}, f \in SeqOf({Default, a1, ""}, 2)}
  \cup {Undecodable}

VARIABLE part

MCInit ==
  /\ Init
  /\ \/ part = "issues" /\ payload = Null
     \/ part = "fingerprints" /\ FingerprintsInit

MCNext == part = "issues" /\ Next /\ UNCHANGED <<part, payload>>

MCSpec == MCInit /\ [][MCNext]_<<part, payload, vars>>

Symmetry == Permutations(Grouper)
=============================================================================
