---------------------------- MODULE Fingerprints ----------------------------
(***************************************************************************)
(* How the grouper names the problem an event is an occurrence of          *)
(* (internal/issues/fingerprint.go): a fingerprint of the current scheme,  *)
(* by type and frames, and one of the legacy scheme, by type and value, so *)
(* that older issues keep their events.  What becomes of the two is in     *)
(* Issues (FpOf, LegacyFp).                                                *)
(*                                                                         *)
(* Text is a sequence of names and separators and SHA-256 is left out: a   *)
(* fingerprint is the text it hashes.  Names hold no separators and are    *)
(* not the words the code puts in.  The two forms of a list of exceptions, *)
(* wrapped and bare, decode alike.                                         *)
(***************************************************************************)
EXTENDS Naturals, Sequences, SequencesExt, FiniteSets
CONSTANTS
  Name,         \* what an SDK may send as a text; "" is none
  Payload,      \* the events' payloads
  Default,      \* "{{ default }}" in a fingerprint of the SDK
  Undecodable,  \* an entry of a list that is not an object, or a payload not JSON
  Null          \* the entry null, no legacy fingerprint, or no event

\* What the code puts between and before names.
Separator == {"|", ">", ".", "v2", "unlabeled", "unparseable"}

FrameRow == [function : Name, module : Name, inApp : {"true", "false", "unknown"}]
Entry(row) == row \cup {Undecodable, Null}
ExceptionRow == [type : Name, value : Name, frames : Seq(Entry(FrameRow))]
MessageRow == [template : Name, formatted : Name]
PayloadRow ==
  [platform : Name, transaction : Name, message : MessageRow, logentry : MessageRow,
   exceptions : Seq(Entry(ExceptionRow)), fingerprint : Seq(Name \cup {Default})]

ASSUME FingerprintsAssumption ==
  /\ "" \in Name /\ Name \cap Separator = {}
  /\ Default \notin Name /\ Null \notin Seq(Name \cup Separator)
  /\ Payload \subseteq PayloadRow \cup {Undecodable}

VARIABLE payload

-----------------------------------------------------------------------------
(* Decoding *)

\* Entries that do not fit are skipped; null fits, with every field empty.
Decoded(items, item, empty) ==
  IF item = Undecodable THEN items ELSE Append(items, IF item = Null THEN empty ELSE item)

decodeEach(list, empty) ==
  FoldLeft(LAMBDA items, item : Decoded(items, item, empty), <<>>, list)

NoFrame == [function |-> "", module |-> "", inApp |-> "unknown"]
NoException == [type |-> "", value |-> "", frames |-> <<>>]

exceptions(p) == decodeEach(p.exceptions, NoException)

groupKey(m) == IF m.template # "" THEN m.template ELSE m.formatted

message(p) == groupKey(IF groupKey(p.message) # "" THEN p.message ELSE p.logentry)

-----------------------------------------------------------------------------
(* Keys *)

Spelled(name) == IF name = "" THEN <<>> ELSE <<name>>

Join(parts, separator) ==
  FoldLeft(LAMBDA text, part : text \o <<separator>> \o part, Head(parts), Tail(parts))

Nameless == {"", "?", "<anonymous>"}

FrameKey(f) == (IF f.module = "" THEN <<>> ELSE <<f.module, ".">>) \o <<f.function>>

\* Recursion collapses before frames are left out, so that what lies between
\* two calls of one function counts.
PickEarly(frames, inApp) ==
  LET calls == FoldLeft(LAMBDA fs, f : IF fs # <<>> /\ Last(fs) = f THEN fs ELSE Append(fs, f),
                        <<>>, frames)
      kept == SelectSeq(calls, LAMBDA f : f.inApp = inApp /\ f.function \notin Nameless)
  IN  [i \in DOMAIN kept |-> FrameKey(kept[i])]

Picked(keys, f, inApp) ==
  IF \/ f.inApp # inApp
     \/ f.function \in Nameless
     \/ keys # <<>> /\ Last(keys) = FrameKey(f)
  THEN keys ELSE Append(keys, FrameKey(f))

Pick(frames, inApp) == FoldLeft(LAMBDA keys, f : Picked(keys, f, inApp), <<>>, frames)

\* Frames of unknown origin count when none is known to be the program's own.
frameKeys(e) ==
  LET frames == decodeEach(e.frames, NoFrame)
      own == Pick(frames, "true")
  IN  IF own # <<>> THEN own ELSE Pick(frames, "unknown")

WithTransaction(key, p) ==
  IF p.transaction = "" THEN key ELSE key \o <<"|", p.transaction>>

defaultKeyV1(p) ==
  LET e == Last(exceptions(p))
  IN  CASE exceptions(p) # <<>> -> WithTransaction(Spelled(e.type) \o <<"|">> \o Spelled(e.value), p)
        [] exceptions(p) = <<>> /\ message(p) # "" -> WithTransaction(<<message(p)>>, p)
        [] OTHER -> <<"unlabeled", "|">> \o Spelled(p.transaction)

HasFrames(p) ==
  /\ exceptions(p) # <<>> /\ p.platform # "javascript"
  /\ frameKeys(Last(exceptions(p))) # <<>>

defaultKeyV2(p) ==
  LET e == Last(exceptions(p))
  IN  IF HasFrames(p)
      THEN <<"v2", "|">> \o Spelled(e.type) \o <<"|">> \o Join(frameKeys(e), ">")
      ELSE defaultKeyV1(p)

\* The SDK's fingerprint, into which the default key may be put.
fingerprintFor(p, default) ==
  IF p.fingerprint = <<>> THEN default
  ELSE Join([i \in DOMAIN p.fingerprint |->
               IF p.fingerprint[i] = Default THEN default ELSE Spelled(p.fingerprint[i])], "|")

computeFrom(p) ==
  IF p = Undecodable THEN [fingerprint |-> <<"unparseable">>, legacy |-> Null]
  ELSE LET v1 == fingerprintFor(p, defaultKeyV1(p))
           v2 == fingerprintFor(p, defaultKeyV2(p))
       IN  [fingerprint |-> v2, legacy |-> IF v1 = v2 THEN Null ELSE v1]

FingerprintsInit == payload \in Payload

-----------------------------------------------------------------------------
(* What problem an event is about, independently of any text. *)

\* The numbers of a finite set in order: the k-th has k that are not above it.
Ordered(S) ==
  [k \in 1 .. Cardinality(S) |-> CHOOSE n \in S : Cardinality({m \in S : m <= n}) = k]

\* The calls of the program's own functions, or of any it may own, each run of
\* one function once.
Calls(e) ==
  LET named == {i \in DOMAIN e.frames : /\ e.frames[i] \notin {Undecodable, Null}
                                        /\ e.frames[i].function \notin Nameless}
      from(o) == {i \in named : e.frames[i].inApp = o}
      used == IF from("true") # {} THEN from("true") ELSE from("unknown")
      name(i) == <<e.frames[i].module, e.frames[i].function>>
      first == {i \in used : \A j \in used : j < i =>
                  name(j) # name(i) \/ \E k \in used : j < k /\ k < i /\ name(k) # name(i)}
      order == Ordered(first)
  IN  [k \in DOMAIN order |-> name(order[k])]

NoProblem == [kind |-> "unlabeled", names |-> <<>>, calls |-> <<>>]

\* The innermost exception, or else the first message there is.
Problem(p, byFrames) ==
  LET innermost == SelectLastInSeq(p.exceptions, LAMBDA v : v # Undecodable)
      e == IF p.exceptions[innermost] = Null THEN NoException ELSE p.exceptions[innermost]
      framed == byFrames /\ innermost > 0 /\ p.platform # "javascript" /\ Calls(e) # <<>>
      texts == <<p.message.template, p.message.formatted, p.logentry.template, p.logentry.formatted>>
      text == SelectInSeq(texts, LAMBDA t : t # "")
  IN  CASE framed -> [kind |-> "calls", names |-> <<e.type>>, calls |-> Calls(e)]
        [] ~framed /\ innermost > 0 ->
             [NoProblem EXCEPT !.kind = "exception", !.names = <<e.type, e.value, p.transaction>>]
        [] innermost = 0 /\ text > 0 ->
             [NoProblem EXCEPT !.kind = "message", !.names = <<texts[text], p.transaction>>]
        [] innermost = 0 /\ text = 0 -> [NoProblem EXCEPT !.names = <<p.transaction>>]

\* What the SDK says that it is, where it does.
Meaning(p, byFrames) ==
  IF p = Undecodable THEN <<[NoProblem EXCEPT !.kind = "unparseable"]>>
  ELSE IF p.fingerprint = <<>> THEN <<Problem(p, byFrames)>>
  ELSE [i \in DOMAIN p.fingerprint |->
          IF p.fingerprint[i] = Default THEN Problem(p, byFrames)
          ELSE [NoProblem EXCEPT !.kind = "part", !.names = <<p.fingerprint[i]>>]]

\* An SDK can spell any key, and a message in a transaction reads like the value
\* of an exception.
MaySpell(p, q) ==
  \/ {"message", "exception"} = {Meaning(p, FALSE)[1].kind, Meaning(q, FALSE)[1].kind}
  \/ \E r \in {p, q} : r # Undecodable /\ r.fingerprint # <<>>

\* Two events are given one fingerprint if and only if they are about the same
\* problem, under each scheme: whatever libraries, recursion, malformed entries,
\* values or transactions come with it.  The exceptions are exact
\* (computeFrom, defaultKeyV1, defaultKeyV2, frameKeys, decodeEach).
GroupedByProblem ==
  LET v1(c) == IF c.legacy = Null THEN c.fingerprint ELSE c.legacy
      mine == computeFrom(payload)
  IN  payload # Null =>
        \A q \in Payload :
          LET its == computeFrom(q)
              same(byFrames) == Meaning(payload, byFrames) = Meaning(q, byFrames)
          IN  /\ same(TRUE) => mine.fingerprint = its.fingerprint
              /\ same(FALSE) => v1(mine) = v1(its)
              /\ MaySpell(payload, q)
                 \/ /\ mine.fingerprint = its.fingerprint => same(TRUE)
                    /\ v1(mine) = v1(its) => same(FALSE)
=============================================================================
