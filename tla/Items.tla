------------------------------- MODULE Items -------------------------------
(***************************************************************************)
(* What the envelope endpoint keeps of an item, and what it passes on      *)
(* upstream: the scrubber (internal/ingest/scrubber.go), the end user of   *)
(* an item (internal/ingest/user.go) and the decomposition of transactions *)
(* and logs (internal/api/ingest.go).                                      *)
(*                                                                         *)
(* A text is the set of the things in it: marks, which a pattern may find, *)
(* and Filtered, the placeholder; "" is {}.  A text with Number in it is a *)
(* JSON number.  A key is the sequence of the words its dots separate, in  *)
(* lower case; a JSON object is the function from the paths (sequences of  *)
(* keys) of its leaves to their texts.  Arrays are transparent to paths    *)
(* and lengths to scrubbing, so both are left out.                         *)
(***************************************************************************)
EXTENDS Naturals, Sequences, SequencesExt, FiniteSets, TLC

CONSTANT Builtin    \* names of builtinPatterns

Filtered == "[Filtered]"
Number   == "number"

At(v, path) == IF path \in DOMAIN v THEN v[path] ELSE {}

\* The object at a path of an object.
Under(v, path) ==
  LET inner == {p \in DOMAIN v : IsPrefix(path, p)}
      rest(p) == SubSeq(p, Len(path) + 1, Len(p))
  IN [q \in {rest(p) : p \in inner} |-> v[path \o q]]

(***************************************************************************)
(* The scrubber.  A configuration has the dotted names of its fields and   *)
(* its patterns; a pattern finds the mark of its name.                     *)
(***************************************************************************)
ValidateScrubPatterns(patterns, max) ==
  Cardinality(patterns) <= max /\ \A p \in patterns : p.builtin \/ p.compiles

\* The marks that the enabled patterns find (buildScrubber).
Marks(cfg) == {p.name : p \in {p \in cfg.patterns :
  p.enabled /\ IF p.builtin THEN p.name \in Builtin ELSE p.compiles}}

scrubString(text, marks) ==
  IF text \cap marks = {} THEN text ELSE (text \ marks) \cup {Filtered}

\* The first part of a path that is blocked, or the path: what is blocked is
\* replaced as a whole.
Blocked(path, cfg, base) ==
  \E n \in 1 .. Len(path) : base \o FlattenSeq(SubSeq(path, 1, n)) \in cfg.fields
Cut(path, cfg, base) ==
  LET cuts == {n \in 1 .. Len(path) : Blocked(SubSeq(path, 1, n), cfg, base)}
  IN IF cuts = {} THEN path
     ELSE SubSeq(path, 1, CHOOSE n \in cuts : \A m \in cuts : n <= m)

\* Numbers pass.
scrubValue(v, cfg, base) ==
  [q \in {Cut(p, cfg, base) : p \in DOMAIN v} |->
     IF Blocked(q, cfg, base) THEN {Filtered}
     ELSE IF Number \in v[q] THEN v[q] ELSE scrubString(v[q], Marks(cfg))]

ScrubEvent(v, cfg) == scrubValue(v, cfg, <<>>)

(***************************************************************************)
(* End users.                                                              *)
(***************************************************************************)
UserKey == {"id", "username", "email", "name"}

\* The first part that says something; {} if there is none.
UserIdentity(u) ==
  LET some == SelectSeq(<<u["id"], u["username"], u["email"]>>,
                        LAMBDA t : t \notin {{}, {Filtered}})
  IN IF some = <<>> THEN {} ELSE Head(some)

\* The id may be a number; a user that is no object is no user.
ParseSentryUser(v) == [k \in UserKey |-> At(v, <<<<k>>>>) \ {Number}]

ParseSentryUserFromPayload(v) == ParseSentryUser(Under(v, <<<<"user">>>>))

ParseSentryUserFromAttrs(attrs) == [k \in UserKey |-> At(attrs, <<<<"user", k>>>>) \ {Number}]

(***************************************************************************)
(* Transactions, with one span.                                            *)
(***************************************************************************)
Description == <<<<"spans">>, <<"description">>>>
Data        == <<<<"spans">>, <<"data">>>>

parseTransaction(v) ==
  [name |-> At(v, <<<<"transaction">>>>), user |-> ParseSentryUserFromPayload(v),
   identity |-> UserIdentity(ParseSentryUserFromPayload(v)),
   description |-> At(v, Description), data |-> Under(v, Data)]

ScrubbedParts(tx, cfg) ==
  [tx EXCEPT
     !.name = IF <<"transaction">> \in cfg.fields THEN {Filtered} ELSE scrubString(@, Marks(cfg)),
     !.user = [k \in UserKey |->
        IF {<<"user">>, <<"user", k>>} \cap cfg.fields # {} THEN {}
        ELSE scrubString(@[k], Marks(cfg))],
     !.description = scrubString(@, Marks(cfg)),
     !.data = ScrubEvent(@, cfg)]

\* Mutant: only a blocked user takes the identity with it.
ScrubTransactionOnce(tx, cfg) ==
  LET scrubbed == ScrubbedParts(tx, cfg)
  IN [scrubbed EXCEPT !.identity = IF <<"user">> \in cfg.fields THEN {} ELSE @]

ScrubTransaction(tx, cfg) ==
  LET scrubbed == ScrubbedParts(tx, cfg)
  IN [scrubbed EXCEPT !.identity = UserIdentity(scrubbed.user)]

(***************************************************************************)
(* Logs.                                                                   *)
(***************************************************************************)
Value == <<"value">>
Type  == <<"type">>

\* An attribute {"value": ..., "type": ...} is its value.
flattenLogAttributes(attrs) ==
  LET inside(n, key) == \E p \in DOMAIN attrs : Len(p) > 1 /\ p[1] = n /\ p[2] = key
      typed(n) == inside(n, Value) /\ inside(n, Type)
      lasts == {p \in DOMAIN attrs : typed(p[1]) => p[2] = Value}
      flat(p) == IF typed(p[1]) THEN <<p[1]>> \o SubSeq(p, 3, Len(p)) ELSE p
  IN [q \in {flat(p) : p \in lasts} |-> attrs[CHOOSE p \in lasts : flat(p) = q]]

parseLog(v) ==
  [body |-> At(v, <<<<"body">>>>),
   attributes |-> flattenLogAttributes(Under(v, <<<<"attributes">>>>))]

ScrubLog(l, cfg) ==
  [l EXCEPT !.body = scrubString(@, Marks(cfg)), !.attributes = ScrubEvent(@, cfg)]

\* The same rules on the item as it was sent.  An attribute whose name is blocked
\* keeps its shape: the value and the type of an object are overwritten, and
\* nothing else of it.
ScrubLogItems(v, cfg) ==
  LET attribute(p) == p[1] = <<"attributes">> /\ Len(p) > 1
      hidden(p)    == attribute(p) /\ p[2] \in cfg.fields
      cut(p) == IF ~attribute(p) THEN p
                ELSE IF ~hidden(p)
                THEN SubSeq(p, 1, 2) \o Cut(SubSeq(p, 3, Len(p)), cfg, p[2])
                ELSE IF Len(p) > 2 /\ p[3] \in {Value, Type} THEN SubSeq(p, 1, 3) ELSE p
      added == {SubSeq(p, 1, 2) \o <<k>> : k \in {Value, Type},
                                           p \in {p \in DOMAIN v : hidden(p) /\ Len(p) > 2}}
  IN [q \in {cut(p) : p \in DOMAIN v} \cup added |->
        CASE ~attribute(q) -> IF q = <<<<"body">>>> THEN scrubString(v[q], Marks(cfg)) ELSE v[q]
          [] hidden(q)     -> IF Len(q) = 2 \/ q[3] = Value THEN {Filtered}
                              ELSE IF q[3] = Type THEN {"string"} ELSE v[q]
          [] OTHER         ->
               LET rest == SubSeq(q, 3, Len(q))
               IN IF Blocked(rest, cfg, q[2]) THEN {Filtered}
                  ELSE scrubValue(q :> v[q], [cfg EXCEPT !.fields = {}], <<>>)[q]]

(***************************************************************************)
(* What becomes of an item: what is stored, as paths and texts of the item *)
(* where it has them, the user it is counted for, and what is passed on.   *)
(* A transaction with no name, or a log with no body, is not stored.       *)
(***************************************************************************)
Prefixed(path, v) == [p \in {path \o q : q \in DOMAIN v} |-> v[SubSeq(p, Len(path) + 1, Len(p))]]

KeptEvent(v, cfg) ==
  [stored |-> ScrubEvent(v, cfg), user |-> ParseSentryUserFromPayload(ScrubEvent(v, cfg)),
   identity |-> UserIdentity(ParseSentryUserFromPayload(ScrubEvent(v, cfg)))]

KeptTransaction(v, cfg) ==
  LET tx == ScrubTransaction(parseTransaction(v), cfg)
  IN [stored |-> <<<<"transaction">>>> :> tx.name @@ Description :> tx.description
                 @@ [p \in {<<<<"user">>, <<k>>>> : k \in UserKey} |-> tx.user[p[2][1]]]
                 @@ Prefixed(Data, tx.data),
      user |-> tx.user, identity |-> tx.identity]

KeptLog(v, cfg) ==
  LET l == ScrubLog(parseLog(v), cfg)
      u == ParseSentryUserFromAttrs(l.attributes)
  IN [stored |-> <<<<"body">>>> :> l.body @@ Prefixed(<<<<"attributes">>>>, l.attributes),
      user |-> u, identity |-> UserIdentity(u)]

\* Mutant: the payload is passed on as it came.
Raw(kind, v, cfg) == v

Passed(kind, v, cfg) == IF kind = "log" THEN ScrubLogItems(v, cfg) ELSE ScrubEvent(v, cfg)

Stores(kind, v) ==
  CASE kind = "transaction" -> At(v, <<<<"transaction">>>>) # {}
    [] kind = "log"         -> At(v, <<<<"body">>>>) # {}
    [] OTHER                -> TRUE

Dropped == [stored |-> <<>>]

Kept(kind, v, cfg) ==
  CASE kind = "event"       -> KeptEvent(v, cfg)
    [] kind = "transaction" -> KeptTransaction(v, cfg)
    [] kind = "log"         -> KeptLog(v, cfg)
=============================================================================
