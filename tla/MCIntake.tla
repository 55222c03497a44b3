------------------------------ MODULE MCIntake ------------------------------
EXTENDS Intake

CONSTANTS e0, e1, e2, e3, e4, b1, b2, c1, c2, r1, r2

MCEnvelope == {e0, e1, e2, e3, e4}
MCKinds == e0 :> <<>> @@ e1 :> <<"event", "other">> @@ e2 :> <<"transaction">>
        @@ e3 :> <<"event", "transaction", "log">> @@ e4 :> <<"profile">>
MCBogusKey == {b1, b2}
MCClient == {c1, c2}
MCRequest == {r1, r2}
Symmetry == Permutations(MCRequest)

Requests(es, ks, cs) == [env : es, key : ks, client : cs]

NoContents == [k \in Kind |-> {}]
NoScrub == [fields |-> {}, patterns |-> {}]
Load(p, q, n, edits) ==
  [parts |-> p, requests |-> q, sends |-> n, changes |-> edits,
   contents |-> NoContents, scrub |-> NoScrub]

(***************************************************************************)
(* Items of one end user, in every kind of item, under every scrubbing.    *)
(***************************************************************************)
Path(words) == [i \in DOMAIN words |-> <<words[i]>>]

UserParts == [id : {{}, {"bob"}, {"email"}, {"number", "digits"}}, username : {{}, {"bob", "email"}},
              email : {{}, {"email"}}]
Leaves(u, path(_)) == [p \in {path(k) : k \in {k \in DOMAIN u : u[k] # {}}} |->
                         u[CHOOSE k \in DOMAIN u : path(k) = p]]

EventOf(u) == Leaves(u, LAMBDA k : Path(<<"user", k>>))
  @@ Path(<<"message">>) :> {"hello", "email"} @@ Path(<<"extra", "k">>) :> {"secret"}
TransactionOf(u, name) == Leaves(u, LAMBDA k : Path(<<"user", k>>))
  @@ Path(<<"transaction">>) :> name @@ Description :> {"select", "email"}
  @@ (Data \o Path(<<"user", "email">>)) :> {"secret"} @@ (Data \o Path(<<"k">>)) :> {"email"}
LogOf(u) == Leaves(u, LAMBDA k : <<<<"attributes">>, <<"user", k>>, Value>>)
  @@ [p \in {<<<<"attributes">>, <<"user", k>>, Type>> : k \in {k \in DOMAIN u : u[k] # {}}} |->
        {"string"}]
  @@ Path(<<"body">>) :> {"hello", "email"}
  @@ Path(<<"attributes", "extra", "k">>) :> {"secret"}
  @@ Path(<<"attributes", "ctx", "value", "k">>) :> {"secret"}
  @@ Path(<<"attributes", "ctx", "type">>) :> {"object"}
  @@ Path(<<"attributes", "bare">>) :> {"email"}

Pattern(name, builtin, enabled, compiles) ==
  [name |-> name, builtin |-> builtin, enabled |-> enabled, compiles |-> compiles]
PatternSets == {
  {}, {Pattern("email", TRUE, TRUE, TRUE)},
  {Pattern("digits", FALSE, TRUE, TRUE), Pattern("email", TRUE, FALSE, TRUE)},
  {Pattern("bob", FALSE, TRUE, TRUE), Pattern("hello", FALSE, FALSE, TRUE),
   Pattern("secret", TRUE, TRUE, TRUE)}}
FieldSets == {
  {}, {<<"user">>}, {<<"user", "id">>}, {<<"user", "email">>, <<"user", "id">>}, {<<"extra">>},
  {<<"transaction">>, <<"k">>}, {<<"ctx", "k">>, <<"bare">>}, {<<"spans", "data">>}}

Scrubbings == {s \in [fields : FieldSets, patterns : PatternSets] :
                 ValidateScrubPatterns(s.patterns, 3)}

ItemLoads == {[Load({"contents"}, Requests({e3}, {"dsn"}, {c1}), 1, 0) EXCEPT
    !.contents = [NoContents EXCEPT !["event"] = {EventOf(u)}, !["log"] = {LogOf(u)},
                                    !["transaction"] = {TransactionOf(u, {"list", "email"})}],
    !.scrub = s] : u \in UserParts, s \in Scrubbings}
  \cup {[Load({"contents"}, Requests({e3}, {"dsn"}, {c1}), 1, 0) EXCEPT
    !.contents = [NoContents EXCEPT !["log"] = {[p \in {Path(<<"body">>)} |-> {}]},
        !["transaction"] = {TransactionOf([id |-> {"bob"}], {})}]]}

(***************************************************************************)
(* Profiles with up to three samples, and pairs of chunks.                 *)
(***************************************************************************)
Samples(ss, ts, as) == {[i \in 1 .. 3 |-> [stack |-> s[i], thread |-> t[i], at |-> a[i]]] :
                          s \in ss, t \in ts, a \in as}
Wire(format, id, samples) ==
  [format |-> format, version |-> 0, id |-> id, named |-> TRUE,
   transaction |-> IF format = 1 THEN id ELSE "",
   profiler |-> IF format = 1 THEN "" ELSE "p", thread |-> "main", base |-> 1, from |-> 0, to |-> 0,
   frames |-> <<{"f"}, {"g"}, {"g", "email"}>>,
   stacks |-> <<<<>>, <<0>>, <<1, 0>>, <<2, 1, 0>>, <<1, 1>>>>, samples |-> samples]

Stacks == {<<1, 2, 3>>, <<3, 3, 4>>, <<0, 1, 2>>, <<2, 0, 2>>, <<0, 0, 0>>, <<5, 1, 1>>}
Threads == {<<"main", "main", "main">>, <<"main", "aux", "main">>, <<"aux", "aux", "main">>,
            <<"aux", "aux", "aux">>}
V1 == {Wire(1, "t", s) : s \in Samples(Stacks, Threads, {<<0, 1, 2>>, <<2, 1, 1>>, <<0, 2, 3>>})}
  \cup {[Wire(1, "", s) EXCEPT !.named = FALSE] : s \in Samples({<<1, 1, 1>>}, Threads, {<<0, 1, 2>>})}
  \cup {[Wire(1, "t", s) EXCEPT !.from = 1, !.to = 2, !.version = v] :
           s \in Samples(Stacks, Threads, {<<2, 1, 3>>}), v \in {1, 2}}
Chunk(id, stacks, threads, times) ==
  Wire(2, id, [i \in 1 .. 3 |-> [stack |-> stacks[i], thread |-> threads[i], at |-> times[i]]])
Main == <<"main", "main", "main">>
Both == <<"main", "aux", "main">>
V2 == {Chunk("a", <<1, 2, 3>>, Main, <<1, 2, 3>>), Chunk("b", <<2, 1, 2>>, Both, <<1, 2, 3>>),
       Chunk("c", <<0, 2, 2>>, Main, <<3, 5, 4>>), Chunk("d", <<4, 2, 3>>, Both, <<6, 5, 4>>),
       Chunk("e", <<0, 2, 3>>, Both, <<5, 6, 6>>), Chunk("f", <<2, 2, 2>>, Main, <<1, 2, 4>>),
       Chunk("", <<1, 1, 1>>, Main, <<4, 5, 6>>)}

MCTransaction == [event : {""}, profiler : {"p"}, thread : {"main", ""}, start : {1, 2, 3, 5},
                  end : {2, 4, 6}]

ProfileLoad(n, wire, p) == [Load({"contents"}, Requests({e4}, {"dsn"}, {c1}), n, 0) EXCEPT
  !.contents = [NoContents EXCEPT !["profile"] = wire], !.scrub = [NoScrub EXCEPT !.patterns = p]]

\* Edits against lookups and evictions; limits against the clock and clients
\* with unknown keys; items and forwards against a shutdown; settings that
\* switch forwarding while envelopes are read; the contents of items.
MCWorkload == {
  Load({}, Requests({e0}, {"dsn"}, {c1}), 3, 1),
  Load({}, Requests({e0}, {"dsn"}, {c1}), 2, 2),
  Load({}, Requests({e0}, {"dsn", b1}, {c1}), 2, 1),
  Load({"limits"}, Requests({e0}, {"dsn"}, {c1}), 5, 0),
  Load({"limits"}, Requests({e0}, {b1}, {c1, c2}), 3, 0),
  Load({"forward"}, Requests({e1, e2}, {"dsn"}, {c1}), 5, 0),
  Load({"forward"}, Requests({e1}, {"dsn"}, {c1}), 2, 2)}
  \cup ItemLoads
  \cup {ProfileLoad(1, V1, p) : p \in PatternSets} \cup {ProfileLoad(3, V2, {})}
=============================================================================
