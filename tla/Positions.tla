----------------------------- MODULE Positions -----------------------------
(***************************************************************************)
(* Resolving a generated position through a source map                     *)
(* (internal/sourcemaps/parse.go): the mappings are decoded once, an index *)
(* map is a list of maps that each cover the code from an offset on, and a *)
(* position is searched in what was decoded.                               *)
(*                                                                         *)
(* A text is a sequence of lines of segments, a segment a sequence of      *)
(* base64 digits 0..63; separators, JSON and source text are left out.     *)
(* What the text means is the set of tokens it was written from: a bundler *)
(* (external) delta-encodes them, each section relative to its offset.     *)
(***************************************************************************)
EXTENDS Integers, Sequences, SequencesExt, FiniteSetsExt, Functions, TLC
CONSTANTS
  Lines,      \* number of generated lines
  Columns,    \* columns where a token may start
  Original,   \* what a token may stand for: <<source, line, column>>
  Sources,    \* number of sources the map names
  Offsets,    \* where sections may start, as <<line, column>>
  Unknown     \* generated code of no source

ASSUME PositionsAssumption ==
  /\ Lines \in Nat /\ Sources \in Nat
  /\ Columns \subseteq Nat /\ IsFiniteSet(Columns)
  /\ Original \subseteq Int \X Int \X Int /\ Unknown \notin Original
  /\ Offsets \subseteq Nat \X Nat

VARIABLES
  tokens,     \* [some positions -> Original \cup {Unknown}]
  offsets,    \* offsets of the sections; <<>>: a plain map
  damaged     \* the text lost its last digit

mapVars == <<tokens, offsets, damaged>>

Position == (0 .. Lines - 1) \X Columns

AtOrBefore(p, q) == p[1] < q[1] \/ (p[1] = q[1] /\ p[2] <= q[2])
LastOf(S) == CHOOSE p \in S : \A q \in S : AtOrBefore(q, p)
Origin == <<0, 0, 0>>

\* The numbers of a finite set in order: the k-th has k that are not above it.
Ascending(S) ==
  [k \in 1 .. Cardinality(S) |-> CHOOSE n \in S : Cardinality({m \in S : m <= n}) = k]

----------------------------------------------------------------------------
(* Decoding: a map is the sequence of its lines, a line one of segments.   *)

\* Where each base64-VLQ integer of s ends: at a digit below 32.
Ends(s) == Ascending({i \in DOMAIN s : s[i] < 32})

decodeVLQ(s, first, last) ==
  LET bits[i \in first .. last + 1] ==
        IF i > last THEN 0 ELSE (s[i] % 32) + 32 * bits[i + 1]
      n == bits[first]
  IN  IF n % 2 = 1 THEN -(n \div 2) ELSE n \div 2

Fields(s) ==
  LET ends == Ends(s)
  IN  [k \in DOMAIN ends |-> decodeVLQ(s, IF k = 1 THEN 1 ELSE ends[k - 1] + 1, ends[k])]

\* One field, or four and whatever follows them.
Malformed(s) ==
  /\ s # <<>>
  /\ \/ Ends(s) = <<>>
     \/ Len(Ends(s)) < 4 /\ Ends(s)[1] < Len(s)

ParseSegment(acc, s) ==
  LET f == Fields(s)
      gen == acc.gen + f[1]
      orig == IF Len(f) < 4 THEN acc.orig ELSE [i \in 1 .. 3 |-> acc.orig[i] + f[i + 1]]
  IN  IF s = <<>> THEN acc
      ELSE [gen |-> gen, orig |-> orig,
            segs |-> Append(acc.segs, [genCol |-> gen, hasSource |-> Len(f) >= 4, orig |-> orig])]

ParseLineAfresh(acc, line) ==
  LET parsed == FoldLeft(ParseSegment, [gen |-> 0, orig |-> Origin, segs |-> <<>>], line)
  IN  [orig |-> parsed.orig, lines |-> Append(acc.lines, parsed.segs)]

\* Source, line and column are cumulative over the whole text.
ParseLine(acc, line) ==
  LET parsed == FoldLeft(ParseSegment, [gen |-> 0, orig |-> acc.orig, segs |-> <<>>], line)
  IN  [orig |-> parsed.orig, lines |-> Append(acc.lines, parsed.segs)]

parseMappings(text) == FoldLeft(ParseLine, [orig |-> Origin, lines |-> <<>>], text).lines

Readable(text) == \A line \in Range(text) : \A s \in Range(line) : ~Malformed(s)

InOrder(offs) == \A i \in 2 .. Len(offs) : AtOrBefore(offs[i - 1], offs[i])

----------------------------------------------------------------------------
(* Resolving: lineIdx and col count from 0.                                *)

\* The last of segs at or before col, by binary search; 0: none.
Found(segs, col) ==
  LET n == Len(segs)
      bisect[s \in [lo : 1 .. n + 1, hi : 0 .. n, found : 0 .. n]] ==
        LET mid == (s.lo + s.hi) \div 2
        IN  IF s.lo > s.hi THEN s.found
            ELSE IF segs[mid].genCol <= col THEN bisect[[s EXCEPT !.lo = mid + 1, !.found = mid]]
            ELSE bisect[[s EXCEPT !.hi = mid - 1]]
  IN  bisect[[lo |-> 1, hi |-> n, found |-> 0]]

Resolve(lines, lineIdx, col) ==
  LET segs == lines[lineIdx + 1]
      i == Found(segs, col)
  IN  IF lineIdx + 1 \notin DOMAIN lines \/ i = 0 \/ ~segs[i].hasSource THEN Unknown
      ELSE [source |-> IF segs[i].orig[1] \in 0 .. Sources - 1 THEN segs[i].orig[1] ELSE Unknown,
            line |-> segs[i].orig[2] + 1, col |-> segs[i].orig[3]]

resolveSection(maps, offs, lineIdx, col) ==
  LET i == Max({0} \cup {j \in DOMAIN offs : AtOrBefore(offs[j], <<lineIdx, col>>)})
  IN  IF i = 0 THEN Unknown
      ELSE Resolve(maps[i], lineIdx - offs[i][1],
                   IF lineIdx = offs[i][1] THEN col - offs[i][2] ELSE col)

----------------------------------------------------------------------------
(* What a bundler writes for the tokens.                                   *)

Digits[v \in Nat] == IF v < 32 THEN <<v>> ELSE <<32 + (v % 32)>> \o Digits[v \div 32]
VLQ(n) == Digits[IF n >= 0 THEN 2 * n ELSE 1 - 2 * n]

\* The section that owns p is the one with the last offset at or before it.
Owned(i) ==
  {p \in DOMAIN tokens :
     /\ AtOrBefore(offsets[i], p)
     /\ \A j \in DOMAIN offsets :
          AtOrBefore(offsets[j], p) =>
            /\ AtOrBefore(offsets[j], offsets[i])
            /\ offsets[j] = offsets[i] => j <= i}

\* A segment of p, a token of T, whose columns count from offset o; a sourced
\* one ends in the index of a name.
Encoded(T, p, o) ==
  LET from(q) == IF q[1] = o[1] THEN q[2] - o[2] ELSE q[2]
      before == {q \in T \ {p} : AtOrBefore(q, p)}
      sameLine == {q \in before : q[1] = p[1]}
      sourced == {q \in before : tokens[q] # Unknown}
      base == IF sourced = {} THEN Origin ELSE tokens[LastOf(sourced)]
  IN  VLQ(from(p) - IF sameLine = {} THEN 0 ELSE from(LastOf(sameLine)))
      \o IF tokens[p] = Unknown THEN <<>>
         ELSE VLQ(tokens[p][1] - base[1]) \o VLQ(tokens[p][2] - base[2])
              \o VLQ(tokens[p][3] - base[3]) \o VLQ(20)

Text(T, o) ==
  [k \in 1 .. Lines - o[1] |->
     LET cols == Ascending({p[2] : p \in {q \in T : q[1] = o[1] + k - 1}})
     IN  [j \in DOMAIN cols |-> Encoded(T, <<o[1] + k - 1, cols[j]>>, o)]]

\* The last digit of the last segment is gone.
Damaged(T, o) ==
  LET p == LastOf(T)
      text == Text(T, o)
      k == p[1] - o[1] + 1
  IN  [text EXCEPT ![k] = Append(Front(@), Front(Last(@)))]

Written ==
  IF offsets = <<>>
  THEN <<IF damaged THEN Damaged(DOMAIN tokens, <<0, 0>>) ELSE Text(DOMAIN tokens, <<0, 0>>)>>
  ELSE [i \in DOMAIN offsets |->
          IF damaged /\ LastOf(DOMAIN tokens) \in Owned(i)
          THEN Damaged(Owned(i), offsets[i]) ELSE Text(Owned(i), offsets[i])]

\* ParseContext refuses a text with a malformed segment or unordered offsets.
Accepted(texts) == InOrder(offsets) /\ \A i \in DOMAIN texts : Readable(texts[i])

PositionsInit ==
  /\ tokens \in UNION {[P -> Original \cup {Unknown}] : P \in SUBSET Position}
  /\ offsets \in SeqOf(Offsets, 2)
  /\ damaged \in BOOLEAN
  /\ tokens # <<>>

----------------------------------------------------------------------------
(* The token a position belongs to, among the tokens at T: the last one on *)
(* its line that is not before the section that owns the position.         *)
Meant(T, p) ==
  LET starts == {o \in Range(offsets) : AtOrBefore(o, p)}
      known == {q \in T : q[1] = p[1] /\ AtOrBefore(q, p)
                          /\ (starts # {} => AtOrBefore(LastOf(starts), q))}
      t == tokens[LastOf(known)]
  IN  IF (offsets # <<>> /\ starts = {}) \/ known = {} \/ t = Unknown THEN Unknown
      ELSE [source |-> IF t[1] \in 0 .. Sources - 1 THEN t[1] ELSE Unknown,
            line |-> t[2] + 1, col |-> t[3]]

\* A written map is refused, or resolves every position to the token it belongs to,
\* whatever sections it is cut into; damage may cost its last token, never move
\* another (parse.go: cumulative fields, section offsets, binary search).
PositionsResolve ==
  tokens # <<>> =>
    LET texts == Written
        maps == [i \in DOMAIN texts |-> parseMappings(texts[i])]
        known == {DOMAIN tokens} \cup IF damaged THEN {DOMAIN tokens \ {LastOf(DOMAIN tokens)}} ELSE {}
    IN  IF ~Accepted(texts) THEN damaged \/ ~InOrder(offsets)
        ELSE \E T \in known : \A line \in 0 .. Lines, col \in Columns \cup {c + 1 : c \in Columns} :
               Meant(T, <<line, col>>) =
                 IF offsets = <<>> THEN Resolve(maps[1], line, col)
                 ELSE resolveSection(maps, offsets, line, col)
=============================================================================
