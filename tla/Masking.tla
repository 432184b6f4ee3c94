------------------------------ MODULE Masking ------------------------------
(***************************************************************************)
(* One text field on its way to a caller (maskField of mask-text.ts).  Two *)
(* judges see it: the detectors of the core, which give spans, and the     *)
(* frozen masker of 0.2.54, which gives a masked text.  The belt           *)
(* (mask/belt.ts) has to find, from that text alone, which characters the  *)
(* old masker took away, or refuse; a refusal masks the whole field.       *)
(*                                                                         *)
(* A field grows a segment at a time, each with what the old masker makes  *)
(* of it.  A text is a sequence of symbols: a letter, a blank, a line      *)
(* break, a label or title word, a token's bracket or its rest.  Offsets   *)
(* and spans are those of the code: from 0, the end excluded.              *)
(***************************************************************************)
EXTENDS SequencesExt

CONSTANTS
  Untouched,    \* texts the old masker leaves alone
  Hidden,       \* texts it replaces: [text, token]
  Marked,       \* names it finds by a mark before them: [mark, gap, name], the mark a label or a title
  CoreTokens,   \* tokens of the spans the core's detectors give
  Rules,        \* the operator's patterns: sequences of [finds, label]
  MaxMatches,   \* CUSTOM_PATTERN_MAX_MATCHES
  ScanCap,      \* resolveScanCharCap
  MaxFound,     \* bound on the length of fields with spans of the core
  MaxSegments   \* bound on the segments of a field

VARIABLES
  source,     \* the field, normalised
  legacy,     \* what the old masker makes of it: symbols, each with the offset it stood at or NoOffset
  segments    \* how many segments it has

maskingVars == <<source, legacy, segments>>

PII == <<"[", "pii">>
SECRET == <<"[", "secret">>
NoOffset == -1

Blank == {"space", "break"}
Letters == {"x", "label", "title"}
Builtin == {PII, SECRET}
-----------------------------------------------------------------------------
(* Texts and spans.                                                        *)

Slice(text, start, end) == SubSeq(text, start + 1, end)
StartsWith(text, what, at) == at + Len(what) <= Len(text) /\ Slice(text, at, at + Len(what)) = what
EndsWith(text, what) == Len(what) <= Len(text) /\ StartsWith(text, what, Len(text) - Len(what))

Span(start, end) == [start |-> start, end |-> end]
Offsets(spans) == UNION {sp.start .. (sp.end - 1) : sp \in spans}

\* Offset of the first symbol at or after `at` that is no blank.
Past(text, at) == Min({k \in at .. Len(text) : k = Len(text) \/ text[k + 1] \notin Blank})

TokensIn(text, from, to, tokens) ==
  {k \in from .. (to - 1) : k + 2 <= Len(text) /\ Slice(text, k, k + 2) \in tokens}

\* Spans that share a symbol become one.
UnionOverlaps(spans) ==
  LET shared == Offsets(spans)
      starts == {k \in shared : ~\E sp \in spans : sp.start < k /\ k < sp.end}
      stop(k) == Min({e \in (k + 1) .. (Max(shared) + 1) : e \notin shared \/ e \in starts})
  IN  {Span(k, stop(k)) : k \in starts}

TrimSpanEdges(text, spans) ==
  LET solid(sp) == {k \in sp.start .. (sp.end - 1) : text[k + 1] \notin Blank}
  IN  {Span(Min(solid(sp)), Max(solid(sp)) + 1) : sp \in {s \in spans : solid(s) # {}}}

\* Mutant: a label word without its colon is a label too.
IsExactLabel_NoColon(text, sp) == sp.end = sp.start + 1 /\ text[sp.end] = "label"

\* A label word whose colon is on the same line.
IsExactLabel(text, sp) ==
  LET next == Min({k \in sp.end .. Len(text) : k = Len(text) \/ text[k + 1] # "space"})
  IN  sp.end = sp.start + 1 /\ text[sp.end] = "label" /\ StartsWith(text, <<":">>, next)

\* A name may run on into the next line's label: cut there, and only there.
SplitAtLineBreaks(text, spans) ==
  LET cuts(sp) == {k \in sp.start .. (sp.end - 1) : text[k + 1] = "break"}
      lines(sp) == {Span(a, b) : a \in {sp.start} \cup {k + 1 : k \in cuts(sp)}, b \in cuts(sp) \cup {sp.end}}
      pieces(sp) == TrimSpanEdges(text, {l \in lines(sp) : l.start <= l.end /\ cuts(sp) \cap (l.start .. (l.end - 1)) = {}})
      labels(sp) == {p \in pieces(sp) : IsExactLabel(text, p)}
  IN  UNION {IF labels(sp) = {} THEN {sp} ELSE pieces(sp) \ labels(sp) : sp \in spans}
-----------------------------------------------------------------------------
(* The pieces of a masked text, and where they can stand in the source.    *)

BoundaryOk(text, at) == at > 0 => text[at] \notin Letters

\* What of a literal must stand in the source as it is, before what the mark
\* allows after it.
Rigid(lit) == CASE lit.mode = "exact" -> lit.text
                [] lit.mode = "label" -> SubSeq(lit.text, 1, Len(lit.text) - 2)
                [] lit.mode = "title" -> SubSeq(lit.text, 1, Len(lit.text) - 1)

IsMark(text, after) == EndsWith(text, after) /\ BoundaryOk(text, Len(text) - Len(after))
MarkAfter(text) == CASE IsMark(text, <<"label", ":", "space">>) -> "label"
                     [] IsMark(text, <<"title", "space">>) -> "title"
                     [] OTHER -> "exact"

\* literalMode: only before a PII token can a literal end in a mark.
LiteralMode(text, token) == IF token = PII THEN MarkAfter(text) ELSE "exact"

\* The tokens from left to right, each after the one before it.
TokenStarts(output, tokens) ==
  LET all == TokensIn(output, 0, Len(output), tokens)
      start[i \in 1 .. Cardinality(all)] == Min({k \in all : i = 1 \/ start[i - 1] < k})
  IN  start

\* Literals around the tokens, one more than there are tokens.
ParsePieces(output, tokens) ==
  LET found == TokenStarts(output, tokens)
      k == Len(found)
      from(i) == IF i = 1 THEN 0 ELSE found[i - 1] + 2
      to(i) == IF i = k + 1 THEN Len(output) ELSE found[i]
      token(i) == IF i = k + 1 THEN <<>> ELSE Slice(output, found[i], found[i] + 2)
  IN  [i \in 1 .. (k + 1) |->
         LET text == Slice(output, from(i), to(i)) IN [text |-> text, mode |-> LiteralMode(text, token(i))]]

\* matchLiteral at every offset.
Matches(text, lit) ==
  LET rigid == Rigid(lit)
      here(at) == StartsWith(text, rigid, at)
      marked(at) == Len(rigid) = 1 \/ BoundaryOk(text, at + Len(rigid) - 1)
      colon(at) == Past(text, at + Len(rigid))
  IN  CASE lit.mode = "exact" ->
             {[start |-> at, endMin |-> at + Len(rigid)] :
                at \in {a \in 0 .. (Len(text) - Len(rigid)) : here(a)}}
        [] lit.mode = "label" ->
             {[start |-> at, endMin |-> colon(at) + 1] :
                at \in {a \in 0 .. (Len(text) - Len(rigid)) :
                          here(a) /\ marked(a) /\ StartsWith(text, <<":">>, colon(a))}}
        [] lit.mode = "title" ->
             {[start |-> at, endMin |-> at + Len(rigid)] :
                at \in {a \in 0 .. (Len(text) - Len(rigid)) : here(a) /\ marked(a)}}

Refused == [ok |-> FALSE, spans |-> {}]
Spans(spans) == [ok |-> TRUE, spans |-> spans]

\* hits: where each literal can stand.  The latest start of each, so that the
\* literals after it fit before the text's end; first and final: its hits at
\* both ends of the text.
Latest(hits, final) ==
  LET latest[i \in 2 .. Len(hits)] ==
        LET fits == IF i = Len(hits) THEN final ELSE {h \in hits[i] : h.endMin <= latest[i + 1]}
        IN  IF fits = {} THEN NoOffset ELSE Max({h.start : h \in fits})
  IN  latest

\* The earliest end of each, so that the literals before it fit.
Earliest(hits, first) ==
  LET earliest[i \in 1 .. (Len(hits) - 1)] ==
        LET fits == IF i = 1 THEN first
                    ELSE {h \in hits[i] : earliest[i - 1] # NoOffset /\ h.start >= earliest[i - 1]}
            foremost == {h \in fits : \A g \in fits : h.start <= g.start}
        IN  IF fits = {} THEN NoOffset ELSE Max({h.endMin : h \in foremost})
  IN  earliest

\* The widest room each token can have: from the earliest end of the literals
\* before it to the latest start of those after it.
Rooms(text, hits) ==
  LET last == Len(hits)
      first == {h \in hits[1] : h.start = 0}
      final == {h \in hits[last] : h.endMin = Len(text)}
      latest == Latest(hits, final)
      earliest == Earliest(hits, first)
      room == {Span(earliest[i], latest[i + 1]) : i \in 1 .. (last - 1)}
  IN  IF first = {} \/ final = {} \/ \E sp \in room : sp.start = NoOffset \/ sp.end = NoOffset \/ sp.end < sp.start
      THEN Refused
      ELSE Spans({sp \in room : sp.start < sp.end})

MatchesOfAll(text, lits) == [i \in DOMAIN lits |-> Matches(text, lits[i])]
AlignOutput(text, output, tokens) == Rooms(text, MatchesOfAll(text, ParsePieces(output, tokens)))
-----------------------------------------------------------------------------
(* What both texts begin and end with is not aligned, unless it cuts a     *)
(* token off, or the mark before one (trimmedBounds).                      *)

SnapTokenEdges(output, tokens, b) ==
  LET inside == {k + 1 : k \in TokensIn(output, 0, Len(output), tokens)}
  IN  [lo |-> IF b.lo \in inside THEN b.lo - 1 ELSE b.lo, hi |-> IF b.hi \in inside THEN b.hi + 1 ELSE b.hi]

CoverDiscardedTokens(output, tokens, b) ==
  LET before == TokensIn(output, 0, b.lo, tokens)
      after == TokensIn(output, b.hi, Len(output), tokens)
  IN  [lo |-> IF before = {} THEN b.lo ELSE Min(before), hi |-> IF after = {} THEN b.hi ELSE Max(after) + 2]

\* Offset of the mark that the text before the next PII token ends in.
NextMark(output, from) ==
  LET next == TokensIn(output, from, Len(output), {PII})
      mark == IF next = {} THEN "exact" ELSE MarkAfter(Slice(output, 0, Min(next)))
  IN  [token |-> IF next = {} THEN NoOffset ELSE Min(next),
       at |-> CASE mark = "exact" -> NoOffset [] mark = "label" -> Min(next) - 3 [] mark = "title" -> Min(next) - 2]

PullLabelEdge(output, lo) ==
  LET mark == NextMark(output, lo) IN IF mark.at # NoOffset /\ lo > mark.at THEN mark.at ELSE lo
PushLabelEdge(output, hi) ==
  LET mark == NextMark(output, hi) IN IF mark.at # NoOffset /\ hi < mark.token THEN mark.token ELSE hi

CommonPrefix(a, b) ==
  Max({k \in 0 .. Min({Len(a), Len(b)}) : Slice(a, 0, k) = Slice(b, 0, k)})
CommonSuffix(a, b, most) ==
  Max({k \in 0 .. most : Slice(a, Len(a) - k, Len(a)) = Slice(b, Len(b) - k, Len(b))})

\* Tokens first, then marks, then the tokens those reach.
Widen(output, tokens, b) == CoverDiscardedTokens(output, tokens, SnapTokenEdges(output, tokens, b))
AtMarks(output, b) == [lo |-> PullLabelEdge(output, b.lo), hi |-> PushLabelEdge(output, b.hi)]

TrimmedBounds(text, output, tokens) ==
  LET lo == CommonPrefix(text, output)
      suffix == CommonSuffix(text, output, Min({Len(text), Len(output)}) - lo)
      common == [lo |-> lo, hi |-> Len(output) - suffix]
  IN  IF lo = 0 /\ suffix = 0 THEN common
      ELSE Widen(output, tokens, AtMarks(output, Widen(output, tokens, common)))

\* b: the bounds in the output; their end in the source is as far from its end.
AlignWithin(text, output, tokens, b) ==
  LET end == Len(text) - (Len(output) - b.hi)
      whole == end < b.lo \/ b.hi < b.lo
      lo == IF whole THEN 0 ELSE b.lo
      aligned == AlignOutput(Slice(text, lo, IF whole THEN Len(text) ELSE end),
                             Slice(output, lo, IF whole THEN Len(output) ELSE b.hi), tokens)
  IN  [aligned EXCEPT !.spans = {Span(sp.start + lo, sp.end + lo) : sp \in @}]

AlignTrimmed(text, output, tokens) == AlignWithin(text, output, tokens, TrimmedBounds(text, output, tokens))
-----------------------------------------------------------------------------
(* The operator's patterns, on the old masker's text (applyRules).         *)

Symbols(text) == [k \in DOMAIN text |-> text[k].is]
Tagged(what, from) == [k \in DOMAIN what |-> [is |-> what[k], at |-> from]]

\* Leftmost, none in another.
MatchesOf(rule, text) ==
  LET n == Len(rule.finds)
      hits == {k \in 0 .. (Len(text) - n) : StartsWith(text, rule.finds, k)}
      taken[k \in 0 .. Len(text)] == k \in hits /\ \A j \in 0 .. (k - 1) : taken[j] => j + n <= k
  IN  {Span(k, k + n) : k \in {j \in hits : taken[j]}}

Meets(a, b) == a.start < b.end /\ b.start < a.end
Touches(a, b) == a.end = b.start \/ b.end = a.start

\* chainHit: a match that cuts a token, or leans on one whose own span is not
\* known exactly, cannot be told apart from it later.
ChainHit(text, matches, tokens, exact) ==
  \E m \in matches, k \in TokensIn(text, 0, Len(text), tokens) :
    LET token == Span(k, k + 2)
    IN  Meets(m, token) \/ (Touches(m, token) /\ token \notin exact)

\* mapPos: where an offset goes when the matches become labels of two symbols.
MapPos(at, matches) ==
  LET before == {m \in matches : m.end <= at}
  IN  at + 2 * Cardinality(before) - Cardinality(Offsets(before))

\* applyTracked.
Replace(text, matches, label) ==
  LET ends == {m.start : m \in matches}
      part(k) == (IF k \in ends THEN Tagged(label, NoOffset) ELSE <<>>)
                 \o (IF k < Len(text) /\ k \notin Offsets(matches) THEN <<text[k + 1]>> ELSE <<>>)
  IN  FlattenSeq([k \in 1 .. (Len(text) + 1) |-> part(k - 1)])

ApplyRules(text, rules, tokens) ==
  LET Step(rule, done) ==
        LET matches == MatchesOf(rule, Symbols(done.text))
        IN  IF ~done.ok \/ done.whole # <<>> \/ matches = {} THEN done
            ELSE IF Cardinality(matches) > MaxMatches THEN [done EXCEPT !.whole = rule.label]
            ELSE IF ChainHit(Symbols(done.text), matches, tokens, done.exact) THEN [done EXCEPT !.ok = FALSE]
            ELSE [done EXCEPT !.text = Replace(@, matches, rule.label),
                              !.exact = {Span(MapPos(m.start, matches), MapPos(m.start, matches) + 2) : m \in matches}
                                        \cup {Span(MapPos(e.start, matches), MapPos(e.end, matches)) : e \in @}]
      done[i \in 0 .. Len(rules)] ==
        IF i = 0 THEN [ok |-> TRUE, text |-> text, whole |-> <<>>, exact |-> {}] ELSE Step(rules[i], done[i - 1])
  IN  done[Len(rules)]
-----------------------------------------------------------------------------
(* beltCover, and what maskField makes of both judges.                     *)

TokenVocab(rules) == Builtin \cup {r.label : r \in ToSet(rules)}

\* alignRegions, dropExactLabels.
Trimmed(text, spans) == SplitAtLineBreaks(text, UnionOverlaps(TrimSpanEdges(text, spans)))
DropLabels(text, spans) == TrimSpanEdges(text, {sp \in spans : ~IsExactLabel(text, sp)})

Align(text, output, tokens) == IF output = text THEN Spans({}) ELSE AlignTrimmed(text, output, tokens)

\* stepped: the old masker's text after the operator's patterns.
CoverStepped(text, stepped, aligned) ==
  IF Len(text) > ScanCap THEN [ok |-> TRUE, spans |-> {}, whole |-> PII]
  ELSE IF ~stepped.ok \/ ~aligned.ok THEN [ok |-> FALSE, spans |-> {}, whole |-> <<>>]
  ELSE IF stepped.whole # <<>> THEN [ok |-> TRUE, spans |-> {}, whole |-> stepped.whole]
  ELSE [ok |-> TRUE, whole |-> <<>>, spans |-> DropLabels(text, Trimmed(text, aligned.spans))]

CoverFrom(text, stepped, tokens) ==
  CoverStepped(text, stepped, Align(text, Symbols(stepped.text), tokens))

Cover(text, old, rules) ==
  CoverFrom(text, ApplyRules(old, rules, TokenVocab(rules)), TokenVocab(rules))

\* detectCustomPatterns: the same patterns on the field as it came.
DetectCustom(text, rules) ==
  LET Step(rule, done) ==
        LET matches == MatchesOf(rule, text)
        IN  IF done.whole # <<>> THEN done
            ELSE IF Cardinality(matches) > MaxMatches THEN [done EXCEPT !.whole = rule.label]
            ELSE [done EXCEPT !.spans = @ \cup {[span |-> m, cls |-> "custom", token |-> rule.label] : m \in matches}]
      done[i \in 0 .. Len(rules)] == IF i = 0 THEN [whole |-> <<>>, spans |-> {}] ELSE Step(rules[i], done[i - 1])
  IN  done[Len(rules)]

\* A secret outranks PII, and both a pattern's label; of these the first wins.
Tier(token) == CASE token = SECRET -> 0 [] token = PII -> 1 [] OTHER -> 2
PreferToken(tokens, rules) ==
  LET first(t) == IF Tier(t) < 2 THEN 0 ELSE Min({i \in DOMAIN rules : rules[i].label = t})
      rank(t) == <<Tier(t), first(t)>>
      before(a, b) == a[1] < b[1] \/ (a[1] = b[1] /\ a[2] <= b[2])
  IN  IF tokens = {} THEN <<>> ELSE CHOOSE t \in tokens : \A u \in tokens : before(rank(t), rank(u))

\* What of the belt's spans no span of the core covers already.
BeltOnly(core, belt) ==
  LET gaps == Offsets(belt) \ Offsets({c.span : c \in core})
      stop(k) == Min({e \in (k + 1) .. (Max(gaps) + 1) : e \notin gaps})
  IN  {[span |-> Span(k, stop(k)), cls |-> "unclassified", token |-> PII] : k \in {g \in gaps : (g - 1) \notin gaps}}

\* PII swallows the word it ends.
ExpandLeft(text, at) == Min({k \in 0 .. at : \A j \in (k + 1) .. at : text[j] \in Letters})

\* apply: spans that overlap or touch become one region.
Apply(text, spans, rules) ==
  LET pieces == {[s EXCEPT !.span.start = IF s.token = PII THEN ExpandLeft(text, @) ELSE @] : s \in spans}
      covered == Offsets({p.span : p \in pieces})
      starts == {k \in covered : (k - 1) \notin covered}
      region(k) == Span(k, Min({e \in (k + 1) .. (Len(text) + 1) : e \notin covered}))
      token(k) == PreferToken({p.token : p \in {q \in pieces : Meets(q.span, region(k))}}, rules)
      shown(k) == IF k \in starts THEN Tagged(token(k), NoOffset)
                  ELSE IF k \in covered THEN <<>> ELSE Tagged(<<text[k + 1]>>, k)
  IN  FlattenSeq([k \in 1 .. Len(text) |-> shown(k - 1)])

\* maskField.  The belt looks at the field the core looks at; when it cannot
\* decide, the field is masked as a whole.
MaskField(text, belt, rules, detected, custom, only) ==
  LET core == detected \cup custom.spans
      wholes == {custom.whole, belt.whole} \ {<<>>}
  IN  IF Len(text) > ScanCap \/ ~belt.ok THEN Tagged(PII, NoOffset)
      ELSE IF wholes # {} THEN Tagged(PreferToken(wholes, rules), NoOffset)
      ELSE Apply(text, {c \in core : c.cls \in only} \cup BeltOnly(core, belt.spans), rules)
-----------------------------------------------------------------------------
(* The field, and what the old masker makes of it.                         *)

\* Tokens, and what follows their bracket.
Vocab == Builtin \cup UNION {TokenVocab(rules) : rules \in Rules}
Rests == {token[2] : token \in Vocab}

\* What the proofs take of the texts: a pattern looks for no blank, for nothing of
\* a mark and for no token's rest, its label is a token no word could be, and what
\* is masked has no token's rest in it, save a secret with the rest of a PII token.
PatternsAsWords ==
  \A rules \in Rules :
    /\ rules \in Seq([finds : Seq(STRING) \ {<<>>}, label : Seq(STRING)])
    /\ \A i \in DOMAIN rules :
         LET finds == rules[i].finds
             label == rules[i].label
         IN  /\ \A k \in DOMAIN finds : finds[k] \notin Blank \cup {"label", "title", ":"} \cup Rests
             /\ Len(label) = 2 /\ label[1] = "[" /\ label[2] \notin Blank \cup Letters \cup {"[", ":"}

SegmentsAsWords ==
  /\ Untouched \subseteq Seq(STRING)
  /\ \A h \in Hidden :
       /\ h.text \in Seq(STRING) /\ h.token \in Builtin
       /\ \A k \in DOMAIN h.text : h.text[k] \in Rests => h.token = SECRET /\ h.text[k] = "pii"
  /\ \A m \in Marked :
       m.gap \in Seq(Blank) /\ m.name \in Seq(STRING) /\ \A k \in DOMAIN m.name : m.name[k] \notin Rests

TextsAsMasked == PatternsAsWords /\ SegmentsAsWords /\ CoreTokens \subseteq Builtin /\ ScanCap \in Nat

MaskingInit == source = <<>> /\ legacy = <<>> /\ segments = 0

Grow(text, old) ==
  /\ segments < MaxSegments
  /\ source' = source \o text /\ legacy' = legacy \o old
  /\ segments' = segments + 1

KeptText(text, from) == [k \in DOMAIN text |-> [is |-> text[k], at |-> Len(source) + from + k - 1]]

Leave(text) == Grow(text, KeptText(text, 0))
Hide(h) == Grow(h.text, Tagged(h.token, NoOffset))

\* A title or a label before a name stays, in one spelling.
HideTitled(m) ==
  /\ BoundaryOk(Symbols(legacy), Len(legacy))
  /\ Grow(<<"title">> \o m.gap \o m.name, KeptText(<<"title">>, 0) \o Tagged(<<"space">> \o PII, NoOffset))
HideLabelled(m) ==
  /\ BoundaryOk(Symbols(legacy), Len(legacy))
  /\ \E before \in {<<>>, m.gap} :
       Grow(<<"label">> \o before \o <<":">> \o m.gap \o m.name,
            KeptText(<<"label">>, 0) \o KeptText(<<":">>, 1 + Len(before)) \o Tagged(<<"space">> \o PII, NoOffset))

MaskingNext ==
  \/ \E text \in Untouched : Leave(text)
  \/ \E h \in Hidden : Hide(h)
  \/ \E m \in Marked : HideTitled(m) \/ HideLabelled(m)

MaskingSpec == MaskingInit /\ [][MaskingNext]_maskingVars
-----------------------------------------------------------------------------
(* Properties.                                                             *)

Classes == {"found", "custom"}
Detected ==
  {{}} \cup {{[span |-> Span(a, b), cls |-> "found", token |-> t]} :
              t \in IF Len(source) > MaxFound THEN {} ELSE CoreTokens,
              a \in 0 .. (Len(source) - 1), b \in 1 .. Len(source)}
Shown(masked) == {masked[k].at : k \in DOMAIN masked} \ {NoOffset}

\* No symbol that was masked or applied is shown, save blanks and labels.
FieldCovered(belt, custom, rules, old) ==
  \A detected \in Detected, only \in {Classes, Classes \ {"found"}} :
    LET shown == Shown(MaskField(source, belt, rules, detected, custom, only))
        applied == {c \in detected \cup custom.spans : c.cls \in only}
        passed == Offsets({c.span : c \in {d \in detected : d.cls \notin only}})
        label(k) == \E j \in (k + 2) .. Len(source) :
                      source[j] = ":" /\ \A i \in (k + 2) .. (j - 1) : source[i] = "space"
    IN  /\ shown \cap Offsets({c.span : c \in applied}) = {}
        /\ \A k \in shown \ (old \cup passed) : source[k + 1] \in Blank \/ label(k)

\* Whatever the old masker took away, or a pattern of the operator's then took
\* from its text, is not shown, save blanks, and a label that the end of a name
\* ran into (splitAtLineBreaks); nor is anything the core applies.  And without
\* patterns the belt decides: no field is masked as a whole for want of an
\* alignment.
MaskCovers ==
  \A rules \in Rules :
    /\ rules = <<>> => Cover(source, legacy, rules).ok
    /\ FieldCovered(Cover(source, legacy, rules), DetectCustom(source, rules), rules,
                    Shown(ApplyRules(legacy, rules, TokenVocab(rules)).text))
=============================================================================
