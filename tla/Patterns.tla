------------------------------ MODULE Patterns ------------------------------
(***************************************************************************)
(* An operator's PII pattern on its way to the engine (toEngineSource of   *)
(* custom_patterns.ts).  The pattern is JavaScript's; what scans is re2js, *)
(* linear in the text, and reads some patterns otherwise.  One walk writes *)
(* the engine's pattern and refuses what it cannot write so that it finds  *)
(* the same.  A pattern grows a node at a time, from the inside out.       *)
(***************************************************************************)
EXTENDS SequencesExt

CONSTANTS
  Leaves,      \* what a pattern is built from
  Counts,      \* the counts of its repeats: <<min, max>>
  Texts,       \* texts it is tried on
  Budget,      \* NESTED_REPEAT_BUDGET, re2js's own limit
  MaxSteps     \* bound on the nodes around the first

VARIABLES
  pattern,     \* the syntax tree
  steps        \* nodes around the first

vars == <<pattern, steps>>
-----------------------------------------------------------------------------
(* Trees.                                                                  *)

Alphabet == {"a", "A", "break"}
Fold(chars) == IF chars \cap {"a", "A"} = {} THEN chars ELSE chars \cup {"a", "A"}

Set(chars) == [is |-> "set", chars |-> chars]
Dot == [is |-> "any"]                      \* the dot
Word == [is |-> "word"]                    \* \w
Edge(at) == [is |-> "edge", at |-> at]     \* ^ and $
Look == [is |-> "look"]                    \* a lookahead, or another node the engine has not
Surrogate == [is |-> "surrogate"]          \* one half of a pair, escaped
Cat(parts) == [is |-> "cat", parts |-> parts]
Alt(parts) == [is |-> "alt", parts |-> parts]
Repeat(of, count, lazy) == [is |-> "repeat", of |-> of, min |-> count[1], max |-> count[2], lazy |-> lazy]

\* A group, with what it does to the flags i and s.
Group(of, i, s, m) == [is |-> "group", of |-> of, i |-> i, s |-> s, m |-> m]
Plain(of) == Group(of, "same", "same", FALSE)

Turned(flag, how) == CASE how = "on" -> TRUE [] how = "off" -> FALSE [] how = "same" -> flag

Empty == Cat(<<>>)
Never == Set({})
-----------------------------------------------------------------------------
(* What a pattern finds: the offsets a match from `at` can end at, in the  *)
(* order they are tried.  The engines differ in one thing: JavaScript gives *)
(* up a repeat's optional turn that matches nothing.                       *)

RECURSIVE Ends(_, _, _, _, _), Turns(_, _, _, _, _, _, _)

Ends(node, text, at, flags, js) ==
  LET one(chars) == IF at < Len(text) /\ text[at + 1] \in (IF flags.i THEN Fold(chars) ELSE chars)
                    THEN <<at + 1>> ELSE <<>>
      all(ends, next) == FlattenSeq([k \in DOMAIN ends |-> Ends(next, text, ends[k], flags, js)])
  IN  CASE node.is = "set" -> one(node.chars)
        [] node.is = "any" -> one(IF flags.s THEN Alphabet ELSE Alphabet \ {"break"})
        [] node.is = "word" -> one({"a", "A"})
        [] node.is = "edge" -> IF at = (IF node.at = "start" THEN 0 ELSE Len(text)) THEN <<at>> ELSE <<>>
        [] node.is = "cat" -> FoldLeft(all, <<at>>, node.parts)
        [] node.is = "alt" -> FlattenSeq([k \in DOMAIN node.parts |-> Ends(node.parts[k], text, at, flags, js)])
        [] node.is = "group" ->
             Ends(node.of, text, at, [i |-> Turned(flags.i, node.i), s |-> Turned(flags.s, node.s)], js)
        [] node.is = "repeat" -> Turns(node, node.min, node.max, text, at, flags, js)
        [] OTHER -> <<>>

Turns(node, min, max, text, at, flags, js) ==
  LET ends == IF max = 0 THEN <<>> ELSE Ends(node.of, text, at, flags, js)
      on(e) == IF js /\ min = 0 /\ e = at THEN <<>>
               ELSE Turns(node, IF min = 0 THEN 0 ELSE min - 1, max - 1, text, e, flags, js)
      more == FlattenSeq([k \in DOMAIN ends |-> on(ends[k])])
      stop == IF min = 0 THEN <<at>> ELSE <<>>
  IN  IF node.lazy THEN stop \o more ELSE more \o stop

Off == [i |-> FALSE, s |-> FALSE]
Found(node, text, at, js) ==
  LET ends == Ends(node, text, at, Off, js) IN IF ends = <<>> THEN <<>> ELSE <<Head(ends)>>

\* re2js parses no nest of repeats over its limit, each repeat on its own.
RECURSIVE RepeatValid(_, _)
RepeatValid(node, left) ==
  CASE node.is = "repeat" ->
         LET rest == IF node.max = 0 THEN left ELSE left \div node.max
         IN  node.max = 0 \/ (rest > 0 /\ RepeatValid(node.of, rest))
    [] node.is \in {"cat", "alt"} -> \A k \in DOMAIN node.parts : RepeatValid(node.parts[k], left)
    [] node.is = "group" -> RepeatValid(node.of, left)
    [] OTHER -> TRUE

\* It refuses a nest at any of its repeats, and a repeat of what matches nothing.
RECURSIVE EngineTakes(_)
EngineTakes(node) ==
  CASE node.is = "repeat" -> RepeatValid(node, Budget) /\ node.of # Never /\ EngineTakes(node.of)
    [] node.is \in {"cat", "alt"} -> \A k \in DOMAIN node.parts : EngineTakes(node.parts[k])
    [] node.is = "group" -> EngineTakes(node.of)
    [] OTHER -> node.is \in {"set", "edge"}
-----------------------------------------------------------------------------
(* The walk.  A node's attributes: whether it can match nothing, or        *)
(* something, and whether it tries nothing last.                           *)

Attr(el, canEmpty, canNonEmpty) == [el |-> el, canEmpty |-> canEmpty, canNonEmpty |-> canNonEmpty]
CharNode == Attr(TRUE, FALSE, TRUE)
EmptyNode == Attr(TRUE, TRUE, FALSE)
NothingNode == Attr(TRUE, FALSE, FALSE)
IsNothing(attr) == ~attr.canEmpty /\ ~attr.canNonEmpty

QuantifyAttr(atom, min, max, lazy) ==
  LET canEmpty == min = 0 \/ (atom.canEmpty /\ ~IsNothing(atom))
  IN  Attr(canEmpty => IF lazy /\ max > min /\ atom.canNonEmpty THEN FALSE ELSE atom.el,
           canEmpty,
           ~IsNothing(atom) /\ atom.canNonEmpty /\ max >= 1)

\* A repeat whose optional turns could match nothing before something.
EmptyChoice(atom, min, max) == max > min /\ atom.canEmpty /\ ~atom.el

ConcatNode(items) ==
  LET blocked == \E i \in DOMAIN items : IsNothing(items[i])
      canEmpty == ~blocked /\ \A i \in DOMAIN items : items[i].canEmpty
  IN  Attr(canEmpty => \A i \in DOMAIN items : items[i].el,
           canEmpty,
           ~blocked /\ \E i \in DOMAIN items : items[i].canNonEmpty)

\* Mutant: the order of the branches does not matter.
AltNode_AnyOrder(branches) ==
  LET canEmpty == \E i \in DOMAIN branches : branches[i].canEmpty
  IN  Attr(canEmpty => \A i \in DOMAIN branches : branches[i].el,
           canEmpty,
           \E i \in DOMAIN branches : branches[i].canNonEmpty)

AltNode(branches) ==
  LET canEmpty == \E i \in DOMAIN branches : branches[i].canEmpty
      emptyThenFull == \E b, a \in DOMAIN branches : b < a /\ branches[b].canEmpty /\ branches[a].canNonEmpty
  IN  Attr(canEmpty => (~emptyThenFull /\ \A i \in DOMAIN branches : branches[i].el),
           canEmpty,
           \E i \in DOMAIN branches : branches[i].canNonEmpty)

\* What the walk makes of a node: its attributes, the engine's node, whether a
\* nest of repeats is over the budget, what it refuses.
Walked(attr, node, over, refused) == [attr |-> attr, node |-> node, over |-> over, refused |-> refused]
Closed == Walked(NothingNode, Never, FALSE, {"invalid"})
Attrs(parts) == [k \in DOMAIN parts |-> parts[k].attr]
Refused(parts) == UNION {parts[k].refused : k \in DOMAIN parts}
Over(parts) == \E k \in DOMAIN parts : parts[k].over
Nodes(parts) == [k \in DOMAIN parts |-> parts[k].node]

ConcatAll(parts) ==
  LET attr == ConcatNode(Attrs(parts))
  IN  IF IsNothing(attr) THEN Walked(attr, Never, FALSE, Refused(parts))
      ELSE Walked(attr, Cat(Nodes(parts)), Over(parts), Refused(parts))

\* Branches that match nothing are not written.
EmitAlt(parts) ==
  LET attr == AltNode(Attrs(parts))
      kept == SelectSeq(parts, LAMBDA p : ~IsNothing(p.attr))
  IN  IF IsNothing(attr) THEN Walked(attr, Never, FALSE, Refused(parts))
      ELSE Walked(attr, IF Len(kept) = 1 THEN kept[1].node ELSE Alt(Nodes(kept)), Over(kept), Refused(parts))

WrapGroup(node, parent, child) ==
  Group(node, IF parent.i = child.i THEN "same" ELSE IF child.i THEN "on" ELSE "off", "same", FALSE)

EmitSet(chars) ==
  IF chars = {} THEN Walked(NothingNode, Never, FALSE, {}) ELSE Walked(CharNode, Set(chars), FALSE, {})

RECURSIVE WalkNode(_, _, _)
WalkNode(node, flags, left) ==
  LET each(parts) == [k \in DOMAIN parts |-> WalkNode(parts[k], flags, left)]
  IN  CASE node.is = "set" -> EmitSet(node.chars)
        [] node.is = "any" -> EmitSet(IF flags.s THEN Alphabet ELSE Alphabet \ {"break"})
        [] node.is = "word" -> Walked(CharNode, Set({"a", "A"}), FALSE, {"word"})
        [] node.is = "edge" -> Walked(EmptyNode, node, FALSE, {})
        [] node.is = "look" -> Closed
        [] node.is = "surrogate" -> Walked(CharNode, Never, FALSE, {"surrogate"})
        [] node.is = "cat" -> ConcatAll(each(node.parts))
        [] node.is = "alt" -> EmitAlt(each(node.parts))
        [] node.is = "group" ->
             LET child == [i |-> Turned(flags.i, node.i), s |-> Turned(flags.s, node.s)]
                 body == WalkNode(node.of, child, left)
                 said == (IF node.i = "on" THEN {"caseIgnore"} ELSE {}) \cup (IF node.m THEN {"multiline"} ELSE {})
             IN  IF IsNothing(body.attr) THEN Walked(body.attr, Never, FALSE, body.refused \cup said)
                 ELSE [body EXCEPT !.node = WrapGroup(@, flags, child), !.refused = @ \cup said]
        [] node.is = "repeat" ->
             LET rest == IF node.max = 0 THEN Budget ELSE left \div node.max
                 body == WalkNode(node.of, flags, rest)
                 attr == QuantifyAttr(body.attr, node.min, node.max, node.lazy)
                 said == body.refused
                         \cup (IF EmptyChoice(body.attr, node.min, node.max) THEN {"emptyChoice"} ELSE {})
             IN  IF IsNothing(body.attr) THEN Walked(attr, IF node.min = 0 THEN Empty ELSE Never, FALSE, said)
                 ELSE Walked(attr, [node EXCEPT !.of = body.node],
                             (node.max > 0 /\ rest = 0) \/ body.over, said)

\* throwCollected: a \w alone is no reason, nor is i alone.
Refuses(walked) ==
  \/ {"caseIgnore", "word"} \subseteq walked.refused
  \/ walked.refused \cap {"emptyChoice", "surrogate", "multiline", "invalid"} # {}
  \/ walked.over
-----------------------------------------------------------------------------
Init == pattern \in Leaves /\ steps = 0

Wrap(node) == steps < MaxSteps /\ pattern' = node /\ steps' = steps + 1

Append1(leaf) == Wrap(Cat(<<pattern, leaf>>))
Prepend(leaf) == Wrap(Cat(<<leaf, pattern>>))
Branch(leaf) == Wrap(Plain(Alt(<<pattern, leaf>>))) \/ Wrap(Plain(Alt(<<leaf, pattern>>)))
Flag == \E how \in {"on", "off"} : Wrap(Group(pattern, how, "same", FALSE)) \/ Wrap(Group(pattern, "same", how, FALSE))

\* With the u flag an assertion cannot be repeated, nor a repeat.
Atom == IF pattern.is \in {"set", "any", "word", "group"} THEN pattern ELSE Plain(pattern)
Times(count, lazy) == Wrap(Repeat(Atom, count, lazy))

Next == \/ \E leaf \in Leaves : Append1(leaf) \/ Prepend(leaf) \/ Branch(leaf)
        \/ Flag
        \/ \E count \in Counts, lazy \in BOOLEAN : Times(count, lazy)

Spec == Init /\ [][Next]_vars
-----------------------------------------------------------------------------
(* Properties.                                                             *)

\* A pattern that is not refused is one the engine can parse, and from every
\* offset of a text the engine's finds what JavaScript's would, so that no
\* match is lost or cut short (the promise of CompiledCustomPattern.matches).
PatternsMeanTheSame ==
  LET walked == WalkNode(pattern, Off, Budget)
  IN  ~Refuses(walked) =>
        /\ EngineTakes(walked.node)
        /\ \A text \in Texts : \A at \in 0 .. Len(text) :
             Found(pattern, text, at, TRUE) = Found(walked.node, text, at, FALSE)
=============================================================================
