---------------------------- MODULE KnownValues -----------------------------
(***************************************************************************)
(* What a masked field of a result said is also taken out of the result's  *)
(* other texts: knownValues and redactKnownValues of src/governance.ts,    *)
(* with the short cuts that spare a search.  Texts are sequences of        *)
(* characters; a token of the mask counts as one.                          *)
(***************************************************************************)
EXTENDS Naturals, SequencesExt, TLC

CONSTANTS
  Space, Token,  \* a blank, [MASKED_PII]
  Letters,       \* the letters and digits of any script
  Ascii,         \* the characters up to U+007F
  Folded,        \* of a character: as a case-insensitive search sees it,
  Lowered        \* and as toLowerCase gives it

MinLength == 3   \* MIN_KNOWN_VALUE_LENGTH

IsAscii(text) == ToSet(text) \subseteq Ascii
Lower(text) == [i \in DOMAIN text |-> Lowered[text[i]]]
Trimmed(text) ==
  LET solid == {i \in DOMAIN text : text[i] # Space}
  IN  IF solid = {} THEN <<>>
      ELSE SubSeq(text, CHOOSE i \in solid : \A j \in solid : i <= j, CHOOSE i \in solid : \A j \in solid : j <= i)

\* knownValues: the longest first.
Known(texts) ==
  SetToSortSeq({v \in {Trimmed(t) : t \in texts} : Len(v) >= MinLength}, LAMBDA v, w : Len(v) > Len(w))

\* knownValueMatcher: the value in any case, with no letter next to it.
FoundAt(value, text, i) ==
  LET end == i + Len(value) - 1
  IN  /\ end <= Len(text)
      /\ \A k \in DOMAIN value : Folded[text[i + k - 1]] = Folded[value[k]]
      /\ i = 1 \/ text[i - 1] \notin Letters
      /\ end = Len(text) \/ text[end + 1] \notin Letters
Found(value, text) == \E i \in DOMAIN text : FoundAt(value, text, i)

RECURSIVE Replaced(_, _)
Replaced(value, text) ==
  IF ~Found(value, text) THEN text
  ELSE LET i == CHOOSE k \in DOMAIN text : FoundAt(value, text, k) /\ \A j \in 1 .. k - 1 : ~FoundAt(value, text, j)
       IN  Append(SubSeq(text, 1, i - 1), Token) \o Replaced(value, SubSeq(text, i + Len(value), Len(text)))

Includes(t, s) == \E i \in 1 .. Len(t) + 1 - Len(s) : SubSeq(t, i, i + Len(s) - 1) = s

\* Mutant: lower case is compared whatever the text is made of.
Spared_AnyText(value, out, plain) ==
  IsAscii(value) /\ (Len(value) > Len(out) \/ ~Includes(Lower(out), Lower(value)))

\* The searches a plain value is spared; plain: so was the text to begin with.
Spared(value, out, plain) ==
  IsAscii(value) /\ (Len(value) > Len(out) \/ (plain /\ ~Includes(Lower(out), Lower(value))))

\* redactKnownValues.
Redacted(text, known) ==
  IF Len(text) < MinLength \/ \A i \in DOMAIN known : IsAscii(known[i]) /\ Len(known[i]) > Len(text) THEN text
  ELSE FoldLeft(LAMBDA out, value : IF Spared(value, out, IsAscii(text)) THEN out ELSE Replaced(value, out), text, known)
=============================================================================
