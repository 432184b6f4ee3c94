--------------------------- MODULE MaskingProofs ---------------------------
(***************************************************************************)
(* Proofs about Masking, for any texts, core spans and patterns that       *)
(* TextsAsMasked allows: what maskField shows of a field has been found    *)
(* by nobody.                                                              *)
(***************************************************************************)
EXTENDS Masking, Least, FiniteSetTheorems, SequenceTheorems, TLAPS

-----------------------------------------------------------------------------
(* A masked text that is traced to its field.                              *)

\* The symbols of a text.  The provers do not take a string as a member of STRING,
\* so those the model writes are named.
Symbol == STRING \cup Blank \cup Letters \cup {"[", ":", "pii", "secret"}

\* A token starts at symbol i.
StandsAt(old, i, tokens) == i \in 1 .. (Len(old) - 1) /\ <<old[i].is, old[i + 1].is>> \in tokens

\* The old masker kept the symbol: it says where in the field it stood.
IsKept(old, i) == old[i].at # NoOffset

\* Before symbol i stands a title, or a label and its colon, that is no end of a word.
AfterMark(old, i) ==
  \/ i >= 2 /\ old[i - 1].is = "title" /\ IsKept(old, i - 1) /\ (i >= 3 => old[i - 2].is \notin Letters)
  \/ i >= 3 /\ old[i - 2].is = "label" /\ old[i - 1].is = ":" /\ IsKept(old, i - 2) /\ IsKept(old, i - 1)
     /\ (i >= 4 => old[i - 3].is \notin Letters)

\* The space the masker writes between such a mark and PII.
Inserted(old, i) == old[i].is = "space" /\ StandsAt(old, i + 1, {PII}) /\ AfterMark(old, i)

\* Symbol i + 1 stood right after symbol i, or they are a label and the colon that the masker moved next to it.
Follows(text, old, i) ==
  \/ old[i + 1].at = old[i].at + 1
  \/ /\ old[i].is = "label" /\ old[i + 1].is = ":" /\ old[i].at < old[i + 1].at
     /\ i + 2 <= Len(old) /\ ~IsKept(old, i + 2) /\ Inserted(old, i + 2)
     /\ \A k \in (old[i].at + 1) .. (old[i + 1].at - 1) : text[k + 1] \in Blank

\* Each symbol of the masked text old is in the field text where it says, in the order it was there,
\* or of a token, or a space that was put in; and an end that was kept is the field's end.
Traced(text, old, tokens) ==
  /\ text \in Seq(Symbol)
  /\ old \in Seq([is : Symbol, at : {NoOffset} \cup 0 .. (Len(text) - 1)])
  /\ \A i \in 1 .. Len(old) :
       IF IsKept(old, i) THEN text[old[i].at + 1] = old[i].is
       ELSE StandsAt(old, i, tokens) \/ StandsAt(old, i - 1, tokens) \/ Inserted(old, i)
  /\ \A i, j \in 1 .. Len(old) : i < j /\ IsKept(old, i) /\ IsKept(old, j) => old[i].at < old[j].at
  /\ \A i \in 1 .. (Len(old) - 1) : IsKept(old, i) /\ IsKept(old, i + 1) => Follows(text, old, i)
  /\ Len(old) = 0 => Len(text) = 0
  /\ Len(old) > 0 => /\ IsKept(old, 1) => old[1].at = 0
                     /\ IsKept(old, Len(old)) => old[Len(old)].at = Len(text) - 1

-----------------------------------------------------------------------------
(* Bounded sets of numbers, and Min and Max.                               *)

\* A bounded set of numbers that is not empty has a greatest one.
LEMMA GreatestNumber ==
  ASSUME NEW n \in Nat, NEW S \in SUBSET (0 .. n), S # {}
  PROVE  \E k \in S : \A j \in S : j <= k
<1> DEFINE R == {n - j : j \in S}
<1>1. R \in SUBSET Nat /\ R # {}
  <2>1. ASSUME NEW j \in S PROVE n - j \in Nat
    OBVIOUS
  <2>2. R \in SUBSET Nat
    BY <2>1
  <2>3. PICK j \in S : TRUE
    OBVIOUS
  <2>4. n - j \in R
    OBVIOUS
  <2>5. QED
    BY <2>2, <2>4
<1>2. PICK r \in R : \A q \in R : r <= q
  BY <1>1, LeastNumber
<1>3. PICK k \in S : r = n - k
  BY <1>2
<1>4. ASSUME NEW j \in S PROVE j <= k
  <2>1. n - j \in R /\ j \in 0 .. n /\ k \in 0 .. n
    OBVIOUS
  <2>2. QED
    BY <1>2, <1>3, <2>1
<1>5. QED
  BY <1>4

\* Min of the community modules is what its name says.
LEMMA MinIs ==
  ASSUME NEW S \in SUBSET Nat, S # {}
  PROVE  Min(S) \in S /\ \A j \in S : Min(S) <= j
<1>1. \E k \in S : \A j \in S : k <= j
  BY LeastNumber
<1>2. QED
  BY <1>1 DEF Min

\* Max of the community modules is what its name says.
LEMMA MaxIs ==
  ASSUME NEW n \in Nat, NEW S \in SUBSET (0 .. n), S # {}
  PROVE  Max(S) \in S /\ \A j \in S : j <= Max(S)
<1>1. \E k \in S : \A j \in S : k >= j
  BY GreatestNumber
<1>2. QED
  BY <1>1 DEF Max

\* A set of numbers that has the first of an interval, and with each but the
\* last the next, has them all.
LEMMA UpTo ==
  ASSUME NEW a \in Nat, NEW b \in Nat, NEW S, a \in S, \A i \in a .. (b - 1) : i \in S => i + 1 \in S
  PROVE  \A i \in a .. b : i \in S
<1> DEFINE Out == {i \in a .. b : i \notin S}
<1>1. CASE Out = {}
  BY <1>1
<1>2. CASE Out # {}
  <2> Out \in SUBSET Nat
    <3>1. ASSUME NEW i \in a .. b PROVE i \in Nat
      OBVIOUS
    <3>2. QED
      BY <3>1
  <2>1. PICK k \in Out : \A j \in Out : k <= j
    BY <1>2, LeastNumber
  <2>2. k \in (a + 1) .. b /\ k - 1 \notin Out
    BY <2>1
  <2>3. QED
    BY <2>1, <2>2
<1>3. QED
  BY <1>1, <1>2

\* A set of numbers that has the last of an interval, and with each one of the
\* interval the one before it, has them all.
LEMMA DownTo ==
  ASSUME NEW a \in Nat, NEW b \in Nat, NEW S, b \in S, \A i \in a .. (b - 1) : i + 1 \in S => i \in S
  PROVE  \A i \in a .. b : i \in S
<1> DEFINE Out == {i \in a .. b : i \notin S}
<1>1. CASE Out = {}
  BY <1>1
<1>2. CASE Out # {}
  <2>1. Out \in SUBSET (0 .. b)
    <3>1. ASSUME NEW i \in a .. b PROVE i \in 0 .. b
      OBVIOUS
    <3>2. QED
      BY <3>1
  <2>2. PICK k \in Out : \A j \in Out : j <= k
    BY <1>2, <2>1, GreatestNumber
  <2>3. k \in a .. (b - 1) /\ k + 1 \notin Out
    BY <2>2
  <2>4. QED
    BY <2>2, <2>3
<1>3. QED
  BY <1>1, <1>2

-----------------------------------------------------------------------------
(* Rooms: the widest room between literals encloses the true one.          *)

\* Where a literal can stand in a text of n symbols.
Hits(n) == [start : 0 .. n, endMin : 0 .. n]

\* A literal that stands from s and ends at e at the earliest.
Hit(s, e) == [start |-> s, endMin |-> e]

\* One step of Latest, and of Earliest: the hits that fit, and the best of them.
LatestOf(fits) == IF fits = {} THEN NoOffset ELSE Max({h.start : h \in fits})
FitAfter(hits, final, i, at) == IF i = Len(hits) THEN final ELSE {h \in hits[i] : h.endMin <= at}

Foremost(fits) == {h \in fits : \A g \in fits : h.start <= g.start}
EarliestOf(fits) == IF fits = {} THEN NoOffset ELSE Max({h.endMin : h \in Foremost(fits)})
FitBefore(hits, first, i, at) ==
  IF i = 1 THEN first ELSE {h \in hits[i] : at # NoOffset /\ h.start >= at}

\* The recursive function of Latest satisfies its equation.
LEMMA LatestIs ==
  ASSUME NEW hits, Len(hits) \in Nat \ {0}, NEW final
  PROVE  \A i \in 2 .. Len(hits) :
           Latest(hits, final)[i] = LatestOf(FitAfter(hits, final, i, Latest(hits, final)[i + 1]))
<1> DEFINE last == Len(hits)
           Room(i, g) == IF i = last THEN final ELSE {h \in hits[i] : h.endMin <= g[i + 1]}
           Of(fits) == IF fits = {} THEN NoOffset ELSE Max({h.start : h \in fits})
           Up(m) == \E g : g = [i \in m .. last |-> Of(Room(i, g))]
<1>1. last \in Nat \ {0}
  OBVIOUS
<1>2. Up(last + 1)
  <2>1. [i \in (last + 1) .. last |-> 0] = [i \in (last + 1) .. last |-> Of(Room(i, [j \in (last + 1) .. last |-> 0]))]
    BY <1>1
  <2>2. QED
    BY <2>1
<1>3. ASSUME NEW m \in 2 .. last, Up(m + 1) PROVE Up(m)
  <2>1. PICK g : g = [i \in (m + 1) .. last |-> Of(Room(i, g))]
    BY <1>3
  <2> DEFINE h == [i \in m .. last |-> IF i = m THEN Of(Room(m, g)) ELSE g[i]]
  <2>2. ASSUME NEW i \in m .. last PROVE Room(i, h) = Room(i, g)
    <3>1. i # last => i + 1 \in (m + 1) .. last /\ h[i + 1] = g[i + 1]
      BY <1>1
    <3>2. QED
      BY <3>1
  <2>3. ASSUME NEW i \in m .. last PROVE h[i] = Of(Room(i, g))
    <3>1. i # m => i \in (m + 1) .. last
      OBVIOUS
    <3> HIDE DEF Of, Room
    <3>2. QED
      BY <2>1, <3>1
  <2>4. h = [i \in m .. last |-> Of(Room(i, h))]
    <3> HIDE DEF Of, Room
    <3> QED BY <2>2, <2>3
  <2>5. QED
    BY <2>4
<1>4. Up(2)
  <2> HIDE DEF Up
  <2>1. CASE last = 1
    BY <1>2, <2>1
  <2>2. CASE last # 1
    <3> DEFINE Good == {i \in Nat : Up(i)}
    <3>1. last + 1 \in Good /\ \A i \in 2 .. last : i + 1 \in Good => i \in Good
      BY <1>1, <1>2, <1>3
    <3>2. \A i \in 2 .. (last + 1) : i \in Good
      <4> HIDE DEF Good, last
      <4>1. 2 \in Nat /\ last + 1 \in Nat /\ (last + 1) - 1 = last
        BY <1>1
      <4>2. QED
        BY <3>1, <4>1, DownTo
    <3>3. QED
      BY <1>1, <2>2, <3>2
  <2>3. QED
    BY <2>1, <2>2
<1> DEFINE c == CHOOSE g : g = [i \in 2 .. last |-> Of(Room(i, g))]
<1>5. c = [i \in 2 .. last |-> Of(Room(i, c))]
  BY <1>4, Zenon
<1>6. Latest(hits, final) = c
  BY Zenon DEF Latest
<1>7. ASSUME NEW i \in 2 .. last PROVE c[i] = Of(Room(i, c))
  <2> HIDE DEF Of, Room, c
  <2> QED BY <1>5
<1>8. QED
  BY <1>6, <1>7 DEF LatestOf, FitAfter

\* The recursive function of Earliest satisfies its equation.
LEMMA EarliestIs ==
  ASSUME NEW hits, Len(hits) \in Nat \ {0}, NEW first
  PROVE  \A i \in 1 .. (Len(hits) - 1) :
           Earliest(hits, first)[i] = EarliestOf(FitBefore(hits, first, i, Earliest(hits, first)[i - 1]))
<1> DEFINE last == Len(hits) - 1
           Fit(i, e) == IF i = 1 THEN first
                        ELSE {h \in hits[i] : e[i - 1] # NoOffset /\ h.start >= e[i - 1]}
           Of(fits) == IF fits = {} THEN NoOffset
                       ELSE Max({h.endMin : h \in {h \in fits : \A g \in fits : h.start <= g.start}})
           Up(m) == \E e : e = [i \in 1 .. m |-> Of(Fit(i, e))]
<1>1. last \in Nat
  OBVIOUS
<1>2. Up(0)
  <2>1. [i \in 1 .. 0 |-> 0] = [i \in 1 .. 0 |-> Of(Fit(i, [j \in 1 .. 0 |-> 0]))]
    OBVIOUS
  <2>2. QED
    BY <2>1
<1>3. ASSUME NEW m \in 0 .. (last - 1), Up(m) PROVE Up(m + 1)
  <2>1. PICK g : g = [i \in 1 .. m |-> Of(Fit(i, g))]
    BY <1>3
  <2> DEFINE h == [i \in 1 .. (m + 1) |-> IF i = m + 1 THEN Of(Fit(m + 1, g)) ELSE g[i]]
  <2>2. ASSUME NEW i \in 1 .. (m + 1) PROVE Fit(i, h) = Fit(i, g)
    <3>1. i # 1 => i - 1 \in 1 .. m /\ h[i - 1] = g[i - 1]
      BY <1>1
    <3>2. QED
      BY <3>1
  <2>3. ASSUME NEW i \in 1 .. (m + 1) PROVE h[i] = Of(Fit(i, g))
    <3>1. i # m + 1 => i \in 1 .. m
      OBVIOUS
    <3> HIDE DEF Of, Fit
    <3>2. QED
      BY <2>1, <3>1
  <2>4. h = [i \in 1 .. (m + 1) |-> Of(Fit(i, h))]
    <3> HIDE DEF Of, Fit
    <3> QED BY <2>2, <2>3
  <2>5. QED
    BY <2>4
<1>4. Up(last)
  <2> HIDE DEF Up, last
  <2> DEFINE Good == {i \in Nat : Up(i)}
  <2>1. 0 \in Good /\ \A i \in 0 .. (last - 1) : i \in Good => i + 1 \in Good
    BY <1>1, <1>2, <1>3
  <2>2. \A i \in 0 .. last : i \in Good
    <3> HIDE DEF Good
    <3> QED BY <1>1, <2>1, UpTo
  <2>3. QED
    BY <1>1, <2>2
<1> DEFINE c == CHOOSE e : e = [i \in 1 .. last |-> Of(Fit(i, e))]
<1>5. c = [i \in 1 .. last |-> Of(Fit(i, c))]
  BY <1>4, Zenon
<1>6. Earliest(hits, first) = c
  BY Zenon DEF Earliest
<1>7. ASSUME NEW i \in 1 .. last PROVE c[i] = Of(Fit(i, c))
  <2> HIDE DEF Of, Fit, c
  <2> QED BY <1>5
<1>8. ASSUME NEW i \in 1 .. last, NEW e PROVE Of(Fit(i, e)) = EarliestOf(FitBefore(hits, first, i, e[i - 1]))
  BY DEF EarliestOf, FitBefore, Foremost
<1>9. QED
  <2> HIDE DEF Of, Fit, c
  <2> QED BY <1>6, <1>7, <1>8

\* The latest start of the hits that fit is no earlier than that of any of them.
LEMMA LatestEncloses ==
  ASSUME NEW n \in Nat, NEW fits \in SUBSET Hits(n), NEW h \in fits
  PROVE  LatestOf(fits) \in 0 .. n /\ h.start <= LatestOf(fits)
<1> DEFINE starts == {g.start : g \in fits}
<1>1. starts \in SUBSET (0 .. n) /\ h.start \in starts
  BY DEF Hits
<1>2. Max(starts) \in starts /\ \A j \in starts : j <= Max(starts)
  <2> HIDE DEF starts
  <2> QED BY <1>1, MaxIs
<1>3. LatestOf(fits) = Max(starts)
  BY DEF LatestOf
<1> HIDE DEF starts
<1>4. QED
  BY <1>1, <1>2, <1>3

\* The earliest end is no later than that of any hit that fits, as hits are ordered.
LEMMA EarliestEncloses ==
  ASSUME NEW n \in Nat, NEW fits \in SUBSET Hits(n), NEW h \in fits,
         \A a, b \in fits : a.start <= b.start => a.endMin <= b.endMin
  PROVE  EarliestOf(fits) \in 0 .. n /\ EarliestOf(fits) <= h.endMin
<1> DEFINE starts == {g.start : g \in fits}
           ends == {g.endMin : g \in Foremost(fits)}
<1>1. starts \in SUBSET Nat /\ h.start \in starts
  BY DEF Hits
<1>2. PICK s \in starts : \A j \in starts : s <= j
  BY <1>1, LeastNumber
<1>3. PICK f \in Foremost(fits) : TRUE
  BY <1>2 DEF Foremost
<1>4. \A g \in Foremost(fits) : g.endMin \in 0 .. n /\ g.endMin <= h.endMin
  BY DEF Hits, Foremost
<1>5. ends \in SUBSET (0 .. n) /\ f.endMin \in ends /\ \A e \in ends : e <= h.endMin
  BY <1>3, <1>4
<1>6. Max(ends) \in ends
  <2> HIDE DEF ends
  <2> QED BY <1>5, MaxIs
<1>7. EarliestOf(fits) = Max(ends)
  BY DEF EarliestOf
<1> HIDE DEF ends
<1>8. QED
  BY <1>5, <1>6, <1>7

\* What is between two offsets is between two that are further apart.
LEMMA Widened ==
  ASSUME NEW n \in Nat, NEW a \in 0 .. n, NEW b \in 0 .. n, NEW c \in 0 .. n, NEW d \in 0 .. n, a <= b, c <= d,
         NEW k \in b .. (c - 1)
  PROVE  k \in a .. (d - 1) /\ a < d
OBVIOUS

\* The room between two literals that are where they stand is in the widest one,
\* so no character that was taken away there is outside the spans: the belt's
\* soundness (alignOutput of src/mask/belt.ts).  s, e: where each literal starts
\* and ends in truth.
LEMMA RoomsEnclose ==
  ASSUME NEW text, Len(text) \in Nat, NEW hits, Len(hits) \in Nat \ {0},
         \A i \in 1 .. Len(hits) : hits[i] \in SUBSET Hits(Len(text)),
         \A i \in 1 .. Len(hits) : \A a, b \in hits[i] : a.start <= b.start => a.endMin <= b.endMin,
         NEW s \in [1 .. Len(hits) -> 0 .. Len(text)], NEW e \in [1 .. Len(hits) -> 0 .. Len(text)],
         \A i \in 1 .. Len(hits) : Hit(s[i], e[i]) \in hits[i],
         s[1] = 0, e[Len(hits)] = Len(text), \A i \in 1 .. (Len(hits) - 1) : e[i] <= s[i + 1]
  PROVE  LET rooms == Rooms(text, hits)
         IN  /\ rooms.ok
             /\ \A sp \in rooms.spans : /\ sp = Span(sp.start, sp.end) /\ sp.start < sp.end
                                        /\ sp.start \in 0 .. Len(text) /\ sp.end \in 0 .. Len(text)
             /\ \A i \in 1 .. (Len(hits) - 1) : \A k \in e[i] .. (s[i + 1] - 1) : k \in Offsets(rooms.spans)
<1> DEFINE n == Len(text)
           last == Len(hits)
           first == {h \in hits[1] : h.start = 0}
           final == {h \in hits[last] : h.endMin = n}
           latest == Latest(hits, final)
           earliest == Earliest(hits, first)
           room == {Span(earliest[i], latest[i + 1]) : i \in 1 .. (last - 1)}
<1>1. n \in Nat /\ last \in Nat \ {0}
  OBVIOUS
<1>2. Hit(s[1], e[1]) \in first /\ Hit(s[last], e[last]) \in final
      /\ first \in SUBSET hits[1] /\ first \in SUBSET Hits(n) /\ final \in SUBSET Hits(n)
  <2>1. 1 \in 1 .. last /\ last \in 1 .. last
    BY <1>1
  <2>2. QED
    BY <2>1 DEF Hit
<1>3. ASSUME NEW i \in 2 .. last, i = last \/ (latest[i + 1] \in 0 .. n /\ s[i + 1] <= latest[i + 1])
      PROVE  latest[i] \in 0 .. n /\ s[i] <= latest[i]
  <2> DEFINE fits == FitAfter(hits, final, i, latest[i + 1])
  <2>1. latest[i] = LatestOf(fits)
    <3> HIDE DEF final
    <3> QED BY LatestIs
  <2>2. Hit(s[i], e[i]) \in fits /\ fits \in SUBSET Hits(n)
    <3> HIDE DEF latest
    <3>1. CASE i = last
      <4> HIDE DEF final
      <4> QED BY <1>2, <3>1 DEF FitAfter
    <3>2. CASE i # last
      <4>1. i \in 1 .. (last - 1) /\ i + 1 \in 1 .. last /\ i \in 1 .. last
        BY <1>1, <3>2
      <4>2. e[i] \in 0 .. n /\ s[i + 1] \in 0 .. n /\ e[i] <= s[i + 1]
        BY <4>1
      <4>3. e[i] <= latest[i + 1]
        BY <1>1, <1>3, <3>2, <4>2
      <4>4. Hit(s[i], e[i]).endMin = e[i] /\ Hit(s[i], e[i]) \in hits[i] /\ hits[i] \in SUBSET Hits(n)
        BY <4>1 DEF Hit
      <4>5. QED
        BY <3>2, <4>3, <4>4 DEF FitAfter
    <3>3. QED
      BY <3>1, <3>2
  <2>3. Hit(s[i], e[i]).start = s[i]
    BY DEF Hit
  <2> HIDE DEF fits, latest, n
  <2>4. QED
    BY <1>1, <2>1, <2>2, <2>3, LatestEncloses
<1>4. \A i \in 2 .. last : latest[i] \in 0 .. n /\ s[i] <= latest[i]
  <2> HIDE DEF latest, final, n, last
  <2> DEFINE Good == {i \in Nat : latest[i] \in 0 .. n /\ s[i] <= latest[i]}
  <2>1. CASE last = 1
    BY <2>1
  <2>2. CASE last # 1
    <3>1. last \in 2 .. last
      BY <1>1, <2>2
    <3>2. last \in Good
      BY <1>1, <1>3, <3>1
    <3>3. \A i \in 2 .. (last - 1) : i \in 2 .. last /\ i \in Nat
      BY <1>1
    <3>4. \A i \in 2 .. (last - 1) : i + 1 \in Good => i \in Good
      BY <1>3, <3>3
    <3>5. \A i \in 2 .. last : i \in Good
      <4> HIDE DEF Good
      <4> QED BY <1>1, <3>2, <3>4, DownTo
    <3>6. QED
      BY <3>5
  <2>3. QED
    BY <2>1, <2>2
<1>5. ASSUME NEW i \in 1 .. (last - 1), i = 1 \/ (earliest[i - 1] \in 0 .. n /\ earliest[i - 1] <= e[i - 1])
      PROVE  earliest[i] \in 0 .. n /\ earliest[i] <= e[i]
  <2> DEFINE fits == FitBefore(hits, first, i, earliest[i - 1])
  <2>1. earliest[i] = EarliestOf(fits)
    <3> HIDE DEF first
    <3> QED BY EarliestIs
  <2>2. i \in 1 .. last
    BY <1>1
  <2>3. Hit(s[i], e[i]) \in fits /\ fits \in SUBSET hits[i]
    <3> HIDE DEF earliest
    <3>1. CASE i = 1
      <4> HIDE DEF first
      <4> QED BY <1>2, <3>1 DEF FitBefore
    <3>2. CASE i # 1
      <4>1. i - 1 \in 1 .. (last - 1) /\ i - 1 \in 1 .. last /\ (i - 1) + 1 = i
        BY <1>1, <3>2
      <4>2. e[i - 1] \in 0 .. n /\ s[i] \in 0 .. n /\ e[i - 1] <= s[i]
        BY <2>2, <4>1
      <4>3. earliest[i - 1] # NoOffset /\ s[i] >= earliest[i - 1]
        BY <1>1, <1>5, <3>2, <4>2 DEF NoOffset
      <4>4. Hit(s[i], e[i]).start = s[i] /\ Hit(s[i], e[i]) \in hits[i]
        BY <2>2 DEF Hit
      <4>5. QED
        BY <3>2, <4>3, <4>4 DEF FitBefore
    <3>3. QED
      BY <3>1, <3>2
  <2>4. Hit(s[i], e[i]).endMin = e[i] /\ hits[i] \in SUBSET Hits(n)
    BY <2>2 DEF Hit
  <2>5. \A a, b \in fits : a.start <= b.start => a.endMin <= b.endMin
    <3> HIDE DEF fits
    <3> QED BY <2>2, <2>3
  <2> HIDE DEF fits, earliest, n
  <2>6. fits \in SUBSET Hits(n)
    BY <2>3, <2>4
  <2>7. QED
    BY <1>1, <2>1, <2>3, <2>4, <2>5, <2>6, EarliestEncloses
<1>6. \A i \in 1 .. (last - 1) : earliest[i] \in 0 .. n /\ earliest[i] <= e[i]
  <2> HIDE DEF earliest, first, n, last
  <2> DEFINE Good == {i \in Nat : earliest[i] \in 0 .. n /\ earliest[i] <= e[i]}
  <2>1. CASE last = 1
    BY <2>1
  <2>2. CASE last # 1
    <3>1. 1 \in 1 .. (last - 1) /\ last - 1 \in Nat
      BY <1>1, <2>2
    <3>2. 1 \in Good
      BY <1>5, <3>1
    <3>3. \A i \in 1 .. ((last - 1) - 1) : i + 1 \in 1 .. (last - 1) /\ (i + 1) - 1 = i /\ i + 1 \in Nat
      BY <1>1
    <3>4. \A i \in 1 .. ((last - 1) - 1) : i \in Good => i + 1 \in Good
      BY <1>5, <3>3
    <3>5. \A i \in 1 .. (last - 1) : i \in Good
      <4> HIDE DEF Good
      <4> QED BY <3>1, <3>2, <3>4, UpTo
    <3>6. QED
      BY <3>5
  <2>3. QED
    BY <2>1, <2>2
<1>7. \A i \in 1 .. (last - 1) : /\ earliest[i] \in 0 .. n /\ latest[i + 1] \in 0 .. n
                                 /\ earliest[i] <= e[i] /\ e[i] \in 0 .. n
                                 /\ e[i] <= s[i + 1] /\ s[i + 1] \in 0 .. n /\ s[i + 1] <= latest[i + 1]
  <2>1. ASSUME NEW i \in 1 .. (last - 1) PROVE i + 1 \in 2 .. last /\ i \in 1 .. last /\ i + 1 \in 1 .. last
    BY <1>1
  <2> HIDE DEF earliest, latest
  <2>2. QED
    BY <1>4, <1>6, <2>1
<1>8. Rooms(text, hits) = Spans({sp \in room : sp.start < sp.end})
  <2>1. Rooms(text, hits) = IF first = {} \/ final = {} \/ \E sp \in room : sp.start = NoOffset \/ sp.end = NoOffset \/ sp.end < sp.start
                            THEN Refused ELSE Spans({sp \in room : sp.start < sp.end})
    BY Zenon DEF Rooms
  <2> HIDE DEF earliest, latest, n, last
  <2>2. ~ \E sp \in room : sp.start = NoOffset \/ sp.end = NoOffset \/ sp.end < sp.start
    <3>1. ASSUME NEW i \in 1 .. (last - 1)
          PROVE  earliest[i] # -1 /\ latest[i + 1] # -1 /\ ~ (latest[i + 1] < earliest[i])
      <4>1. /\ earliest[i] \in 0 .. n /\ latest[i + 1] \in 0 .. n
            /\ earliest[i] <= e[i] /\ e[i] \in 0 .. n
            /\ e[i] <= s[i + 1] /\ s[i + 1] \in 0 .. n /\ s[i + 1] <= latest[i + 1]
        BY <1>7
      <4>2. QED
        BY <1>1, <4>1
    <3>2. QED
      BY <3>1 DEF Span, NoOffset
  <2> HIDE DEF first, final, room
  <2>3. QED
    BY <1>2, <2>1, <2>2
<1> DEFINE spans == {sp \in room : sp.start < sp.end}
<1> HIDE DEF earliest, latest, n, last
<1>9. \A sp \in spans : /\ sp = Span(sp.start, sp.end) /\ sp.start < sp.end
                        /\ sp.start \in 0 .. n /\ sp.end \in 0 .. n
  BY <1>1, <1>7 DEF Span
<1>10. ASSUME NEW i \in 1 .. (last - 1), NEW k \in e[i] .. (s[i + 1] - 1)
       PROVE  k \in Offsets(spans)
  <2> DEFINE sp == Span(earliest[i], latest[i + 1])
  <2>1. sp \in room /\ sp.start = earliest[i] /\ sp.end = latest[i + 1]
    BY DEF Span
  <2>2. k \in earliest[i] .. (latest[i + 1] - 1) /\ earliest[i] < latest[i + 1]
    <3>1. /\ earliest[i] \in 0 .. n /\ latest[i + 1] \in 0 .. n
          /\ earliest[i] <= e[i] /\ e[i] \in 0 .. n
          /\ e[i] <= s[i + 1] /\ s[i + 1] \in 0 .. n /\ s[i + 1] <= latest[i + 1]
      BY <1>7
    <3>2. QED
      BY <1>1, <3>1, Widened
  <2>3. QED
    BY <2>1, <2>2 DEF Offsets
<1>11. QED
  <2> HIDE DEF spans
  <2>1. Rooms(text, hits).ok /\ Rooms(text, hits).spans = spans
    BY <1>8 DEF Spans, spans
  <2>2. QED
    BY <1>9, <1>10, <2>1 DEF n, last

\* Every gap between two literals where they stand in truth is in a span, and the
\* spans are in the text.
RoomsHold(text, hits, s, e) ==
  LET rooms == Rooms(text, hits)
  IN  /\ rooms.ok
      /\ \A sp \in rooms.spans : /\ sp = Span(sp.start, sp.end) /\ sp.start < sp.end
                                 /\ sp.start \in 0 .. Len(text) /\ sp.end \in 0 .. Len(text)
      /\ \A i \in 1 .. (Len(hits) - 1) : \A k \in e[i] .. (s[i + 1] - 1) : k \in Offsets(rooms.spans)

\* RoomsEnclose, with the lengths named.
LEMMA RoomsEnclosed ==
  ASSUME NEW text, NEW n \in Nat, Len(text) = n, NEW hits, NEW last \in Nat \ {0}, Len(hits) = last,
         \A i \in 1 .. last : /\ hits[i] \in SUBSET Hits(n)
                             /\ \A a, b \in hits[i] : a.start <= b.start => a.endMin <= b.endMin,
         NEW s \in [1 .. last -> 0 .. n], NEW e \in [1 .. last -> 0 .. n],
         \A i \in 1 .. last : Hit(s[i], e[i]) \in hits[i],
         s[1] = 0, e[last] = n, \A i \in 1 .. (last - 1) : e[i] <= s[i + 1]
  PROVE  RoomsHold(text, hits, s, e)
BY RoomsEnclose DEF RoomsHold

-----------------------------------------------------------------------------
(* Slices, tokens and marks.                                               *)

\* What a slice holds.
LEMMA SliceIs ==
  ASSUME NEW S, NEW text \in Seq(S), NEW a \in Nat, NEW b \in Nat, a <= b, b <= Len(text)
  PROVE  /\ Slice(text, a, b) \in Seq(S) /\ Len(Slice(text, a, b)) = b - a
         /\ \A k \in 1 .. (b - a) : Slice(text, a, b)[k] = text[a + k]
<1>1. a + 1 \in 1 .. (Len(text) + 1) /\ b \in a .. Len(text)
  OBVIOUS
<1>2. SubSeq(text, a + 1, b) \in Seq(S)
  BY <1>1
<1>3. Len(SubSeq(text, a + 1, b)) = b - a
  BY <1>1
<1>4. \A k \in 1 .. (b - a) : SubSeq(text, a + 1, b)[k] = text[a + k]
  BY <1>1
<1>5. QED
  BY <1>2, <1>3, <1>4 DEF Slice

\* A slice from end to end is the text.
LEMMA WholeSlice ==
  ASSUME NEW S, NEW text \in Seq(S)
  PROVE  Slice(text, 0, Len(text)) = text
BY DEF Slice

\* Two sequences with the same elements are one.
LEMMA SameSeq ==
  ASSUME NEW S, NEW a \in Seq(S), NEW b \in Seq(S), Len(a) = Len(b), \A k \in 1 .. Len(a) : a[k] = b[k]
  PROVE  a = b
BY SeqEqual

\* StartsWith compares symbol by symbol.
LEMMA StartsWithIs ==
  ASSUME NEW S, NEW text \in Seq(S), NEW what \in Seq(S), NEW at \in Nat
  PROVE  StartsWith(text, what, at) <=> /\ at + Len(what) <= Len(text)
                                        /\ \A k \in 1 .. Len(what) : text[at + k] = what[k]
<1>1. Len(what) \in Nat /\ Len(text) \in Nat
  OBVIOUS
<1>2. CASE at + Len(what) > Len(text)
  BY <1>1, <1>2 DEF StartsWith
<1>3. CASE at + Len(what) <= Len(text)
  <2> DEFINE part == Slice(text, at, at + Len(what))
  <2>1. /\ part \in Seq(S) /\ Len(part) = Len(what)
        /\ \A k \in 1 .. Len(what) : part[k] = text[at + k]
    <3> DEFINE b == at + Len(what)
    <3>1. b \in Nat /\ at <= b /\ b <= Len(text) /\ b - at = Len(what)
      BY <1>1, <1>3
    <3> HIDE DEF b
    <3>2. /\ Slice(text, at, b) \in Seq(S) /\ Len(Slice(text, at, b)) = b - at
          /\ \A k \in 1 .. (b - at) : Slice(text, at, b)[k] = text[at + k]
      BY <3>1, SliceIs
    <3>3. QED
      BY <3>1, <3>2 DEF b
  <2> HIDE DEF part
  <2>2. part = what <=> \A k \in 1 .. Len(what) : text[at + k] = what[k]
    BY <2>1, SameSeq
  <2>3. QED
    BY <1>3, <2>2 DEF StartsWith, part
<1>4. QED
  BY <1>1, <1>2, <1>3

\* EndsWith compares symbol by symbol, from the end.
LEMMA EndsWithIs ==
  ASSUME NEW S, NEW text \in Seq(S), NEW what \in Seq(S)
  PROVE  EndsWith(text, what) <=> /\ Len(what) <= Len(text)
                                  /\ \A k \in 1 .. Len(what) : text[Len(text) - Len(what) + k] = what[k]
<1>1. Len(what) \in Nat /\ Len(text) \in Nat
  OBVIOUS
<1>2. CASE Len(what) > Len(text)
  BY <1>1, <1>2 DEF EndsWith
<1>3. CASE Len(what) <= Len(text)
  <2>1. Len(text) - Len(what) \in Nat /\ (Len(text) - Len(what)) + Len(what) = Len(text)
    BY <1>1, <1>3
  <2>2. StartsWith(text, what, Len(text) - Len(what)) <=> \A k \in 1 .. Len(what) : text[Len(text) - Len(what) + k] = what[k]
    BY <1>1, <2>1, StartsWithIs
  <2>3. QED
    BY <1>3, <2>2 DEF EndsWith
<1>4. QED
  BY <1>1, <1>2, <1>3

\* A slice of two symbols.
LEMMA PairSlice ==
  ASSUME NEW S, NEW text \in Seq(S), NEW k \in Nat, k + 2 <= Len(text)
  PROVE  Slice(text, k, k + 2) = <<text[k + 1], text[k + 2]>>
<1> DEFINE pair == <<text[k + 1], text[k + 2]>>
<1>1. text[k + 1] \in S /\ text[k + 2] \in S
  OBVIOUS
<1>2. pair \in Seq(S) /\ Len(pair) = 2 /\ pair[1] = text[k + 1] /\ pair[2] = text[k + 2]
  BY <1>1
<1>3. /\ Slice(text, k, k + 2) \in Seq(S) /\ Len(Slice(text, k, k + 2)) = 2
      /\ \A i \in 1 .. 2 : Slice(text, k, k + 2)[i] = text[k + i]
  <2> DEFINE b == k + 2
  <2>1. b \in Nat /\ k <= b /\ b <= Len(text) /\ b - k = 2
    OBVIOUS
  <2> HIDE DEF b
  <2>2. /\ Slice(text, k, b) \in Seq(S) /\ Len(Slice(text, k, b)) = b - k
        /\ \A i \in 1 .. (b - k) : Slice(text, k, b)[i] = text[k + i]
    BY <2>1, SliceIs
  <2>3. QED
    BY <2>1, <2>2 DEF b
<1> HIDE DEF pair
<1>4. \A i \in 1 .. 2 : Slice(text, k, k + 2)[i] = pair[i]
  <2>1. ASSUME NEW i \in 1 .. 2 PROVE i = 1 \/ i = 2
    OBVIOUS
  <2>2. QED
    BY <1>2, <1>3, <2>1
<1>5. Slice(text, k, k + 2) = pair
  BY <1>2, <1>3, <1>4, SameSeq
<1>6. QED
  BY <1>5 DEF pair

\* Where tokens start.
AtWithin(text, from, to, tokens) ==
  {k \in from .. (to - 1) : k + 2 <= Len(text) /\ <<text[k + 1], text[k + 2]>> \in tokens}

\* TokensIn has the offsets where two symbols are a token.
LEMMA TokensInIs ==
  ASSUME NEW S, NEW text \in Seq(S), NEW from \in Nat, NEW to \in Nat, NEW tokens
  PROVE  TokensIn(text, from, to, tokens) = AtWithin(text, from, to, tokens)
<1>1. ASSUME NEW k \in from .. (to - 1), k + 2 <= Len(text)
      PROVE  Slice(text, k, k + 2) = <<text[k + 1], text[k + 2]>>
  <2>1. k \in Nat
    OBVIOUS
  <2>2. QED
    BY <1>1, <2>1, PairSlice
<1>2. QED
  BY <1>1 DEF TokensIn, AtWithin

\* Past stops at the first symbol that is no blank, and never goes back.
LEMMA PastIs ==
  ASSUME NEW S, NEW text \in Seq(S), NEW at \in 0 .. Len(text)
  PROVE  /\ Past(text, at) \in at .. Len(text)
         /\ Past(text, at) = Len(text) \/ text[Past(text, at) + 1] \notin Blank
         /\ \A k \in at .. Len(text) : k = Len(text) \/ text[k + 1] \notin Blank => Past(text, at) <= k
<1> DEFINE stops == {k \in at .. Len(text) : k = Len(text) \/ text[k + 1] \notin Blank}
<1>1. stops \in SUBSET Nat /\ Len(text) \in stops
  <2>1. Len(text) \in Nat /\ at \in Nat /\ at <= Len(text)
    OBVIOUS
  <2>2. \A k \in stops : k \in Nat
    BY <2>1
  <2>3. QED
    BY <2>1, <2>2
<1>2. Past(text, at) \in stops /\ \A k \in stops : Past(text, at) <= k
  <2> HIDE DEF stops
  <2>1. Min(stops) \in stops /\ \A k \in stops : Min(stops) <= k
    BY <1>1, MinIs
  <2>2. QED
    BY <2>1 DEF stops, Past
<1>3. QED
  BY <1>2

\* From a later offset Past stops no earlier.
LEMMA PastMonotone ==
  ASSUME NEW S, NEW text \in Seq(S), NEW a \in 0 .. Len(text), NEW b \in 0 .. Len(text), a <= b
  PROVE  Past(text, a) <= Past(text, b)
<1>1. Past(text, b) \in b .. Len(text) /\ (Past(text, b) = Len(text) \/ text[Past(text, b) + 1] \notin Blank)
  BY PastIs
<1>2. Past(text, b) \in a .. Len(text)
  BY <1>1
<1>3. QED
  BY <1>1, <1>2, PastIs

\* What it means for a literal to end in a mark (MarkAfter).
LabelMark(text) ==
  LET n == Len(text) IN /\ n >= 3 /\ text[n - 2] = "label" /\ text[n - 1] = ":" /\ text[n] = "space"
                        /\ n >= 4 => text[n - 3] \notin Letters

\* What it means for it to end in a title.
TitleMark(text) ==
  LET n == Len(text) IN /\ n >= 2 /\ text[n - 1] = "title" /\ text[n] = "space"
                        /\ n >= 3 => text[n - 2] \notin Letters

\* A text ends in a mark that is no end of a word.
LEMMA IsMarkIs ==
  ASSUME NEW text \in Seq(Symbol), NEW what \in Seq(Symbol)
  PROVE  IsMark(text, what) <=>
           /\ Len(what) <= Len(text) /\ \A k \in 1 .. Len(what) : text[Len(text) - Len(what) + k] = what[k]
           /\ Len(text) - Len(what) > 0 => text[Len(text) - Len(what)] \notin Letters
BY EndsWithIs DEF IsMark, BoundaryOk

\* MarkAfter tells which mark, or none.
LEMMA MarkAfterIs ==
  ASSUME NEW text \in Seq(Symbol)
  PROVE  /\ MarkAfter(text) \in {"exact", "label", "title"}
         /\ MarkAfter(text) = "label" <=> LabelMark(text)
         /\ MarkAfter(text) = "title" <=> TitleMark(text)
<1> DEFINE label == <<"label", ":", "space">>
           title == <<"title", "space">>
           n == Len(text)
<1>1. n \in Nat
  OBVIOUS
<1>2. label \in Seq(Symbol) /\ Len(label) = 3 /\ label[1] = "label" /\ label[2] = ":" /\ label[3] = "space"
  <2>1. "label" \in Symbol /\ ":" \in Symbol /\ "space" \in Symbol
    BY DEF Symbol, Letters, Blank
  <2>2. label \in Seq(Symbol)
    BY <2>1
  <2>3. QED
    BY <2>2
<1>3. title \in Seq(Symbol) /\ Len(title) = 2 /\ title[1] = "title" /\ title[2] = "space"
  <2>1. "title" \in Symbol /\ "space" \in Symbol
    BY DEF Symbol, Letters, Blank
  <2>2. title \in Seq(Symbol)
    BY <2>1
  <2>3. QED
    BY <2>2
<1>4. IsMark(text, label) <=> LabelMark(text)
  <2> HIDE DEF label
  <2>0. IsMark(text, label) <=>
          /\ Len(label) <= n /\ \A k \in 1 .. Len(label) : text[n - Len(label) + k] = label[k]
          /\ n - Len(label) > 0 => text[n - Len(label)] \notin Letters
    BY <1>2, IsMarkIs
  <2>1. IsMark(text, label) <=> /\ 3 <= n /\ \A k \in 1 .. 3 : text[n - 3 + k] = label[k]
                                /\ n - 3 > 0 => text[n - 3] \notin Letters
    BY <1>2, <2>0
  <2>2. (\A k \in 1 .. 3 : text[n - 3 + k] = label[k]) <=>
          text[n - 2] = "label" /\ text[n - 1] = ":" /\ text[n] = "space"
    <3>1. \A k \in 1 .. 3 : k = 1 \/ k = 2 \/ k = 3
      OBVIOUS
    <3>2. n - 3 + 1 = n - 2 /\ n - 3 + 2 = n - 1 /\ n - 3 + 3 = n
      BY <1>1
    <3>3. (\A k \in 1 .. 3 : text[n - 3 + k] = label[k]) <=>
             text[n - 3 + 1] = label[1] /\ text[n - 3 + 2] = label[2] /\ text[n - 3 + 3] = label[3]
      BY <3>1
    <3>4. QED
      BY <1>2, <3>2, <3>3
  <2>3. n - 3 > 0 <=> n >= 4
    BY <1>1
  <2>4. QED
    BY <1>1, <2>1, <2>2, <2>3 DEF LabelMark
<1>5. IsMark(text, title) <=> TitleMark(text)
  <2> HIDE DEF title
  <2>0. IsMark(text, title) <=>
          /\ Len(title) <= n /\ \A k \in 1 .. Len(title) : text[n - Len(title) + k] = title[k]
          /\ n - Len(title) > 0 => text[n - Len(title)] \notin Letters
    BY <1>3, IsMarkIs
  <2>1. IsMark(text, title) <=> /\ 2 <= n /\ \A k \in 1 .. 2 : text[n - 2 + k] = title[k]
                                /\ n - 2 > 0 => text[n - 2] \notin Letters
    BY <1>3, <2>0
  <2>2. (\A k \in 1 .. 2 : text[n - 2 + k] = title[k]) <=> text[n - 1] = "title" /\ text[n] = "space"
    <3>1. \A k \in 1 .. 2 : k = 1 \/ k = 2
      OBVIOUS
    <3>2. n - 2 + 1 = n - 1 /\ n - 2 + 2 = n
      BY <1>1
    <3>3. (\A k \in 1 .. 2 : text[n - 2 + k] = title[k]) <=> text[n - 2 + 1] = title[1] /\ text[n - 2 + 2] = title[2]
      BY <3>1
    <3>4. QED
      BY <1>3, <3>2, <3>3
  <2>3. n - 2 > 0 <=> n >= 3
    BY <1>1
  <2>4. QED
    BY <1>1, <2>1, <2>2, <2>3 DEF TitleMark
<1>6. ~(LabelMark(text) /\ TitleMark(text))
  BY DEF LabelMark, TitleMark
<1>7. QED
  <2> HIDE DEF label, title
  <2>1. MarkAfter(text) = CASE IsMark(text, label) -> "label" [] IsMark(text, title) -> "title" [] OTHER -> "exact"
    BY DEF MarkAfter, label, title
  <2>2. QED
    BY <1>4, <1>5, <1>6, <2>1

\* A literal of ParsePieces.
Literal(text, mode) == [text |-> text, mode |-> mode]

-----------------------------------------------------------------------------
(* Matches: where a literal can stand.                                     *)

\* A literal's rigid part is a beginning of it.
LEMMA RigidIs ==
  ASSUME NEW t \in Seq(Symbol), NEW mode \in {"exact", "label", "title"},
         mode = "label" => Len(t) >= 3, mode = "title" => Len(t) >= 2
  PROVE  LET rigid == Rigid(Literal(t, mode))
             short == CASE mode = "exact" -> 0 [] mode = "label" -> 2 [] mode = "title" -> 1
         IN  rigid \in Seq(Symbol) /\ Len(rigid) = Len(t) - short /\ \A k \in 1 .. Len(rigid) : rigid[k] = t[k]
<1>1. CASE mode = "exact"
  BY <1>1 DEF Rigid, Literal
<1>2. CASE mode = "label"
  <2>1. Rigid(Literal(t, mode)) = SubSeq(t, 1, Len(t) - 2)
    BY <1>2 DEF Rigid, Literal
  <2>2. QED
    BY <1>2, <2>1
<1>3. CASE mode = "title"
  <2>1. Rigid(Literal(t, mode)) = SubSeq(t, 1, Len(t) - 1)
    BY <1>3 DEF Rigid, Literal
  <2>2. QED
    BY <1>3, <2>1
<1>4. QED
  BY <1>1, <1>2, <1>3

\* What Matches is, in each mode.
LEMMA ExactMatches ==
  ASSUME NEW text \in Seq(Symbol), NEW t \in Seq(Symbol), NEW at \in Nat, at + Len(t) <= Len(text),
         \A k \in 1 .. Len(t) : text[at + k] = t[k]
  PROVE  Hit(at, at + Len(t)) \in Matches(text, Literal(t, "exact"))
<1> DEFINE lit == Literal(t, "exact")
<1>1. lit.mode = "exact" /\ Rigid(lit) = t
  BY DEF Rigid, Literal
<1>2. StartsWith(text, t, at) /\ at \in 0 .. (Len(text) - Len(t))
  BY StartsWithIs
<1> HIDE DEF lit
<1>3. QED
  BY <1>1, <1>2 DEF Matches, Hit, lit

\* A literal that ends in a title can stand wherever all of it but its space does.
LEMMA TitleMatches ==
  ASSUME NEW text \in Seq(Symbol), NEW t \in Seq(Symbol), TitleMark(t), NEW at \in Nat,
         at + Len(t) - 1 <= Len(text), \A k \in 1 .. (Len(t) - 1) : text[at + k] = t[k]
  PROVE  Hit(at, at + (Len(t) - 1)) \in Matches(text, Literal(t, "title"))
<1> DEFINE lit == Literal(t, "title")
           rigid == Rigid(lit)
<1>1. Len(t) \in Nat /\ Len(t) >= 2 /\ Len(text) \in Nat
  BY DEF TitleMark
<1>2. rigid \in Seq(Symbol) /\ Len(rigid) = Len(t) - 1 /\ \A k \in 1 .. (Len(t) - 1) : rigid[k] = t[k]
  BY <1>1, RigidIs
<1>3. lit.mode = "title"
  BY DEF Literal
<1> HIDE DEF lit, rigid
<1>4. StartsWith(text, rigid, at) /\ at \in 0 .. (Len(text) - Len(rigid))
  <2>1. at + Len(rigid) <= Len(text) /\ at \in 0 .. (Len(text) - Len(rigid))
    BY <1>1, <1>2
  <2>2. \A k \in 1 .. Len(rigid) : text[at + k] = rigid[k]
    BY <1>1, <1>2
  <2>3. QED
    BY <1>2, <2>1, <2>2, StartsWithIs
<1>5. Len(rigid) = 1 \/ BoundaryOk(text, at + Len(rigid) - 1)
  <2> DEFINE m == Len(t)
  <2>0. m = 2 \/ m > 2
    <3> HIDE DEF m
    <3>1. m \in Nat /\ m >= 2 
      BY <1>1 DEF m
    <3>2. QED
      BY <3>1
  <2>1. CASE Len(t) = 2
    BY <1>2, <2>1
  <2>2. CASE Len(t) > 2
    <3>1. Len(t) - 2 \in 1 .. (Len(t) - 1) /\ at + Len(rigid) - 1 = at + (Len(t) - 2)
      BY <1>1, <1>2, <2>2
    <3>2. t[Len(t) - 2] \notin Letters
      <4>1. Len(t) >= 3
        BY <1>1, <2>2
      <4>2. QED
        BY <4>1 DEF TitleMark
    <3>3. QED
      BY <3>1, <3>2 DEF BoundaryOk
  <2>3. QED
    BY <2>0, <2>1, <2>2
<1>6. at + (Len(t) - 1) = at + Len(rigid)
  BY <1>2
<1>7. Matches(text, lit) = {[start |-> a, endMin |-> a + Len(rigid)] :
          a \in {b \in 0 .. (Len(text) - Len(rigid)) :
                    StartsWith(text, rigid, b) /\ (Len(rigid) = 1 \/ BoundaryOk(text, b + Len(rigid) - 1))}}
  BY <1>3 DEF Matches, rigid
<1>8. Hit(at, at + Len(rigid)) \in Matches(text, lit)
  BY <1>4, <1>5, <1>7 DEF Hit
<1>9. QED
  BY <1>6, <1>8 DEF lit

\* A literal that ends in a label and a colon can stand wherever all before the
\* colon does, with only blanks up to a colon.
LEMMA LabelMatches ==
  ASSUME NEW text \in Seq(Symbol), NEW t \in Seq(Symbol), LabelMark(t), NEW at \in Nat,
         NEW c \in Nat, at + Len(t) - 2 <= c, c < Len(text), text[c + 1] = ":",
         \A k \in 1 .. (Len(t) - 2) : text[at + k] = t[k],
         \A k \in (at + Len(t) - 2) .. (c - 1) : text[k + 1] \in Blank
  PROVE  Hit(at, c + 1) \in Matches(text, Literal(t, "label"))
<1> DEFINE lit == Literal(t, "label")
           rigid == Rigid(lit)
<1>1. Len(t) \in Nat /\ Len(t) >= 3 /\ Len(text) \in Nat
  BY DEF LabelMark
<1>2. rigid \in Seq(Symbol) /\ Len(rigid) = Len(t) - 2 /\ \A k \in 1 .. (Len(t) - 2) : rigid[k] = t[k]
  BY <1>1, RigidIs
<1>3. lit.mode = "label"
  BY DEF Literal
<1> HIDE DEF lit, rigid
<1>4. StartsWith(text, rigid, at) /\ at \in 0 .. (Len(text) - Len(rigid))
  <2>1. at + Len(rigid) <= Len(text) /\ at \in 0 .. (Len(text) - Len(rigid))
    BY <1>1, <1>2
  <2>2. \A k \in 1 .. Len(rigid) : text[at + k] = rigid[k]
    BY <1>1, <1>2
  <2>3. QED
    BY <1>2, <2>1, <2>2, StartsWithIs
<1>5. Len(rigid) = 1 \/ BoundaryOk(text, at + Len(rigid) - 1)
  <2> DEFINE m == Len(t)
  <2>0. m = 3 \/ m > 3
    <3> HIDE DEF m
    <3>1. m \in Nat /\ m >= 3 
      BY <1>1 DEF m
    <3>2. QED
      BY <3>1
  <2>1. CASE Len(t) = 3
    BY <1>2, <2>1
  <2>2. CASE Len(t) > 3
    <3>1. Len(t) - 3 \in 1 .. (Len(t) - 2) /\ at + Len(rigid) - 1 = at + (Len(t) - 3)
      BY <1>1, <1>2, <2>2
    <3>2. t[Len(t) - 3] \notin Letters
      <4>1. Len(t) >= 4
        BY <1>1, <2>2
      <4>2. QED
        BY <4>1 DEF LabelMark
    <3>3. QED
      BY <3>1, <3>2 DEF BoundaryOk
  <2>3. QED
    BY <2>0, <2>1, <2>2
<1> DEFINE from == at + Len(rigid)
<1>6. from = at + Len(t) - 2 /\ from \in 0 .. Len(text) /\ c \in from .. Len(text)
  BY <1>1, <1>2
<1>7. Past(text, from) = c
  <2> HIDE DEF from
  <2>1. /\ Past(text, from) \in from .. Len(text)
        /\ Past(text, from) = Len(text) \/ text[Past(text, from) + 1] \notin Blank
    BY <1>6, PastIs
  <2>2. Past(text, from) <= c
    <3>1. text[c + 1] \notin Blank
      BY DEF Blank
    <3>2. QED
      BY <1>6, <3>1, PastIs
  <2>3. CASE Past(text, from) < c
    <3>1. Past(text, from) \in from .. (c - 1)
      BY <1>1, <1>6, <2>1, <2>3
    <3>2. QED
      BY <1>1, <1>6, <2>1, <2>3, <3>1
  <2>4. QED
    BY <1>1, <1>6, <2>1, <2>2, <2>3
<1>8. StartsWith(text, <<":">>, c)
  <2>1. <<":">> \in Seq(Symbol) /\ Len(<<":">>) = 1 /\ <<":">>[1] = ":"
    OBVIOUS
  <2> DEFINE colon == <<":">>
  <2>2. \A k \in 1 .. 1 : text[c + k] = colon[k]
    BY <2>1
  <2>3. colon \in Seq(Symbol) /\ Len(colon) = 1 /\ c + 1 <= Len(text)
    BY <1>1, <2>1
  <2>4. StartsWith(text, colon, c)
    <3> HIDE DEF colon
    <3> QED BY <2>2, <2>3, StartsWithIs
  <2>5. QED
    BY <2>4
<1>9. Matches(text, lit) = {[start |-> a, endMin |-> Past(text, a + Len(rigid)) + 1] :
          a \in {b \in 0 .. (Len(text) - Len(rigid)) :
                    StartsWith(text, rigid, b) /\ (Len(rigid) = 1 \/ BoundaryOk(text, b + Len(rigid) - 1))
                    /\ StartsWith(text, <<":">>, Past(text, b + Len(rigid)))}}
  BY <1>3 DEF Matches, rigid
<1>10. QED
  BY <1>4, <1>5, <1>7, <1>8, <1>9 DEF Hit, lit

\* The hits of a literal are in the text, and a later one ends no earlier.
LEMMA MatchesOrdered ==
  ASSUME NEW text \in Seq(Symbol), NEW t \in Seq(Symbol), NEW mode \in {"exact", "label", "title"},
         mode = "label" => Len(t) >= 3, mode = "title" => Len(t) >= 2
  PROVE  /\ Matches(text, Literal(t, mode)) \in SUBSET Hits(Len(text))
         /\ \A a, b \in Matches(text, Literal(t, mode)) : a.start <= b.start => a.endMin <= b.endMin
<1> DEFINE lit == Literal(t, mode)
           rigid == Rigid(lit)
           r == Len(rigid)
           n == Len(text)
           places == 0 .. (n - r)
<1>1. rigid \in Seq(Symbol) /\ r \in Nat /\ n \in Nat
  BY RigidIs
<1>2. lit.mode = mode
  BY DEF Literal
<1>3. CASE mode # "label"
  <2>1. \A h \in Matches(text, lit) : \E a \in places : h = [start |-> a, endMin |-> a + r]
    <3> HIDE DEF lit
    <3> QED BY <1>2, <1>3 DEF Matches
  <2> HIDE DEF lit, r, n
  <2>2. \A a \in places : a \in 0 .. n /\ a + r \in 0 .. n
    BY <1>1
  <2>3. \A h \in Matches(text, lit) : h.start \in places /\ h.endMin = h.start + r /\ h \in Hits(n)
    BY <2>1, <2>2 DEF Hits
  <2>4. QED
    BY <1>1, <2>3 DEF lit, n
<1>4. CASE mode = "label"
  <2>1. \A h \in Matches(text, lit) :
          \E a \in places : /\ h = [start |-> a, endMin |-> Past(text, a + r) + 1]
                            /\ StartsWith(text, <<":">>, Past(text, a + r))
    <3> HIDE DEF lit
    <3> QED BY <1>2, <1>4 DEF Matches
  <2>2. \A a \in places : a \in 0 .. n /\ a + r \in 0 .. n
    <3> HIDE DEF r, n
    <3> QED BY <1>1
  <2>3. \A a \in places : Past(text, a + r) \in 0 .. n
    <3>1. ASSUME NEW a \in places PROVE Past(text, a + r) \in 0 .. n
      <4>1. Past(text, a + r) \in (a + r) .. n
        BY <2>2, PastIs
      <4> HIDE DEF r, n
      <4>2. QED
        BY <1>1, <2>2, <4>1
    <3>2. QED
      BY <3>1
  <2>4. \A a \in places : StartsWith(text, <<":">>, Past(text, a + r)) => Past(text, a + r) + 1 \in 0 .. n
    <3>1. \A p \in 0 .. n : StartsWith(text, <<":">>, p) => p + 1 \in 0 .. n
      BY DEF StartsWith
    <3>2. QED
      BY <2>3, <3>1
  <2>5. \A a, b \in places : a <= b => Past(text, a + r) <= Past(text, b + r)
    <3>1. \A a, b \in places : a <= b => a + r <= b + r
      <4> HIDE DEF r, n
      <4> QED BY <1>1
    <3>2. QED
      BY <2>2, <3>1, PastMonotone
  <2>6. \A a, b \in places : a <= b => Past(text, a + r) + 1 <= Past(text, b + r) + 1
    <3> HIDE DEF r, n, places
    <3> QED BY <1>1, <2>3, <2>5
  <2> HIDE DEF lit, r, n, places
  <2>7. \A h \in Matches(text, lit) :
          h.start \in places /\ h.endMin = Past(text, h.start + r) + 1 /\ h \in Hits(n)
    BY <2>1, <2>2, <2>4 DEF Hits
  <2>8. QED
    BY <2>6, <2>7 DEF lit, n
<1>5. QED
  BY <1>3, <1>4

-----------------------------------------------------------------------------
(* The tokens of a text and the literals between them.                     *)

\* The recursive function of TokenStarts satisfies its equation.
Lists(f, T, last) == f = [i \in 1 .. last |-> Min({k \in T : i = 1 \/ f[i - 1] < k})]

\* Such a function exists.
LEMMA StartsIs ==
  ASSUME NEW T, NEW last \in Nat
  PROVE  \E f : Lists(f, T, last)
<1> DEFINE After(i, f) == Min({k \in T : i = 1 \/ f[i - 1] < k})
           Up(m) == \E f : f = [i \in 1 .. m |-> After(i, f)]
<1>1. Up(0)
  <2>1. [i \in 1 .. 0 |-> 0] = [i \in 1 .. 0 |-> After(i, [j \in 1 .. 0 |-> 0])]
    OBVIOUS
  <2>2. QED
    BY <2>1
<1>2. ASSUME NEW m \in 0 .. (last - 1), Up(m) PROVE Up(m + 1)
  <2>1. PICK g : g = [i \in 1 .. m |-> After(i, g)]
    BY <1>2
  <2> DEFINE h == [i \in 1 .. (m + 1) |-> IF i = m + 1 THEN After(m + 1, g) ELSE g[i]]
  <2>2. ASSUME NEW i \in 1 .. (m + 1) PROVE After(i, h) = After(i, g)
    <3>1. i # 1 => i - 1 \in 1 .. m /\ h[i - 1] = g[i - 1]
      OBVIOUS
    <3>2. {k \in T : i = 1 \/ h[i - 1] < k} = {k \in T : i = 1 \/ g[i - 1] < k}
      BY <3>1
    <3>3. QED
      BY <3>2
  <2>3. ASSUME NEW i \in 1 .. (m + 1) PROVE h[i] = After(i, g)
    <3>1. i # m + 1 => i \in 1 .. m
      OBVIOUS
    <3> HIDE DEF After
    <3>2. QED
      BY <2>1, <3>1
  <2>4. h = [i \in 1 .. (m + 1) |-> After(i, h)]
    <3> HIDE DEF After
    <3> QED BY <2>2, <2>3
  <2>5. QED
    BY <2>4
<1>3. Up(last)
  <2> HIDE DEF Up
  <2> DEFINE Good == {i \in Nat : Up(i)}
  <2>1. 0 \in Good /\ \A i \in 0 .. (last - 1) : i \in Good => i + 1 \in Good
    BY <1>1, <1>2
  <2>2. \A i \in 0 .. last : i \in Good
    <3> HIDE DEF Good
    <3> QED BY <2>1, UpTo
  <2>3. QED
    BY <2>2
<1>4. QED
  BY <1>3 DEF Lists

\* It lists a finite set of numbers in order, all of it.
InOrder(f, T, last) ==
  /\ f \in [1 .. last -> T]
  /\ \A i \in 1 .. (last - 1) : f[i] < f[i + 1]
  /\ \A k \in T : \E i \in 1 .. last : f[i] = k

\* It lists its set in order, without leaving one out.
LEMMA StartsInOrder ==
  ASSUME NEW T \in SUBSET Nat, IsFiniteSet(T), NEW f, Lists(f, T, Cardinality(T))
  PROVE  InOrder(f, T, Cardinality(T))
<1> DEFINE last == Cardinality(T)
<1>0. last \in Nat /\ Lists(f, T, last) /\ last = Cardinality(T)
  BY FS_CardinalityType
<1> HIDE DEF last
<1> USE <1>0
<1> DEFINE Low(i) == {f[j] : j \in 1 .. i}
           Listed(i) == /\ Low(i) \in SUBSET T /\ IsFiniteSet(Low(i)) /\ Cardinality(Low(i)) = i
                        /\ \A k \in T \ Low(i) : i = 0 \/ f[i] < k
                        /\ \A j \in 1 .. i : f[j] <= f[i]
<1>1. IsFiniteSet(T) /\ T \in SUBSET Nat
  OBVIOUS
<1>2. Listed(0)
  <2>1. Low(0) = {}
    OBVIOUS
  <2>2. \A j \in 1 .. 0 : FALSE
    OBVIOUS
  <2> HIDE DEF Low
  <2>3. QED
    BY <2>1, <2>2, FS_EmptySet
<1>3. ASSUME NEW i \in 0 .. (last - 1), Listed(i)
      PROVE  Listed(i + 1) /\ f[i + 1] \in T /\ (i # 0 => f[i] < f[i + 1])
  <2> DEFINE rest == {k \in T : i + 1 = 1 \/ f[i] < k}
             x == f[i + 1]
  <2>1. f[i + 1] = Min(rest)
    <3>1. i + 1 \in 1 .. last /\ (i + 1) - 1 = i
      OBVIOUS
    <3>2. QED
      BY <3>1 DEF Lists
  <2>2. i \in Nat /\ i < last /\ (i + 1 = 1 <=> i = 0) /\ (i # 0 => i \in 1 .. i)
    OBVIOUS
  <2>0. \A j \in 1 .. i : f[j] <= f[i] /\ f[j] \in T /\ i # 0
    <3>0. \A j \in 1 .. i : i # 0
      OBVIOUS
    <3>1. \A j \in 1 .. i : f[j] \in Low(i)
      BY Zenon
    <3> HIDE DEF Low
    <3>2. QED
      BY <1>3, <3>0, <3>1
  <2>3. T \ Low(i) \in SUBSET rest
    <3> HIDE DEF Low
    <3> QED BY <1>3, <2>2
  <2>4. T \ Low(i) # {}
    <3> HIDE DEF Low
    <3>1. CASE T \ Low(i) = {}
      <4>1. T = Low(i)
        BY <1>3, <3>1
      <4>2. Cardinality(T) = i
        BY <1>3, <4>1
      <4>3. QED
        BY <2>2, <4>2
    <3>2. QED
      BY <3>1
  <2>5. x \in rest /\ \A k \in rest : x <= k
    <3> HIDE DEF x
    <3>1. rest \in SUBSET Nat /\ rest # {}
      <4> HIDE DEF Low
      <4> QED BY <1>1, <2>3, <2>4
    <3> HIDE DEF rest
    <3>2. Min(rest) \in rest /\ \A k \in rest : Min(rest) <= k
      BY <3>1, MinIs
    <3>3. QED
      BY <2>1, <3>2 DEF x
  <2>6. Low(i + 1) = Low(i) \cup {x}
    <3>1. \A j : j \in 1 .. (i + 1) <=> j \in 1 .. i \/ j = i + 1
      BY <2>2
    <3>2. QED
      BY <3>1
  <2>7. i # 0 => f[i] < x
    BY <2>2, <2>5
  <2>8. x \notin Low(i)
    <3>1. ASSUME NEW j \in 1 .. i, x = f[j] PROVE FALSE
      <4>1. f[j] <= f[i] /\ f[j] \in T /\ f[i] \in T /\ i # 0
        BY <2>0, <2>2
      <4>2. f[j] \in Nat /\ f[i] \in Nat /\ x \in Nat
        BY <1>1, <4>1, <2>5
      <4> HIDE DEF x, rest
      <4>3. QED
        BY <3>1, <2>7, <4>1, <4>2
    <3>2. QED
      BY <3>1
  <2>9. IsFiniteSet(Low(i + 1)) /\ Cardinality(Low(i + 1)) = i + 1 /\ Low(i + 1) \in SUBSET T
    <3> HIDE DEF Low
    <3>1. IsFiniteSet(Low(i) \cup {x}) /\ Cardinality(Low(i) \cup {x}) = Cardinality(Low(i)) + 1
      <4> HIDE DEF x
      <4> QED BY <1>3, <2>8, FS_AddElement
    <3>2. QED
      BY <1>3, <2>5, <2>6, <3>1
  <2>10. \A k \in T \ Low(i + 1) : x < k
    <3> HIDE DEF Low
    <3>1. ASSUME NEW k \in T \ Low(i + 1) PROVE x < k
      <4>1. k \in rest /\ k # x /\ k \in Nat /\ x \in Nat
        BY <1>1, <2>3, <2>5, <2>6
      <4> HIDE DEF x, rest
      <4>2. x <= k
        BY <2>5, <4>1
      <4>3. QED
        BY <4>1, <4>2
    <3>2. QED
      BY <3>1
  <2>11. \A j \in 1 .. (i + 1) : f[j] <= x
    <3>1. ASSUME NEW j \in 1 .. i PROVE f[j] <= x
      <4>1. f[j] <= f[i] /\ f[j] \in T /\ f[i] \in T /\ i # 0
        BY <2>0, <2>2
      <4>2. f[j] \in Nat /\ f[i] \in Nat /\ x \in Nat
        BY <1>1, <4>1, <2>5
      <4> HIDE DEF x, rest
      <4>3. QED
        BY <2>7, <4>1, <4>2
    <3>2. x <= x
      BY <1>1, <2>5
    <3>3. \A j \in 1 .. (i + 1) : j \in 1 .. i \/ j = i + 1
      BY <2>2
    <3>4. QED
      BY <3>1, <3>2, <3>3
  <2>12. QED
    <3> HIDE DEF Low, rest
    <3>1. i + 1 # 0
      BY <2>2
    <3>2. QED
      BY <2>5, <2>7, <2>9, <2>10, <2>11, <3>1 DEF rest
<1>4. \A i \in 0 .. last : Listed(i)
  <2> HIDE DEF Listed
  <2> DEFINE Good == {i \in Nat : Listed(i)}
  <2>0. \A i \in 0 .. (last - 1) : i \in Nat /\ i + 1 \in Nat /\ (Listed(i) => Listed(i + 1))
    <3>1. \A i \in 0 .. (last - 1) : i \in Nat /\ i + 1 \in Nat
      OBVIOUS
    <3>2. \A i \in 0 .. (last - 1) : Listed(i) => Listed(i + 1)
      BY <1>3, Zenon
    <3>3. QED
      BY <3>1, <3>2, Zenon
  <2>1. 0 \in Good /\ \A i \in 0 .. (last - 1) : i \in Good => i + 1 \in Good
    BY <1>2, <2>0
  <2>2. \A i \in 0 .. last : i \in Good
    <3> HIDE DEF Good
    <3> QED BY <2>1, UpTo
  <2>3. QED
    BY <2>2
<1>5. \A i \in 1 .. last : f[i] \in T
  <2>1. ASSUME NEW i \in 1 .. last PROVE f[i] \in T
    <3>1. i \in 0 .. last /\ i \in 1 .. i
      OBVIOUS
    <3>2. f[i] \in Low(i) /\ Low(i) \in SUBSET T
      BY <1>4, <3>1
    <3>3. QED
      BY <3>2
  <2>2. QED
    BY <2>1
<1>6. \A i \in 1 .. (last - 1) : f[i] < f[i + 1]
  <2>1. ASSUME NEW i \in 1 .. (last - 1) PROVE i \in 0 .. (last - 1) /\ i # 0 /\ i \in 0 .. last
    OBVIOUS
  <2> HIDE DEF Listed
  <2>2. QED
    BY <1>3, <1>4, <2>1
<1>7. \A k \in T : \E i \in 1 .. last : f[i] = k
  <2>1. Listed(last)
    <3> HIDE DEF Listed
    <3>1. last \in 0 .. last
      OBVIOUS
    <3>2. QED
      BY <1>4, <3>1
  <2>2. Low(last) = T
    <3> HIDE DEF Low
    <3> QED BY <1>1, <2>1, FS_Subset
  <2>3. QED
    BY <2>2
<1>8. f = [i \in 1 .. last |-> f[i]]
  BY DEF Lists
<1>9. QED
  BY <1>5, <1>6, <1>7, <1>8 DEF InOrder, last

\* Tokens start with a bracket, and what follows it is no bracket, nothing that
\* a name has in it, and nothing of a mark.
TokensAreWords(tokens) ==
  PII \in tokens /\ \A t \in tokens : \E c \in Symbol : t = <<"[", c>> /\ c \notin Letters \cup Blank \cup {"[", ":"}

\* Where tokens start.
At(output, tokens) == AtWithin(output, 0, Len(output), tokens)

\* What a token's two symbols can be.
LEMMA PairsDiffer ==
  ASSUME NEW tokens, TokensAreWords(tokens), NEW a, NEW b, <<a, b>> \in tokens
  PROVE  a = "[" /\ b \notin Letters \cup Blank \cup {"[", ":"}
BY DEF TokensAreWords

\* No two tokens overlap.
LEMMA TokensApart ==
  ASSUME NEW output, NEW n \in Nat, n = Len(output), NEW tokens, TokensAreWords(tokens),
         NEW j \in At(output, tokens), NEW k \in At(output, tokens), j < k
  PROVE  j + 2 <= k
<1>1. j \in 0 .. (n - 1) /\ k \in 0 .. (n - 1)
  BY DEF At, AtWithin
<1>2. output[j + 2] # "[" /\ output[k + 1] = "["
  BY PairsDiffer DEF At, AtWithin
<1>3. k # j + 1
  <2>1. k = j + 1 => k + 1 = j + 2
    BY <1>1
  <2>2. QED
    BY <1>2, <2>1
<1>4. QED
  BY <1>1, <1>3

\* TokenStarts lists the tokens of a text in order, all of them and none over another.
LEMMA TokenStartsAre ==
  ASSUME NEW output \in Seq(Symbol), NEW tokens, TokensAreWords(tokens)
  PROVE  LET found == TokenStarts(output, tokens)
         IN  /\ Len(found) \in Nat
             /\ found \in [1 .. Len(found) -> At(output, tokens)]
             /\ \A i \in 1 .. (Len(found) - 1) : found[i] + 2 <= found[i + 1]
             /\ \A k \in At(output, tokens) : \E i \in 1 .. Len(found) : found[i] = k
<1> DEFINE T == At(output, tokens)
           n == Len(output)
           last == Cardinality(T)
           f == CHOOSE g : g = [i \in 1 .. last |-> Min({k \in T : i = 1 \/ g[i - 1] < k})]
<1>1. n \in Nat
  OBVIOUS
<1>2. TokensIn(output, 0, Len(output), tokens) = T
  <2> HIDE DEF n
  <2>1. TokensIn(output, 0, n, tokens) = AtWithin(output, 0, n, tokens)
    BY <1>1, TokensInIs
  <2>2. QED
    BY <2>1 DEF At, n
<1>3. TokenStarts(output, tokens) = f
  BY <1>2, Zenon DEF TokenStarts
<1>4. T \in SUBSET (0 .. n)
  <2> HIDE DEF n
  <2>1. \A k \in 0 .. (n - 1) : k \in 0 .. n
    BY <1>1
  <2>2. QED
    BY <2>1 DEF At, AtWithin, n
<1>5. IsFiniteSet(T) /\ T \in SUBSET Nat /\ last \in Nat
  <2> HIDE DEF T, n
  <2>1. T \in SUBSET Nat /\ \A k \in T : k <= n
    BY <1>1, <1>4
  <2>2. IsFiniteSet(T)
    BY <1>1, <2>1, FS_BoundedSetOfNaturals
  <2>3. QED
    BY <2>1, <2>2, FS_CardinalityType
<1>6. Lists(f, T, last)
  <2> HIDE DEF T
  <2>1. \E g : Lists(g, T, last)
    <3> HIDE DEF last
    <3> QED BY <1>5, StartsIs
  <2>2. QED
    BY <2>1, Zenon DEF Lists
<1>7. /\ f \in [1 .. last -> T]
      /\ \A i \in 1 .. (last - 1) : f[i] < f[i + 1]
      /\ \A k \in T : \E i \in 1 .. last : f[i] = k
  <2> HIDE DEF T, f
  <2>1. InOrder(f, T, last)
    BY <1>5, <1>6, StartsInOrder
  <2>2. QED
    BY <2>1 DEF InOrder
<1>8. Len(f) = last
  <2> HIDE DEF f, T, last
  <2> QED BY <1>5, <1>7
<1>9. \A i \in 1 .. (last - 1) : f[i] + 2 <= f[i + 1]
  <2>1. ASSUME NEW i \in 1 .. (last - 1) PROVE f[i] + 2 <= f[i + 1]
    <3> HIDE DEF f, last
    <3>1. i \in 1 .. last /\ i + 1 \in 1 .. last
      BY <1>5
    <3>2. f[i] \in T /\ f[i + 1] \in T /\ f[i] < f[i + 1]
      BY <1>7, <3>1
    <3> HIDE DEF n
    <3>3. QED
      BY <1>1, <3>2, TokensApart DEF n
  <2>2. QED
    BY <2>1
<1>10. QED
  <2> HIDE DEF f, T, last
  <2> QED BY <1>3, <1>5, <1>7, <1>8, <1>9 DEF T

\* Where the literals between the tokens start and end.
From(found, i) == IF i = 1 THEN 0 ELSE found[i - 1] + 2

\* Where the literal before token i ends.
To(found, n, i) == IF i = Len(found) + 1 THEN n ELSE found[i]

\* How it is looked for (literalMode of src/mask/belt.ts).
Mode(output, found, i) ==
  IF i # Len(found) + 1 /\ <<output[found[i] + 1], output[found[i] + 2]>> = PII
  THEN MarkAfter(Slice(output, From(found, i), To(found, Len(output), i))) ELSE "exact"

\* The literals lie between the tokens, and have no token in them.
LEMMA LiteralsBetween ==
  ASSUME NEW output \in Seq(Symbol), NEW tokens, TokensAreWords(tokens), NEW n, n = Len(output), n \in Nat,
         NEW found, found = TokenStarts(output, tokens), NEW last, last = Len(found)
  PROVE  /\ \A i \in 1 .. (last + 1) : /\ From(found, i) \in 0 .. n /\ To(found, n, i) \in 0 .. n
                                       /\ From(found, i) <= To(found, n, i)
         /\ \A i \in 1 .. last : From(found, i + 1) = To(found, n, i) + 2 /\ To(found, n, i) \in At(output, tokens)
         /\ \A i \in 1 .. (last + 1) : \A k \in From(found, i) .. (To(found, n, i) - 1) :
              k \notin At(output, tokens) /\ k - 1 \notin At(output, tokens)
<1> DEFINE T == At(output, tokens)
<1>1. /\ last \in Nat /\ found \in [1 .. last -> T]
      /\ \A i \in 1 .. (last - 1) : found[i] + 2 <= found[i + 1]
      /\ \A k \in T : \E i \in 1 .. last : found[i] = k
  BY TokenStartsAre
<1>2. \A k \in T : k \in 0 .. (n - 1) /\ k + 2 <= n /\ k \in Nat
  <2>1. \A k \in 0 .. (n - 1) : k \in Nat
    OBVIOUS
  <2>2. QED
    BY <2>1 DEF At, AtWithin
<1> HIDE DEF T
<1>3. \A i \in 1 .. (last + 1) : /\ From(found, i) \in 0 .. n /\ To(found, n, i) \in 0 .. n
                                 /\ From(found, i) <= To(found, n, i)
  <2>1. ASSUME NEW i \in 1 .. (last + 1)
        PROVE  /\ From(found, i) \in 0 .. n /\ To(found, n, i) \in 0 .. n
               /\ From(found, i) <= To(found, n, i)
    <3>0. \A j \in 1 .. last : found[j] \in T /\ found[j] + 2 <= n /\ found[j] \in Nat /\ found[j] <= n
      <4>1. \A j \in 1 .. last : found[j] \in T
        BY <1>1
      <4>2. ASSUME NEW k \in T PROVE k + 2 <= n /\ k \in Nat /\ k <= n
        <5>1. k + 2 <= n /\ k \in Nat
          BY <1>2, Zenon
        <5>2. QED
          BY <5>1
      <4>3. QED
        BY <4>1, <4>2, Zenon
    <3>1. i # 1 => i - 1 \in 1 .. last /\ found[i - 1] \in T /\ found[i - 1] + 2 <= n /\ found[i - 1] \in Nat
      <4>1. i # 1 => i - 1 \in 1 .. last
        BY <1>1
      <4>2. QED
        BY <3>0, <4>1, Zenon
    <3>2. i # last + 1 => i \in 1 .. last /\ found[i] \in T /\ found[i] <= n /\ found[i] \in Nat
      <4>1. i # last + 1 => i \in 1 .. last
        BY <1>1
      <4>2. QED
        BY <3>0, <4>1, Zenon
    <3>3. i # 1 /\ i # last + 1 => found[i - 1] + 2 <= found[i]
      <4>1. i # 1 /\ i # last + 1 => i - 1 \in 1 .. (last - 1) /\ (i - 1) + 1 = i
        BY <1>1
      <4>2. QED
        BY <1>1, <4>1
    <3>4. QED
      BY <1>1, <3>1, <3>2, <3>3 DEF From, To
  <2>2. QED
    BY <2>1
<1>4. \A i \in 1 .. last : From(found, i + 1) = To(found, n, i) + 2 /\ To(found, n, i) \in T
  <2>1. ASSUME NEW i \in 1 .. last
        PROVE From(found, i + 1) = To(found, n, i) + 2 /\ To(found, n, i) \in T
    <3>1. i # last + 1 /\ i + 1 # 1 /\ (i + 1) - 1 = i /\ found[i] \in T
      BY <1>1
    <3>2. QED
      BY <1>1, <3>1 DEF From, To
  <2>2. QED
    BY <2>1
<1>5. \A i, j \in 1 .. last : i <= j => found[i] <= found[j]
  <2>1. ASSUME NEW i \in 1 .. last
        PROVE  \A j \in i .. last : found[i] <= found[j]
    <3> DEFINE Good == {j \in 1 .. last : found[i] <= found[j]}
    <3>1. i \in Good
      <4>1. found[i] \in Nat
        BY <1>1, <1>2
      <4>2. QED
        BY <4>1
    <3>2. ASSUME NEW j \in i .. (last - 1), j \in Good PROVE j + 1 \in Good
      <4>1. j \in 1 .. (last - 1) /\ j \in 1 .. last /\ j + 1 \in 1 .. last
        BY <1>1
      <4>2. found[i] \in Nat /\ found[j] \in Nat /\ found[j + 1] \in Nat /\ found[j] + 2 <= found[j + 1]
        BY <1>1, <1>2, <4>1
      <4>3. found[i] <= found[j]
        BY <3>2
      <4>4. QED
        BY <4>1, <4>2, <4>3
    <3>3. i \in Nat /\ last \in Nat
      BY <1>1
    <3>4. \A j \in i .. last : j \in Good
      <4> HIDE DEF Good
      <4> QED BY <3>1, <3>2, <3>3, UpTo
    <3>5. QED
      BY <3>4
  <2>2. \A i, j \in 1 .. last : i <= j => j \in i .. last
    OBVIOUS
  <2>3. QED
    BY <2>1, <2>2
<1>6. \A i \in 1 .. (last + 1) : \A k \in From(found, i) .. (To(found, n, i) - 1) : k \notin T /\ k - 1 \notin T
  <2>1. ASSUME NEW i \in 1 .. (last + 1), NEW k \in From(found, i) .. (To(found, n, i) - 1),
               NEW j \in 1 .. last, found[j] = k \/ found[j] = k - 1
        PROVE  FALSE
    <3>1. From(found, i) \in 0 .. n /\ To(found, n, i) \in 0 .. n
      BY <1>3
    <3>2. k \in Nat /\ From(found, i) <= k /\ k < To(found, n, i) /\ found[j] \in Nat
      BY <1>1, <1>2, <3>1
    <3>3. CASE j < i
      <4>1. i # 1 /\ i - 1 \in 1 .. last /\ j <= i - 1
        BY <1>1, <3>3
      <4>2. found[j] <= found[i - 1] /\ found[i - 1] \in Nat
        BY <1>1, <1>2, <1>5, <4>1
      <4>3. From(found, i) = found[i - 1] + 2
        BY <4>1 DEF From
      <4>4. QED
        BY <2>1, <3>2, <4>2, <4>3
    <3>4. CASE ~(j < i)
      <4>1. i # last + 1 /\ i \in 1 .. last /\ i <= j
        BY <1>1, <3>4
      <4>2. found[i] <= found[j] /\ found[i] \in Nat
        BY <1>1, <1>2, <1>5, <4>1
      <4>3. To(found, n, i) = found[i]
        BY <4>1 DEF To
      <4>4. QED
        BY <2>1, <3>2, <4>2, <4>3
    <3>5. QED
      BY <3>3, <3>4
  <2>2. QED
    BY <1>1, <2>1
<1>7. QED
  BY <1>3, <1>4, <1>6 DEF T

\* ParsePieces has those literals, with their modes.
LEMMA PiecesAre ==
  ASSUME NEW output \in Seq(Symbol), NEW tokens, TokensAreWords(tokens), NEW n, n = Len(output), n \in Nat,
         NEW found, found = TokenStarts(output, tokens), NEW last, last = Len(found)
  PROVE  /\ last \in Nat
         /\ ParsePieces(output, tokens) =
              [i \in 1 .. (last + 1) |-> Literal(Slice(output, From(found, i), To(found, n, i)), Mode(output, found, i))]
<1>1. /\ last \in Nat /\ found \in [1 .. last -> At(output, tokens)]
  BY TokenStartsAre
<1> DEFINE token(i) == IF i = last + 1 THEN <<>> ELSE Slice(output, found[i], found[i] + 2)
           text(i) == Slice(output, From(found, i), To(found, n, i))
<1>2. ParsePieces(output, tokens) =
        [i \in 1 .. (last + 1) |-> [text |-> text(i), mode |-> LiteralMode(text(i), token(i))]]
  BY Zenon DEF ParsePieces, From, To
<1>3. ASSUME NEW i \in 1 .. (last + 1)
      PROVE  LiteralMode(text(i), token(i)) = Mode(output, found, i)
  <2>1. CASE i = last + 1
    <3>1. token(i) = <<>> /\ <<>> # PII
      BY <2>1 DEF PII
    <3> HIDE DEF token, text
    <3>2. QED
      BY <2>1, <3>1 DEF LiteralMode, Mode
  <2>2. CASE i # last + 1
    <3>1. i \in 1 .. last
      BY <1>1, <2>2
    <3>2. found[i] \in Nat /\ found[i] + 2 <= n
      <4>1. found[i] \in At(output, tokens)
        BY <1>1, <3>1
      <4>2. QED
        BY <4>1 DEF At, AtWithin
    <3>3. token(i) = <<output[found[i] + 1], output[found[i] + 2]>>
      BY <2>2, <3>2, PairSlice
    <3> HIDE DEF token
    <3>4. QED
      BY <2>2, <3>3 DEF LiteralMode, Mode
  <2>3. QED
    BY <2>1, <2>2
<1>4. QED
  <2> HIDE DEF token, text
  <2> QED BY <1>1, <1>2, <1>3 DEF Literal, text

-----------------------------------------------------------------------------
(* The literals of a traced text stood in the field.                       *)

\* What Traced says, symbol by symbol.
TracedAs(text, old, tokens, output, n, m) ==
  /\ n \in Nat /\ m \in Nat /\ Len(text) = m /\ Len(old) = n /\ Len(output) = n
  /\ text \in Seq(Symbol) /\ output \in Seq(Symbol)
  /\ \A i \in 1 .. n : output[i] = old[i].is /\ old[i].at \in Int
  /\ \A i \in 1 .. n : IsKept(old, i) => old[i].at \in 0 .. (m - 1) /\ text[old[i].at + 1] = output[i]
  /\ \A i \in 1 .. n : ~IsKept(old, i) => StandsAt(old, i, tokens) \/ StandsAt(old, i - 1, tokens) \/ Inserted(old, i)
  /\ \A i, j \in 1 .. n : i < j /\ IsKept(old, i) /\ IsKept(old, j) => old[i].at < old[j].at
  /\ \A i \in 1 .. (n - 1) : IsKept(old, i) /\ IsKept(old, i + 1) => Follows(text, old, i)
  /\ n = 0 => m = 0
  /\ n > 0 /\ IsKept(old, 1) => old[1].at = 0
  /\ n > 0 /\ IsKept(old, n) => old[n].at = m - 1

\* What Traced says of the symbols alone.
LEMMA TracedSymbols ==
  ASSUME NEW text, NEW old, NEW tokens, Traced(text, old, tokens)
  PROVE  TracedAs(text, old, tokens, Symbols(old), Len(old), Len(text))
<1> DEFINE n == Len(old)
           m == Len(text)
           T == [is : Symbol, at : {NoOffset} \cup 0 .. (m - 1)]
<1>1. text \in Seq(Symbol) /\ old \in Seq(T)
  BY DEF Traced
<1>2. n \in Nat /\ m \in Nat
  BY <1>1
<1>3. \A i \in 1 .. n : old[i] \in T
  <2> HIDE DEF T
  <2> QED BY <1>1
<1>4. \A i \in 1 .. n : old[i].is \in Symbol /\ old[i].at \in {NoOffset} \cup 0 .. (m - 1)
  <2> HIDE DEF n, m
  <2> QED BY <1>3
<1>5. \A i \in 1 .. n : /\ old[i].at \in Int
                        /\ IsKept(old, i) => old[i].at \in 0 .. (m - 1)
  <2> HIDE DEF n, m
  <2> QED BY <1>2, <1>4 DEF NoOffset, IsKept
<1>6. DOMAIN old = 1 .. n
  <2> HIDE DEF T
  <2> QED BY <1>1
<1>7. Symbols(old) = [k \in 1 .. n |-> old[k].is]
  BY <1>6 DEF Symbols
<1>8. Symbols(old) \in Seq(Symbol) /\ Len(Symbols(old)) = n /\ \A i \in 1 .. n : Symbols(old)[i] = old[i].is
  <2> HIDE DEF n, m
  <2> QED BY <1>2, <1>4, <1>7
<1>9. \A i \in 1 .. n : IF IsKept(old, i) THEN text[old[i].at + 1] = old[i].is
                        ELSE StandsAt(old, i, tokens) \/ StandsAt(old, i - 1, tokens) \/ Inserted(old, i)
  BY DEF Traced
<1>10. /\ \A i, j \in 1 .. n : i < j /\ IsKept(old, i) /\ IsKept(old, j) => old[i].at < old[j].at
       /\ \A i \in 1 .. (n - 1) : IsKept(old, i) /\ IsKept(old, i + 1) => Follows(text, old, i)
       /\ n = 0 => m = 0
       /\ n > 0 /\ IsKept(old, 1) => old[1].at = 0
       /\ n > 0 /\ IsKept(old, n) => old[n].at = m - 1
  BY DEF Traced
<1>11. QED
  <2> HIDE DEF n, m
  <2>1. n = Len(old) /\ m = Len(text)
    BY DEF n, m
  <2>2. QED
    BY <1>1, <1>2, <1>5, <1>8, <1>9, <1>10, <2>1 DEF TracedAs, n, m

\* Where a token stands, seen from the symbols.
LEMMA StandsAtIs ==
  ASSUME NEW old, NEW n \in Nat, n = Len(old), NEW output, Len(output) = n,
         \A i \in 1 .. n : output[i] = old[i].is,
         NEW tokens, NEW i \in Int
  PROVE  StandsAt(old, i, tokens) <=> i - 1 \in At(output, tokens)
<1>1. i \in 1 .. (n - 1) <=> i - 1 \in 0 .. (n - 1) /\ (i - 1) + 2 <= n
  OBVIOUS
<1>2. i \in 1 .. (n - 1) => /\ i \in 1 .. n /\ i + 1 \in 1 .. n /\ (i - 1) + 1 = i /\ (i - 1) + 2 = i + 1
                            /\ output[i] = old[i].is /\ output[i + 1] = old[i + 1].is
  OBVIOUS
<1>3. QED
  BY <1>1, <1>2 DEF StandsAt, At, AtWithin

\* The same of a token that follows k symbols of a masked text.
LEMMA TracedStands ==
  ASSUME NEW text, NEW old, NEW tokens, NEW output, NEW n, NEW m,
         TracedAs(text, old, tokens, output, n, m), NEW some, NEW k \in Int
  PROVE  StandsAt(old, k + 1, some) <=> k \in At(output, some)
<1>1. n \in Nat /\ n = Len(old) /\ Len(output) = n /\ \A i \in 1 .. n : output[i] = old[i].is
  BY DEF TracedAs
<1> DEFINE j == k + 1
<1>2. j \in Int /\ j - 1 = k
  OBVIOUS
<1> HIDE DEF j
<1>3. StandsAt(old, j, some) <=> j - 1 \in At(output, some)
  BY <1>1, <1>2, StandsAtIs
<1>4. QED
  BY <1>2, <1>3 DEF j

\* A literal of the masked text: the symbols between two tokens, where they stand
\* in the source, are kept, save a space that was put in before a token.
LEMMA LiteralKept ==
  ASSUME NEW text, NEW old, NEW tokens, TokensAreWords(tokens),
         NEW output, NEW n, NEW m, TracedAs(text, old, tokens, output, n, m),
         NEW f \in 0 .. n, NEW t \in 0 .. n,
         \A k \in f .. (t - 1) : k \notin At(output, tokens) /\ k - 1 \notin At(output, tokens)
  PROVE  /\ \A p \in (f + 1) .. t : IsKept(old, p) \/ Inserted(old, p)
         /\ \A p \in (f + 1) .. t : Inserted(old, p) => p = t
<1>1. /\ n \in Nat /\ n = Len(old) /\ Len(output) = n /\ \A i \in 1 .. n : output[i] = old[i].is
      /\ \A i \in 1 .. n : ~IsKept(old, i) => StandsAt(old, i, tokens) \/ StandsAt(old, i - 1, tokens) \/ Inserted(old, i)
  BY DEF TracedAs
<1>2. ASSUME NEW p \in (f + 1) .. t PROVE IsKept(old, p) \/ Inserted(old, p)
  <2>1. p \in 1 .. n /\ p \in Int /\ p - 1 \in f .. (t - 1) /\ p - 1 \in Int /\ (p - 1) - 1 \in Int
    BY <1>1
  <2>2. p - 1 \notin At(output, tokens) /\ (p - 1) - 1 \notin At(output, tokens)
    BY <2>1
  <2>3. ~StandsAt(old, p, tokens) /\ ~StandsAt(old, p - 1, tokens)
    BY <1>1, <2>1, <2>2, StandsAtIs
  <2>4. QED
    BY <1>1, <2>1, <2>3
<1>3. ASSUME NEW p \in (f + 1) .. t, Inserted(old, p) PROVE p = t
  <2>1. p + 1 \in Int /\ (p + 1) - 1 = p /\ p \in Nat
    BY <1>1
  <2>2. StandsAt(old, p + 1, {PII}) /\ {PII} \subseteq tokens
    BY <1>3 DEF Inserted, TokensAreWords
  <2>3. StandsAt(old, p + 1, tokens)
    BY <2>2 DEF StandsAt
  <2>4. p \in At(output, tokens)
    BY <1>1, <2>1, <2>3, StandsAtIs
  <2>5. p \notin f .. (t - 1)
    BY <2>4
  <2>6. QED
    BY <1>1, <2>1, <2>5
<1>4. QED
  BY <1>2, <1>3

\* A literal is the part of a text from f to t.
PartOf(lit, output, f, t) == Len(lit) = t - f /\ \A k \in 1 .. (t - f) : lit[k] = output[f + k]

\* A slice is one.
LEMMA SliceIsPart ==
  ASSUME NEW S, NEW text \in Seq(S), NEW a \in Nat, NEW b \in Nat, a <= b, b <= Len(text)
  PROVE  Slice(text, a, b) \in Seq(S) /\ PartOf(Slice(text, a, b), text, a, b)
BY SliceIs DEF PartOf

\* Before a space that was put in stands a mark, and no token's rest is part of
\* it: the literal ends in that mark.
LEMMA MarkBefore ==
  ASSUME NEW text, NEW old, NEW tokens, TokensAreWords(tokens),
         NEW output, NEW n, NEW m, TracedAs(text, old, tokens, output, n, m),
         NEW f \in 0 .. n, NEW t \in 1 .. n, f < t, f = 0 \/ f - 2 \in At(output, tokens),
         Inserted(old, t),
         NEW lit, PartOf(lit, output, f, t)
  PROVE  LabelMark(lit) \/ TitleMark(lit)
<1>0. Len(lit) = t - f /\ \A k \in 1 .. (t - f) : lit[k] = output[f + k]
  BY DEF PartOf
<1> USE <1>0
<1>1. /\ n \in Nat /\ n = Len(old) /\ Len(output) = n /\ \A i \in 1 .. n : output[i] = old[i].is
  BY DEF TracedAs
<1>2. f # 0 => f \in 1 .. n /\ output[f] \notin Letters \cup Blank \cup {"[", ":"}
  <2>1. ASSUME f # 0 PROVE f \in 1 .. n /\ output[f] \notin Letters \cup Blank \cup {"[", ":"}
    <3>1. f \in 1 .. n /\ (f - 2) + 2 = f
      BY <1>1, <2>1
    <3>2. <<output[(f - 2) + 1], output[(f - 2) + 2]>> \in tokens
      BY <2>1 DEF At, AtWithin
    <3>3. QED
      BY <3>1, <3>2, PairsDiffer
  <2>2. QED
    BY <2>1
<1>3. output[t] = "space" /\ lit[t - f] = "space"
  <2>1. t - f \in 1 .. (t - f) /\ f + (t - f) = t /\ t \in 1 .. n
    BY <1>1
  <2>2. output[t] = "space"
    BY <1>1, <2>1 DEF Inserted
  <2>3. lit[t - f] = output[f + (t - f)]
    BY <2>1
  <2>4. QED
    BY <2>1, <2>2, <2>3
<1>4. CASE t >= 2 /\ old[t - 1].is = "title" /\ (t >= 3 => old[t - 2].is \notin Letters)
  <2>1. t - 1 \in 1 .. n /\ output[t - 1] = "title"
    BY <1>1, <1>4
  <2>2. t - 1 # f
    BY <1>2, <2>1 DEF Letters
  <2>3. (t - f) - 1 \in 1 .. (t - f) /\ f + ((t - f) - 1) = t - 1 /\ t - f >= 2
    BY <1>1, <2>1, <2>2
  <2>4. lit[(t - f) - 1] = "title"
    BY <2>1, <2>3
  <2>5. t - f >= 3 => lit[(t - f) - 2] \notin Letters
    <3>1. ASSUME t - f >= 3 PROVE lit[(t - f) - 2] \notin Letters
      <4>1. (t - f) - 2 \in 1 .. (t - f) /\ f + ((t - f) - 2) = t - 2 /\ t - 2 \in 1 .. n /\ t >= 3
        BY <1>1, <3>1
      <4>2. old[t - 2].is \notin Letters /\ output[t - 2] = old[t - 2].is
        BY <1>1, <1>4, <4>1
      <4>3. lit[(t - f) - 2] = output[t - 2]
        BY <4>1
      <4>4. QED
        BY <4>2, <4>3
    <3>2. QED
      BY <3>1
  <2>6. TitleMark(lit)
    BY <1>3, <2>3, <2>4, <2>5 DEF TitleMark
  <2>7. QED
    BY <2>6
<1>5. CASE /\ t >= 3 /\ old[t - 2].is = "label" /\ old[t - 1].is = ":"
           /\ t >= 4 => old[t - 3].is \notin Letters
  <2>1. t - 1 \in 1 .. n /\ output[t - 1] = ":" /\ t - 2 \in 1 .. n /\ output[t - 2] = "label"
    BY <1>1, <1>5
  <2>2. t - 1 # f /\ t - 2 # f
    BY <1>2, <2>1 DEF Letters
  <2>3. /\ (t - f) - 1 \in 1 .. (t - f) /\ f + ((t - f) - 1) = t - 1
        /\ (t - f) - 2 \in 1 .. (t - f) /\ f + ((t - f) - 2) = t - 2 /\ t - f >= 3
    BY <1>1, <2>1, <2>2
  <2>4. lit[(t - f) - 1] = ":" /\ lit[(t - f) - 2] = "label"
    BY <2>1, <2>3
  <2>5. t - f >= 4 => lit[(t - f) - 3] \notin Letters
    <3>1. ASSUME t - f >= 4 PROVE lit[(t - f) - 3] \notin Letters
      <4>1. (t - f) - 3 \in 1 .. (t - f) /\ f + ((t - f) - 3) = t - 3 /\ t - 3 \in 1 .. n /\ t >= 4
        BY <1>1, <3>1
      <4>2. old[t - 3].is \notin Letters /\ output[t - 3] = old[t - 3].is
        BY <1>1, <1>5, <4>1
      <4>3. lit[(t - f) - 3] = output[t - 3]
        BY <4>1
      <4>4. QED
        BY <4>2, <4>3
    <3>2. QED
      BY <3>1
  <2>6. LabelMark(lit)
    BY <1>3, <2>3, <2>4, <2>5 DEF LabelMark
  <2>7. QED
    BY <2>6
<1>6. QED
  BY <1>4, <1>5 DEF Inserted, AfterMark

\* Where a kept symbol follows another.
LEMMA FollowsIs ==
  ASSUME NEW text, NEW old, NEW i, Follows(text, old, i), ~ (i + 2 <= Len(old) /\ Inserted(old, i + 2))
  PROVE  old[i + 1].at = old[i].at + 1
BY DEF Follows

\* The symbols that are kept.
LEMMA ShownIs ==
  ASSUME NEW old, NEW n, DOMAIN old = 1 .. n, NEW p \in 1 .. n, IsKept(old, p)
  PROVE  old[p].at \in Shown(old)
BY DEF Shown, IsKept

\* A literal that is not empty: where its last symbol in the source is.
LastOf(mode, t) == IF mode = "exact" THEN t ELSE t - 1

\* All but an inserted space of it stand in the source one after the other, save
\* that between a label and its colon there may be blanks.
Runs(text, old, output, f, t, lit, mode) ==
  /\ lit \in Seq(Symbol) /\ Len(lit) = t - f /\ \A k \in 1 .. (t - f) : lit[k] = output[f + k]
  /\ mode \in {"exact", "label", "title"}
  /\ mode = "label" => LabelMark(lit) /\ t - f >= 3
  /\ mode = "title" => TitleMark(lit) /\ t - f >= 2
  /\ LastOf(mode, t) \in (f + 1) .. t
  /\ \A p \in (f + 1) .. LastOf(mode, t) : IsKept(old, p)
  /\ \A p \in (f + 1) .. (LastOf(mode, t) - 1) :
       \/ old[p + 1].at = old[p].at + 1
       \/ /\ mode = "label" /\ p = t - 2 /\ old[p].at < old[p + 1].at
          /\ \A k \in (old[p].at + 1) .. (old[p + 1].at - 1) : text[k + 1] \in Blank

\* A literal of the masked text stood in the field as it stands there, but for an
\* inserted space at its end.
LEMMA LiteralRuns ==
  ASSUME NEW text, NEW old, NEW tokens, TokensAreWords(tokens),
         NEW output, NEW n, NEW m, TracedAs(text, old, tokens, output, n, m),
         NEW f \in 0 .. n, NEW t \in 0 .. n, f < t,
         \A k \in f .. (t - 1) : k \notin At(output, tokens) /\ k - 1 \notin At(output, tokens),
         f = 0 \/ f - 2 \in At(output, tokens), t = n \/ t \in At(output, tokens),
         NEW lit, lit = Slice(output, f, t),
         NEW mode, mode = IF t \in At(output, {PII}) THEN MarkAfter(lit) ELSE "exact"
  PROVE  Runs(text, old, output, f, t, lit, mode)
<1>1. /\ n \in Nat /\ n = Len(old) /\ Len(output) = n /\ \A i \in 1 .. n : output[i] = old[i].is
      /\ output \in Seq(Symbol)
      /\ \A i \in 1 .. (n - 1) : IsKept(old, i) /\ IsKept(old, i + 1) => Follows(text, old, i)
  BY DEF TracedAs
<1>2. f \in Nat /\ t \in Nat /\ t \in 1 .. n /\ t - f \in Nat
  BY <1>1
<1>3. lit \in Seq(Symbol) /\ Len(lit) = t - f /\ \A k \in 1 .. (t - f) : lit[k] = output[f + k]
  <2>1. f <= t /\ t <= Len(output)
    BY <1>1, <1>2
  <2>2. lit \in Seq(Symbol) /\ PartOf(lit, output, f, t)
    BY <1>1, <1>2, <2>1, SliceIsPart
  <2>3. QED
    BY <2>2 DEF PartOf
<1>4. /\ mode \in {"exact", "label", "title"}
      /\ mode = "label" => LabelMark(lit)
      /\ mode = "title" => TitleMark(lit)
  BY <1>3, MarkAfterIs
<1>5. (mode = "label" => t - f >= 3) /\ (mode = "title" => t - f >= 2)
  <2>1. (mode = "label" => Len(lit) >= 3) /\ (mode = "title" => Len(lit) >= 2)
    BY <1>4 DEF LabelMark, TitleMark
  <2>2. QED
    BY <1>3, <2>1
<1>6. /\ \A p \in (f + 1) .. t : IsKept(old, p) \/ Inserted(old, p)
      /\ \A p \in (f + 1) .. t : Inserted(old, p) => p = t
  BY LiteralKept
<1>7. LastOf(mode, t) \in (f + 1) .. t
  BY <1>2, <1>4, <1>5 DEF LastOf
<1>8. Inserted(old, t) => mode # "exact"
  <2>1. ASSUME Inserted(old, t) PROVE mode # "exact"
    <3>1. LabelMark(lit) \/ TitleMark(lit)
      <4>1. PartOf(lit, output, f, t)
        BY <1>3 DEF PartOf
      <4>2. QED
        BY <1>2, <2>1, <4>1, MarkBefore
    <3>2. t \in At(output, {PII})
      <4>1. StandsAt(old, t + 1, {PII}) /\ t \in Int
        BY <1>2, <2>1 DEF Inserted
      <4>2. QED
        BY <4>1, TracedStands, Zenon
    <3>3. MarkAfter(lit) # "exact"
      BY <1>3, <3>1, MarkAfterIs
    <3>4. QED
      BY <3>2, <3>3
  <2>2. QED
    BY <2>1
<1>9. \A p \in (f + 1) .. LastOf(mode, t) : IsKept(old, p)
  <2>1. ASSUME NEW p \in (f + 1) .. LastOf(mode, t) PROVE IsKept(old, p)
    <3>1. p \in (f + 1) .. t /\ (mode # "exact" => p # t)
      BY <1>2, <1>7 DEF LastOf
    <3>2. QED
      BY <1>6, <1>8, <3>1
  <2>2. QED
    BY <2>1
<1>10. ASSUME NEW p \in (f + 1) .. (LastOf(mode, t) - 1)
       PROVE  \/ old[p + 1].at = old[p].at + 1
              \/ /\ mode = "label" /\ p = t - 2 /\ old[p].at < old[p + 1].at
                 /\ \A k \in (old[p].at + 1) .. (old[p + 1].at - 1) : text[k + 1] \in Blank
  <2>1. /\ p \in 1 .. (n - 1) /\ p \in 1 .. n /\ p + 1 \in 1 .. n /\ p \in (f + 1) .. LastOf(mode, t)
        /\ p + 1 \in (f + 1) .. LastOf(mode, t) /\ p + 1 <= t
    BY <1>1, <1>2, <1>7
  <2>2. Follows(text, old, p)
    BY <1>1, <1>9, <2>1
  <2>3. CASE p + 2 <= n /\ Inserted(old, p + 2)
    <3>1. p + 2 = t
      <4>1. CASE p + 2 <= t
        <5>1. p + 2 \in (f + 1) .. t
          BY <1>2, <2>1, <4>1
        <5>2. QED
          BY <1>6, <2>3, <5>1
      <4>2. CASE ~ (p + 2 <= t)
        <5>1. p + 1 = t /\ t # n /\ p + 2 = t + 1 /\ t + 1 \in 1 .. n
          BY <1>1, <1>2, <2>1, <2>3, <4>2
        <5>2. output[t + 1] = "["
          BY <5>1, PairsDiffer DEF At, AtWithin
        <5>3. output[t + 1] = "space"
          BY <1>1, <2>3, <5>1 DEF Inserted
        <5>4. QED
          BY <5>2, <5>3
      <4>3. QED
        BY <4>1, <4>2
    <3>2. p = t - 2
      BY <1>2, <2>1, <3>1
    <3>3. mode # "exact"
      BY <1>8, <2>3, <3>1
    <3>4. CASE mode = "title"
      <4>0. (t - f) - 1 \in 1 .. (t - f) /\ f + ((t - f) - 1) = p + 1
        BY <1>2, <1>5, <3>2, <3>4
      <4>1. lit[(t - f) - 1] = "title"
        <5>1. lit[Len(lit) - 1] = "title"
          BY <1>4, <3>4 DEF TitleMark
        <5>2. QED
          BY <1>3, <5>1
      <4>2. output[p + 1] = "title"
        BY <1>3, <4>0, <4>1
      <4>3. old[p + 1].is # ":"
        BY <1>1, <2>1, <4>2
      <4>4. QED
        BY <2>2, <4>3 DEF Follows
    <3>5. CASE mode = "label"
      BY <2>2, <3>2, <3>5 DEF Follows
    <3>6. QED
      BY <1>4, <3>3, <3>4, <3>5
  <2>4. CASE ~ (p + 2 <= n /\ Inserted(old, p + 2))
    BY <1>1, <2>2, <2>4, FollowsIs
  <2>5. QED
    BY <2>3, <2>4
<1>11. QED
  BY <1>3, <1>4, <1>5, <1>7, <1>9, <1>10 DEF Runs

\* A literal that is not empty can stand where it does, and all of the source
\* there is kept or blank.
Placed(text, old, f, t, lit, mode, m) ==
  LET s == old[f + 1].at
      e == old[LastOf(mode, t)].at + 1
  IN  /\ s \in 0 .. m /\ e \in 0 .. m /\ s < e
      /\ Hit(s, e) \in Matches(text, Literal(lit, mode))
      /\ \A k \in s .. (e - 1) : k \in Shown(old) \/ text[k + 1] \in Blank

\* Where the fixed part of a label ends.
LEMMA LabelEnds ==
  ASSUME NEW f \in Int, NEW t \in Int, NEW q, NEW last, NEW k \in Int, NEW y,
         q = t - 2, last = t - 1, y = k + (q - (f + 1))
  PROVE  q - f = (t - f) - 2 /\ q # last /\ y + 1 = k + (t - f) - 2
OBVIOUS

\* So Matches finds it where it stood.
LEMMA LiteralPlaced ==
  ASSUME NEW text, NEW old, NEW tokens,
         NEW output, NEW n, NEW m, TracedAs(text, old, tokens, output, n, m), DOMAIN old = 1 .. n,
         NEW f \in 0 .. n, NEW t \in 0 .. n, f < t, NEW lit, NEW mode, Runs(text, old, output, f, t, lit, mode)
  PROVE  Placed(text, old, f, t, lit, mode, m)
<1> DEFINE last == LastOf(mode, t)
           q == IF mode = "label" THEN t - 2 ELSE last
           s == old[f + 1].at
<1>1. /\ n \in Nat /\ m \in Nat /\ Len(text) = m /\ text \in Seq(Symbol)
      /\ \A i \in 1 .. n : IsKept(old, i) => old[i].at \in 0 .. (m - 1) /\ text[old[i].at + 1] = output[i]
      /\ \A i, j \in 1 .. n : i < j /\ IsKept(old, i) /\ IsKept(old, j) => old[i].at < old[j].at
  BY DEF TracedAs
<1>2. /\ lit \in Seq(Symbol) /\ Len(lit) = t - f /\ \A k \in 1 .. (t - f) : lit[k] = output[f + k]
      /\ mode \in {"exact", "label", "title"}
      /\ mode = "label" => LabelMark(lit) /\ t - f >= 3
      /\ mode = "title" => TitleMark(lit) /\ t - f >= 2
      /\ last \in (f + 1) .. t
      /\ \A p \in (f + 1) .. last : IsKept(old, p)
  BY DEF Runs
<1>3. \A p \in (f + 1) .. (last - 1) :
        \/ old[p + 1].at = old[p].at + 1
        \/ /\ mode = "label" /\ p = t - 2 /\ old[p].at < old[p + 1].at
           /\ \A k \in (old[p].at + 1) .. (old[p + 1].at - 1) : text[k + 1] \in Blank
  BY DEF Runs
<1>4. /\ f \in Nat /\ t \in Nat /\ q \in (f + 1) .. last /\ last \in 1 .. n
      /\ mode = "exact" => q = t /\ last = t
      /\ mode = "title" => q = t - 1 /\ last = t - 1
      /\ mode = "label" => q = t - 2 /\ last = t - 1
  BY <1>1, <1>2 DEF LastOf
<1>40. /\ f \in Int /\ t \in Int /\ q \in Int /\ last \in Int /\ f + 1 <= q /\ q <= last /\ last <= t
  BY <1>1, <1>2, <1>4
<1> HIDE DEF last, q
<1>5. \A p \in (f + 1) .. last : /\ p \in 1 .. n /\ old[p].at \in 0 .. (m - 1) /\ text[old[p].at + 1] = output[p]
                                 /\ old[p].at \in Shown(old)
  <2>1. ASSUME NEW p \in (f + 1) .. last
        PROVE  /\ p \in 1 .. n /\ old[p].at \in 0 .. (m - 1) /\ text[old[p].at + 1] = output[p]
               /\ old[p].at \in Shown(old)
    <3>1. p \in 1 .. n
      BY <1>1, <1>4
    <3>2. QED
      BY <1>1, <1>2, <3>1, ShownIs
  <2>2. QED
    BY <2>1
<1>6. \A p \in (f + 1) .. q : old[p].at = s + (p - (f + 1))
  <2> DEFINE Good == {p \in (f + 1) .. q : old[p].at = s + (p - (f + 1))}
  <2>1. f + 1 \in Good
    <3>1. f + 1 \in (f + 1) .. q /\ s \in Int
      BY <1>4, <1>5
    <3>2. QED
      BY <3>1
  <2>2. ASSUME NEW p \in (f + 1) .. (q - 1), p \in Good PROVE p + 1 \in Good
    <3>1. p \in (f + 1) .. (last - 1) /\ p \in (f + 1) .. last /\ p + 1 \in (f + 1) .. q /\ f + 1 \in (f + 1) .. last
      BY <1>4
    <3>2. p # t - 2 \/ mode # "label"
      BY <1>4
    <3>3. old[p + 1].at = old[p].at + 1
      BY <1>3, <3>1, <3>2
    <3>4. s \in Int /\ old[p].at = s + (p - (f + 1))
      BY <1>5, <2>2, <3>1
    <3>5. old[p + 1].at = s + ((p + 1) - (f + 1))
      BY <1>4, <3>1, <3>3, <3>4
    <3>6. QED
      BY <3>1, <3>5
  <2>3. f + 1 \in Nat /\ q \in Nat
    BY <1>4
  <2>4. \A p \in (f + 1) .. q : p \in Good
    <3> HIDE DEF Good
    <3> QED BY <2>1, <2>2, <2>3, UpTo
  <2>5. QED
    BY <2>4
<1>7. s \in 0 .. (m - 1) /\ old[last].at \in 0 .. (m - 1) /\ old[q].at \in 0 .. (m - 1)
      /\ old[q].at = s + (q - (f + 1)) /\ s \in Nat
  <2>1. f + 1 \in (f + 1) .. last /\ last \in (f + 1) .. last /\ q \in (f + 1) .. last /\ q \in (f + 1) .. q
    BY <1>4
  <2>2. s \in 0 .. (m - 1) /\ old[last].at \in 0 .. (m - 1) /\ old[q].at \in 0 .. (m - 1)
    BY <1>5, <2>1
  <2>3. old[q].at = s + (q - (f + 1))
    BY <1>6, <2>1
  <2>4. s \in Nat
    BY <1>1, <2>2
  <2>5. QED
    BY <2>2, <2>3, <2>4
<1> DEFINE z == old[last].at
           y == old[q].at
<1>70. s \in Int /\ z \in Int /\ y \in Int /\ y = s + (q - (f + 1)) /\ 0 <= s /\ s < m /\ 0 <= z /\ z < m
  BY <1>1, <1>7
<1> DEFINE e == old[last].at + 1
<1>71. e \in Int /\ e = z + 1 /\ e = old[last].at + 1 /\ z = old[last].at
  BY <1>70 DEF z
<1> HIDE DEF s, z, y, e
<1>8. \A k \in 1 .. (q - f) : text[s + k] = lit[k] /\ s + (k - 1) \in Shown(old)
  <2>1. ASSUME NEW k \in 1 .. (q - f) PROVE text[s + k] = lit[k] /\ s + (k - 1) \in Shown(old)
    <3>0. k \in Int /\ 1 <= k /\ k <= q - f
      BY <1>40
    <3>1. f + k \in (f + 1) .. q /\ f + k \in (f + 1) .. last /\ k \in 1 .. (t - f) /\ (f + k) - (f + 1) = k - 1
      BY <1>40, <3>0
    <3>2. old[f + k].at = s + (k - 1)
      BY <1>6, <3>1
    <3>3. text[old[f + k].at + 1] = output[f + k] /\ lit[k] = output[f + k] /\ old[f + k].at \in Shown(old)
      BY <1>2, <1>5, <3>1
    <3>4. (s + (k - 1)) + 1 = s + k
      BY <1>70, <3>0
    <3>5. QED
      BY <3>2, <3>3, <3>4
  <2>2. QED
    BY <2>1
<1>9. q = last \/ (/\ mode = "label" /\ q = t - 2 /\ last = t - 1 /\ old[q].at < old[last].at
                   /\ \A k \in (old[q].at + 1) .. (old[last].at - 1) : text[k + 1] \in Blank)
  <2>1. CASE mode = "label"
    <3>1. q \in (f + 1) .. (last - 1) /\ q + 1 = last /\ q = t - 2
      BY <1>4, <2>1
    <3>2. old[last].at = old[q].at + 1 \/
            (/\ old[q].at < old[last].at
             /\ \A k \in (old[q].at + 1) .. (old[last].at - 1) : text[k + 1] \in Blank)
      BY <1>3, <3>1
    <3>3. old[last].at = old[q].at + 1 =>
             /\ old[q].at < old[last].at
             /\ \A k \in (old[q].at + 1) .. (old[last].at - 1) : FALSE
      BY <1>7
    <3>4. QED
      BY <1>4, <2>1, <3>1, <3>2, <3>3
  <2>2. CASE mode # "label"
    BY <1>2, <1>4, <2>2
  <2>3. QED
    BY <2>1, <2>2
<1>10. s \in 0 .. m /\ e \in 0 .. m /\ s < e
  <2>1. y <= z
    <3>1. y = z \/ y < z
      BY <1>9 DEF y, z
    <3>2. QED
      BY <1>70, <3>1
  <2>2. QED
    BY <1>1, <1>40, <1>70, <1>71, <2>1
<1>11. Hit(s, e) \in Matches(text, Literal(lit, mode))
  <2>1. CASE mode = "exact"
    <3>0. q = t /\ y = z
      BY <1>4, <2>1 DEF y, z
    <3>1. q - f = t - f /\ e = s + (t - f) /\ s + (t - f) <= m
      BY <1>1, <1>40, <1>70, <1>71, <3>0
    <3>2. s + Len(lit) <= Len(text) /\ (\A k \in 1 .. Len(lit) : text[s + k] = lit[k]) /\ e = s + Len(lit)
      BY <1>1, <1>2, <1>8, <3>1
    <3> HIDE DEF s, e
    <3>3. QED
      BY <1>1, <1>2, <1>7, <2>1, <3>2, ExactMatches
  <2>2. CASE mode = "title"
    <3>0. q = t - 1 /\ y = z
      BY <1>4, <2>2 DEF y, z
    <3>1. q - f = (t - f) - 1 /\ e = s + ((t - f) - 1) /\ s + (t - f) - 1 <= m
      BY <1>1, <1>40, <1>70, <1>71, <3>0
    <3>2. /\ s + Len(lit) - 1 <= Len(text) /\ (\A k \in 1 .. (Len(lit) - 1) : text[s + k] = lit[k])
          /\ e = s + (Len(lit) - 1)
      BY <1>1, <1>2, <1>8, <3>1
    <3> HIDE DEF s, e
    <3>3. QED
      BY <1>1, <1>2, <1>7, <2>2, <3>2, TitleMatches
  <2>3. CASE mode = "label"
    <3> DEFINE c == old[last].at
    <3>0. q = t - 2 /\ last = t - 1
      BY <1>4, <2>3
    <3>1. /\ q - f = (t - f) - 2 /\ old[q].at + 1 = s + (t - f) - 2 /\ q # last
      <4>1. q - f = (t - f) - 2 /\ q # last /\ y + 1 = s + (t - f) - 2
        BY <1>40, <1>70, <3>0, LabelEnds
      <4>2. y = old[q].at
        BY DEF y
      <4>3. QED
        BY <4>1, <4>2, Zenon
    <3>2. /\ old[q].at < c /\ c \in Nat /\ c < m /\ s + (t - f) - 2 <= c
          /\ \A k \in (s + (t - f) - 2) .. (c - 1) : text[k + 1] \in Blank
      <4>1. old[q].at < c /\ \A k \in (old[q].at + 1) .. (c - 1) : text[k + 1] \in Blank
        BY <1>9, <3>1, Zenon
      <4>2. c = z /\ old[q].at = y
        BY DEF y, z
      <4>3. y < z
        BY <4>1, <4>2, Zenon
      <4>4. y + 1 <= z /\ z \in Nat /\ z < m
        <5>1. y \in Int /\ z \in Int /\ 0 <= z /\ z < m
          BY <1>70, Zenon
        <5> HIDE DEF y, z, c
        <5>2. QED
          BY <4>3, <5>1
      <4>5. QED
        BY <3>1, <4>1, <4>2, <4>4, Zenon
    <3>3. text[c + 1] = ":"
      <4>1. (t - f) - 1 \in 1 .. (t - f) /\ f + ((t - f) - 1) = last /\ last \in (f + 1) .. last
        BY <1>2, <1>4, <2>3
      <4>2. lit[(t - f) - 1] = ":"
        BY <1>2, <2>3 DEF LabelMark
      <4>3. lit[(t - f) - 1] = output[last]
        BY <1>2, <4>1
      <4>4. QED
        BY <1>5, <4>1, <4>2, <4>3
    <3>4. /\ s + Len(lit) - 2 <= c /\ c < Len(text)
          /\ \A k \in 1 .. (Len(lit) - 2) : text[s + k] = lit[k]
          /\ \A k \in (s + Len(lit) - 2) .. (c - 1) : text[k + 1] \in Blank
      BY <1>1, <1>2, <1>8, <3>1, <3>2
    <3>5. e = c + 1
      BY <1>71
    <3> HIDE DEF s, e, c
    <3>6. QED
      BY <1>1, <1>2, <1>7, <2>3, <3>2, <3>3, <3>4, <3>5, LabelMatches
  <2>4. QED
    BY <1>2, <2>1, <2>2, <2>3
<1>12. ASSUME NEW k \in s .. (e - 1) PROVE k \in Shown(old) \/ text[k + 1] \in Blank
  <2>0. k \in Int /\ s <= k /\ k <= old[last].at
    BY <1>70, <1>71
  <2>1. CASE k <= old[q].at
    <3>1. (k - s) + 1 \in 1 .. (q - f) /\ s + (((k - s) + 1) - 1) = k
      BY <1>4, <1>7, <2>0, <2>1
    <3>2. QED
      BY <1>8, <3>1
  <2>2. CASE old[q].at < k /\ k < old[last].at
    <3>1. k \in (old[q].at + 1) .. (old[last].at - 1) /\ q # last
      BY <1>7, <2>0, <2>2
    <3>2. QED
      BY <1>9, <3>1
  <2>3. CASE k = old[last].at
    <3>1. last \in (f + 1) .. last
      BY <1>4
    <3>2. QED
      BY <1>5, <2>3, <3>1
  <2>4. QED
    BY <1>7, <2>0, <2>1, <2>2, <2>3
<1>13. QED
  BY <1>10, <1>11, <1>12 DEF Placed, last, s, e

\* Where in the source the first p symbols of the masked text end.
Place(old, p) == Max({0} \cup {old[i].at + 1 : i \in {j \in 1 .. p : IsKept(old, j)}})

\* Place is between the symbols kept up to p and those kept after it.
LEMMA PlaceIs ==
  ASSUME NEW text, NEW old, NEW tokens,
         NEW output, NEW n, NEW m, TracedAs(text, old, tokens, output, n, m), NEW p \in 0 .. n
  PROVE  /\ Place(old, p) \in 0 .. m
         /\ \A i \in 1 .. p : IsKept(old, i) => old[i].at + 1 <= Place(old, p)
         /\ \A i \in (p + 1) .. n : IsKept(old, i) => Place(old, p) <= old[i].at
<1> DEFINE ends == {0} \cup {old[i].at + 1 : i \in {j \in 1 .. p : IsKept(old, j)}}
<1>1. /\ n \in Nat /\ m \in Nat
      /\ \A i \in 1 .. n : IsKept(old, i) => old[i].at \in 0 .. (m - 1)
      /\ \A i, j \in 1 .. n : i < j /\ IsKept(old, i) /\ IsKept(old, j) => old[i].at < old[j].at
  BY DEF TracedAs
<1>2. \A i \in 1 .. p : i \in 1 .. n /\ (IsKept(old, i) => old[i].at \in 0 .. (m - 1) /\ old[i].at + 1 \in 0 .. m)
  <2>1. \A i \in 1 .. p : i \in 1 .. n
    BY <1>1
  <2>2. \A a \in 0 .. (m - 1) : a + 1 \in 0 .. m
    BY <1>1
  <2>3. QED
    BY <1>1, <2>1, <2>2
<1>3. ends \in SUBSET (0 .. m) /\ ends # {}
  BY <1>1, <1>2
<1>4. Place(old, p) \in ends /\ \A e \in ends : e <= Place(old, p)
  <2>1. Place(old, p) = Max(ends)
    BY DEF Place
  <2> HIDE DEF ends
  <2>2. QED
    BY <1>1, <1>3, <2>1, MaxIs
<1>5. \A i \in (p + 1) .. n : IsKept(old, i) => \A e \in ends : e <= old[i].at
  <2>1. ASSUME NEW i \in (p + 1) .. n, IsKept(old, i), NEW j \in 1 .. p, IsKept(old, j)
        PROVE  old[j].at + 1 <= old[i].at
    <3>1. i \in 1 .. n /\ j \in 1 .. n /\ j < i
      BY <1>1
    <3>2. old[j].at < old[i].at /\ old[j].at \in 0 .. (m - 1) /\ old[i].at \in 0 .. (m - 1)
      BY <1>1, <2>1, <3>1
    <3>3. QED
      BY <1>1, <3>2
  <2>2. ASSUME NEW i \in (p + 1) .. n, IsKept(old, i) PROVE 0 <= old[i].at
    <3>1. i \in 1 .. n
      BY <1>1
    <3>2. QED
      BY <1>1, <2>2, <3>1
  <2>3. QED
    BY <2>1, <2>2
<1>6. QED
  <2> HIDE DEF ends
  <2>1. Place(old, p) \in 0 .. m
    BY <1>3, <1>4
  <2>2. \A i \in 1 .. p : IsKept(old, i) => old[i].at + 1 \in ends
    BY DEF ends
  <2>3. QED
    BY <1>4, <1>5, <2>1, <2>2

\* And it never goes back.
LEMMA PlaceMonotone ==
  ASSUME NEW text, NEW old, NEW tokens,
         NEW output, NEW n, NEW m, TracedAs(text, old, tokens, output, n, m), NEW p \in 0 .. n, NEW r \in p .. n
  PROVE  Place(old, p) <= Place(old, r)
<1> DEFINE ends(k) == {0} \cup {old[i].at + 1 : i \in {j \in 1 .. k : IsKept(old, j)}}
<1>1. /\ n \in Nat /\ m \in Nat /\ r \in 0 .. n
      /\ \A i \in 1 .. n : IsKept(old, i) => old[i].at \in 0 .. (m - 1)
  BY DEF TracedAs
<1>2. Place(old, p) \in 0 .. m /\ Place(old, r) \in 0 .. m
  BY <1>1, PlaceIs
<1>3. CASE Place(old, p) = 0
  BY <1>1, <1>2, <1>3
<1>4. CASE Place(old, p) # 0
  <2>1. \E i \in 1 .. p : IsKept(old, i) /\ Place(old, p) = old[i].at + 1
    <3>1. Place(old, p) \in ends(p)
      <4>1. Place(old, p) = Max(ends(p))
        BY DEF Place
      <4>2. ends(p) \in SUBSET (0 .. m) /\ ends(p) # {}
        <5>1. \A i \in 1 .. p : i \in 1 .. n
          BY <1>1
        <5>2. \A a \in 0 .. (m - 1) : a + 1 \in 0 .. m
          BY <1>1
        <5>3. QED
          BY <1>1, <5>1, <5>2
      <4> HIDE DEF ends
      <4>3. QED
        BY <1>1, <4>1, <4>2, MaxIs
    <3>2. QED
      BY <1>4, <3>1
  <2>2. PICK i \in 1 .. p : IsKept(old, i) /\ Place(old, p) = old[i].at + 1
    BY <2>1
  <2>3. i \in 1 .. r
    BY <1>1
  <2>4. QED
    BY <1>1, <2>2, <2>3, PlaceIs
<1>5. QED
  BY <1>3, <1>4

\* Each literal of the masked text, with its mode.
LiteralAs(text, old, output, f, t, lit, mode, m, final) ==
  /\ lit \in Seq(Symbol) /\ mode \in {"exact", "label", "title"}
  /\ mode = "label" => Len(lit) >= 3
  /\ mode = "title" => Len(lit) >= 2
  /\ final => mode = "exact"
  /\ f < t => Placed(text, old, f, t, lit, mode, m) /\ Runs(text, old, output, f, t, lit, mode)
  /\ f = t => Len(lit) = 0 /\ mode = "exact"

\* Each literal between tokens has been kept so, and stands where it did.
LEMMA EachLiteral ==
  ASSUME NEW text, NEW old, NEW tokens, TokensAreWords(tokens),
         NEW output, NEW n, NEW m, TracedAs(text, old, tokens, output, n, m), DOMAIN old = 1 .. n,
         NEW found, found = TokenStarts(output, tokens), NEW last, last = Len(found),
         NEW i \in 1 .. (last + 1), NEW f, f = From(found, i), NEW t, t = To(found, n, i),
         NEW lit, lit = Slice(output, f, t), NEW mode, mode = Mode(output, found, i)
  PROVE  LiteralAs(text, old, output, f, t, lit, mode, m, i = last + 1)
<1>1. /\ n \in Nat /\ m \in Nat /\ Len(output) = n /\ output \in Seq(Symbol)
  BY DEF TracedAs
<1>2. /\ last \in Nat /\ found \in [1 .. last -> At(output, tokens)]
  BY <1>1, TokenStartsAre
<1>3. /\ f \in 0 .. n /\ t \in 0 .. n /\ f <= t
      /\ i # last + 1 => t \in At(output, tokens)
      /\ \A k \in f .. (t - 1) : k \notin At(output, tokens) /\ k - 1 \notin At(output, tokens)
  <2>1. i # last + 1 => i \in 1 .. last
    BY <1>2
  <2>2. QED
    BY <1>1, <2>1, LiteralsBetween
<1>4. f = 0 \/ f - 2 \in At(output, tokens)
  <2>1. CASE i = 1
    BY <2>1 DEF From
  <2>2. CASE i # 1
    <3>1. i - 1 \in 1 .. last
      BY <1>2, <2>2
    <3>2. found[i - 1] \in At(output, tokens) /\ f = found[i - 1] + 2
      BY <1>2, <2>2, <3>1 DEF From
    <3>3. found[i - 1] \in Int
      BY <3>2 DEF At, AtWithin
    <3>4. f - 2 = found[i - 1]
      BY <3>2, <3>3
    <3>5. QED
      BY <3>2, <3>4
  <2>3. QED
    BY <2>1, <2>2
<1>5. t = n \/ t \in At(output, tokens)
  BY <1>3 DEF To
<1>6. lit \in Seq(Symbol) /\ PartOf(lit, output, f, t)
  <2>1. f \in Nat /\ t \in Nat /\ f <= t /\ t <= Len(output)
    BY <1>1, <1>3
  <2>2. QED
    BY <1>1, <2>1, SliceIsPart
<1>7. mode = IF i # last + 1 /\ t \in At(output, {PII}) THEN MarkAfter(lit) ELSE "exact"
  <2>1. CASE i = last + 1
    BY <2>1 DEF Mode
  <2>2. CASE i # last + 1
    <3>1. t = found[i] /\ t \in At(output, tokens)
      BY <1>3, <2>2 DEF To
    <3>2. t \in At(output, {PII}) <=> <<output[found[i] + 1], output[found[i] + 2]>> = PII
      BY <3>1 DEF At, AtWithin
    <3>3. QED
      BY <1>1, <2>2, <3>2 DEF Mode
  <2>3. QED
    BY <2>1, <2>2
<1>8. i = last + 1 => t \notin At(output, {PII})
  <2>1. ASSUME i = last + 1 PROVE t \notin At(output, {PII})
    <3>1. t = n
      BY <2>1 DEF To
    <3>2. QED
      BY <1>1, <3>1 DEF At, AtWithin
  <2>2. QED
    BY <2>1
<1>9. mode = IF t \in At(output, {PII}) THEN MarkAfter(lit) ELSE "exact"
  BY <1>7, <1>8
<1>10. /\ mode \in {"exact", "label", "title"}
       /\ mode = "label" => Len(lit) >= 3
       /\ mode = "title" => Len(lit) >= 2
  BY <1>6, <1>9, MarkAfterIs DEF LabelMark, TitleMark
<1>11. f < t => Placed(text, old, f, t, lit, mode, m) /\ Runs(text, old, output, f, t, lit, mode)
  <2>1. ASSUME f < t PROVE Runs(text, old, output, f, t, lit, mode)
    BY <1>3, <1>4, <1>5, <1>9, <2>1, LiteralRuns
  <2>2. QED
    BY <1>3, <2>1, LiteralPlaced
<1>12. f = t => Len(lit) = 0 /\ mode = "exact"
  <2>1. ASSUME f = t PROVE Len(lit) = 0
    <3>1. f - f = 0
      BY <1>1, <1>3
    <3>2. QED
      BY <1>6, <2>1, <3>1 DEF PartOf
  <2>2. QED
    BY <1>10, <2>1
<1>13. QED
  BY <1>6, <1>7, <1>8, <1>9, <1>10, <1>11, <1>12 DEF LiteralAs

-----------------------------------------------------------------------------
(* alignOutput covers what was taken away.                                 *)

\* Spans that lie in a text of m symbols.
SpansIn(spans, m) ==
  \A sp \in spans : sp = Span(sp.start, sp.end) /\ sp.start < sp.end /\ sp.start \in 0 .. m /\ sp.end \in 0 .. m

\* An alignment that leaves nothing of what was taken away uncovered, save blanks.
CoversHidden(aligned, text, old, m) ==
  /\ aligned.ok /\ SpansIn(aligned.spans, m)
  /\ \A k \in 0 .. (m - 1) : k \in Shown(old) \/ text[k + 1] \in Blank \/ k \in Offsets(aligned.spans)

\* What EachLiteral, PiecesAre and PlaceIs say.
LEMMA EachLiteralAs ==
  ASSUME NEW text, NEW old, NEW tokens, TokensAreWords(tokens),
         NEW output, NEW n, NEW m, TracedAs(text, old, tokens, output, n, m), DOMAIN old = 1 .. n,
         NEW found, found = TokenStarts(output, tokens), NEW last, last = Len(found),
         NEW i \in 1 .. (last + 1)
  PROVE  LiteralAs(text, old, output, From(found, i), To(found, n, i), Slice(output, From(found, i), To(found, n, i)),
                   Mode(output, found, i), m, i = last + 1)
<1> DEFINE f == From(found, i)
           t == To(found, n, i)
           lit == Slice(output, f, t)
           mode == Mode(output, found, i)
<1>1. f = From(found, i) /\ t = To(found, n, i) /\ lit = Slice(output, f, t) /\ mode = Mode(output, found, i)
  OBVIOUS
<1> HIDE DEF f, t, lit, mode
<1>2. f = From(found, i)
  BY <1>1
<1>3. LiteralAs(text, old, output, f, t, lit, mode, m, i = last + 1)
  <2>1. t = To(found, n, i) /\ lit = Slice(output, f, t) /\ mode = Mode(output, found, i)
    BY <1>1
  <2>2. QED
    BY <1>2, <2>1, EachLiteral
<1>4. QED
  BY <1>1, <1>3

\* Literal i of a text whose tokens start at found.
LiteralAt(output, n, found, i) == Literal(Slice(output, From(found, i), To(found, n, i)), Mode(output, found, i))

\* Literal by literal, what ParsePieces gives.
LEMMA PiecesEach ==
  ASSUME NEW output \in Seq(Symbol), NEW tokens, TokensAreWords(tokens), NEW n, n = Len(output), n \in Nat,
         NEW found, found = TokenStarts(output, tokens), NEW last, last = Len(found)
  PROVE  /\ last \in Nat /\ DOMAIN ParsePieces(output, tokens) = 1 .. (last + 1)
         /\ \A i \in 1 .. (last + 1) : ParsePieces(output, tokens)[i] = LiteralAt(output, n, found, i)
BY PiecesAre DEF LiteralAt

\* What PlaceIs says.
PlaceHolds(old, p, n, m) ==
  /\ Place(old, p) \in 0 .. m
  /\ \A i \in 1 .. p : IsKept(old, i) => old[i].at + 1 <= Place(old, p)
  /\ \A i \in (p + 1) .. n : IsKept(old, i) => Place(old, p) <= old[i].at

\* PlaceIs, in a word.
LEMMA PlaceAs ==
  ASSUME NEW text, NEW old, NEW tokens,
         NEW output, NEW n, NEW m, TracedAs(text, old, tokens, output, n, m), NEW p \in 0 .. n
  PROVE  PlaceHolds(old, p, n, m)
BY PlaceIs DEF PlaceHolds

\* Aligning a masked text with its source covers all that was taken away
\* (alignOutput of src/mask/belt.ts).
LEMMA AlignOutputCovers ==
  ASSUME NEW text, NEW old, NEW tokens, TokensAreWords(tokens),
         NEW output, NEW n, NEW m, TracedAs(text, old, tokens, output, n, m), DOMAIN old = 1 .. n
  PROVE  CoversHidden(AlignOutput(text, output, tokens), text, old, m)
<1> DEFINE found == TokenStarts(output, tokens)
           last == Len(found)
           f(i) == From(found, i)
           t(i) == To(found, n, i)
           lit(i) == Slice(output, f(i), t(i))
           mode(i) == Mode(output, found, i)
           S(i) == IF f(i) < t(i) THEN old[f(i) + 1].at ELSE IF i = last + 1 THEN m ELSE Place(old, f(i))
           E(i) == IF f(i) < t(i) THEN old[LastOf(mode(i), t(i))].at + 1 ELSE S(i)
           hits == MatchesOfAll(text, ParsePieces(output, tokens))
<1>1. /\ n \in Nat /\ m \in Nat /\ Len(output) = n /\ output \in Seq(Symbol) /\ Len(text) = m /\ text \in Seq(Symbol)
  BY DEF TracedAs
<1>2. last \in Nat
  BY <1>1, TokenStartsAre
<1>3. /\ \A i \in 1 .. (last + 1) : f(i) \in 0 .. n /\ t(i) \in 0 .. n /\ f(i) <= t(i)
      /\ \A i \in 1 .. last : f(i + 1) = t(i) + 2
  <2>1. found = TokenStarts(output, tokens) /\ last = Len(found) /\ n = Len(output)
    BY <1>1
  <2> HIDE DEF found, last
  <2>2. /\ \A i \in 1 .. (last + 1) : /\ From(found, i) \in 0 .. n /\ To(found, n, i) \in 0 .. n
                                       /\ From(found, i) <= To(found, n, i)
        /\ \A i \in 1 .. last : From(found, i + 1) = To(found, n, i) + 2
    BY <1>1, <2>1, LiteralsBetween
  <2>3. QED
    BY <2>2, Zenon
<1>4. \A i \in 1 .. (last + 1) :
         /\ lit(i) \in Seq(Symbol) /\ mode(i) \in {"exact", "label", "title"}
         /\ mode(i) = "label" => Len(lit(i)) >= 3
         /\ mode(i) = "title" => Len(lit(i)) >= 2
         /\ i = last + 1 => mode(i) = "exact"
         /\ f(i) < t(i) => Placed(text, old, f(i), t(i), lit(i), mode(i), m) /\ Runs(text, old, output, f(i), t(i), lit(i), mode(i))
         /\ f(i) = t(i) => Len(lit(i)) = 0 /\ mode(i) = "exact"
  <2>1. ASSUME NEW i \in 1 .. (last + 1)
        PROVE  LiteralAs(text, old, output, f(i), t(i), lit(i), mode(i), m, i = last + 1)
    <3>1. found = TokenStarts(output, tokens) /\ last = Len(found)
      OBVIOUS
    <3> HIDE DEF found, last
    <3>2. QED
      BY <3>1, EachLiteralAs
  <2> HIDE DEF f, t, lit, mode, last, found
  <2>2. QED
    BY <2>1 DEF LiteralAs
<1>5. hits = [i \in 1 .. (last + 1) |-> Matches(text, Literal(lit(i), mode(i)))]
  <2>1. /\ DOMAIN ParsePieces(output, tokens) = 1 .. (last + 1)
        /\ \A i \in 1 .. (last + 1) : ParsePieces(output, tokens)[i] = LiteralAt(output, n, found, i)
    <3>1. found = TokenStarts(output, tokens) /\ last = Len(found)
      OBVIOUS
    <3> HIDE DEF found, last
    <3>2. QED
      BY <1>1, <3>1, PiecesEach
  <2>2. \A i \in 1 .. (last + 1) : LiteralAt(output, n, found, i) = Literal(lit(i), mode(i))
    <3> HIDE DEF found, last
    <3> QED BY DEF LiteralAt
  <2> HIDE DEF found, last, lit, mode
  <2>3. QED
    BY <1>2, <2>1, <2>2 DEF MatchesOfAll
<1>6. Len(hits) = last + 1
  <2> HIDE DEF found, last, lit, mode, hits
  <2> QED BY <1>2, <1>5
<1> HIDE DEF found, last, lit, mode, hits, f, t
<1>7. ASSUME NEW i \in 1 .. (last + 1)
      PROVE  /\ hits[i] \in SUBSET Hits(m)
             /\ \A a, b \in hits[i] : a.start <= b.start => a.endMin <= b.endMin
  <2>1. hits[i] = Matches(text, Literal(lit(i), mode(i)))
    BY <1>5
  <2>2. QED
    BY <1>1, <1>4, <2>1, MatchesOrdered
<1>8. ASSUME NEW i \in 1 .. (last + 1), f(i) < t(i)
      PROVE  /\ S(i) = old[f(i) + 1].at /\ E(i) = old[LastOf(mode(i), t(i))].at + 1
             /\ S(i) \in 0 .. m /\ E(i) \in 0 .. m /\ S(i) < E(i) /\ Hit(S(i), E(i)) \in hits[i]
             /\ \A k \in S(i) .. (E(i) - 1) : k \in Shown(old) \/ text[k + 1] \in Blank
             /\ LastOf(mode(i), t(i)) \in (f(i) + 1) .. t(i) /\ IsKept(old, f(i) + 1) /\ IsKept(old, LastOf(mode(i), t(i)))
  <2>1. S(i) = old[f(i) + 1].at /\ E(i) = old[LastOf(mode(i), t(i))].at + 1
    BY <1>8
  <2>2. /\ LastOf(mode(i), t(i)) \in (f(i) + 1) .. t(i)
        /\ \A p \in (f(i) + 1) .. LastOf(mode(i), t(i)) : IsKept(old, p)
    BY <1>4, <1>8 DEF Runs
  <2>3. IsKept(old, f(i) + 1) /\ IsKept(old, LastOf(mode(i), t(i)))
    <3>1. f(i) \in Int /\ t(i) \in Int
      BY <1>1, <1>3
    <3>2. f(i) + 1 \in (f(i) + 1) .. LastOf(mode(i), t(i)) /\ LastOf(mode(i), t(i)) \in (f(i) + 1) .. LastOf(mode(i), t(i))
      BY <2>2, <3>1
    <3>3. QED
      BY <2>2, <3>2
  <2>4. hits[i] = Matches(text, Literal(lit(i), mode(i)))
    BY <1>5
  <2> HIDE DEF S, E
  <2>5. QED
    BY <1>4, <1>8, <2>1, <2>2, <2>3, <2>4 DEF Placed
<1>9. ASSUME NEW i \in 1 .. (last + 1), ~ (f(i) < t(i))
      PROVE  /\ f(i) = t(i) /\ E(i) = S(i) /\ S(i) = (IF i = last + 1 THEN m ELSE Place(old, f(i)))
             /\ S(i) \in 0 .. m /\ Hit(S(i), E(i)) \in hits[i]
  <2>1. f(i) = t(i)
    BY <1>1, <1>3, <1>9
  <2>2. E(i) = S(i) /\ S(i) = (IF i = last + 1 THEN m ELSE Place(old, f(i)))
    BY <1>9
  <2>3. Place(old, f(i)) \in 0 .. m
    BY <1>3, PlaceIs
  <2> HIDE DEF S, E
  <2>4. S(i) \in 0 .. m /\ S(i) \in Nat
    BY <1>1, <2>2, <2>3
  <2>5. lit(i) \in Seq(Symbol) /\ Len(lit(i)) = 0 /\ mode(i) = "exact"
    BY <1>4, <2>1
  <2>6. S(i) + Len(lit(i)) = S(i) /\ S(i) + Len(lit(i)) <= Len(text)
    BY <1>1, <2>4, <2>5
  <2>7. \A k \in 1 .. Len(lit(i)) : text[S(i) + k] = lit(i)[k]
    BY <2>5
  <2>8. Hit(S(i), S(i) + Len(lit(i))) \in Matches(text, Literal(lit(i), "exact"))
    BY <1>1, <2>4, <2>5, <2>6, <2>7, ExactMatches
  <2>9. hits[i] = Matches(text, Literal(lit(i), mode(i)))
    BY <1>5
  <2>10. QED
    BY <2>1, <2>2, <2>4, <2>5, <2>6, <2>8, <2>9
<1> DEFINE s == [i \in 1 .. (last + 1) |-> S(i)]
           e == [i \in 1 .. (last + 1) |-> E(i)]
<1>10. S(1) = 0
  <2>1. 1 \in 1 .. (last + 1) /\ f(1) = 0
    BY <1>2 DEF f, From
  <2>2. CASE f(1) < t(1)
    <3>1. S(1) = old[1].at /\ IsKept(old, 1)
      BY <1>8, <2>1, <2>2
    <3>2. n > 0
      BY <1>1, <1>3, <2>1, <2>2
    <3>3. QED
      BY <3>1, <3>2 DEF TracedAs
  <2>3. CASE ~ (f(1) < t(1))
    <3>1. t(1) = 0 /\ S(1) = (IF 1 = last + 1 THEN m ELSE Place(old, 0))
      BY <1>9, <2>1, <2>3
    <3>2. CASE last = 0
      <4>1. n = 0
        BY <3>1, <3>2 DEF t, To, last
      <4>2. QED
        BY <3>1, <3>2, <4>1 DEF TracedAs
    <3>3. CASE last # 0
      <4>1. S(1) = Place(old, 0)
        BY <1>2, <3>1, <3>3
      <4>2. {j \in 1 .. 0 : IsKept(old, j)} = {}
        OBVIOUS
      <4>3. Place(old, 0) = Max({0})
        BY <4>2 DEF Place
      <4>4. {0} \in SUBSET (0 .. 0) /\ {0} # {}
        OBVIOUS
      <4>5. Max({0}) \in {0}
        BY <4>4, MaxIs
      <4>6. QED
        BY <4>1, <4>3, <4>5
    <3>4. QED
      BY <3>2, <3>3
  <2>4. QED
    BY <2>2, <2>3
<1>11. E(last + 1) = m
  <2>1. last + 1 \in 1 .. (last + 1) /\ t(last + 1) = n
    BY <1>2 DEF t, To, last
  <2>2. CASE f(last + 1) < t(last + 1)
    <3>1. mode(last + 1) = "exact"
      BY <1>4, <2>1
    <3>2. E(last + 1) = old[n].at + 1 /\ IsKept(old, n)
      BY <1>8, <2>1, <2>2, <3>1 DEF LastOf
    <3>3. n > 0
      BY <1>1, <1>3, <2>1, <2>2
    <3>4. old[n].at = m - 1
      BY <3>2, <3>3 DEF TracedAs
    <3>5. QED
      BY <1>1, <3>2, <3>4
  <2>3. CASE ~ (f(last + 1) < t(last + 1))
    BY <1>9, <2>1, <2>3
  <2>4. QED
    BY <2>2, <2>3
<1> HIDE DEF S, E
<1>12. ASSUME NEW i \in 1 .. last PROVE E(i) <= S(i + 1)
  <2>1. i \in 1 .. (last + 1) /\ i + 1 \in 1 .. (last + 1) /\ i # last + 1
    BY <1>2
  <2>2. /\ f(i) \in 0 .. n /\ t(i) \in 0 .. n /\ f(i) <= t(i) /\ f(i + 1) \in 0 .. n /\ f(i + 1) = t(i) + 2
        /\ t(i + 1) \in 0 .. n /\ f(i + 1) <= t(i + 1)
    BY <1>3, <2>1
  <2>3. Place(old, t(i)) \in 0 .. m /\ Place(old, f(i + 1)) \in 0 .. m
    BY <2>2, PlaceIs
  <2>4. Place(old, t(i)) <= Place(old, f(i + 1))
    <3>1. f(i + 1) \in t(i) .. n
      BY <1>1, <2>2
    <3>2. QED
      BY <2>2, <3>1, PlaceMonotone
  <2>5. E(i) <= Place(old, t(i)) /\ E(i) \in 0 .. m
    <3>1. CASE f(i) < t(i)
      <4>1. /\ E(i) = old[LastOf(mode(i), t(i))].at + 1 /\ IsKept(old, LastOf(mode(i), t(i)))
            /\ LastOf(mode(i), t(i)) \in (f(i) + 1) .. t(i) /\ E(i) \in 0 .. m
        BY <1>8, <2>1, <3>1
      <4>2. LastOf(mode(i), t(i)) \in 1 .. t(i)
        BY <1>1, <2>2, <4>1
      <4>3. PlaceHolds(old, t(i), n, m)
        BY <2>2, PlaceAs
      <4>4. old[LastOf(mode(i), t(i))].at + 1 <= Place(old, t(i))
        BY <4>1, <4>2, <4>3 DEF PlaceHolds
      <4>5. QED
        BY <4>1, <4>4
    <3>2. CASE ~ (f(i) < t(i))
      <4>1. E(i) = Place(old, t(i))
        BY <1>9, <2>1, <3>2
      <4>2. QED
        BY <1>1, <2>3, <4>1
    <3>3. QED
      BY <3>1, <3>2
  <2>6. Place(old, f(i + 1)) <= S(i + 1) /\ S(i + 1) \in 0 .. m
    <3>1. CASE f(i + 1) < t(i + 1)
      <4>1. S(i + 1) = old[f(i + 1) + 1].at /\ IsKept(old, f(i + 1) + 1) /\ S(i + 1) \in 0 .. m
        BY <1>8, <2>1, <3>1
      <4>2. f(i + 1) + 1 \in (f(i + 1) + 1) .. n
        BY <1>1, <2>2, <3>1
      <4>3. PlaceHolds(old, f(i + 1), n, m)
        BY <2>2, PlaceAs
      <4>4. QED
        BY <4>1, <4>2, <4>3 DEF PlaceHolds
    <3>2. CASE ~ (f(i + 1) < t(i + 1))
      <4>1. S(i + 1) = m \/ S(i + 1) = Place(old, f(i + 1))
        BY <1>9, <2>1, <3>2
      <4>2. QED
        BY <1>1, <2>3, <4>1
    <3>3. QED
      BY <3>1, <3>2
  <2>7. QED
    BY <1>1, <2>3, <2>4, <2>5, <2>6
<1>13. ASSUME NEW i \in 1 .. (last + 1) PROVE S(i) \in 0 .. m /\ E(i) \in 0 .. m /\ Hit(S(i), E(i)) \in hits[i]
  BY <1>8, <1>9
<1>14. s \in [1 .. (last + 1) -> 0 .. m] /\ e \in [1 .. (last + 1) -> 0 .. m]
  BY <1>13
<1> DEFINE rooms == Rooms(text, hits)
<1>15. /\ rooms.ok /\ SpansIn(rooms.spans, m)
       /\ \A i \in 1 .. last : \A k \in E(i) .. (S(i + 1) - 1) : k \in Offsets(rooms.spans)
  <2>1. /\ \A i \in 1 .. (last + 1) : s[i] = S(i) /\ e[i] = E(i)
        /\ \A i \in 1 .. last : i \in 1 .. (last + 1) /\ i + 1 \in 1 .. (last + 1)
        /\ 1 \in 1 .. (last + 1) /\ last + 1 \in 1 .. (last + 1)
    BY <1>2
  <2>2. /\ \A i \in 1 .. (last + 1) : Hit(s[i], e[i]) \in hits[i]
        /\ s[1] = 0 /\ e[last + 1] = m
        /\ \A i \in 1 .. last : e[i] <= s[i + 1]
    BY <1>10, <1>11, <1>12, <1>13, <2>1
  <2>3. last + 1 \in Nat \ {0} /\ (last + 1) - 1 = last
    BY <1>2
  <2> HIDE DEF s, e
  <2>4. RoomsHold(text, hits, s, e)
    BY <1>1, <1>6, <1>7, <1>14, <2>2, <2>3, RoomsEnclosed
  <2>5. QED
    BY <1>1, <1>6, <2>1, <2>3, <2>4 DEF RoomsHold, SpansIn
<1>16. AlignOutput(text, output, tokens) = rooms
  BY DEF AlignOutput, hits
<1> HIDE DEF rooms
<1>17. ASSUME NEW k \in 0 .. (m - 1), k \notin Shown(old), text[k + 1] \notin Blank
       PROVE  k \in Offsets(rooms.spans)
  <2> DEFINE before == {i \in 1 .. (last + 1) : S(i) <= k}
  <2>1. before \in SUBSET (0 .. (last + 1)) /\ 1 \in before
    <3>1. \A i \in 1 .. (last + 1) : i \in 0 .. (last + 1)
      BY <1>2
    <3>2. 1 \in 1 .. (last + 1) /\ 0 <= k
      BY <1>1, <1>2
    <3>3. QED
      BY <1>10, <3>1, <3>2
  <2>2. PICK i \in before : \A j \in before : j <= i
    <3> HIDE DEF before
    <3>1. last + 1 \in Nat
      BY <1>2
    <3>2. QED
      BY <2>1, <3>1, GreatestNumber
  <2>3. i \in 1 .. (last + 1) /\ S(i) <= k /\ S(i) \in 0 .. m /\ E(i) \in 0 .. m
    BY <1>13, <2>2
  <2>4. E(i) <= k
    <3>1. CASE f(i) < t(i)
      <4>1. k \notin S(i) .. (E(i) - 1)
        BY <1>8, <1>17, <2>3, <3>1
      <4>2. QED
        BY <1>1, <2>3, <4>1
    <3>2. CASE ~ (f(i) < t(i))
      BY <1>9, <2>3, <3>2
    <3>3. QED
      BY <3>1, <3>2
  <2>5. i # last + 1
    BY <1>1, <1>11, <2>4
  <2>6. i \in 1 .. last /\ i + 1 \in 1 .. (last + 1) /\ ~ (i + 1 <= i)
    BY <1>2, <2>3, <2>5
  <2>7. ~ (S(i + 1) <= k)
    BY <2>2, <2>6
  <2>8. S(i + 1) \in 0 .. m
    BY <1>13, <2>6
  <2>9. k \in E(i) .. (S(i + 1) - 1)
    BY <1>1, <2>3, <2>4, <2>7, <2>8
  <2>10. QED
    BY <1>15, <2>6, <2>9
<1>18. QED
  BY <1>15, <1>16, <1>17 DEF CoversHidden

\* The tokens before and after an offset.
LEMMA TokensBeside ==
  ASSUME NEW output \in Seq(Symbol), NEW n \in Nat, n = Len(output), NEW tokens, NEW p \in 0 .. n
  PROVE  /\ TokensIn(output, 0, p, tokens) = {k \in At(output, tokens) : k < p}
         /\ TokensIn(output, p, n, tokens) = {k \in At(output, tokens) : p <= k}
         /\ TokensIn(output, 0, n, tokens) = At(output, tokens)
<1>1. p \in Nat /\ 0 \in Nat
  OBVIOUS
<1>2. /\ TokensIn(output, 0, p, tokens) = AtWithin(output, 0, p, tokens)
      /\ TokensIn(output, p, n, tokens) = AtWithin(output, p, n, tokens)
      /\ TokensIn(output, 0, n, tokens) = AtWithin(output, 0, n, tokens)
  BY <1>1, TokensInIs
<1>3. \A k : k \in 0 .. (p - 1) <=> k \in 0 .. (n - 1) /\ k < p
  OBVIOUS
<1>4. \A k : k \in p .. (n - 1) <=> k \in 0 .. (n - 1) /\ p <= k
  OBVIOUS
<1>5. QED
  BY <1>2, <1>3, <1>4 DEF At, AtWithin

-----------------------------------------------------------------------------
(* trimmedBounds: no token and no mark is cut off.                         *)

\* Tokens start within the text.
LEMMA AtIs ==
  ASSUME NEW output \in Seq(Symbol), NEW n \in Nat, n = Len(output), NEW tokens
  PROVE  /\ At(output, tokens) \in SUBSET (0 .. n) /\ At(output, tokens) \in SUBSET Nat
         /\ \A k \in At(output, tokens) : k \in 0 .. (n - 1) /\ k + 2 <= n
<1>1. \A k \in At(output, tokens) : k \in 0 .. (n - 1) /\ k + 2 <= n
  BY DEF At, AtWithin
<1>2. \A k \in 0 .. (n - 1) : k \in 0 .. n /\ k \in Nat
  OBVIOUS
<1>3. QED
  BY <1>1, <1>2

\* Bounds that no token crosses, or lies outside of.
Encloses(output, tokens, b, n) ==
  /\ b = [lo |-> b.lo, hi |-> b.hi] /\ b.lo \in 0 .. n /\ b.hi \in 0 .. n
  /\ \A k \in At(output, tokens) : b.lo <= k /\ k + 2 <= b.hi

\* The bounds are widened around every token.
LEMMA WidenIs ==
  ASSUME NEW output \in Seq(Symbol), NEW n \in Nat, n = Len(output), NEW tokens, TokensAreWords(tokens),
         NEW b, b.lo \in 0 .. n, b.hi \in 0 .. n
  PROVE  Encloses(output, tokens, Widen(output, tokens, b), n)
<1> DEFINE T == At(output, tokens)
           inside == {k + 1 : k \in T}
           lo == IF b.lo \in inside THEN b.lo - 1 ELSE b.lo
           hi == IF b.hi \in inside THEN b.hi + 1 ELSE b.hi
           before == {k \in T : k < lo}
           after == {k \in T : hi <= k}
           w == [lo |-> IF before = {} THEN lo ELSE Min(before), hi |-> IF after = {} THEN hi ELSE Max(after) + 2]
<1>1. T \in SUBSET (0 .. n) /\ T \in SUBSET Nat /\ \A k \in T : k \in 0 .. (n - 1) /\ k + 2 <= n /\ k \in Nat
  BY AtIs
<1>2. \A j, k \in T : j < k => j + 2 <= k
  BY TokensApart
<1> HIDE DEF T
<1>3. lo \in 0 .. n
  BY <1>1
<1>4. hi \in 0 .. n
  BY <1>1
<1>5. SnapTokenEdges(output, tokens, b) = [lo |-> lo, hi |-> hi]
  <2>1. TokensIn(output, 0, Len(output), tokens) = T
    <3>1. 0 \in 0 .. n
      OBVIOUS
    <3>2. QED
      BY <3>1, TokensBeside DEF T
  <2>2. QED
    BY <2>1 DEF SnapTokenEdges
<1>6. Widen(output, tokens, b) = w
  <2> HIDE DEF lo, hi
  <2> DEFINE r == [lo |-> lo, hi |-> hi]
  <2>1. r.lo = lo /\ r.hi = hi
    OBVIOUS
  <2>2. TokensIn(output, 0, r.lo, tokens) = before
    BY <1>3, <2>1, TokensBeside DEF T
  <2>3. TokensIn(output, r.hi, Len(output), tokens) = after
    BY <1>4, <2>1, TokensBeside DEF T
  <2> HIDE DEF r, before, after
  <2>4. CoverDiscardedTokens(output, tokens, r) = w
    BY <2>1, <2>2, <2>3 DEF CoverDiscardedTokens
  <2>5. QED
    BY <1>5, <2>4 DEF Widen, r
<1>7. \A k \in T : k < hi => k + 2 <= hi
  <2>1. CASE b.hi \in inside
    <3>1. PICK j \in T : b.hi = j + 1
      BY <2>1
    <3>2. hi = j + 2 /\ j \in Nat
      BY <1>1, <2>1, <3>1
    <3>3. ASSUME NEW k \in T, k < j + 2 PROVE k + 2 <= j + 2
      <4>1. ~ (j < k)
        BY <1>1, <1>2, <3>3
      <4>2. QED
        BY <1>1, <4>1
    <3>4. QED
      BY <3>2, <3>3
  <2>2. CASE b.hi \notin inside
    <3>1. \A k \in T : b.hi # k + 1
      BY <2>2
    <3>2. hi = b.hi
      BY <2>2
    <3>3. QED
      BY <1>1, <3>1, <3>2
  <2>3. QED
    BY <2>1, <2>2
<1> HIDE DEF lo, hi
<1> DEFINE wl == w.lo
           wh == w.hi
<1>8. wl \in 0 .. n /\ \A k \in T : wl <= k
  <2>1. CASE before = {}
    <3>1. wl = lo
      BY <2>1
    <3>2. \A k \in T : ~ (k < lo)
      BY <2>1
    <3> HIDE DEF wl, before
    <3>3. QED
      BY <1>1, <1>3, <3>1, <3>2
  <2>2. CASE before # {}
    <3>1. before \in SUBSET Nat /\ wl = Min(before)
      BY <1>1, <2>2
    <3>2. wl \in before /\ \A k \in before : wl <= k
      <4> HIDE DEF before
      <4> QED BY <2>2, <3>1, MinIs
    <3> HIDE DEF wl, w
    <3>3. wl \in T /\ wl < lo /\ wl \in 0 .. n
      BY <1>1, <3>2
    <3>4. ASSUME NEW k \in T PROVE wl <= k
      <4>1. k \in Nat /\ (k \in before \/ lo <= k)
        BY <1>1, <1>3
      <4>2. lo \in Nat /\ wl \in Nat
        BY <1>3, <3>3
      <4>3. QED
        BY <3>2, <3>3, <4>1, <4>2
    <3>5. QED
      BY <3>3, <3>4
  <2>3. QED
    BY <2>1, <2>2
<1>9. wh \in 0 .. n /\ \A k \in T : k + 2 <= wh
  <2>1. CASE after = {}
    <3>1. wh = hi
      BY <2>1
    <3>2. \A k \in T : ~ (hi <= k)
      BY <2>1
    <3> HIDE DEF wh, after
    <3>3. QED
      BY <1>1, <1>4, <1>7, <3>1, <3>2
  <2>2. CASE after # {}
    <3> DEFINE top == Max(after)
    <3>1. after \in SUBSET (0 .. n) /\ wh = top + 2
      BY <1>1, <2>2
    <3>2. top \in after /\ \A k \in after : k <= top
      <4> HIDE DEF after
      <4> QED BY <2>2, <3>1, MaxIs
    <3> HIDE DEF wh, w, top
    <3>3. top \in T /\ hi <= top
      BY <3>2
    <3>4. QED
      BY <1>1, <1>4, <1>7, <3>1, <3>2, <3>3
  <2>3. QED
    BY <2>1, <2>2
<1>10. QED
  <2>1. w = [lo |-> w.lo, hi |-> w.hi]
    OBVIOUS
  <2>2. wl = w.lo /\ wh = w.hi
    OBVIOUS
  <2> HIDE DEF w, wl, wh
  <2>3. QED
    BY <1>6, <1>8, <1>9, <2>1, <2>2 DEF Encloses, T

\* Bounds around every token are left as they are.
LEMMA WidenSame ==
  ASSUME NEW output \in Seq(Symbol), NEW n \in Nat, n = Len(output), NEW tokens,
         NEW b, Encloses(output, tokens, b, n)
  PROVE  Widen(output, tokens, b) = b
<1> DEFINE T == At(output, tokens)
           inside == {k + 1 : k \in T}
<1>1. \A k \in T : k \in Nat /\ b.lo <= k /\ k + 2 <= b.hi
  BY AtIs DEF Encloses
<1>2. b = [lo |-> b.lo, hi |-> b.hi] /\ b.lo \in 0 .. n /\ b.hi \in 0 .. n
  BY DEF Encloses
<1> HIDE DEF T
<1>3. b.lo \notin inside /\ b.hi \notin inside
  <2>1. \A k \in T : b.lo # k + 1 /\ b.hi # k + 1
    BY <1>1, <1>2
  <2>2. QED
    BY <2>1
<1>4. {k \in T : k < b.lo} = {} /\ {k \in T : b.hi <= k} = {}
  <2>1. \A k \in T : ~ (k < b.lo) /\ ~ (b.hi <= k)
    BY <1>1, <1>2
  <2>2. QED
    BY <2>1
<1>5. /\ TokensIn(output, 0, Len(output), tokens) = T
      /\ TokensIn(output, 0, b.lo, tokens) = {k \in T : k < b.lo}
      /\ TokensIn(output, b.hi, Len(output), tokens) = {k \in T : b.hi <= k}
  BY <1>2, TokensBeside DEF T
<1>6. SnapTokenEdges(output, tokens, b) = b
  BY <1>2, <1>3, <1>5 DEF SnapTokenEdges
<1>7. CoverDiscardedTokens(output, tokens, b) = b
  BY <1>2, <1>4, <1>5 DEF CoverDiscardedTokens
<1>8. QED
  BY <1>6, <1>7 DEF Widen

\* The symbols of a mark before symbol i.
LabelBefore(output, i) == i >= 3 /\ output[i - 2] = "label" /\ output[i - 1] = ":"

\* A title before symbol i.
TitleBefore(output, i) == i >= 2 /\ output[i - 1] = "title"

\* No mark before a space that was put in starts before lo.
MarksFrom(old, output, lo, n) ==
  \A i \in 1 .. n : Inserted(old, i) => /\ LabelBefore(output, i) => lo <= i - 3
                                        /\ TitleBefore(output, i) => lo <= i - 2

\* The mark of the first PII token after an offset.
LEMMA FirstMark ==
  ASSUME NEW text, NEW old, NEW tokens, TokensAreWords(tokens),
         NEW output, NEW n, NEW m, TracedAs(text, old, tokens, output, n, m),
         NEW tok \in 1 .. n, NEW mark, mark = MarkAfter(Slice(output, 0, tok))
  PROVE  /\ mark \in {"exact", "label", "title"}
         /\ mark = "label" => tok >= 3
         /\ mark = "title" => tok >= 2
         /\ Inserted(old, tok) => /\ LabelBefore(output, tok) => mark = "label"
                                  /\ TitleBefore(output, tok) => mark = "title"
<1> DEFINE lit == Slice(output, 0, tok)
<1>1. n \in Nat /\ Len(output) = n /\ output \in Seq(Symbol)
  BY DEF TracedAs
<1>2. lit \in Seq(Symbol) /\ PartOf(lit, output, 0, tok)
  <2>1. 0 \in Nat /\ tok \in Nat /\ 0 <= tok /\ tok <= Len(output)
    BY <1>1
  <2>2. QED
    BY <1>1, <2>1, SliceIsPart
<1> HIDE DEF lit
<1>3. Len(lit) = tok /\ \A k \in 1 .. tok : lit[k] = output[k]
  <2>1. tok - 0 = tok /\ \A k \in 1 .. tok : 0 + k = k
    OBVIOUS
  <2>2. QED
    BY <1>2, <2>1 DEF PartOf
<1>4. mark = MarkAfter(lit)
  BY DEF lit
<1>5. /\ mark \in {"exact", "label", "title"}
      /\ mark = "label" <=> LabelMark(lit)
      /\ mark = "title" <=> TitleMark(lit)
  BY <1>2, <1>4, MarkAfterIs
<1>6. ASSUME Inserted(old, tok) PROVE LabelMark(lit) \/ TitleMark(lit)
  <2>1. 0 \in 0 .. n /\ 0 < tok
    BY <1>1
  <2>2. QED
    BY <1>2, <1>6, <2>1, MarkBefore
<1>7. ASSUME LabelBefore(output, tok) PROVE ~TitleMark(lit)
  <2>1. tok >= 3 /\ output[tok - 1] = ":"
    BY <1>7 DEF LabelBefore
  <2>2. tok - 1 \in 1 .. tok
    BY <2>1
  <2>3. lit[tok - 1] = ":"
    BY <1>3, <2>1, <2>2
  <2>4. QED
    BY <1>3, <2>3 DEF TitleMark
<1>8. ASSUME TitleBefore(output, tok) PROVE ~LabelMark(lit)
  <2>1. tok >= 2 /\ output[tok - 1] = "title"
    BY <1>8 DEF TitleBefore
  <2>2. tok - 1 \in 1 .. tok
    BY <2>1
  <2>3. lit[tok - 1] = "title"
    BY <1>3, <2>1, <2>2
  <2>4. QED
    BY <1>3, <2>3 DEF LabelMark
<1>9. QED
  BY <1>3, <1>5, <1>6, <1>7, <1>8 DEF LabelMark, TitleMark

\* A mark before a space that was put in starts after the token before it.
LEMMA MarkAfterToken ==
  ASSUME NEW text, NEW old, NEW tokens, TokensAreWords(tokens),
         NEW output, NEW n, NEW m, TracedAs(text, old, tokens, output, n, m),
         NEW i \in 1 .. n, Inserted(old, i), NEW tok \in At(output, tokens), tok < i
  PROVE  /\ LabelBefore(output, i) => tok <= i - 3
         /\ TitleBefore(output, i) => tok <= i - 2
<1>1. /\ n \in Nat /\ Len(output) = n /\ output \in Seq(Symbol) /\ output[i] = "space"
  BY DEF TracedAs, Inserted
<1>2. tok \in 0 .. (n - 1) /\ output[tok + 2] \notin Letters \cup Blank \cup {"[", ":"}
  BY <1>1, PairsDiffer DEF At, AtWithin
<1>3. tok + 2 # i
  BY <1>1, <1>2 DEF Blank
<1>4. ASSUME LabelBefore(output, i) PROVE tok + 2 # i - 1 /\ tok + 2 # i - 2
  BY <1>2, <1>4 DEF LabelBefore, Letters
<1>5. ASSUME TitleBefore(output, i) PROVE tok + 2 # i - 1
  BY <1>2, <1>5 DEF TitleBefore, Letters
<1>6. tok + 2 # i + 1
  <2>1. tok + 2 = i + 1 => tok + 1 = i
    BY <1>2
  <2>2. output[tok + 1] = "["
    BY PairsDiffer DEF At, AtWithin
  <2>3. QED
    BY <1>1, <2>1, <2>2
<1>7. QED
  BY <1>2, <1>3, <1>4, <1>5, <1>6

\* The bounds are moved before the mark of the first PII token, and around every token still.
LEMMA AtMarksIs ==
  ASSUME NEW text, NEW old, NEW tokens, TokensAreWords(tokens),
         NEW output, NEW n, NEW m, TracedAs(text, old, tokens, output, n, m),
         NEW b, Encloses(output, tokens, b, n)
  PROVE  /\ Encloses(output, tokens, AtMarks(output, b), n)
         /\ MarksFrom(old, output, AtMarks(output, b).lo, n)
<1> DEFINE P == At(output, {PII})
<1>1. /\ n \in Nat /\ Len(output) = n /\ output \in Seq(Symbol) /\ Len(old) = n
      /\ \A i \in 1 .. n : output[i] = old[i].is
  BY DEF TracedAs
<1>2. b.lo \in 0 .. n /\ b.hi \in 0 .. n /\ \A k \in At(output, tokens) : b.lo <= k /\ k + 2 <= b.hi
  BY DEF Encloses
<1>3. P \subseteq At(output, tokens)
  BY DEF At, AtWithin, TokensAreWords
<1>4. P \in SUBSET Nat /\ \A k \in P : k \in 0 .. n /\ k + 2 <= n /\ b.lo <= k /\ k + 2 <= b.hi
  BY <1>1, <1>2, <1>3, AtIs
<1>5. \A i \in 1 .. n : Inserted(old, i) => i \in P
  <2>1. ASSUME NEW i \in 1 .. n, Inserted(old, i) PROVE i \in P
    <3>1. StandsAt(old, i + 1, {PII}) /\ i + 1 \in Int /\ (i + 1) - 1 = i
      BY <2>1 DEF Inserted
    <3>2. QED
      BY <1>1, <3>1, StandsAtIs
  <2>2. QED
    BY <2>1
<1>6. TokensIn(output, b.lo, Len(output), {PII}) = P /\ TokensIn(output, b.hi, Len(output), {PII}) = {}
  <2>1. /\ TokensIn(output, b.lo, n, {PII}) = {k \in P : b.lo <= k}
        /\ TokensIn(output, b.hi, n, {PII}) = {k \in P : b.hi <= k}
    BY <1>1, <1>2, TokensBeside
  <2> HIDE DEF P
  <2>2. \A k \in P : b.lo <= k /\ ~ (b.hi <= k)
    BY <1>2, <1>4
  <2>3. QED
    BY <1>1, <2>1, <2>2
<1>7. PushLabelEdge(output, b.hi) = b.hi
  BY <1>6 DEF PushLabelEdge, NextMark
<1> HIDE DEF P
<1> DEFINE lo == PullLabelEdge(output, b.lo)
<1>8. lo \in 0 .. n /\ lo <= b.lo /\ MarksFrom(old, output, lo, n)
  <2>1. CASE P = {}
    <3>1. lo = b.lo
      BY <1>6, <2>1 DEF PullLabelEdge, NextMark
    <3>2. QED
      BY <1>1, <1>2, <1>5, <2>1, <3>1 DEF MarksFrom
  <2>2. CASE P # {}
    <3> DEFINE tok == Min(P)
               mark == MarkAfter(Slice(output, 0, tok))
               at == CASE mark = "exact" -> NoOffset [] mark = "label" -> tok - 3 [] mark = "title" -> tok - 2
    <3>1. lo = IF at # NoOffset /\ b.lo > at THEN at ELSE b.lo
      <4> DEFINE next == TokensIn(output, b.lo, Len(output), {PII})
                 mk == IF next = {} THEN "exact" ELSE MarkAfter(Slice(output, 0, Min(next)))
                 place == CASE mk = "exact" -> NoOffset [] mk = "label" -> Min(next) - 3 [] mk = "title" -> Min(next) - 2
      <4>1. NextMark(output, b.lo) = [token |-> IF next = {} THEN NoOffset ELSE Min(next), at |-> place]
        BY Zenon DEF NextMark
      <4>2. next = P /\ mk = mark
        BY <1>6, <2>2
      <4>3. place = at
        BY <4>2
      <4> HIDE DEF next, mk, place, at
      <4>4. NextMark(output, b.lo).at = at
        BY <4>1, <4>3
      <4>5. QED
        BY <4>4 DEF PullLabelEdge
    <3>2. tok \in P /\ \A k \in P : tok <= k
      BY <1>4, <2>2, MinIs
    <3> HIDE DEF lo, tok
    <3>3. tok \in 0 .. n /\ b.lo <= tok /\ tok \in At(output, tokens)
      BY <1>3, <1>4, <3>2
    <3>4. CASE tok = 0
      <4>1. b.lo = 0
        BY <1>2, <3>3, <3>4
      <4>2. Slice(output, 0, 0) \in Seq(Symbol) /\ Len(Slice(output, 0, 0)) = 0
        BY <1>1, SliceIs
      <4>3. mark = "exact"
        BY <3>4, <4>2, MarkAfterIs DEF LabelMark, TitleMark
      <4>4. lo = 0
        BY <3>1, <4>1, <4>3 DEF NoOffset
      <4>5. \A i \in 1 .. n : (LabelBefore(output, i) => 0 <= i - 3) /\ (TitleBefore(output, i) => 0 <= i - 2)
        BY <1>1 DEF LabelBefore, TitleBefore
      <4>6. QED
        BY <1>1, <1>2, <4>1, <4>4, <4>5 DEF MarksFrom
    <3>5. CASE tok # 0
      <4>1. tok \in 1 .. n
        BY <1>1, <3>3, <3>5
      <4>2. /\ mark \in {"exact", "label", "title"}
            /\ mark = "label" => tok >= 3
            /\ mark = "title" => tok >= 2
            /\ Inserted(old, tok) => /\ LabelBefore(output, tok) => mark = "label"
                                     /\ TitleBefore(output, tok) => mark = "title"
        <5>1. mark = MarkAfter(Slice(output, 0, tok))
          OBVIOUS
        <5> HIDE DEF mark
        <5>2. QED
          BY <4>1, <5>1, FirstMark
      <4> HIDE DEF mark
      <4>3. lo \in 0 .. n /\ lo <= b.lo
        BY <1>1, <1>2, <3>1, <3>3, <4>2 DEF NoOffset
      <4>4. (mark = "label" => lo <= tok - 3) /\ (mark = "title" => lo <= tok - 2)
        BY <1>1, <1>2, <3>1, <3>3, <4>2 DEF NoOffset
      <4>5. ASSUME NEW i \in 1 .. n, Inserted(old, i)
            PROVE  (LabelBefore(output, i) => lo <= i - 3) /\ (TitleBefore(output, i) => lo <= i - 2)
        <5>1. i \in P /\ tok <= i
          BY <1>5, <3>2, <4>5
        <5>2. CASE i = tok
          BY <4>2, <4>4, <4>5, <5>2
        <5>3. CASE i # tok
          <6>1. tok < i
            BY <1>1, <3>3, <5>1, <5>3
          <6>2. /\ LabelBefore(output, i) => tok <= i - 3
                /\ TitleBefore(output, i) => tok <= i - 2
            BY <3>3, <4>5, <6>1, MarkAfterToken
          <6>3. lo <= tok
            BY <1>2, <3>3, <4>3
          <6>4. QED
            BY <1>1, <3>3, <4>3, <6>2, <6>3
        <5>4. QED
          BY <5>2, <5>3
      <4>6. QED
        BY <4>3, <4>5 DEF MarksFrom
    <3>6. QED
      BY <3>4, <3>5
  <2>3. QED
    BY <2>1, <2>2
<1>9. AtMarks(output, b) = [lo |-> lo, hi |-> b.hi]
  BY <1>7 DEF AtMarks
<1> HIDE DEF lo
<1>10. \A k \in At(output, tokens) : lo <= k
  <2>1. \A k \in At(output, tokens) : k \in 0 .. n
    BY <1>1, AtIs
  <2>2. QED
    BY <1>1, <1>2, <1>8, <2>1
<1>11. QED
  BY <1>2, <1>8, <1>9, <1>10 DEF Encloses

\* The smaller of two numbers.
LEMMA SmallerOf ==
  ASSUME NEW a \in Nat, NEW b \in Nat
  PROVE  Min({a, b}) \in Nat /\ Min({a, b}) <= a /\ Min({a, b}) <= b
<1>1. {a, b} \in SUBSET Nat /\ {a, b} # {}
  OBVIOUS
<1>2. Min({a, b}) \in {a, b} /\ \A j \in {a, b} : Min({a, b}) <= j
  BY <1>1, MinIs
<1>3. QED
  BY <1>2

\* Slices of nothing are the same.
LEMMA EmptySlice ==
  ASSUME NEW a \in Seq(Symbol), NEW b \in Seq(Symbol), NEW i \in Nat, NEW j \in Nat, i <= Len(a), j <= Len(b)
  PROVE  Slice(a, i, i) = Slice(b, j, j)
<1>1. i - i = 0 /\ j - j = 0
  OBVIOUS
<1>2. /\ Slice(a, i, i) \in Seq(Symbol) /\ Len(Slice(a, i, i)) = 0
      /\ Slice(b, j, j) \in Seq(Symbol) /\ Len(Slice(b, j, j)) = 0
  BY <1>1, SliceIs
<1>3. QED
  BY <1>2, SameSeq

\* What two texts have in common at their ends is no longer than either.
LEMMA CommonIs ==
  ASSUME NEW a \in Seq(Symbol), NEW b \in Seq(Symbol), NEW m, m = Len(a), m \in Nat, NEW n, n = Len(b), n \in Nat
  PROVE  /\ CommonPrefix(a, b) \in 0 .. Min({m, n})
         /\ \A most \in 0 .. Min({m, n}) : CommonSuffix(a, b, most) \in 0 .. most
<1> DEFINE l == Min({m, n})
<1>1. l \in Nat /\ l <= m /\ l <= n
  BY SmallerOf
<1>2. CommonPrefix(a, b) \in 0 .. l
  <2> DEFINE S == {k \in 0 .. l : Slice(a, 0, k) = Slice(b, 0, k)}
  <2>1. Slice(a, 0, 0) = Slice(b, 0, 0)
    BY EmptySlice
  <2>2. CommonPrefix(a, b) = Max(S)
    BY DEF CommonPrefix
  <2> HIDE DEF l
  <2>3. S \in SUBSET (0 .. l) /\ S # {}
    <3>1. 0 \in S
      BY <1>1, <2>1
    <3>2. QED
      BY <3>1
  <2> HIDE DEF S
  <2>4. Max(S) \in S
    BY <1>1, <2>3, MaxIs
  <2>5. QED
    BY <2>2, <2>3, <2>4
<1> HIDE DEF l
<1>3. ASSUME NEW most \in 0 .. l PROVE CommonSuffix(a, b, most) \in 0 .. most
  <2> DEFINE S == {k \in 0 .. most : Slice(a, Len(a) - k, Len(a)) = Slice(b, Len(b) - k, Len(b))}
  <2>1. Slice(a, m, m) = Slice(b, n, n)
    BY EmptySlice
  <2>2. CommonSuffix(a, b, most) = Max(S)
    BY DEF CommonSuffix
  <2>3. S \in SUBSET (0 .. most) /\ S # {}
    <3>1. 0 \in 0 .. most /\ m - 0 = m /\ n - 0 = n
      BY <1>1
    <3>2. 0 \in S
      BY <2>1, <3>1
    <3>3. QED
      BY <3>2
  <2> HIDE DEF S
  <2>4. most \in Nat
    BY <1>1
  <2>5. Max(S) \in S
    BY <2>3, <2>4, MaxIs
  <2>6. QED
    BY <2>2, <2>3, <2>5
<1>4. QED
  BY <1>2, <1>3 DEF l

\* The bounds that the belt aligns within cut no token and no mark off
\* (trimmedBounds of src/mask/belt.ts).
LEMMA TrimmedBoundsHold ==
  ASSUME NEW text, NEW old, NEW tokens, TokensAreWords(tokens),
         NEW output, NEW n, NEW m, TracedAs(text, old, tokens, output, n, m)
  PROVE  LET b == TrimmedBounds(text, output, tokens)
         IN  Encloses(output, tokens, b, n) /\ MarksFrom(old, output, b.lo, n)
<1> DEFINE least == Min({Len(text), Len(output)})
           lo == CommonPrefix(text, output)
           suffix == CommonSuffix(text, output, least - lo)
           common == [lo |-> lo, hi |-> Len(output) - suffix]
<1>1. /\ n \in Nat /\ m \in Nat /\ Len(output) = n /\ Len(text) = m
      /\ output \in Seq(Symbol) /\ text \in Seq(Symbol)
  BY DEF TracedAs
<1>2. least \in Nat /\ least <= m /\ least <= n
  BY <1>1, SmallerOf
<1>3. lo \in 0 .. least /\ \A most \in 0 .. least : CommonSuffix(text, output, most) \in 0 .. most
  BY <1>1, CommonIs
<1>4. suffix \in 0 .. (least - lo)
  <2> HIDE DEF least, lo
  <2>1. least - lo \in 0 .. least
    BY <1>2, <1>3
  <2>2. QED
    BY <1>3, <2>1
<1>5. common.lo \in 0 .. n /\ common.hi \in 0 .. n
  <2> HIDE DEF least, lo, suffix
  <2> QED BY <1>1, <1>2, <1>3, <1>4
<1>6. CASE lo = 0 /\ suffix = 0
  <2>1. TrimmedBounds(text, output, tokens) = common
    BY <1>6 DEF TrimmedBounds
  <2>2. common = [lo |-> 0, hi |-> n]
    BY <1>1, <1>6
  <2> HIDE DEF common
  <2>3. Encloses(output, tokens, common, n)
    <3>1. \A k \in At(output, tokens) : k \in 0 .. (n - 1) /\ k + 2 <= n
      BY <1>1, AtIs
    <3>2. QED
      BY <1>1, <2>2, <3>1 DEF Encloses
  <2>4. MarksFrom(old, output, 0, n)
    BY <1>1 DEF MarksFrom, LabelBefore, TitleBefore
  <2>5. QED
    BY <2>1, <2>2, <2>3, <2>4
<1>7. CASE ~ (lo = 0 /\ suffix = 0)
  <2> DEFINE w == Widen(output, tokens, common)
             b == AtMarks(output, w)
  <2>1. TrimmedBounds(text, output, tokens) = Widen(output, tokens, b)
    BY <1>7 DEF TrimmedBounds
  <2>2. Encloses(output, tokens, w, n)
    <3> HIDE DEF common
    <3> QED BY <1>1, <1>5, WidenIs
  <2> HIDE DEF w
  <2>3. Encloses(output, tokens, b, n) /\ MarksFrom(old, output, b.lo, n)
    BY <2>2, AtMarksIs
  <2> HIDE DEF b
  <2>4. Widen(output, tokens, b) = b
    BY <1>1, <2>3, WidenSame
  <2>5. QED
    BY <2>1, <2>3, <2>4
<1>8. QED
  BY <1>6, <1>7

\* Bounds that cut no token and no mark off.
Bounds(old, output, tokens, lo, hi, n) ==
  /\ lo \in 0 .. n /\ hi \in 0 .. n
  /\ \A k \in At(output, tokens) : lo <= k /\ k + 2 <= hi
  /\ MarksFrom(old, output, lo, n)

\* A space that was put in has a mark before it and a token after it.
LEMMA InsertedIs ==
  ASSUME NEW text, NEW old, NEW tokens, TokensAreWords(tokens),
         NEW output, NEW n, NEW m, TracedAs(text, old, tokens, output, n, m),
         NEW i \in 1 .. n, Inserted(old, i)
  PROVE  i \in At(output, tokens) /\ (LabelBefore(output, i) \/ TitleBefore(output, i))
<1>1. /\ n \in Nat /\ Len(output) = n /\ Len(old) = n
      /\ \A j \in 1 .. n : output[j] = old[j].is
  BY DEF TracedAs
<1>2. i \in At(output, {PII})
  <2>1. StandsAt(old, i + 1, {PII}) /\ i + 1 \in Int /\ (i + 1) - 1 = i
    BY DEF Inserted
  <2>2. QED
    BY <1>1, <2>1, StandsAtIs
<1>3. i \in At(output, tokens)
  BY <1>2 DEF At, AtWithin, TokensAreWords
<1>4. CASE i >= 2 /\ old[i - 1].is = "title"
  <2>1. i - 1 \in 1 .. n
    BY <1>1, <1>4
  <2>2. QED
    BY <1>1, <1>3, <1>4, <2>1 DEF TitleBefore
<1>5. CASE i >= 3 /\ old[i - 2].is = "label" /\ old[i - 1].is = ":"
  <2>1. i - 1 \in 1 .. n /\ i - 2 \in 1 .. n
    BY <1>1, <1>5
  <2>2. QED
    BY <1>1, <1>3, <1>5, <2>1 DEF LabelBefore
<1>6. QED
  BY <1>4, <1>5 DEF Inserted, AfterMark

\* Outside the bounds all is kept.
LEMMA OutsideKept ==
  ASSUME NEW text, NEW old, NEW tokens, TokensAreWords(tokens),
         NEW output, NEW n, NEW m, TracedAs(text, old, tokens, output, n, m),
         NEW lo, NEW hi, Bounds(old, output, tokens, lo, hi, n),
         NEW i \in 1 .. n, i <= lo \/ hi < i
  PROVE  IsKept(old, i)
<1>1. /\ n \in Nat /\ Len(output) = n /\ Len(old) = n /\ output \in Seq(Symbol)
      /\ \A j \in 1 .. n : output[j] = old[j].is
      /\ ~IsKept(old, i) => StandsAt(old, i, tokens) \/ StandsAt(old, i - 1, tokens) \/ Inserted(old, i)
  BY DEF TracedAs
<1>2. /\ lo \in 0 .. n /\ hi \in 0 .. n
      /\ \A k \in At(output, tokens) : lo <= k /\ k + 2 <= hi
      /\ LabelBefore(output, i) /\ Inserted(old, i) => lo <= i - 3
      /\ TitleBefore(output, i) /\ Inserted(old, i) => lo <= i - 2
  BY DEF Bounds, MarksFrom
<1>3. ~ (i - 1 \in At(output, tokens))
  <2>1. i - 1 \in At(output, tokens) => lo <= i - 1 /\ (i - 1) + 2 <= hi
    BY <1>2
  <2>2. QED
    BY <1>1, <1>2, <2>1
<1>4. ~ ((i - 1) - 1 \in At(output, tokens))
  <2>1. (i - 1) - 1 \in At(output, tokens) => lo <= (i - 1) - 1 /\ ((i - 1) - 1) + 2 <= hi
    BY <1>2
  <2>2. QED
    BY <1>1, <1>2, <2>1
<1>5. ~StandsAt(old, i, tokens) /\ ~StandsAt(old, i - 1, tokens)
  <2>1. i \in Int /\ i - 1 \in Int
    OBVIOUS
  <2>2. QED
    BY <1>1, <1>3, <1>4, <2>1, StandsAtIs
<1>6. ~Inserted(old, i)
  <2>1. SUFFICES ASSUME Inserted(old, i) PROVE FALSE
    OBVIOUS
  <2>2. i \in At(output, tokens) /\ (LabelBefore(output, i) \/ TitleBefore(output, i))
    BY <2>1, InsertedIs
  <2>3. lo <= i - 2 /\ i + 2 <= hi
    BY <1>1, <1>2, <2>1, <2>2
  <2>4. QED
    BY <1>1, <1>2, <2>3
<1>7. QED
  BY <1>1, <1>5, <1>6

\* And each symbol follows the one before it.
LEMMA OutsideFollows ==
  ASSUME NEW text, NEW old, NEW tokens, TokensAreWords(tokens),
         NEW output, NEW n, NEW m, TracedAs(text, old, tokens, output, n, m),
         NEW lo, NEW hi, Bounds(old, output, tokens, lo, hi, n),
         NEW i \in 1 .. (n - 1), i <= lo \/ hi <= i, IsKept(old, i), IsKept(old, i + 1)
  PROVE  old[i + 1].at = old[i].at + 1
<1>1. /\ n \in Nat /\ Len(old) = n /\ Follows(text, old, i)
      /\ \A j \in 1 .. n : output[j] = old[j].is
  BY DEF TracedAs
<1>2. /\ lo \in 0 .. n /\ hi \in 0 .. n
      /\ \A k \in At(output, tokens) : lo <= k /\ k + 2 <= hi
  BY DEF Bounds
<1>3. SUFFICES ASSUME old[i].is = "label", old[i + 1].is = ":", i + 2 <= n, Inserted(old, i + 2) PROVE FALSE
  BY <1>1 DEF Follows
<1>4. i + 2 \in 1 .. n /\ i \in 1 .. n /\ i + 1 \in 1 .. n /\ (i + 2) - 2 = i /\ (i + 2) - 1 = i + 1 /\ i + 2 >= 3
  BY <1>1, <1>3
<1>5. LabelBefore(output, i + 2)
  BY <1>1, <1>3, <1>4 DEF LabelBefore
<1>6. i + 2 \in At(output, tokens)
  BY <1>3, <1>4, InsertedIs
<1>7. lo <= (i + 2) - 3 /\ (i + 2) + 2 <= hi
  BY <1>2, <1>3, <1>4, <1>5, <1>6 DEF Bounds, MarksFrom
<1>8. QED
  BY <1>1, <1>2, <1>7

\* What follows in the masked text, outside the bounds, follows in the source.
FollowOutside(old, lo, hi, n) ==
  \A i \in 1 .. (n - 1) : (i <= lo \/ hi <= i) /\ IsKept(old, i) /\ IsKept(old, i + 1) => old[i + 1].at = old[i].at + 1

\* So it does, for all of them.
LEMMA OutsideFollow ==
  ASSUME NEW text, NEW old, NEW tokens, TokensAreWords(tokens),
         NEW output, NEW n, NEW m, TracedAs(text, old, tokens, output, n, m),
         NEW lo, NEW hi, Bounds(old, output, tokens, lo, hi, n)
  PROVE  FollowOutside(old, lo, hi, n)
<1>1. ASSUME NEW i \in 1 .. (n - 1), i <= lo \/ hi <= i, IsKept(old, i), IsKept(old, i + 1)
      PROVE  old[i + 1].at = old[i].at + 1
  BY <1>1, OutsideFollows
<1>2. QED
  BY <1>1, Zenon DEF FollowOutside

\* What is outside the bounds stands in the source as it does in the text.
OutsideStands(old, lo, hi, n, m) ==
  /\ \A i \in 1 .. lo : IsKept(old, i) /\ old[i].at = i - 1
  /\ \A i \in (hi + 1) .. n : IsKept(old, i) /\ old[i].at = m - n + i - 1

\* So the texts are the same there.
LEMMA OutsideAt ==
  ASSUME NEW text, NEW old, NEW tokens, TokensAreWords(tokens),
         NEW output, NEW n, NEW m, TracedAs(text, old, tokens, output, n, m),
         NEW lo, NEW hi, Bounds(old, output, tokens, lo, hi, n)
  PROVE  OutsideStands(old, lo, hi, n, m)
<1>1. /\ n \in Nat /\ m \in Nat
      /\ n > 0 /\ IsKept(old, 1) => old[1].at = 0
      /\ n > 0 /\ IsKept(old, n) => old[n].at = m - 1
      /\ \A i \in 1 .. n : old[i].at \in Int
  BY DEF TracedAs
<1>9. FollowOutside(old, lo, hi, n)
  BY OutsideFollow, Zenon
<1>2. lo \in 0 .. n /\ hi \in 0 .. n
  BY DEF Bounds
<1>3. \A i \in 1 .. lo : i \in 1 .. n /\ IsKept(old, i)
  <2>1. \A i \in 1 .. lo : i \in 1 .. n /\ i <= lo
    BY <1>1, <1>2
  <2>2. QED
    BY <2>1, OutsideKept
<1>4. \A i \in (hi + 1) .. n : i \in 1 .. n /\ IsKept(old, i)
  <2>1. \A i \in (hi + 1) .. n : i \in 1 .. n /\ hi < i
    BY <1>1, <1>2
  <2>2. QED
    BY <2>1, OutsideKept
<1>5. \A i \in 1 .. lo : old[i].at = i - 1
  <2> DEFINE Good == {i \in Nat : old[i].at = i - 1}
  <2>1. CASE lo = 0
    BY <2>1
  <2>2. CASE lo # 0
    <3>1. 1 \in Good
      <4>1. 1 \in 1 .. lo /\ n > 0
        BY <1>1, <1>2, <2>2
      <4>2. old[1].at = 0
        BY <1>1, <1>3, <4>1
      <4>3. QED
        BY <4>2
    <3>2. ASSUME NEW i \in 1 .. (lo - 1), i \in Good PROVE i + 1 \in Good
      <4>1. i \in 1 .. (n - 1) /\ i <= lo /\ i \in 1 .. lo /\ i + 1 \in 1 .. lo /\ i + 1 \in Nat
        BY <1>1, <1>2
      <4>2. old[i + 1].at = old[i].at + 1
        <5>1. IsKept(old, i) /\ IsKept(old, i + 1) /\ (i <= lo \/ hi <= i)
          BY <1>3, <4>1
        <5>2. QED
          BY <1>9, <4>1, <5>1 DEF FollowOutside
      <4>3. old[i].at = i - 1
        BY <3>2
      <4>4. QED
        BY <4>1, <4>2, <4>3
    <3>3. 1 \in Nat /\ lo \in Nat
      BY <1>1, <1>2
    <3>4. \A i \in 1 .. lo : i \in Good
      <4> HIDE DEF Good
      <4> QED BY <3>1, <3>2, <3>3, UpTo
    <3>5. QED
      BY <3>4
  <2>3. QED
    BY <2>1, <2>2
<1>6. \A i \in (hi + 1) .. n : old[i].at = m - n + i - 1
  <2> DEFINE Good == {i \in Nat : old[i].at = m - n + i - 1}
  <2>1. CASE hi = n
    BY <1>1, <2>1
  <2>2. CASE hi # n
    <3>1. n \in Good
      <4>1. n \in (hi + 1) .. n /\ n > 0
        BY <1>1, <1>2, <2>2
      <4>2. old[n].at = m - 1
        BY <1>1, <1>4, <4>1
      <4>3. QED
        BY <1>1, <4>2
    <3>2. ASSUME NEW i \in (hi + 1) .. (n - 1), i + 1 \in Good PROVE i \in Good
      <4>1. i \in 1 .. (n - 1) /\ hi <= i /\ i \in (hi + 1) .. n /\ i + 1 \in (hi + 1) .. n /\ i \in Nat /\ i \in 1 .. n
        BY <1>1, <1>2
      <4>2. old[i + 1].at = old[i].at + 1
        <5>1. IsKept(old, i) /\ IsKept(old, i + 1) /\ (i <= lo \/ hi <= i)
          BY <1>4, <4>1
        <5>2. QED
          BY <1>9, <4>1, <5>1 DEF FollowOutside
      <4> DEFINE k == i + 1
      <4>3. old[k].at = m - n + k - 1
        <5>1. k \in Good
          BY <3>2
        <5> HIDE DEF k
        <5>2. QED
          BY <5>1, Zenon
      <4>4. old[i].at \in Int
        BY <1>1, <4>1
      <4>5. old[i].at = m - n + i - 1
        BY <1>1, <4>1, <4>2, <4>3, <4>4 DEF k
      <4>6. QED
        BY <4>1, <4>5
    <3>3. hi + 1 \in Nat /\ n \in Nat
      BY <1>1, <1>2
    <3>4. \A i \in (hi + 1) .. n : i \in Good
      <4> HIDE DEF Good
      <4> QED BY <3>1, <3>2, <3>3, DownTo
    <3>5. QED
      BY <3>4
  <2>3. QED
    BY <2>1, <2>2
<1>7. QED
  BY <1>3, <1>4, <1>5, <1>6 DEF OutsideStands

-----------------------------------------------------------------------------
(* alignTrimmed covers what was taken away.                                *)

\* The part of a masked text between two offsets, as one that stands alone.
Part(old, lo, hi) ==
  [i \in 1 .. (hi - lo) |->
     [is |-> old[lo + i].is, at |-> IF IsKept(old, lo + i) THEN old[lo + i].at - lo ELSE NoOffset]]

\* What Part is, symbol by symbol.
PartIs(part, old, lo, n, w) ==
  /\ w \in Nat /\ lo \in Nat /\ n \in Nat /\ lo + w <= n /\ DOMAIN part = 1 .. w /\ Len(part) = w
  /\ \A i \in 1 .. w : /\ part[i].is = old[lo + i].is /\ part[i].at \in Int
                       /\ IsKept(part, i) <=> IsKept(old, lo + i)
                       /\ IsKept(part, i) => part[i].at = old[lo + i].at - lo

\* A space that was put in is one of the part, with its mark and its token.
LEMMA InsertedPart ==
  ASSUME NEW text, NEW old, NEW tokens, TokensAreWords(tokens),
         NEW output, NEW n, NEW m, TracedAs(text, old, tokens, output, n, m),
         NEW lo, NEW hi, Bounds(old, output, tokens, lo, hi, n),
         NEW w, w = hi - lo, NEW part, PartIs(part, old, lo, n, w),
         NEW i \in Int, lo + i \in 1 .. n, Inserted(old, lo + i)
  PROVE  /\ i \in 1 .. w /\ i + 2 <= w /\ Inserted(part, i)
         /\ LabelBefore(output, lo + i) => i >= 3
         /\ TitleBefore(output, lo + i) => i >= 2
<1>1. /\ n \in Nat /\ Len(output) = n /\ Len(old) = n
      /\ \A j \in 1 .. n : output[j] = old[j].is
  BY DEF TracedAs
<1>2. /\ w \in Nat /\ lo \in Nat /\ lo + w <= n /\ Len(part) = w
      /\ \A j \in 1 .. w : part[j].is = old[lo + j].is /\ (IsKept(part, j) <=> IsKept(old, lo + j))
  BY DEF PartIs
<1>3. /\ lo + i \in At(output, tokens) /\ (LabelBefore(output, lo + i) \/ TitleBefore(output, lo + i))
  BY InsertedIs
<1>4. /\ lo <= lo + i /\ (lo + i) + 2 <= hi
      /\ LabelBefore(output, lo + i) => lo <= (lo + i) - 3
      /\ TitleBefore(output, lo + i) => lo <= (lo + i) - 2
      /\ hi \in 0 .. n
  BY <1>3 DEF Bounds, MarksFrom
<1>5. /\ i + 2 <= w
      /\ LabelBefore(output, lo + i) => i >= 3
      /\ TitleBefore(output, lo + i) => i >= 2
  BY <1>2, <1>4
<1>6. i \in 1 .. w
  BY <1>2, <1>3, <1>5
<1>7. StandsAt(part, i + 1, {PII})
  <2>1. (lo + i) + 1 = lo + (i + 1) /\ lo + (i + 1) + 1 = lo + (i + 2)
    BY <1>2
  <2>2. i + 1 \in 1 .. w /\ i + 2 \in 1 .. w /\ (i + 1) + 1 = i + 2 /\ i + 1 \in 1 .. (w - 1)
    BY <1>2, <1>5, <1>6
  <2>3. part[i + 1].is = old[lo + (i + 1)].is /\ part[i + 2].is = old[lo + (i + 2)].is
    BY <1>2, <2>2
  <2>4. <<old[(lo + i) + 1].is, old[((lo + i) + 1) + 1].is>> \in {PII}
    BY DEF Inserted, StandsAt
  <2>5. ((lo + i) + 1) + 1 = lo + (i + 2)
    BY <1>2
  <2>6. <<part[i + 1].is, part[i + 2].is>> \in {PII}
    BY <2>1, <2>3, <2>4, <2>5
  <2>7. QED
    BY <1>2, <2>2, <2>6 DEF StandsAt
<1>8. part[i].is = "space"
  BY <1>2, <1>6 DEF Inserted
<1>9. AfterMark(part, i)
  <2>1. CASE /\ lo + i >= 2 /\ old[(lo + i) - 1].is = "title" /\ IsKept(old, (lo + i) - 1)
             /\ lo + i >= 3 => old[(lo + i) - 2].is \notin Letters
    <3>1. output[(lo + i) - 1] = "title"
      BY <1>1, <2>1
    <3>2. i >= 2
      BY <1>5, <2>1, <3>1 DEF TitleBefore
    <3>3. i - 1 \in 1 .. w /\ lo + (i - 1) = (lo + i) - 1
      BY <1>2, <1>6, <3>2
    <3>4. part[i - 1].is = "title" /\ IsKept(part, i - 1)
      BY <1>2, <2>1, <3>3
    <3>5. ASSUME i >= 3 PROVE part[i - 2].is \notin Letters
      <4>1. i - 2 \in 1 .. w /\ lo + (i - 2) = (lo + i) - 2 /\ lo + i >= 3
        BY <1>2, <1>6, <3>5
      <4>2. QED
        BY <1>2, <2>1, <4>1
    <3>6. QED
      BY <3>2, <3>4, <3>5 DEF AfterMark
  <2>2. CASE /\ lo + i >= 3 /\ old[(lo + i) - 2].is = "label" /\ old[(lo + i) - 1].is = ":"
             /\ IsKept(old, (lo + i) - 2) /\ IsKept(old, (lo + i) - 1)
             /\ lo + i >= 4 => old[(lo + i) - 3].is \notin Letters
    <3>0. (lo + i) - 2 \in 1 .. n /\ (lo + i) - 1 \in 1 .. n
      BY <1>1, <1>2, <2>2
    <3>1. output[(lo + i) - 2] = "label" /\ output[(lo + i) - 1] = ":"
      BY <1>1, <2>2, <3>0
    <3>2. i >= 3
      BY <1>5, <2>2, <3>1 DEF LabelBefore
    <3>3. /\ i - 1 \in 1 .. w /\ lo + (i - 1) = (lo + i) - 1
          /\ i - 2 \in 1 .. w /\ lo + (i - 2) = (lo + i) - 2
      BY <1>2, <1>6, <3>2
    <3>4. part[i - 2].is = "label" /\ part[i - 1].is = ":" /\ IsKept(part, i - 2) /\ IsKept(part, i - 1)
      BY <1>2, <2>2, <3>3
    <3>5. ASSUME i >= 4 PROVE part[i - 3].is \notin Letters
      <4>1. i - 3 \in 1 .. w /\ lo + (i - 3) = (lo + i) - 3 /\ lo + i >= 4
        BY <1>2, <1>6, <3>5
      <4>2. QED
        BY <1>2, <2>2, <4>1
    <3>6. QED
      BY <3>2, <3>4, <3>5 DEF AfterMark
  <2>3. QED
    BY <2>1, <2>2 DEF Inserted, AfterMark
<1>10. QED
  BY <1>5, <1>6, <1>7, <1>8, <1>9 DEF Inserted

\* Between the bounds, the part of the masked text is traced to the part of the field.
LEMMA PartTraced ==
  ASSUME NEW text, NEW old, NEW tokens, TokensAreWords(tokens),
         NEW output, NEW n, NEW m, TracedAs(text, old, tokens, output, n, m),
         NEW lo, NEW hi, Bounds(old, output, tokens, lo, hi, n),
         NEW end, end = m - (n - hi), lo <= hi, lo <= end,
         NEW w, w = hi - lo, NEW v, v = end - lo, NEW part, PartIs(part, old, lo, n, w),
         NEW piece \in Seq(Symbol), PartOf(piece, text, lo, end),
         NEW out \in Seq(Symbol), PartOf(out, output, lo, hi)
  PROVE  TracedAs(piece, part, tokens, out, w, v)
<1>1. /\ n \in Nat /\ m \in Nat /\ Len(output) = n /\ Len(old) = n /\ Len(text) = m
      /\ \A i \in 1 .. n : output[i] = old[i].is
      /\ \A i \in 1 .. n : IsKept(old, i) => old[i].at \in 0 .. (m - 1) /\ text[old[i].at + 1] = output[i]
      /\ \A i, j \in 1 .. n : i < j /\ IsKept(old, i) /\ IsKept(old, j) => old[i].at < old[j].at
      /\ n = 0 => m = 0
      /\ n > 0 /\ IsKept(old, 1) => old[1].at = 0
      /\ n > 0 /\ IsKept(old, n) => old[n].at = m - 1
  BY DEF TracedAs
<1>0. n \in Nat /\ m \in Nat
  BY DEF TracedAs
<1>2. lo \in 0 .. n /\ hi \in 0 .. n /\ end \in Int /\ end <= m
  BY <1>1 DEF Bounds
<1>3. /\ w \in Nat /\ v \in Nat /\ lo + w = hi /\ lo + v = end /\ Len(piece) = v /\ Len(out) = w
  BY <1>1, <1>2 DEF PartOf
<1>N. /\ n \in Int /\ m \in Int /\ lo \in Int /\ hi \in Int /\ end \in Int /\ w \in Int /\ v \in Int
      /\ 0 <= lo /\ lo <= hi /\ hi <= n /\ lo + w = hi /\ lo + v = end /\ end = m - (n - hi) /\ end <= m /\ 0 <= v /\ 0 <= w
  BY <1>0, <1>2, <1>3
<1>4. /\ \A k \in 1 .. v : piece[k] = text[lo + k]
      /\ \A k \in 1 .. w : out[k] = output[lo + k]
  BY DEF PartOf
<1>5. /\ Len(part) = w
      /\ \A i \in 1 .. w : /\ part[i].is = old[lo + i].is /\ part[i].at \in Int
                           /\ IsKept(part, i) <=> IsKept(old, lo + i)
                           /\ IsKept(part, i) => part[i].at = old[lo + i].at - lo
  BY DEF PartIs
<1>6. /\ \A i \in 1 .. lo : IsKept(old, i) /\ old[i].at = i - 1
      /\ \A i \in (hi + 1) .. n : IsKept(old, i) /\ old[i].at = m - n + i - 1
  <2>1. OutsideStands(old, lo, hi, n, m)
    BY OutsideAt
  <2>2. QED
    BY <2>1 DEF OutsideStands
<1>F. ASSUME NEW i \in 1 .. (n - 1), i <= lo \/ hi <= i, IsKept(old, i), IsKept(old, i + 1)
      PROVE  old[i + 1].at = old[i].at + 1
  BY <1>F, OutsideFollows
<1>7. \A i \in 1 .. w : lo + i \in 1 .. n
  BY <1>1, <1>2, <1>3
<1>8. ASSUME NEW i \in 1 .. w, IsKept(part, i)
      PROVE  part[i].at \in 0 .. (v - 1) /\ piece[part[i].at + 1] = out[i]
  <2> DEFINE a == old[lo + i].at
  <2>1. lo + i \in 1 .. n /\ IsKept(old, lo + i) /\ part[i].at = a - lo /\ lo < lo + i /\ lo + i <= hi
    <3>1. lo + i \in 1 .. n /\ lo < lo + i /\ lo + i <= hi
      BY <1>N
    <3>2. QED
      BY <1>5, <1>8, <3>1
  <2>2. a \in 0 .. (m - 1) /\ text[a + 1] = output[lo + i]
    BY <1>1, <2>1
  <2>3. lo <= a
    <3>1. CASE lo = 0
      BY <2>2, <3>1
    <3>2. CASE lo # 0
      <4>1. lo \in 1 .. lo /\ lo \in 1 .. n
        BY <1>2, <3>2
      <4>2. old[lo].at < a /\ old[lo].at = lo - 1
        BY <1>1, <1>6, <2>1, <4>1
      <4>3. QED
        BY <1>2, <2>2, <4>2
    <3>3. QED
      BY <3>1, <3>2
  <2>4. a < end
    <3>1. CASE hi = n
      BY <1>1, <2>2, <3>1
    <3>2. CASE hi # n
      <4>1. hi + 1 \in (hi + 1) .. n /\ hi + 1 \in 1 .. n /\ lo + i < hi + 1
        BY <1>1, <1>2, <2>1, <3>2
      <4>2. old[hi + 1].at = m - n + (hi + 1) - 1 /\ IsKept(old, hi + 1)
        BY <1>6, <4>1
      <4>3. a < old[hi + 1].at
        BY <1>1, <2>1, <4>1, <4>2
      <4>4. QED
        BY <1>1, <1>2, <2>2, <4>2, <4>3
    <3>3. QED
      BY <3>1, <3>2
  <2> HIDE DEF a
  <2>5. a - lo \in 0 .. (v - 1) /\ (a - lo) + 1 \in 1 .. v /\ lo + ((a - lo) + 1) = a + 1
    BY <1>1, <1>2, <1>3, <2>2, <2>3, <2>4
  <2>6. piece[(a - lo) + 1] = text[a + 1] /\ out[i] = output[lo + i]
    BY <1>4, <2>5
  <2>7. QED
    BY <2>1, <2>2, <2>5, <2>6
<1>9. ASSUME NEW i \in 1 .. w, ~IsKept(part, i)
      PROVE  StandsAt(part, i, tokens) \/ StandsAt(part, i - 1, tokens) \/ Inserted(part, i)
  <2>1. lo + i \in 1 .. n /\ lo + i \in Int /\ ~IsKept(old, lo + i)
    BY <1>5, <1>7, <1>9
  <2>2. StandsAt(old, lo + i, tokens) \/ StandsAt(old, (lo + i) - 1, tokens) \/ Inserted(old, lo + i)
    BY <2>1 DEF TracedAs
  <2>3. ASSUME NEW j \in Int, StandsAt(old, lo + j, tokens) PROVE StandsAt(part, j, tokens)
    <3>1. lo + j \in Int
      BY <1>2
    <3>2. (lo + j) - 1 \in At(output, tokens)
      BY <1>1, <2>3, <3>1, StandsAtIs
    <3>3. lo <= (lo + j) - 1 /\ ((lo + j) - 1) + 2 <= hi
      BY <3>2 DEF Bounds
    <3>4. j \in 1 .. (w - 1) /\ j \in 1 .. w /\ j + 1 \in 1 .. w /\ lo + (j + 1) = (lo + j) + 1
      BY <1>2, <1>3, <3>3
    <3>5. part[j].is = old[lo + j].is /\ part[j + 1].is = old[(lo + j) + 1].is
      BY <1>5, <3>4
    <3>6. QED
      BY <1>5, <2>3, <3>4, <3>5 DEF StandsAt
  <2>4. StandsAt(old, (lo + i) - 1, tokens) => StandsAt(part, i - 1, tokens)
    <3>1. lo + (i - 1) = (lo + i) - 1 /\ i - 1 \in Int
      BY <1>2
    <3>2. QED
      BY <2>3, <3>1
  <2>5. Inserted(old, lo + i) => Inserted(part, i)
    <3>1. i \in Int
      OBVIOUS
    <3>2. QED
      BY <2>1, <3>1, InsertedPart
  <2>6. QED
    BY <2>2, <2>3, <2>4, <2>5
<1>10. ASSUME NEW i \in 1 .. w, NEW j \in 1 .. w, i < j, IsKept(part, i), IsKept(part, j)
       PROVE  part[i].at < part[j].at
  <2>1. /\ lo + i \in 1 .. n /\ lo + j \in 1 .. n /\ lo + i < lo + j /\ IsKept(old, lo + i) /\ IsKept(old, lo + j)
        /\ part[i].at = old[lo + i].at - lo /\ part[j].at = old[lo + j].at - lo
    <3>1. lo + i \in 1 .. n /\ lo + j \in 1 .. n /\ lo + i < lo + j
      BY <1>N, <1>10
    <3>2. QED
      BY <1>5, <1>10, <3>1
  <2>2. old[lo + i].at < old[lo + j].at /\ old[lo + i].at \in 0 .. (m - 1) /\ old[lo + j].at \in 0 .. (m - 1)
    BY <1>1, <2>1
  <2>3. old[lo + i].at \in Int /\ old[lo + j].at \in Int
    BY <2>2
  <2> DEFINE a == old[lo + i].at
             b == old[lo + j].at
             c == part[i].at
             d == part[j].at
  <2>4. a \in Int /\ b \in Int /\ a < b /\ c = a - lo /\ d = b - lo
    BY <2>1, <2>2, <2>3
  <2>5. c < d
    <3> HIDE DEF a, b, c, d
    <3> QED BY <1>N, <2>4
  <2>6. QED
    BY <2>5
<1>11. ASSUME NEW i \in 1 .. (w - 1), IsKept(part, i), IsKept(part, i + 1)
       PROVE  Follows(piece, part, i)
  <2>1. i \in 1 .. w /\ i + 1 \in 1 .. w /\ lo + (i + 1) = (lo + i) + 1 /\ lo + i \in 1 .. (n - 1)
    BY <1>1, <1>2, <1>3
  <2>2. /\ IsKept(old, lo + i) /\ IsKept(old, (lo + i) + 1)
        /\ part[i].at = old[lo + i].at - lo /\ part[i + 1].at = old[(lo + i) + 1].at - lo
        /\ part[i].is = old[lo + i].is /\ part[i + 1].is = old[(lo + i) + 1].is
    BY <1>5, <1>11, <2>1
  <2>3. Follows(text, old, lo + i)
    BY <2>1, <2>2 DEF TracedAs
  <2>4. /\ old[lo + i].at \in Int /\ old[(lo + i) + 1].at \in Int
        /\ part[i].at \in 0 .. (v - 1) /\ part[i + 1].at \in 0 .. (v - 1)
    <3>1. lo + i \in 1 .. n /\ (lo + i) + 1 \in 1 .. n
      BY <1>1, <2>1
    <3>2. old[lo + i].at \in 0 .. (m - 1) /\ old[(lo + i) + 1].at \in 0 .. (m - 1)
      BY <1>1, <2>2, <3>1
    <3>3. QED
      BY <1>8, <1>11, <2>1, <3>2
  <2> DEFINE a == old[lo + i].at
             b == old[(lo + i) + 1].at
             c == part[i].at
             d == part[i + 1].at
  <2>N. a \in Int /\ b \in Int /\ c \in Int /\ d \in Int /\ 0 <= c /\ d < v /\ c = a - lo /\ d = b - lo
    <3>1. c \in 0 .. (v - 1) /\ d \in 0 .. (v - 1) /\ a \in Int /\ b \in Int /\ c = a - lo /\ d = b - lo
      BY <2>2, <2>4
    <3> HIDE DEF a, b, c, d
    <3>2. QED
      BY <1>N, <3>1
  <2>5. CASE old[(lo + i) + 1].at = old[lo + i].at + 1
    <3>1. part[i + 1].at = part[i].at + 1
      <4>1. b = a + 1
        BY <2>5
      <4>2. d = c + 1
        <5> HIDE DEF a, b, c, d
        <5> QED BY <1>N, <2>N, <4>1
      <4>3. QED
        BY <4>2
    <3>2. QED
      BY <3>1 DEF Follows
  <2>6. CASE old[(lo + i) + 1].at # old[lo + i].at + 1
    <3>1. /\ old[lo + i].is = "label" /\ old[(lo + i) + 1].is = ":" /\ old[lo + i].at < old[(lo + i) + 1].at
          /\ (lo + i) + 2 <= n /\ ~IsKept(old, (lo + i) + 2) /\ Inserted(old, (lo + i) + 2)
          /\ \A k \in (old[lo + i].at + 1) .. (old[(lo + i) + 1].at - 1) : text[k + 1] \in Blank
      BY <1>1, <2>3, <2>6 DEF Follows
    <3>2. lo + (i + 2) = (lo + i) + 2 /\ i + 2 \in Int /\ lo + (i + 2) \in 1 .. n
      <4>1. lo \in Int /\ 0 <= lo /\ n \in Int /\ i \in Int /\ 1 <= i
        BY <1>N
      <4>2. (lo + i) + 2 <= n
        BY <3>1
      <4> HIDE DEF a, b, c, d
      <4>3. QED
        BY <4>1, <4>2
    <3>3. i + 2 \in 1 .. w /\ Inserted(part, i + 2)
      BY <3>1, <3>2, InsertedPart
    <3>4. ~IsKept(part, i + 2)
      BY <1>5, <3>1, <3>2, <3>3
    <3>50. a < b /\ \A k \in (a + 1) .. (b - 1) : text[k + 1] \in Blank
      BY <3>1
    <3>5. c < d
      <4> HIDE DEF a, b, c, d
      <4> QED BY <1>N, <2>N, <3>50
    <3>6. ASSUME NEW k \in (c + 1) .. (d - 1) PROVE piece[k + 1] \in Blank
      <4> HIDE DEF a, b, c, d
      <4>1. k \in Int /\ lo + k \in (a + 1) .. (b - 1) /\ k + 1 \in 1 .. v /\ lo + (k + 1) = (lo + k) + 1
        BY <1>N, <2>N
      <4>2. text[(lo + k) + 1] \in Blank
        BY <3>50, <4>1
      <4>3. QED
        BY <1>4, <4>1, <4>2
    <3>7. i + 2 <= Len(part)
      BY <1>3, <1>5, <3>3
    <3>8. QED
      BY <2>2, <3>1, <3>3, <3>4, <3>5, <3>6, <3>7 DEF Follows
  <2>7. QED
    BY <2>5, <2>6
<1>12. ASSUME w = 0 PROVE v = 0
  <2>1. lo = hi
    BY <1>2, <1>3, <1>12
  <2>2. CASE n = 0
    BY <1>1, <1>2, <1>3, <2>1, <2>2
  <2>3. CASE n # 0 /\ lo = 0
    <3>1. 1 \in (hi + 1) .. n /\ n > 0
      BY <1>1, <2>1, <2>3
    <3>2. IsKept(old, 1) /\ old[1].at = m - n + 1 - 1
      BY <1>6, <3>1
    <3>3. old[1].at = 0
      BY <1>1, <3>1, <3>2
    <3>4. QED
      BY <1>1, <1>2, <1>3, <2>1, <2>3, <3>2, <3>3
  <2>4. CASE n # 0 /\ lo = n
    <3>1. n \in 1 .. lo /\ n > 0
      BY <1>1, <2>4
    <3>2. IsKept(old, n) /\ old[n].at = n - 1
      BY <1>6, <3>1
    <3>3. old[n].at = m - 1
      BY <1>1, <3>1, <3>2
    <3>4. QED
      BY <1>1, <1>2, <1>3, <2>1, <2>4, <3>2, <3>3
  <2>5. CASE lo # 0 /\ lo # n
    <3>1. lo \in 1 .. (n - 1) /\ lo \in 1 .. lo /\ lo + 1 \in (hi + 1) .. n /\ lo <= lo
      BY <1>1, <1>2, <2>1, <2>5
    <3>2. IsKept(old, lo) /\ old[lo].at = lo - 1 /\ IsKept(old, lo + 1) /\ old[lo + 1].at = m - n + (lo + 1) - 1
      BY <1>6, <3>1
    <3>3. old[lo + 1].at = old[lo].at + 1
      BY <3>1, <3>2, <1>F
    <3> DEFINE a == old[lo].at
               b == old[lo + 1].at
    <3>4. a = lo - 1 /\ b = m - n + (lo + 1) - 1 /\ b = a + 1
      BY <3>2, <3>3
    <3> HIDE DEF a, b
    <3>5. QED
      BY <1>N, <2>1, <3>4
  <2>6. QED
    BY <2>2, <2>3, <2>4, <2>5
<1>13. ASSUME w > 0, IsKept(part, 1) PROVE part[1].at = 0
  <2>1. 1 \in 1 .. w /\ lo + 1 \in 1 .. n
    BY <1>3, <1>7, <1>13
  <2>2. IsKept(old, lo + 1) /\ part[1].at = old[lo + 1].at - lo
    BY <1>5, <1>13, <2>1
  <2>3. CASE lo = 0
    <3>1. lo + 1 = 1 /\ n > 0
      BY <1>1, <2>1, <2>3
    <3>2. QED
      BY <1>1, <2>2, <2>3, <3>1
  <2>4. CASE lo # 0
    <3>1. lo \in 1 .. (n - 1) /\ lo \in 1 .. lo /\ lo <= lo
      BY <1>1, <1>2, <2>1, <2>4
    <3>2. IsKept(old, lo) /\ old[lo].at = lo - 1
      BY <1>6, <3>1
    <3>3. old[lo + 1].at = old[lo].at + 1
      BY <2>2, <3>1, <3>2, <1>F
    <3> DEFINE a == old[lo].at
               b == old[lo + 1].at
               c == part[1].at
    <3>4. a = lo - 1 /\ c = b - lo /\ b = a + 1
      BY <2>2, <3>2, <3>3
    <3>5. c = 0
      <4> HIDE DEF a, b, c
      <4> QED BY <1>N, <3>4
    <3>6. QED
      BY <3>5
  <2>5. QED
    BY <2>3, <2>4
<1>14. ASSUME w > 0, IsKept(part, w) PROVE part[w].at = v - 1
  <2>1. w \in 1 .. w /\ lo + w \in 1 .. n /\ lo + w = hi
    BY <1>3, <1>7, <1>14
  <2>2. IsKept(old, hi) /\ part[w].at = old[hi].at - lo
    BY <1>5, <1>14, <2>1
  <2>3. CASE hi = n
    <3>1. n > 0
      BY <1>1, <2>1, <2>3
    <3>2. old[n].at = m - 1
      BY <1>1, <2>2, <2>3, <3>1
    <3> DEFINE a == old[n].at
               c == part[w].at
    <3>3. a = m - 1 /\ c = a - lo
      BY <2>2, <2>3, <3>2
    <3>4. c = v - 1
      <4> HIDE DEF a, c
      <4> QED BY <1>N, <2>3, <3>3
    <3>5. QED
      BY <3>4
  <2>4. CASE hi # n
    <3>1. hi \in 1 .. (n - 1) /\ hi + 1 \in (hi + 1) .. n /\ hi <= hi /\ hi \in 1 .. n
      BY <1>1, <1>2, <2>1, <2>4
    <3>2. IsKept(old, hi + 1) /\ old[hi + 1].at = m - n + (hi + 1) - 1
      BY <1>6, <3>1
    <3>3. old[hi + 1].at = old[hi].at + 1
      BY <2>2, <3>1, <3>2, <1>F
    <3>4. old[hi].at \in 0 .. (m - 1)
      BY <1>1, <2>2, <3>1
    <3> DEFINE a == old[hi].at
               b == old[hi + 1].at
               c == part[w].at
    <3>5. a \in 0 .. (m - 1) /\ b = m - n + (hi + 1) - 1 /\ c = a - lo /\ b = a + 1
      BY <2>2, <3>2, <3>3, <3>4
    <3>6. c = v - 1
      <4> HIDE DEF a, b, c
      <4> QED BY <1>N, <3>5
    <3>7. QED
      BY <3>6
  <2>5. QED
    BY <2>3, <2>4
<1>15. \A i \in 1 .. w : out[i] = part[i].is /\ part[i].at \in Int
  BY <1>1, <1>4, <1>5, <1>7
<1>16. QED
  BY <1>3, <1>5, <1>8, <1>9, <1>10, <1>11, <1>12, <1>13, <1>14, <1>15 DEF TracedAs

\* AlignOutput refuses, or gives spans.
LEMMA AlignedIs ==
  ASSUME NEW text, NEW output, NEW tokens
  PROVE  \E ok, spans : AlignOutput(text, output, tokens) = [ok |-> ok, spans |-> spans]
<1> DEFINE hits == MatchesOfAll(text, ParsePieces(output, tokens))
<1>1. \E ok, spans : Rooms(text, hits) = [ok |-> ok, spans |-> spans]
  <2> HIDE DEF hits
  <2>1. \E spans : Rooms(text, hits) = Refused \/ Rooms(text, hits) = Spans(spans)
    BY Zenon DEF Rooms
  <2>2. QED
    BY <2>1 DEF Refused, Spans
<1>2. QED
  BY <1>1 DEF AlignOutput

\* Spans of a part, where they are in the whole.
Moved(spans, lo) == {Span(sp.start + lo, sp.end + lo) : sp \in spans}

\* Spans of a part, moved to where it stands.
LEMMA MovedIs ==
  ASSUME NEW lo \in Nat, NEW v \in Nat, NEW m \in Nat, lo + v <= m, NEW spans, SpansIn(spans, v)
  PROVE  /\ SpansIn(Moved(spans, lo), m)
         /\ \A k \in Int : k \in Offsets(spans) => lo + k \in Offsets(Moved(spans, lo))
<1>1. \A sp \in spans : sp.start < sp.end /\ sp.start \in 0 .. v /\ sp.end \in 0 .. v
  BY DEF SpansIn
<1>2. ASSUME NEW a \in 0 .. v, NEW b \in 0 .. v, a < b
      PROVE  a + lo < b + lo /\ a + lo \in 0 .. m /\ b + lo \in 0 .. m /\ \A k \in a .. (b - 1) : lo + k \in (a + lo) .. (b + lo - 1)
  BY <1>2
<1>3. SpansIn(Moved(spans, lo), m)
  <2>1. ASSUME NEW q \in Moved(spans, lo)
        PROVE  q = Span(q.start, q.end) /\ q.start < q.end /\ q.start \in 0 .. m /\ q.end \in 0 .. m
    <3>1. PICK sp \in spans : q = Span(sp.start + lo, sp.end + lo)
      BY <2>1 DEF Moved
    <3>2. q.start = sp.start + lo /\ q.end = sp.end + lo
      BY <3>1 DEF Span
    <3>3. QED
      BY <1>1, <1>2, <3>1, <3>2
  <2>2. QED
    BY <2>1 DEF SpansIn
<1>4. ASSUME NEW k \in Int, k \in Offsets(spans) PROVE lo + k \in Offsets(Moved(spans, lo))
  <2>1. PICK sp \in spans : k \in sp.start .. (sp.end - 1)
    BY <1>4 DEF Offsets
  <2>2. lo + k \in (sp.start + lo) .. (sp.end + lo - 1)
    BY <1>1, <1>2, <2>1
  <2> DEFINE q == Span(sp.start + lo, sp.end + lo)
  <2>3. q \in Moved(spans, lo) /\ q.start = sp.start + lo /\ q.end = sp.end + lo
    BY DEF Moved, Span
  <2> HIDE DEF q
  <2>4. lo + k \in q.start .. (q.end - 1)
    <3>1. sp.start \in 0 .. v /\ sp.end \in 0 .. v
      BY <1>1
    <3> DEFINE a == sp.start
               b == sp.end
               c == q.start
               d == q.end
    <3>2. a \in 0 .. v /\ b \in 0 .. v /\ c = a + lo /\ d = b + lo /\ lo + k \in (a + lo) .. (b + lo - 1)
      BY <2>2, <2>3, <3>1
    <3> HIDE DEF a, b, c, d
    <3>3. lo + k \in c .. (d - 1)
      BY <3>2
    <3>4. QED
      BY <3>3 DEF c, d
  <2>5. QED
    BY <2>3, <2>4 DEF Offsets
<1>5. QED
  BY <1>3, <1>4

\* What is moved is nothing but the spans.
LEMMA MoveAligned ==
  ASSUME NEW aligned, NEW ok, NEW spans, aligned = [ok |-> ok, spans |-> spans], NEW lo
  PROVE  [aligned EXCEPT !.spans = {Span(sp.start + lo, sp.end + lo) : sp \in @}] = [ok |-> ok, spans |-> Moved(spans, lo)]
BY DEF Moved

\* Aligning the texts between the bounds covers all that was taken away
\* (alignTrimmed of src/mask/belt.ts).
LEMMA AlignTrimmedCovers ==
  ASSUME NEW text, NEW old, NEW tokens, TokensAreWords(tokens),
         NEW output, NEW n, NEW m, TracedAs(text, old, tokens, output, n, m), DOMAIN old = 1 .. n
  PROVE  CoversHidden(AlignTrimmed(text, output, tokens), text, old, m)
<1> DEFINE b == TrimmedBounds(text, output, tokens)
           end == Len(text) - (Len(output) - b.hi)
           whole == end < b.lo \/ b.hi < b.lo
           from == IF whole THEN 0 ELSE b.lo
           aligned == AlignOutput(Slice(text, from, IF whole THEN Len(text) ELSE end),
                                  Slice(output, from, IF whole THEN Len(output) ELSE b.hi), tokens)
<1>1. /\ n \in Nat /\ m \in Nat /\ Len(output) = n /\ Len(text) = m /\ Len(old) = n
      /\ output \in Seq(Symbol) /\ text \in Seq(Symbol)
  BY DEF TracedAs
<1>2. Encloses(output, tokens, b, n) /\ MarksFrom(old, output, b.lo, n)
  BY TrimmedBoundsHold
<1>3. AlignTrimmed(text, output, tokens) = [aligned EXCEPT !.spans = {Span(sp.start + from, sp.end + from) : sp \in @}]
  BY DEF AlignTrimmed, AlignWithin
<1>4. PICK ok, spans : aligned = [ok |-> ok, spans |-> spans]
  BY AlignedIs
<1>5. AlignTrimmed(text, output, tokens) = [ok |-> ok, spans |-> Moved(spans, from)]
  <2> HIDE DEF aligned, from
  <2> QED BY <1>3, <1>4, MoveAligned
<1>6. CASE whole
  <2>1. aligned = AlignOutput(text, output, tokens)
    <3>1. Slice(text, 0, Len(text)) = text /\ Slice(output, 0, Len(output)) = output
      BY <1>1, WholeSlice
    <3>2. QED
      BY <1>6, <3>1
  <2>2. CoversHidden(aligned, text, old, m)
    BY <2>1, AlignOutputCovers
  <2> HIDE DEF aligned
  <2>3. ok /\ SpansIn(spans, m) /\ \A k \in 0 .. (m - 1) : k \in Shown(old) \/ text[k + 1] \in Blank \/ k \in Offsets(spans)
    BY <1>4, <2>2 DEF CoversHidden
  <2>4. SpansIn(Moved(spans, 0), m) /\ \A k \in Int : k \in Offsets(spans) => 0 + k \in Offsets(Moved(spans, 0))
    <3>1. 0 \in Nat /\ 0 + m <= m
      BY <1>1
    <3>2. QED
      BY <1>1, <2>3, <3>1, MovedIs
  <2>5. \A k \in 0 .. (m - 1) : k \in Int /\ 0 + k = k
    BY <1>1
  <2>6. AlignTrimmed(text, output, tokens) = [ok |-> ok, spans |-> Moved(spans, 0)]
    BY <1>5, <1>6
  <2>7. QED
    BY <2>3, <2>4, <2>5, <2>6 DEF CoversHidden
<1>7. CASE ~whole
  <2> DEFINE lo == b.lo
             hi == b.hi
             w == hi - lo
             v == end - lo
             part == Part(old, lo, hi)
             piece == Slice(text, lo, end)
             out == Slice(output, lo, hi)
  <2>1. Bounds(old, output, tokens, lo, hi, n)
    <3> HIDE DEF b
    <3> QED BY <1>2 DEF Encloses, Bounds
  <2>2. lo \in 0 .. n /\ hi \in 0 .. n /\ end = m - (n - hi) /\ end \in Int /\ lo <= end /\ lo <= hi /\ end <= m
    <3>1. lo \in 0 .. n /\ hi \in 0 .. n
      BY <2>1 DEF Bounds
    <3>2. end = m - (n - hi) /\ ~ (end < lo) /\ ~ (hi < lo)
      BY <1>1, <1>7
    <3> HIDE DEF lo, hi, end
    <3>3. QED
      BY <1>1, <3>1, <3>2
  <2>3. aligned = AlignOutput(piece, out, tokens) /\ from = lo
    BY <1>7
  <2> HIDE DEF aligned, from, b, whole
  <2> HIDE DEF lo, hi, end
  <2>4. piece \in Seq(Symbol) /\ PartOf(piece, text, lo, end) /\ out \in Seq(Symbol) /\ PartOf(out, output, lo, hi)
    <3>1. lo \in Nat /\ hi \in Nat /\ end \in Nat /\ lo <= end /\ lo <= hi /\ end <= Len(text) /\ hi <= Len(output)
      BY <1>1, <2>2
    <3>2. QED
      BY <1>1, <3>1, SliceIsPart
  <2>5. w \in Nat /\ v \in Nat /\ lo + w = hi /\ lo + v = end /\ lo \in Nat
    BY <1>1, <2>2
  <2>6. PartIs(part, old, lo, n, w)
    <3>1. DOMAIN part = 1 .. w /\ Len(part) = w
      BY <2>5 DEF Part
    <3>2. ASSUME NEW i \in 1 .. w
          PROVE  /\ part[i].is = old[lo + i].is /\ part[i].at \in Int
                 /\ IsKept(part, i) <=> IsKept(old, lo + i)
                 /\ IsKept(part, i) => part[i].at = old[lo + i].at - lo
      <4> DEFINE p == lo + i
                 a == old[p].at
      <4>1. p \in 1 .. n
        BY <1>1, <2>2, <2>5
      <4>2. part[i] = [is |-> old[p].is, at |-> IF IsKept(old, p) THEN a - lo ELSE NoOffset]
        BY DEF Part
      <4>3. part[i].is = old[p].is /\ part[i].at = IF IsKept(old, p) THEN a - lo ELSE NoOffset
        <5> HIDE DEF part, p, a
        <5> QED BY <4>2
      <4>4. CASE ~IsKept(old, p)
        <5> HIDE DEF part, p, a
        <5>1. part[i].is = old[p].is /\ part[i].at = NoOffset
          BY <4>3, <4>4
        <5>2. NoOffset \in Int /\ ~IsKept(part, i)
          BY <5>1 DEF IsKept, NoOffset
        <5>3. QED
          BY <4>4, <5>1, <5>2 DEF p
      <4>5. CASE IsKept(old, p)
        <5>1. a \in Int /\ lo <= a
          <6>1. a \in 0 .. (m - 1)
            <7> HIDE DEF p
            <7> QED BY <4>1, <4>5 DEF TracedAs
          <6>2. lo = 0 \/ (lo \in 1 .. lo /\ lo \in 1 .. n /\ lo < p)
            BY <1>1, <2>2, <2>5
          <6>3. ASSUME lo # 0 PROVE old[lo].at = lo - 1 /\ old[lo].at < a
            <7>1. OutsideStands(old, lo, hi, n, m)
              BY <2>1, OutsideAt
            <7>2. IsKept(old, lo) /\ old[lo].at = lo - 1
              BY <6>2, <6>3, <7>1 DEF OutsideStands
            <7>3. lo \in 1 .. n /\ lo < p
              BY <6>2, <6>3
            <7> HIDE DEF p
            <7>4. old[lo].at < old[p].at
              BY <4>1, <4>5, <7>2, <7>3 DEF TracedAs
            <7>5. QED
              BY <7>2, <7>4
          <6> HIDE DEF a
          <6>4. QED
            BY <1>1, <2>5, <6>1, <6>3
        <5>2. a - lo # -1 /\ a - lo \in Int
          <6> HIDE DEF a
          <6> QED BY <2>5, <5>1
        <5> HIDE DEF part, p, a
        <5>3. part[i].at = a - lo
          BY <4>3, <4>5
        <5>4. IsKept(part, i)
          BY <5>2, <5>3 DEF IsKept, NoOffset
        <5>5. QED
          BY <4>3, <4>5, <5>2, <5>3, <5>4 DEF p, a
      <4>6. QED
        BY <4>4, <4>5
    <3> HIDE DEF part
    <3>3. QED
      BY <1>1, <2>2, <2>5, <3>1, <3>2 DEF PartIs
  <2>7. DOMAIN part = 1 .. w
    BY <2>6 DEF PartIs
  <2>8. w = hi - lo /\ v = end - lo
    OBVIOUS
  <2> HIDE DEF w, v, part, piece, out
  <2>9. TracedAs(piece, part, tokens, out, w, v)
    BY <2>1, <2>2, <2>4, <2>6, <2>8, PartTraced
  <2>10. CoversHidden(aligned, piece, part, v)
    BY <2>3, <2>7, <2>9, AlignOutputCovers
  <2>11. /\ ok /\ SpansIn(spans, v)
         /\ \A k \in 0 .. (v - 1) : k \in Shown(part) \/ piece[k + 1] \in Blank \/ k \in Offsets(spans)
    BY <1>4, <2>10 DEF CoversHidden
  <2>12. SpansIn(Moved(spans, lo), m) /\ \A k \in Int : k \in Offsets(spans) => lo + k \in Offsets(Moved(spans, lo))
    BY <1>1, <2>2, <2>5, <2>11, MovedIs
  <2>13. ASSUME NEW k \in 0 .. (m - 1)
         PROVE  k \in Shown(old) \/ text[k + 1] \in Blank \/ k \in Offsets(Moved(spans, lo))
    <3>1. OutsideStands(old, lo, hi, n, m)
      BY <2>1, OutsideAt
    <3>2. CASE k < lo
      <4>1. k + 1 \in 1 .. lo /\ k + 1 \in 1 .. n /\ (k + 1) - 1 = k
        BY <1>1, <2>2, <3>2
      <4>2. IsKept(old, k + 1) /\ old[k + 1].at = k
        BY <3>1, <4>1 DEF OutsideStands
      <4>3. QED
        BY <4>1, <4>2, ShownIs
    <3>3. CASE end <= k
      <4> DEFINE i == k + 1 - (m - n)
      <4>1. i \in (hi + 1) .. n /\ i \in 1 .. n /\ m - n + i - 1 = k
        BY <1>1, <2>2, <3>3
      <4> HIDE DEF i
      <4>2. IsKept(old, i) /\ old[i].at = k
        BY <3>1, <4>1 DEF OutsideStands
      <4>3. QED
        BY <4>1, <4>2, ShownIs
    <3>4. CASE lo <= k /\ k < end
      <4> DEFINE j == k - lo
      <4>1. j \in 0 .. (v - 1) /\ j \in Int /\ lo + j = k /\ j + 1 \in 1 .. v /\ lo + (j + 1) = k + 1
        BY <1>1, <2>2, <2>5, <3>4
      <4>0. j = k - lo
        OBVIOUS
      <4> HIDE DEF j
      <4>2. CASE j \in Shown(part)
        <5>1. PICK i \in 1 .. w : part[i].at = j /\ j # NoOffset
          BY <2>7, <4>2 DEF Shown
        <5>2. IsKept(part, i)
          BY <5>1 DEF IsKept
        <5>3. IsKept(old, lo + i) /\ part[i].at = old[lo + i].at - lo
          BY <5>2, <2>6 DEF PartIs
        <5>4. lo + i \in 1 .. n
          BY <1>1, <2>2, <2>5
        <5> DEFINE a == old[lo + i].at
        <5>5. a \in Int /\ a - lo = j
          <6>1. a \in Int
            BY <5>4 DEF TracedAs
          <6>2. QED
            BY <5>1, <5>3, <6>1
        <5>6. a = k
          <6> HIDE DEF a
          <6> QED BY <1>1, <2>5, <4>0, <4>1, <5>5
        <5>7. QED
          BY <5>3, <5>4, <5>6, ShownIs
      <4>3. CASE piece[j + 1] \in Blank
        <5>1. v = end - lo
          BY <2>8
        <5>2. piece[j + 1] = text[lo + (j + 1)]
          BY <2>4, <4>1, <5>1 DEF PartOf
        <5>3. QED
          BY <4>1, <4>3, <5>2
      <4>4. CASE j \in Offsets(spans)
        BY <2>12, <4>1, <4>4
      <4>5. QED
        BY <2>11, <4>1, <4>2, <4>3, <4>4
    <3>5. QED
      BY <1>1, <2>2, <3>2, <3>3, <3>4
  <2>14. QED
    BY <1>5, <2>3, <2>11, <2>12, <2>13 DEF CoversHidden
<1>8. QED
  BY <1>6, <1>7

-----------------------------------------------------------------------------
(* A text that is the same as before, and align.                           *)

\* An injection into a finite set reaches all of it exactly when nothing of the
\* set is left out of its domain.
Fills(f, K, P) == K = P <=> \A p \in P : \E k \in K : f[k] = p

\* Of an injection from a part of a finite set into the set.
LEMMA SameCount ==
  ASSUME NEW n \in Nat, NEW P \in SUBSET (1 .. n), NEW K \in SUBSET P, NEW f \in [K -> P],
         \A a, b \in K : f[a] = f[b] => a = b
  PROVE  Fills(f, K, P)
<1>1. IsFiniteSet(P)
  <2>1. IsFiniteSet(1 .. n)
    BY FS_Interval
  <2>2. QED
    BY <2>1, FS_Subset
<1>2. IsFiniteSet(K) /\ (Cardinality(P) = Cardinality(K) => P = K)
  BY <1>1, FS_Subset
<1>3. f \in Injection(K, P)
  BY DEF Injection, IsInjective
<1>4. Cardinality(K) = Cardinality(P) <=> f \in Surjection(K, P)
  BY <1>1, <1>3, FS_Injection
<1>5. f \in Surjection(K, P) <=> \A p \in P : \E k \in K : f[k] = p
  BY DEF Surjection
<1>6. QED
  BY <1>2, <1>4, <1>5 DEF Fills

\* A token that the masker put in is whole, and of the source it took away what
\* could be read as a token only from a text with a secret in it.
TokensWhole(old) ==
  \A i \in 1 .. Len(old) : ~IsKept(old, i) /\ old[i].is = "[" => i + 1 \in 1 .. Len(old) /\ ~IsKept(old, i + 1)

\* What was taken away is no token's rest, but a secret may have that of PII in it.
RestsShown(text, old, tokens) ==
  /\ \A k \in 0 .. (Len(text) - 1) : k \notin Shown(old) => \A c \in Symbol : <<"[", c>> \in tokens \ {PII} => text[k + 1] # c
  /\ \A k \in 0 .. (Len(text) - 1) : k \notin Shown(old) /\ text[k + 1] = "pii" =>
       \E i \in 1 .. Len(old) : old[i].is = "secret" /\ ~IsKept(old, i)

\* Of each symbol, as many are put in as were taken away when the text is the
\* same as before.
AsTaken(text, old, n, m, c) ==
  (\E i \in 1 .. n : ~IsKept(old, i) /\ old[i].is = c) <=>
  (\E k \in 0 .. (m - 1) : k \notin Shown(old) /\ text[k + 1] = c)

\* When the text is the same as before, what was put in had been taken away.
LEMMA PutInAsTaken ==
  ASSUME NEW text, NEW old, NEW tokens, TokensAreWords(tokens), DOMAIN old = 1 .. Len(old),
         NEW output, NEW n, NEW m, TracedAs(text, old, tokens, output, n, m), output = text,
         NEW c
  PROVE  AsTaken(text, old, n, m, c)
<1> DEFINE P == {i \in 1 .. n : text[i] = c}
           K == {i \in P : IsKept(old, i)}
           f == [i \in K |-> old[i].at + 1]
<1>1. /\ n \in Nat /\ n = m /\ Len(old) = n
      /\ \A i \in 1 .. n : text[i] = old[i].is
      /\ \A i \in 1 .. n : IsKept(old, i) => old[i].at \in 0 .. (m - 1) /\ text[old[i].at + 1] = text[i]
      /\ \A i, j \in 1 .. n : i < j /\ IsKept(old, i) /\ IsKept(old, j) => old[i].at < old[j].at
  BY DEF TracedAs
<1>2. \A i \in K : f[i] = old[i].at + 1 /\ i \in 1 .. n /\ IsKept(old, i) /\ text[i] = c
  OBVIOUS
<1>3. ASSUME NEW i \in K PROVE f[i] \in P
  <2>1. old[i].at \in 0 .. (n - 1) /\ text[old[i].at + 1] = c
    BY <1>1, <1>2
  <2>2. old[i].at + 1 \in 1 .. n
    BY <1>1, <2>1
  <2>3. QED
    BY <1>2, <2>1, <2>2
<1>4. f \in [K -> P]
  BY <1>3
<1>5. ASSUME NEW a \in K, NEW b \in K, f[a] = f[b] PROVE a = b
  <2>1. a \in 1 .. n /\ b \in 1 .. n /\ IsKept(old, a) /\ IsKept(old, b) /\ old[a].at + 1 = old[b].at + 1
    BY <1>2, <1>5
  <2>2. old[a].at \in 0 .. (n - 1) /\ old[b].at \in 0 .. (n - 1)
    BY <1>1, <2>1
  <2> DEFINE x == old[a].at
             y == old[b].at
  <2>3. x \in Int /\ y \in Int /\ x + 1 = y + 1
    BY <2>1, <2>2
  <2>4. x = y
    <3> HIDE DEF x, y
    <3> QED BY <2>3
  <2>5. ~ (x < y) /\ ~ (y < x)
    <3> HIDE DEF x, y
    <3> QED BY <2>3, <2>4
  <2>6. ~ (a < b) /\ ~ (b < a)
    BY <1>1, <2>1, <2>5
  <2>7. QED
    BY <1>1, <2>1, <2>6
<1>6. P \in SUBSET (1 .. n) /\ K \in SUBSET P
  OBVIOUS
<1>7. K = P <=> \A p \in P : \E k \in K : f[k] = p
  <2>1. n \in Nat
    BY <1>1
  <2>2. \A a, b \in K : f[a] = f[b] => a = b
    BY <1>5
  <2> HIDE DEF P, K, f
  <2>3. Fills(f, K, P)
    BY <1>4, <1>6, <2>1, <2>2, SameCount
  <2>4. QED
    BY <2>3 DEF Fills
<1>8. K # P <=> \E i \in 1 .. n : ~IsKept(old, i) /\ old[i].is = c
  BY <1>1
<1>9. ASSUME NEW k \in 0 .. (m - 1), text[k + 1] = c
      PROVE  k \in Shown(old) <=> \E i \in K : f[i] = k + 1
  <2>1. ASSUME NEW i \in K, f[i] = k + 1 PROVE k \in Shown(old)
    <3>1. i \in 1 .. n /\ IsKept(old, i) /\ old[i].at + 1 = k + 1
      BY <1>2, <2>1
    <3>2. old[i].at \in 0 .. (n - 1)
      BY <1>1, <3>1
    <3> DEFINE x == old[i].at
    <3>3. x \in Int /\ x + 1 = k + 1
      BY <3>1, <3>2
    <3>4. x = k
      <4> HIDE DEF x
      <4> QED BY <1>1, <3>3
    <3>5. QED
      BY <1>1, <3>1, <3>4, ShownIs
  <2>2. ASSUME k \in Shown(old) PROVE \E i \in K : f[i] = k + 1
    <3>1. PICK i \in 1 .. n : old[i].at = k /\ k # NoOffset
      BY <1>1, <2>2 DEF Shown
    <3>2. IsKept(old, i)
      BY <3>1 DEF IsKept
    <3>3. text[i] = c
      BY <1>1, <1>9, <3>1, <3>2
    <3>4. i \in K /\ f[i] = k + 1
      BY <3>1, <3>2, <3>3
    <3>5. QED
      BY <3>4
  <2>3. QED
    BY <2>1, <2>2
<1>10. (\A p \in P : \E k \in K : f[k] = p) <=> ~ \E k \in 0 .. (m - 1) : k \notin Shown(old) /\ text[k + 1] = c
  <2>1. ASSUME NEW p \in P, ~ \E k \in K : f[k] = p PROVE \E k \in 0 .. (m - 1) : k \notin Shown(old) /\ text[k + 1] = c
    <3>1. p - 1 \in 0 .. (m - 1) /\ (p - 1) + 1 = p /\ text[p] = c
      BY <1>1
    <3> HIDE DEF P, K, f
    <3>2. p - 1 \notin Shown(old)
      BY <1>9, <2>1, <3>1
    <3>3. QED
      BY <3>1, <3>2
  <2>2. ASSUME NEW k \in 0 .. (m - 1), k \notin Shown(old), text[k + 1] = c PROVE k + 1 \in P /\ ~ \E i \in K : f[i] = k + 1
    <3>1. k + 1 \in P
      BY <1>1, <2>2
    <3> HIDE DEF P, K, f
    <3>2. QED
      BY <1>9, <2>2, <3>1
  <2> HIDE DEF P, K, f
  <2>3. QED
    BY <2>1, <2>2
<1>11. QED
  <2> HIDE DEF P, K, f
  <2> QED BY <1>7, <1>8, <1>10 DEF AsTaken

\* When the text is the same, nothing but blanks was taken away.
LEMMA SameTextShown ==
  ASSUME NEW text, NEW old, NEW tokens, TokensAreWords(tokens), SECRET \in tokens, DOMAIN old = 1 .. Len(old),
         NEW output, NEW n, NEW m, TracedAs(text, old, tokens, output, n, m), output = text,
         TokensWhole(old), RestsShown(text, old, tokens),
         NEW k \in 0 .. (m - 1)
  PROVE  k \in Shown(old) \/ text[k + 1] \in Blank
<1>1. /\ n \in Nat /\ n = m /\ Len(old) = n /\ Len(text) = m
      /\ \A i \in 1 .. n : text[i] = old[i].is /\ old[i].is \in Symbol
      /\ \A i \in 1 .. n : ~IsKept(old, i) => StandsAt(old, i, tokens) \/ StandsAt(old, i - 1, tokens) \/ Inserted(old, i)
  BY DEF TracedAs
<1>2. \A c : (\E i \in 1 .. n : ~IsKept(old, i) /\ old[i].is = c) <=> (\E j \in 0 .. (m - 1) : j \notin Shown(old) /\ text[j + 1] = c)
  <2>1. ASSUME NEW c PROVE AsTaken(text, old, n, m, c)
    BY PutInAsTaken
  <2>2. QED
    BY <2>1 DEF AsTaken
<1>3. /\ \A j \in 0 .. (m - 1) : j \notin Shown(old) => \A c \in Symbol : <<"[", c>> \in tokens \ {PII} => text[j + 1] # c
      /\ \A j \in 0 .. (m - 1) : j \notin Shown(old) /\ text[j + 1] = "pii" =>
           \E i \in 1 .. n : old[i].is = "secret" /\ ~IsKept(old, i)
  BY <1>1 DEF RestsShown
<1>4. ASSUME NEW c \in Symbol, <<"[", c>> \in tokens \ {PII} PROVE ~ \E i \in 1 .. n : ~IsKept(old, i) /\ old[i].is = c
  BY <1>2, <1>3, <1>4
<1>5. "secret" \in Symbol /\ <<"[", "secret">> \in tokens \ {PII}
  BY DEF Symbol, SECRET, PII
<1>6. ~ \E i \in 1 .. n : ~IsKept(old, i) /\ old[i].is = "pii"
  <2>1. ~ \E j \in 0 .. (m - 1) : j \notin Shown(old) /\ text[j + 1] = "pii"
    BY <1>3, <1>4, <1>5
  <2>2. QED
    BY <1>2, <2>1
<1>7. \A i \in 1 .. n : StandsAt(old, i - 1, tokens) => IsKept(old, i)
  <2>1. ASSUME NEW i \in 1 .. n, StandsAt(old, i - 1, tokens), ~IsKept(old, i) PROVE FALSE
    <3>1. (i - 1) + 1 = i /\ <<old[i - 1].is, old[(i - 1) + 1].is>> \in tokens
      BY <2>1 DEF StandsAt
    <3>2. <<old[i - 1].is, old[i].is>> \in tokens /\ old[i - 1].is = "["
      BY <3>1, PairsDiffer
    <3>3. CASE <<"[", old[i].is>> = PII
      <4>1. old[i].is = "pii"
        BY <3>3 DEF PII
      <4>2. QED
        BY <1>6, <2>1, <4>1
    <3>4. CASE <<"[", old[i].is>> # PII
      BY <1>1, <1>4, <2>1, <3>2, <3>4
    <3>5. QED
      BY <3>3, <3>4
  <2>2. QED
    BY <2>1
<1>8. \A i \in 1 .. n : old[i].is = "[" => IsKept(old, i)
  <2>1. ASSUME NEW i \in 1 .. n, old[i].is = "[", ~IsKept(old, i) PROVE FALSE
    <3>1. StandsAt(old, i, tokens)
      <4>1. ~Inserted(old, i)
        BY <2>1 DEF Inserted
      <4>2. QED
        BY <1>1, <1>7, <2>1, <4>1
    <3>2. i + 1 \in 1 .. n /\ ~IsKept(old, i + 1) /\ (i + 1) - 1 = i
      BY <1>1, <2>1 DEF TokensWhole
    <3>3. QED
      BY <1>7, <3>1, <3>2
  <2>2. QED
    BY <2>1
<1>9. SUFFICES ASSUME k \notin Shown(old) PROVE text[k + 1] \in Blank
  OBVIOUS
<1>10. PICK i \in 1 .. n : ~IsKept(old, i) /\ old[i].is = text[k + 1]
  BY <1>2, <1>9
<1>11. CASE StandsAt(old, i, tokens)
  <2>1. old[i].is = "["
    BY <1>11, PairsDiffer DEF StandsAt
  <2>2. QED
    BY <1>8, <1>10, <2>1
<1>12. CASE Inserted(old, i)
  BY <1>10, <1>12 DEF Inserted, Blank
<1>13. QED
  BY <1>1, <1>7, <1>10, <1>11, <1>12

\* However the texts are, the alignment covers all that was taken away, save blanks
\* (align of src/mask/belt.ts).
LEMMA AlignCovers ==
  ASSUME NEW text, NEW old, NEW tokens, TokensAreWords(tokens), SECRET \in tokens, DOMAIN old = 1 .. Len(old),
         Traced(text, old, tokens), TokensWhole(old), RestsShown(text, old, tokens)
  PROVE  CoversHidden(Align(text, Symbols(old), tokens), text, old, Len(text))
<1> DEFINE output == Symbols(old)
           n == Len(old)
           m == Len(text)
<1>1. TracedAs(text, old, tokens, output, n, m)
  BY TracedSymbols
<1>2. n = Len(old) /\ m = Len(text)
  OBVIOUS
<1> HIDE DEF output, n, m
<1>3. CASE output = text
  <2>1. \A k \in 0 .. (m - 1) : k \in Shown(old) \/ text[k + 1] \in Blank
    BY <1>1, <1>2, <1>3, SameTextShown
  <2>2. Align(text, output, tokens) = Spans({})
    BY <1>3 DEF Align
  <2>3. QED
    BY <1>2, <2>1, <2>2 DEF CoversHidden, Spans, SpansIn, output
<1>4. CASE output # text
  <2>1. Align(text, output, tokens) = AlignTrimmed(text, output, tokens)
    BY <1>4 DEF Align
  <2>2. CoversHidden(AlignTrimmed(text, output, tokens), text, old, m)
    BY <1>1, <1>2, AlignTrimmedCovers
  <2>3. QED
    BY <1>2, <2>1, <2>2 DEF output
<1>5. QED
  BY <1>3, <1>4

-----------------------------------------------------------------------------
(* What the belt does with the spans: only blanks and labels are left out. *)

\* What a colon follows, on the same line.
Labelled(text, m, k) == \E j \in (k + 2) .. m : text[j] = ":" /\ \A i \in (k + 2) .. (j - 1) : text[i] = "space"

\* Spans that leave nothing of others out, save blanks and labels.
Narrowed(text, from, to, m) ==
  /\ SpansIn(to, m)
  /\ \A k \in 0 .. (m - 1) : k \in Offsets(from) /\ text[k + 1] \notin Blank => k \in Offsets(to) \/ Labelled(text, m, k)

\* Spans, empty ones too, of a text of m symbols.
Within(spans, m) == \A sp \in spans : sp.start \in 0 .. m /\ sp.end \in 0 .. m

\* An offset of a span is one of the spans.
LEMMA InOffsets ==
  ASSUME NEW spans, NEW sp \in spans, NEW k \in sp.start .. (sp.end - 1)
  PROVE  k \in Offsets(spans)
BY DEF Offsets

\* And an offset of the spans is one of a span.
LEMMA OffsetsIn ==
  ASSUME NEW spans, NEW k \in Offsets(spans)
  PROVE  \E sp \in spans : k \in sp.start .. (sp.end - 1)
BY DEF Offsets

\* The ends of a span.
LEMMA SpanIs ==
  ASSUME NEW a, NEW b
  PROVE  Span(a, b).start = a /\ Span(a, b).end = b
BY DEF Span

\* Trimming the edges of spans leaves out only blanks.
LEMMA TrimKeeps ==
  ASSUME NEW text, NEW m \in Nat, NEW spans, Within(spans, m)
  PROVE  Narrowed(text, spans, TrimSpanEdges(text, spans), m)
<1> DEFINE solid(sp) == {k \in sp.start .. (sp.end - 1) : text[k + 1] \notin Blank}
           to == TrimSpanEdges(text, spans)
           edges(sp) == Span(Min(solid(sp)), Max(solid(sp)) + 1)
<1>1. to = {edges(sp) : sp \in {s \in spans : solid(s) # {}}}
  BY DEF TrimSpanEdges
<1>2. ASSUME NEW sp \in spans, solid(sp) # {}
      PROVE  /\ edges(sp).start \in 0 .. m /\ edges(sp).end \in 0 .. m /\ edges(sp).start < edges(sp).end
             /\ \A k \in solid(sp) : k \in edges(sp).start .. (edges(sp).end - 1)
  <2> DEFINE least == Min(solid(sp))
             most == Max(solid(sp))
  <2>1. sp.start \in 0 .. m /\ sp.end \in 0 .. m
    BY DEF Within
  <2>2. solid(sp) \in SUBSET (0 .. m) /\ solid(sp) \in SUBSET Nat /\ \A k \in solid(sp) : k \in 0 .. (m - 1)
    <3>1. \A k \in sp.start .. (sp.end - 1) : k \in 0 .. (m - 1) /\ k \in 0 .. m /\ k \in Nat
      BY <2>1
    <3>2. QED
      BY <3>1
  <2> HIDE DEF solid
  <2>3. least \in solid(sp) /\ \A k \in solid(sp) : least <= k
    BY <1>2, <2>2, MinIs
  <2>4. most \in solid(sp) /\ \A k \in solid(sp) : k <= most
    BY <1>2, <2>2, MaxIs
  <2>5. edges(sp).start = least /\ edges(sp).end = most + 1
    BY DEF Span
  <2> HIDE DEF edges, least, most
  <2>6. least \in 0 .. (m - 1) /\ most \in 0 .. (m - 1) /\ least <= most
    BY <2>2, <2>3, <2>4
  <2>7. least \in 0 .. m /\ most + 1 \in 0 .. m /\ least < most + 1
    BY <2>6
  <2>8. \A k \in solid(sp) : k \in least .. ((most + 1) - 1)
    BY <2>2, <2>3, <2>4, <2>6
  <2>9. QED
    BY <2>5, <2>7, <2>8, Zenon
<1>3. SpansIn(to, m)
  <2>1. ASSUME NEW q \in to PROVE q = Span(q.start, q.end) /\ q.start < q.end /\ q.start \in 0 .. m /\ q.end \in 0 .. m
    <3>1. PICK sp \in spans : solid(sp) # {} /\ q = edges(sp)
      BY <1>1, <2>1
    <3>2. q = Span(q.start, q.end)
      BY <3>1 DEF Span
    <3> HIDE DEF solid, edges
    <3>3. QED
      BY <1>2, <3>1, <3>2
  <2>2. QED
    BY <2>1 DEF SpansIn
<1>4. ASSUME NEW k \in 0 .. (m - 1), k \in Offsets(spans), text[k + 1] \notin Blank PROVE k \in Offsets(to)
  <2>1. PICK sp \in spans : k \in sp.start .. (sp.end - 1)
    BY <1>4, OffsetsIn
  <2>2. k \in solid(sp)
    BY <1>4, <2>1
  <2>3. edges(sp) \in to
    BY <1>1, <2>2
  <2>4. k \in edges(sp).start .. (edges(sp).end - 1)
    <3>1. solid(sp) # {}
      BY <2>2
    <3> HIDE DEF solid, edges
    <3>2. QED
      BY <1>2, <2>2, <3>1
  <2> HIDE DEF solid, edges, to
  <2>5. QED
    BY <2>3, <2>4, InOffsets
<1>5. QED
  BY <1>3, <1>4 DEF Narrowed

\* Joining spans that overlap leaves nothing out.
LEMMA UnionKeeps ==
  ASSUME NEW text, NEW m \in Nat, NEW spans, SpansIn(spans, m)
  PROVE  Narrowed(text, spans, UnionOverlaps(spans), m)
<1> DEFINE shared == Offsets(spans)
           starts == {k \in shared : ~ \E sp \in spans : sp.start < k /\ k < sp.end}
           top == Max(shared)
           stops(k) == {e \in (k + 1) .. (top + 1) : e \notin shared \/ e \in starts}
           to == UnionOverlaps(spans)
<1>1. to = {Span(k, Min(stops(k))) : k \in starts}
  BY DEF UnionOverlaps
<1>2. shared \in SUBSET (0 .. m) /\ \A k \in shared : k \in 0 .. (m - 1) /\ k \in Nat
  <2>1. ASSUME NEW k \in shared PROVE k \in 0 .. (m - 1) /\ k \in 0 .. m /\ k \in Nat
    <3>1. PICK sp \in spans : k \in sp.start .. (sp.end - 1)
      BY <2>1, OffsetsIn
    <3>2. sp.start \in 0 .. m /\ sp.end \in 0 .. m
      BY DEF SpansIn
    <3>3. QED
      BY <3>1, <3>2
  <2>2. QED
    BY <2>1
<1> HIDE DEF shared
<1>3. ASSUME NEW k \in starts
      PROVE  /\ k \in 0 .. m /\ Min(stops(k)) \in 0 .. m /\ k < Min(stops(k))
             /\ \A e \in (k + 1) .. (Min(stops(k)) - 1) : e \in shared /\ e \notin starts
             /\ Min(stops(k)) \notin shared \/ Min(stops(k)) \in starts
  <2>1. k \in shared
    OBVIOUS
  <2>2. top \in shared /\ \A j \in shared : j <= top
    BY <1>2, <2>1, MaxIs
  <2> HIDE DEF starts, top
  <2>3. k \in 0 .. (m - 1) /\ top \in 0 .. (m - 1) /\ k <= top
    BY <1>2, <2>1, <2>2
  <2>4. top + 1 \in stops(k)
    <3>1. top + 1 \notin shared
      BY <1>2, <2>2, <2>3
    <3>2. top + 1 \in (k + 1) .. (top + 1)
      BY <2>3
    <3>3. QED
      BY <3>1, <3>2
  <2>5. stops(k) \in SUBSET Nat /\ stops(k) # {} /\ \A e \in stops(k) : e \in (k + 1) .. (top + 1) /\ (e \notin shared \/ e \in starts)
    <3>1. \A e \in (k + 1) .. (top + 1) : e \in Nat
      BY <2>3
    <3>2. QED
      BY <2>4, <3>1
  <2>6. Min(stops(k)) \in stops(k) /\ \A e \in stops(k) : Min(stops(k)) <= e
    <3> HIDE DEF stops
    <3> QED BY <2>5, MinIs
  <2> DEFINE stop == Min(stops(k))
  <2>7. stop \in (k + 1) .. (top + 1) /\ (stop \notin shared \/ stop \in starts)
    BY <2>5, <2>6
  <2>8. ASSUME NEW e \in (k + 1) .. (stop - 1) PROVE e \in shared /\ e \notin starts
    <3>1. e \notin stops(k)
      <4>1. ~ (stop <= e)
        <5> HIDE DEF stop
        <5> QED BY <2>3, <2>7
      <4>2. QED
        BY <2>6, <4>1
    <3>2. e \in (k + 1) .. (top + 1)
      <4> HIDE DEF stop
      <4> QED BY <2>3, <2>7
    <3>3. QED
      BY <3>1, <3>2
  <2> HIDE DEF stop
  <2>9. k \in 0 .. m /\ stop \in 0 .. m /\ k < stop
    BY <2>3, <2>7
  <2>10. QED
    BY <2>7, <2>8, <2>9 DEF stop
<1>4. SpansIn(to, m)
  <2>1. ASSUME NEW q \in to PROVE q = Span(q.start, q.end) /\ q.start < q.end /\ q.start \in 0 .. m /\ q.end \in 0 .. m
    <3>1. PICK k \in starts : q = Span(k, Min(stops(k)))
      BY <1>1, <2>1
    <3>2. q.start = k /\ q.end = Min(stops(k))
      BY <3>1 DEF Span
    <3> HIDE DEF starts, stops
    <3>3. QED
      BY <1>3, <3>1, <3>2
  <2>2. QED
    BY <2>1 DEF SpansIn
<1>5. ASSUME NEW k \in 0 .. (m - 1), k \in shared PROVE k \in Offsets(to)
  <2> DEFINE runs == {x \in 0 .. k : \A y \in x .. k : y \in shared}
             before == {s \in starts : s <= k}
  <2>1. runs \in SUBSET Nat /\ k \in runs
    <3>1. \A x \in 0 .. k : x \in Nat
      OBVIOUS
    <3>2. k \in 0 .. k /\ \A y \in k .. k : y = k
      OBVIOUS
    <3>3. QED
      BY <1>5, <3>1, <3>2
  <2>2. PICK x \in runs : \A y \in runs : x <= y
    BY <2>1, LeastNumber
  <2>3. x \in 0 .. k /\ \A y \in x .. k : y \in shared
    BY <2>2
  <2>4. x \in starts
    <3>1. x \in shared
      BY <2>3
    <3>2. ASSUME NEW sp \in spans, sp.start < x, x < sp.end PROVE FALSE
      <4>1. sp.start \in 0 .. m /\ sp.end \in 0 .. m
        BY DEF SpansIn
      <4>2. x - 1 \in sp.start .. (sp.end - 1) /\ x - 1 \in 0 .. k
        BY <2>3, <3>2, <4>1
      <4>3. x - 1 \in shared
        BY <4>2, InOffsets DEF shared
      <4>4. \A y \in (x - 1) .. k : y = x - 1 \/ y \in x .. k
        BY <2>3
      <4>5. x - 1 \in runs
        BY <2>3, <4>2, <4>3, <4>4
      <4>6. x <= x - 1
        BY <2>2, <4>5
      <4>7. QED
        BY <2>3, <4>6
    <3>3. QED
      BY <3>1, <3>2
  <2>5. before \in SUBSET (0 .. m) /\ x \in before
    <3>1. \A s \in starts : s \in shared
      OBVIOUS
    <3>2. x <= k
      BY <2>3
    <3>3. x \in before
      BY <2>4, <3>2
    <3> HIDE DEF starts
    <3>4. \A s \in before : s \in 0 .. m
      BY <1>2, <3>1
    <3> HIDE DEF before
    <3>5. QED
      BY <3>3, <3>4
  <2>6. PICK a \in before : \A s \in before : s <= a
    <3> HIDE DEF before
    <3> QED BY <2>5, GreatestNumber
  <2>7. a \in starts /\ a <= k /\ x <= a /\ a \in Nat
    BY <1>2, <2>5, <2>6
  <2>8. \A e \in (a + 1) .. k : e \in shared /\ e \notin starts
    <3>1. ASSUME NEW e \in (a + 1) .. k PROVE e \in shared /\ e \notin starts
      <4>1. e \in x .. k /\ e <= k /\ ~ (e <= a)
        BY <2>3, <2>7
      <4>2. e \notin before
        BY <2>6, <4>1
      <4>3. QED
        BY <2>3, <4>1, <4>2
    <3>2. QED
      BY <3>1
  <2> DEFINE stop == Min(stops(a))
  <2>9. stop \in 0 .. m /\ a < stop /\ (stop \notin shared \/ stop \in starts)
    <3> HIDE DEF starts, stops
    <3> QED BY <1>3, <2>7
  <2>10. Span(a, stop) \in to
    BY <1>1, <2>7
  <2> HIDE DEF stop, starts, to
  <2>11. k < stop
    <3>1. ~ (stop \in (a + 1) .. k)
      BY <2>8, <2>9
    <3>2. QED
      BY <2>7, <2>9, <3>1
  <2>12. k \in a .. (stop - 1)
    BY <2>7, <2>9, <2>11
  <2>13. k \in Span(a, stop).start .. (Span(a, stop).end - 1)
    BY <2>12 DEF Span
  <2>14. QED
    BY <2>10, <2>13, InOffsets
<1>6. QED
  BY <1>4, <1>5 DEF Narrowed, shared

\* A label that a name ran into is a word with a colon on its line.
LEMMA LabelIs ==
  ASSUME NEW text \in Seq(Symbol), NEW m \in Nat, Len(text) = m,
         NEW sp, sp.start \in 0 .. m, sp.end \in 0 .. m, IsExactLabel(text, sp)
  PROVE  sp.end = sp.start + 1 /\ Labelled(text, m, sp.start)
<1> DEFINE stops == {k \in sp.end .. Len(text) : k = Len(text) \/ text[k + 1] # "space"}
           next == Min(stops)
<1>1. sp.end = sp.start + 1 /\ StartsWith(text, <<":">>, next)
  BY DEF IsExactLabel
<1> DEFINE a == sp.start
<1>2. a \in 0 .. m /\ sp.end = a + 1 /\ a + 1 \in 0 .. m
  BY <1>1
<1> HIDE DEF a
<1>3. stops \in SUBSET Nat /\ m \in stops /\ \A k \in stops : k \in (a + 1) .. m
  <2>1. \A k \in sp.end .. Len(text) : k \in Nat
    BY <1>2
  <2>2. QED
    BY <1>2, <2>1
<1>4. next \in stops /\ \A k \in stops : next <= k
  <2> HIDE DEF stops
  <2> QED BY <1>3, MinIs
<1>5. \A k \in (a + 1) .. m : k \notin stops => text[k + 1] = "space"
  BY <1>2
<1> HIDE DEF stops, next
<1>6. next \in (a + 1) .. m /\ next \in Nat
  BY <1>2, <1>3, <1>4
<1>7. next + 1 <= m /\ text[next + 1] = ":"
  <2>1. <<":">> \in Seq(Symbol) /\ Len(<<":">>) = 1 /\ <<":">>[1] = ":"
    BY DEF Symbol
  <2> DEFINE colon == <<":">>
  <2>2. colon \in Seq(Symbol) /\ Len(colon) = 1 /\ colon[1] = ":" /\ StartsWith(text, colon, next) /\ next \in Nat
    BY <1>1, <1>6, <2>1
  <2> HIDE DEF colon
  <2>3. next + 1 <= Len(text) /\ Slice(text, next, next + 1) = colon
    BY <2>2 DEF StartsWith
  <2>4. next \in Nat /\ next + 1 \in Nat /\ next <= next + 1 /\ 1 \in 1 .. ((next + 1) - next)
    BY <1>6
  <2>5. Slice(text, next, next + 1)[1] = text[next + 1]
    <3>1. \A k \in 1 .. ((next + 1) - next) : Slice(text, next, next + 1)[k] = text[next + k]
      BY <2>3, <2>4, SliceIs, Zenon
    <3>2. QED
      BY <2>4, <3>1, Zenon
  <2>6. QED
    BY <2>2, <2>3, <2>5
<1>8. ASSUME NEW i \in (a + 2) .. next PROVE text[i] = "space"
  <2>1. i - 1 \in (a + 1) .. m /\ ~ (next <= i - 1) /\ (i - 1) + 1 = i
    BY <1>2, <1>6
  <2>2. i - 1 \notin stops
    BY <1>4, <2>1
  <2>3. text[(i - 1) + 1] = "space"
    BY <1>5, <2>1, <2>2
  <2>4. QED
    BY <2>1, <2>3
<1>9. next + 1 \in (a + 2) .. m /\ (next + 1) - 1 = next
  BY <1>2, <1>6, <1>7
<1>10. Labelled(text, m, a)
  BY <1>7, <1>8, <1>9 DEF Labelled
<1>11. QED
  BY <1>1, <1>10 DEF a

\* The lines of a span, as SplitAtLineBreaks takes them.
CutsOf(text, sp) == {k \in sp.start .. (sp.end - 1) : text[k + 1] = "break"}

\* A span between two line breaks, or between one and its own end.
LinesOf(text, sp) ==
  {l \in {Span(a, b) : a \in {sp.start} \cup {k + 1 : k \in CutsOf(text, sp)}, b \in CutsOf(text, sp) \cup {sp.end}} :
     l.start <= l.end /\ CutsOf(text, sp) \cap (l.start .. (l.end - 1)) = {}}

\* Those lines, trimmed.
PiecesOf(text, sp) == TrimSpanEdges(text, LinesOf(text, sp))

\* Those of them that are a label.
LabelsOf(text, sp) == {p \in PiecesOf(text, sp) : IsExactLabel(text, p)}

\* SplitAtLineBreaks cuts only the spans with a label on one of their lines.
LEMMA SplitIs ==
  ASSUME NEW text, NEW spans
  PROVE  SplitAtLineBreaks(text, spans) =
           UNION {IF LabelsOf(text, sp) = {} THEN {sp} ELSE PiecesOf(text, sp) \ LabelsOf(text, sp) : sp \in spans}
<1> DEFINE cuts(sp) == {k \in sp.start .. (sp.end - 1) : text[k + 1] = "break"}
           lines(sp) == {Span(a, b) : a \in {sp.start} \cup {k + 1 : k \in cuts(sp)}, b \in cuts(sp) \cup {sp.end}}
           pieces(sp) == TrimSpanEdges(text, {l \in lines(sp) : l.start <= l.end /\ cuts(sp) \cap (l.start .. (l.end - 1)) = {}})
           labels(sp) == {p \in pieces(sp) : IsExactLabel(text, p)}
           part(sp) == IF labels(sp) = {} THEN {sp} ELSE pieces(sp) \ labels(sp)
           partOf(sp) == IF LabelsOf(text, sp) = {} THEN {sp} ELSE PiecesOf(text, sp) \ LabelsOf(text, sp)
<1>1. SplitAtLineBreaks(text, spans) = UNION {part(sp) : sp \in spans}
  BY DEF SplitAtLineBreaks
<1>2. ASSUME NEW sp \in spans PROVE part(sp) = partOf(sp)
  <2>1. cuts(sp) = CutsOf(text, sp)
    BY DEF CutsOf
  <2>2. pieces(sp) = PiecesOf(text, sp)
    BY DEF PiecesOf, LinesOf, CutsOf
  <2> HIDE DEF pieces
  <2>3. labels(sp) = LabelsOf(text, sp)
    BY <2>2 DEF LabelsOf
  <2> HIDE DEF labels
  <2>4. QED
    BY <2>2, <2>3
<1> HIDE DEF part, partOf
<1>3. UNION {part(sp) : sp \in spans} = UNION {partOf(sp) : sp \in spans}
  BY <1>2
<1>4. QED
  BY <1>1, <1>3 DEF partOf

\* A span's lines are in the text.
LEMMA LinesWithin ==
  ASSUME NEW text, NEW m \in Nat, NEW sp, sp.start \in 0 .. m, sp.end \in 0 .. m
  PROVE  Within(LinesOf(text, sp), m)
<1> DEFINE a == sp.start
           b == sp.end
           cuts == CutsOf(text, sp)
<1>1. \A k \in cuts : k \in a .. (b - 1)
  BY DEF CutsOf
<1>2. a \in 0 .. m /\ b \in 0 .. m
  OBVIOUS
<1>3. ASSUME NEW l \in LinesOf(text, sp) PROVE l.start \in {a} \cup {k + 1 : k \in cuts} /\ l.end \in cuts \cup {b}
  BY <1>3 DEF LinesOf, Span
<1> HIDE DEF a, b, cuts
<1>4. \A k \in cuts : k \in 0 .. m /\ k + 1 \in 0 .. m
  BY <1>1, <1>2
<1>5. QED
  BY <1>2, <1>3, <1>4 DEF Within

\* Every offset of a span but its line breaks is on one of its lines.
LEMMA OnALine ==
  ASSUME NEW text, NEW m \in Nat, NEW sp, sp.start \in 0 .. m, sp.end \in 0 .. m,
         NEW k \in sp.start .. (sp.end - 1), text[k + 1] # "break"
  PROVE  k \in Offsets(LinesOf(text, sp))
<1> DEFINE a == sp.start
           b == sp.end
           cuts == CutsOf(text, sp)
           heads == {s \in {a} \cup {c + 1 : c \in cuts} : s <= k}
           tails == {e \in cuts \cup {b} : k < e}
<1>1. \A c \in cuts : c \in a .. (b - 1) /\ c # k
  BY DEF CutsOf
<1>2. a \in 0 .. m /\ b \in 0 .. m /\ k \in a .. (b - 1)
  OBVIOUS
<1>3. ASSUME NEW x \in {a} \cup {c + 1 : c \in cuts}, NEW y \in cuts \cup {b}, x <= y, cuts \cap (x .. (y - 1)) = {}
      PROVE  Span(x, y) \in LinesOf(text, sp)
  <2>1. Span(x, y) \in {Span(s, e) : s \in {a} \cup {c + 1 : c \in cuts}, e \in cuts \cup {b}}
    OBVIOUS
  <2>2. Span(x, y).start = x /\ Span(x, y).end = y
    BY SpanIs
  <2>3. Span(x, y).start <= Span(x, y).end /\ cuts \cap (Span(x, y).start .. (Span(x, y).end - 1)) = {}
    BY <1>3, <2>2
  <2>4. QED
    BY <2>1, <2>3 DEF LinesOf
<1> HIDE DEF a, b, cuts
<1>4. heads \in SUBSET (0 .. m) /\ a \in heads /\ \A s \in heads : s <= k /\ s \in {a} \cup {c + 1 : c \in cuts}
  <2>1. ASSUME NEW s \in {a} \cup {c + 1 : c \in cuts} PROVE s \in 0 .. m
    BY <1>1, <1>2, <2>1
  <2>2. a <= k
    BY <1>2
  <2> DEFINE all == {a} \cup {c + 1 : c \in cuts}
  <2>3. a \in all /\ \A s \in all : s \in 0 .. m
    BY <2>1
  <2>4. heads = {s \in all : s <= k}
    OBVIOUS
  <2> HIDE DEF all
  <2>5. heads \in SUBSET (0 .. m) /\ a \in heads /\ \A s \in heads : s <= k /\ s \in all
    BY <2>2, <2>3, <2>4
  <2>6. QED
    BY <2>5 DEF all
<1>5. PICK s \in heads : \A t \in heads : t <= s
  <2> HIDE DEF heads
  <2> QED BY <1>4, GreatestNumber
<1>6. tails \in SUBSET Nat /\ b \in tails /\ \A e \in tails : k < e /\ e \in 0 .. m /\ e \in cuts \cup {b}
  <2>1. ASSUME NEW e \in cuts \cup {b} PROVE e \in 0 .. m /\ e \in Nat
    BY <1>1, <1>2, <2>1
  <2>2. QED
    BY <1>2, <2>1
<1>7. PICK e \in tails : \A t \in tails : e <= t
  <2> HIDE DEF tails
  <2> QED BY <1>6, LeastNumber
<1>8. s \in 0 .. m /\ e \in 0 .. m /\ s <= k /\ k < e
  BY <1>4, <1>5, <1>6, <1>7
<1>9. ASSUME NEW c \in cuts, c \in s .. (e - 1) PROVE FALSE
  <2>1. c \in a .. (b - 1) /\ c # k /\ c \in Int
    BY <1>1, <1>2
  <2>2. CASE c < k
    <3>1. c + 1 \in heads
      BY <1>2, <2>1, <2>2
    <3>2. c + 1 <= s
      BY <1>5, <3>1
    <3>3. QED
      BY <1>8, <1>9, <2>1, <3>2
  <2>3. CASE k < c
    <3>1. c \in tails
      BY <2>3
    <3>2. e <= c
      BY <1>7, <3>1
    <3>3. QED
      BY <1>8, <1>9, <2>1, <3>2
  <2>4. QED
    BY <1>2, <2>1, <2>2, <2>3
<1>10. s \in {a} \cup {c + 1 : c \in cuts} /\ e \in cuts \cup {b}
  BY <1>4, <1>5, <1>6, <1>7
<1>11. Span(s, e).start = s /\ Span(s, e).end = e
  BY SpanIs
<1>12. s <= e /\ cuts \cap (s .. (e - 1)) = {} /\ k \in s .. (e - 1)
  BY <1>2, <1>8, <1>9
<1> HIDE DEF heads, tails
<1>13. Span(s, e) \in LinesOf(text, sp)
  BY <1>3, <1>10, <1>12
<1>14. k \in Span(s, e).start .. (Span(s, e).end - 1)
  BY <1>11, <1>12
<1>15. QED
  BY <1>13, <1>14, InOffsets

\* Cutting at line breaks leaves out blanks and labels.
LEMMA SplitKeeps ==
  ASSUME NEW text \in Seq(Symbol), NEW m \in Nat, Len(text) = m, NEW spans, SpansIn(spans, m)
  PROVE  Narrowed(text, spans, SplitAtLineBreaks(text, spans), m)
<1> DEFINE to == SplitAtLineBreaks(text, spans)
           part(sp) == IF LabelsOf(text, sp) = {} THEN {sp} ELSE PiecesOf(text, sp) \ LabelsOf(text, sp)
<1>1. to = UNION {part(sp) : sp \in spans}
  BY SplitIs
<1>2. ASSUME NEW sp \in spans
      PROVE  sp = Span(sp.start, sp.end) /\ sp.start < sp.end /\ sp.start \in 0 .. m /\ sp.end \in 0 .. m
  BY DEF SpansIn
<1>3. ASSUME NEW sp \in spans PROVE Narrowed(text, LinesOf(text, sp), PiecesOf(text, sp), m)
  <2>1. Within(LinesOf(text, sp), m)
    BY <1>2, LinesWithin
  <2>2. QED
    BY <2>1, TrimKeeps DEF PiecesOf
<1>4. ASSUME NEW sp \in spans PROVE SpansIn(part(sp), m)
  <2>1. SpansIn({sp}, m)
    BY <1>2 DEF SpansIn
  <2>2. SpansIn(PiecesOf(text, sp), m)
    BY <1>3 DEF Narrowed
  <2>3. SpansIn(PiecesOf(text, sp) \ LabelsOf(text, sp), m)
    BY <2>2 DEF SpansIn
  <2>4. QED
    BY <2>1, <2>3
<1>5. SpansIn(to, m)
  <2>1. ASSUME NEW q \in to PROVE q = Span(q.start, q.end) /\ q.start < q.end /\ q.start \in 0 .. m /\ q.end \in 0 .. m
    <3>1. PICK sp \in spans : q \in part(sp)
      BY <1>1, <2>1
    <3>2. SpansIn(part(sp), m)
      BY <1>4
    <3> HIDE DEF part
    <3>3. QED
      BY <3>1, <3>2 DEF SpansIn
  <2> HIDE DEF to, part
  <2>2. QED
    BY <2>1 DEF SpansIn
<1>6. ASSUME NEW k \in 0 .. (m - 1), k \in Offsets(spans), text[k + 1] \notin Blank
      PROVE  k \in Offsets(to) \/ Labelled(text, m, k)
  <2>1. PICK sp \in spans : k \in sp.start .. (sp.end - 1)
    BY <1>6, OffsetsIn
  <2>2. \A q \in part(sp) : q \in to
    BY <1>1
  <2>3. CASE LabelsOf(text, sp) = {}
    <3>1. sp \in to
      BY <2>2, <2>3
    <3> HIDE DEF to, part
    <3>2. QED
      BY <2>1, <3>1, InOffsets
  <2>4. CASE LabelsOf(text, sp) # {}
    <3>1. k \in Offsets(LinesOf(text, sp))
      <4>1. text[k + 1] # "break"
        BY <1>6 DEF Blank
      <4>2. QED
        BY <1>2, <2>1, <4>1, OnALine
    <3>2. k \in Offsets(PiecesOf(text, sp)) \/ Labelled(text, m, k)
      BY <1>3, <1>6, <3>1 DEF Narrowed
    <3>3. ASSUME k \in Offsets(PiecesOf(text, sp)) PROVE k \in Offsets(to) \/ Labelled(text, m, k)
      <4>1. PICK p \in PiecesOf(text, sp) : k \in p.start .. (p.end - 1)
        BY <3>3, OffsetsIn
      <4>2. p.start \in 0 .. m /\ p.end \in 0 .. m
        BY <1>3 DEF Narrowed, SpansIn
      <4>3. CASE p \in LabelsOf(text, sp)
        <5>1. IsExactLabel(text, p)
          BY <4>3 DEF LabelsOf
        <5>2. p.end = p.start + 1 /\ Labelled(text, m, p.start)
          BY <4>2, <5>1, LabelIs
        <5>3. k = p.start
          BY <4>1, <4>2, <5>2
        <5>4. QED
          BY <5>2, <5>3
      <4>4. CASE p \notin LabelsOf(text, sp)
        <5>1. p \in to
          BY <2>2, <2>4, <4>4
        <5> HIDE DEF to, part
        <5>2. QED
          BY <4>1, <5>1, InOffsets
      <4>5. QED
        BY <4>3, <4>4
    <3>4. QED
      BY <3>2, <3>3
  <2>5. QED
    BY <2>3, <2>4
<1>7. QED
  BY <1>5, <1>6 DEF Narrowed

\* So does dropLabels of src/mask/belt.ts, which does it twice.
LEMMA DropKeeps ==
  ASSUME NEW text \in Seq(Symbol), NEW m \in Nat, Len(text) = m, NEW spans, SpansIn(spans, m)
  PROVE  Narrowed(text, spans, DropLabels(text, spans), m)
<1> DEFINE rest == {sp \in spans : ~IsExactLabel(text, sp)}
           to == TrimSpanEdges(text, rest)
<1>1. Within(rest, m)
  BY DEF SpansIn, Within
<1>2. Narrowed(text, rest, to, m)
  <2> HIDE DEF rest
  <2> QED BY <1>1, TrimKeeps
<1>3. to = DropLabels(text, spans)
  BY DEF DropLabels
<1>4. ASSUME NEW k \in 0 .. (m - 1), k \in Offsets(spans), text[k + 1] \notin Blank
      PROVE  k \in Offsets(to) \/ Labelled(text, m, k)
  <2>1. PICK sp \in spans : k \in sp.start .. (sp.end - 1)
    BY <1>4, OffsetsIn
  <2>2. CASE IsExactLabel(text, sp)
    <3>1. sp.start \in 0 .. m /\ sp.end \in 0 .. m
      BY DEF SpansIn
    <3>2. sp.end = sp.start + 1 /\ Labelled(text, m, sp.start)
      BY <2>2, <3>1, LabelIs
    <3>3. k = sp.start
      BY <2>1, <3>1, <3>2
    <3>4. QED
      BY <3>2, <3>3
  <2>3. CASE ~IsExactLabel(text, sp)
    <3>1. sp \in rest
      BY <2>3
    <3> HIDE DEF rest, to
    <3>2. k \in Offsets(rest)
      BY <2>1, <3>1, InOffsets
    <3>3. QED
      BY <1>2, <1>4, <3>2 DEF Narrowed
  <2>4. QED
    BY <2>2, <2>3
<1>5. QED
  BY <1>2, <1>3, <1>4 DEF Narrowed

\* Two such steps are one.
LEMMA NarrowedTwice ==
  ASSUME NEW text, NEW m, NEW a, NEW b, NEW c, Narrowed(text, a, b, m), Narrowed(text, b, c, m)
  PROVE  Narrowed(text, a, c, m)
BY DEF Narrowed

\* What the belt makes of the spans of an alignment leaves out blanks and labels.
LEMMA TrimmedKeeps ==
  ASSUME NEW text \in Seq(Symbol), NEW m \in Nat, Len(text) = m, NEW spans, SpansIn(spans, m)
  PROVE  Narrowed(text, spans, DropLabels(text, Trimmed(text, spans)), m)
<1> DEFINE a == TrimSpanEdges(text, spans)
           b == UnionOverlaps(a)
           c == SplitAtLineBreaks(text, b)
<1>1. Narrowed(text, spans, a, m) /\ SpansIn(a, m)
  <2>1. Within(spans, m)
    BY DEF SpansIn, Within
  <2>2. Narrowed(text, spans, a, m)
    BY <2>1, TrimKeeps
  <2>3. QED
    BY <2>2 DEF Narrowed
<1> HIDE DEF a
<1>2. Narrowed(text, a, b, m) /\ SpansIn(b, m)
  <2>1. Narrowed(text, a, b, m)
    BY <1>1, UnionKeeps
  <2>2. QED
    BY <2>1 DEF Narrowed
<1> HIDE DEF b
<1>3. Narrowed(text, b, c, m) /\ SpansIn(c, m)
  <2>1. Narrowed(text, b, c, m)
    BY <1>2, SplitKeeps
  <2>2. QED
    BY <2>1 DEF Narrowed
<1>4. c = Trimmed(text, spans)
  BY DEF Trimmed, a, b
<1> HIDE DEF c
<1>5. Narrowed(text, c, DropLabels(text, c), m)
  BY <1>3, DropKeeps
<1>6. Narrowed(text, spans, DropLabels(text, c), m)
  BY <1>1, <1>2, <1>3, <1>5, NarrowedTwice
<1>7. QED
  BY <1>4, <1>6

\* FlattenSeq of parts is the last of their running concatenations.
LEMMA FlattenIs ==
  ASSUME NEW s, NEW n \in Nat \ {0}, Len(s) = n
  PROVE  \E f : f[1] = s[1] /\ (\A i \in 2 .. n : f[i] = f[i - 1] \o s[i]) /\ FlattenSeq(s) = f[n]
<1> DEFINE Rec(g, i) == IF i = 1 THEN s[i] ELSE g[i - 1] \o s[i]
           Up(k) == \E g : g = [i \in 1 .. k |-> Rec(g, i)]
           Flat(g) == g = [i \in 1 .. Len(s) |-> IF i = 1 THEN s[i] ELSE g[i - 1] \o s[i]]
<1>1. Up(1)
  <2> DEFINE g == [i \in 1 .. 1 |-> s[i]]
  <2>1. g = [i \in 1 .. 1 |-> Rec(g, i)]
    OBVIOUS
  <2>2. QED
    BY <2>1
<1>2. ASSUME NEW k \in 1 .. (n - 1), Up(k) PROVE Up(k + 1)
  <2>1. PICK g : g = [i \in 1 .. k |-> Rec(g, i)]
    BY <1>2
  <2> DEFINE h == [i \in 1 .. (k + 1) |-> IF i = k + 1 THEN g[k] \o s[i] ELSE g[i]]
  <2>2. ASSUME NEW i \in 1 .. (k + 1) PROVE h[i] = Rec(h, i)
    <3> DEFINE Step(j) == IF j = k + 1 THEN g[k] \o s[j] ELSE g[j]
    <3>0. (\A j \in 1 .. (k + 1) : h[j] = Step(j)) /\ (\A j \in 1 .. k : g[j] = Rec(g, j))
      BY <2>1
    <3> HIDE DEF h
    <3>1. CASE i = k + 1
      <4>1. i - 1 = k /\ k \in 1 .. (k + 1) /\ k # k + 1 /\ i # 1
        BY <3>1
      <4>2. h[k] = g[k] /\ h[i] = g[k] \o s[i]
        BY <3>0, <3>1, <4>1
      <4>3. QED
        BY <4>1, <4>2
    <3>2. CASE i = 1
      <4>1. i \in 1 .. k /\ i # k + 1
        BY <3>2
      <4>2. h[i] = g[i] /\ g[i] = Rec(g, i)
        BY <3>0, <4>1
      <4>3. QED
        BY <3>2, <4>2
    <3>3. CASE i \in 2 .. k
      <4>1. i \in 1 .. k /\ i # k + 1 /\ i - 1 \in 1 .. (k + 1) /\ i - 1 # k + 1 /\ i # 1
        BY <3>3
      <4>2. h[i] = g[i] /\ g[i] = Rec(g, i) /\ h[i - 1] = g[i - 1]
        BY <3>0, <4>1
      <4>3. QED
        BY <4>1, <4>2
    <3>4. QED
      BY <3>1, <3>2, <3>3
  <2>3. h = [i \in 1 .. (k + 1) |-> Rec(h, i)]
    <3>1. h = [i \in 1 .. (k + 1) |-> h[i]]
      OBVIOUS
    <3> HIDE DEF h
    <3>2. QED
      BY <2>2, <3>1
  <2>4. QED
    BY <2>3
<1>3. Up(n)
  <2> DEFINE U == {k \in 1 .. n : Up(k)}
  <2> HIDE DEF Up
  <2>1. 1 \in U /\ \A i \in 1 .. (n - 1) : i \in U => i + 1 \in U
    BY <1>1, <1>2
  <2>2. \A i \in 1 .. n : i \in U
    <3> HIDE DEF U
    <3> QED BY <2>1, UpTo
  <2>3. QED
    BY <2>2
<1>4. \E g : Flat(g)
  BY <1>3
<1> DEFINE f == CHOOSE g : Flat(g)
<1>5. Flat(f)
  <2> HIDE DEF Flat
  <2> QED BY <1>4, Zenon
<1>6. FlattenSeq(s) = f[n]
  BY Zenon DEF FlattenSeq
<1> HIDE DEF f
<1>7. f[1] = s[1] /\ \A i \in 2 .. n : f[i] = f[i - 1] \o s[i]
  <2>1. \A i \in 1 .. n : f[i] = IF i = 1 THEN s[i] ELSE f[i - 1] \o s[i]
    BY <1>5
  <2>2. 1 \in 1 .. n /\ \A i \in 2 .. n : i \in 1 .. n /\ i # 1
    OBVIOUS
  <2>3. QED
    BY <2>1, <2>2
<1>8. QED
  BY <1>6, <1>7

-----------------------------------------------------------------------------
(* apply: what a span covers is not shown.                                 *)

\* Where each of n parts is in the sequence they make: part k after offset C[k - 1].
Laid(flat, s, C, n) ==
  /\ \A k \in 0 .. n : C[k] \in Nat
  /\ C[0] = 0 /\ C[n] = Len(flat)
  /\ \A k \in 1 .. n : C[k] = C[k - 1] + Len(s[k])
  /\ \A k \in 1 .. n : \A i \in 1 .. Len(s[k]) : flat[C[k - 1] + i] = s[k][i]
  /\ \A j, k \in 0 .. n : j <= k => C[j] <= C[k]
  /\ \A k \in 1 .. n : Len(s[k]) \in Nat
  /\ \A q \in 1 .. Len(flat) : \E k \in 1 .. n : \E i \in 1 .. Len(s[k]) : q = C[k - 1] + i

\* c is b after a.
ConcatIs(a, b, c) ==
  /\ Len(c) = Len(a) + Len(b)
  /\ \A i \in 1 .. Len(a) : c[i] = a[i]
  /\ \A i \in 1 .. Len(b) : c[Len(a) + i] = b[i]

\* Concatenation is that.
LEMMA ConcatHolds ==
  ASSUME NEW S, NEW a \in Seq(S), NEW b \in Seq(S)
  PROVE  ConcatIs(a, b, a \o b) /\ a \o b \in Seq(S)
BY ConcatProperties DEF ConcatIs

\* One part more.
LEMMA LaidNext ==
  ASSUME NEW a, NEW b, NEW c, Len(a) \in Nat, Len(b) \in Nat, ConcatIs(a, b, c), NEW s, NEW C, NEW n \in Nat, Laid(a, s, C, n),
         s[n + 1] = b, C[n + 1] = Len(c)
  PROVE  Laid(c, s, C, n + 1)
<1> DEFINE x == Len(a)
           y == Len(b)
           z == Len(c)
<1>1. /\ x \in Nat /\ y \in Nat /\ z = x + y /\ z \in Nat
      /\ \A i \in 1 .. x : c[i] = a[i]
      /\ \A i \in 1 .. y : c[x + i] = b[i]
  BY DEF ConcatIs
<1>2. /\ \A k \in 0 .. n : C[k] \in Nat
      /\ C[0] = 0 /\ C[n] = x
      /\ \A k \in 1 .. n : C[k] = C[k - 1] + Len(s[k])
      /\ \A k \in 1 .. n : \A i \in 1 .. Len(s[k]) : a[C[k - 1] + i] = s[k][i]
      /\ \A j, k \in 0 .. n : j <= k => C[j] <= C[k]
      /\ \A k \in 1 .. n : Len(s[k]) \in Nat
      /\ \A q \in 1 .. x : \E k \in 1 .. n : \E i \in 1 .. Len(s[k]) : q = C[k - 1] + i
  BY DEF Laid
<1>3. Len(s[n + 1]) = y /\ C[n + 1] = z /\ s[n + 1] = b
  OBVIOUS
<1>4. z = Len(c)
  OBVIOUS
<1> HIDE DEF x, y, z
<1>5. \A k \in 0 .. (n + 1) : C[k] \in Nat
  <2>1. \A k \in 0 .. (n + 1) : k \in 0 .. n \/ k = n + 1
    OBVIOUS
  <2>2. QED
    BY <1>1, <1>2, <1>3, <2>1
<1>6. \A k \in 1 .. (n + 1) : k \in 1 .. n \/ (k = n + 1 /\ k - 1 = n)
  OBVIOUS
<1>7. \A k \in 1 .. (n + 1) : C[k] = C[k - 1] + Len(s[k])
  BY <1>1, <1>2, <1>3, <1>6
<1>8. \A j, k \in 0 .. (n + 1) : j <= k => C[j] <= C[k]
  <2>1. ASSUME NEW j \in 0 .. (n + 1), NEW k \in 0 .. (n + 1), j <= k PROVE C[j] <= C[k]
    <3>1. CASE k = n + 1
      <4>1. j = n + 1 \/ j \in 0 .. n
        OBVIOUS
      <4>2. CASE j \in 0 .. n
        <5>1. C[j] <= C[n] /\ C[j] \in Nat /\ C[n] = x /\ C[k] = z
          BY <1>2, <1>3, <3>1, <4>2
        <5>2. QED
          BY <1>1, <5>1
      <4>3. CASE j = n + 1
        BY <1>1, <1>3, <3>1, <4>3
      <4>4. QED
        BY <4>1, <4>2, <4>3
    <3>2. CASE k \in 0 .. n
      <4>1. j \in 0 .. n
        BY <2>1, <3>2
      <4>2. QED
        BY <1>2, <2>1, <3>2, <4>1
    <3>3. QED
      BY <3>1, <3>2
  <2>2. QED
    BY <2>1
<1>9. \A k \in 1 .. (n + 1) : Len(s[k]) \in Nat
  BY <1>1, <1>2, <1>3, <1>6
<1>10. \A k \in 1 .. (n + 1) : \A i \in 1 .. Len(s[k]) : c[C[k - 1] + i] = s[k][i]
  <2>1. ASSUME NEW k \in 1 .. n, NEW i \in 1 .. Len(s[k]) PROVE c[C[k - 1] + i] = s[k][i]
    <3>1. C[k] = C[k - 1] + Len(s[k]) /\ Len(s[k]) \in Nat
      BY <1>2
    <3>2. k - 1 \in 0 .. n /\ k \in 0 .. n /\ n \in 0 .. n /\ k <= n
      OBVIOUS
    <3>3. C[k - 1] \in Nat /\ C[k] <= x
      BY <1>2, <3>2
    <3>4. C[k - 1] + i \in 1 .. x
      BY <1>1, <3>1, <3>3
    <3>5. c[C[k - 1] + i] = a[C[k - 1] + i]
      BY <1>1, <3>4
    <3>6. a[C[k - 1] + i] = s[k][i]
      BY <1>2
    <3>7. QED
      BY <3>5, <3>6
  <2>2. ASSUME NEW k \in 1 .. (n + 1), k = n + 1, NEW i \in 1 .. Len(s[k]) PROVE c[C[k - 1] + i] = s[k][i]
    <3>1. k - 1 = n /\ s[k] = b /\ i \in 1 .. y /\ C[k - 1] = x
      BY <1>2, <1>3, <2>2
    <3>2. c[x + i] = b[i]
      BY <1>1, <3>1
    <3>3. QED
      BY <3>1, <3>2
  <2>3. QED
    BY <1>6, <2>1, <2>2
<1>11. ASSUME NEW q \in 1 .. z PROVE \E k \in 1 .. (n + 1) : \E i \in 1 .. Len(s[k]) : q = C[k - 1] + i
  <2>1. CASE q \in 1 .. x
    <3>1. PICK k \in 1 .. n : \E i \in 1 .. Len(s[k]) : q = C[k - 1] + i
      BY <1>2, <2>1
    <3>2. k \in 1 .. (n + 1)
      OBVIOUS
    <3>3. QED
      BY <3>1, <3>2
  <2>2. CASE q \notin 1 .. x
    <3>1. q - x \in 1 .. y /\ q = x + (q - x)
      BY <1>1, <2>2
    <3>2. (n + 1) - 1 = n /\ n + 1 \in 1 .. (n + 1)
      OBVIOUS
    <3>3. q = C[(n + 1) - 1] + (q - x) /\ q - x \in 1 .. Len(s[n + 1])
      BY <1>2, <1>3, <3>1, <3>2
    <3>4. QED
      BY <3>2, <3>3
  <2>3. QED
    BY <2>1, <2>2
<1>12. QED
  BY <1>2, <1>3, <1>4, <1>5, <1>7, <1>8, <1>9, <1>10, <1>11 DEF Laid

\* What FlattenSeq makes is its parts in a row.
LEMMA FlatParts ==
  ASSUME NEW S, NEW s, NEW n \in Nat \ {0}, Len(s) = n, \A k \in 1 .. n : s[k] \in Seq(S)
  PROVE  FlattenSeq(s) \in Seq(S) /\ \E C : Laid(FlattenSeq(s), s, C, n)
<1>1. PICK f : f[1] = s[1] /\ (\A i \in 2 .. n : f[i] = f[i - 1] \o s[i]) /\ FlattenSeq(s) = f[n]
  BY FlattenIs
<1> DEFINE C == [k \in 0 .. n |-> IF k = 0 THEN 0 ELSE Len(f[k])]
           U == {k \in 1 .. n : f[k] \in Seq(S) /\ Laid(f[k], s, C, k)}
<1>2. C[0] = 0 /\ \A k \in 1 .. n : C[k] = Len(f[k])
  OBVIOUS
<1> HIDE DEF C
<1>3. 1 \in U
  <2>1. s[1] \in Seq(S) /\ f[1] = s[1] /\ C[1] = Len(s[1]) /\ Len(s[1]) \in Nat
    BY <1>1, <1>2
  <2>2. \A k \in 0 .. 1 : C[k] \in Nat
    BY <1>2, <2>1
  <2>3. \A k \in 1 .. 1 : k = 1 /\ k - 1 = 0
    OBVIOUS
  <2>4. \A k \in 0 .. 1 : k = 0 \/ k = 1
    OBVIOUS
  <2> DEFINE z == Len(s[1])
  <2>5. z \in Nat /\ C[1] = z /\ C[0] = 0 /\ z = Len(f[1]) /\ z = Len(s[1])
    BY <1>2, <2>1
  <2> HIDE DEF z
  <2>6. \A k \in 1 .. 1 : C[k] = C[k - 1] + Len(s[k])
    BY <2>3, <2>5
  <2>7. \A k \in 1 .. 1 : \A i \in 1 .. Len(s[k]) : f[1][C[k - 1] + i] = s[k][i]
    <3>1. ASSUME NEW i \in 1 .. z PROVE 0 + i = i
      BY <2>5
    <3>2. QED
      BY <2>1, <2>3, <2>5, <3>1
  <2>8. \A q \in 1 .. z : q = C[1 - 1] + q /\ 1 \in 1 .. 1 /\ q \in 1 .. Len(s[1])
    BY <2>5
  <2>9. \A q \in 1 .. Len(f[1]) : \E k \in 1 .. 1 : \E i \in 1 .. Len(s[k]) : q = C[k - 1] + i
    BY <2>5, <2>8
  <2>10. \A j, k \in 0 .. 1 : j <= k => C[j] <= C[k]
    BY <2>4, <2>5
  <2>11. \A k \in 1 .. 1 : Len(s[k]) \in Nat
    BY <2>3, <2>5
  <2>12. Laid(f[1], s, C, 1)
    BY <2>2, <2>5, <2>6, <2>7, <2>9, <2>10, <2>11 DEF Laid
  <2>13. QED
    BY <2>1, <2>12
<1>4. ASSUME NEW k \in 1 .. (n - 1), k \in U PROVE k + 1 \in U
  <2>1. k + 1 \in 2 .. n /\ (k + 1) - 1 = k /\ k \in 1 .. n /\ k + 1 \in 1 .. n /\ k \in Nat
    OBVIOUS
  <2>2. f[k] \in Seq(S) /\ s[k + 1] \in Seq(S) /\ Laid(f[k], s, C, k) /\ f[k + 1] = f[k] \o s[k + 1]
    BY <1>1, <1>4, <2>1
  <2>3. C[k + 1] = Len(f[k + 1])
    BY <1>2, <2>1
  <2>4. ConcatIs(f[k], s[k + 1], f[k + 1]) /\ f[k + 1] \in Seq(S)
    BY <2>2, ConcatHolds
  <2>5. Len(f[k]) \in Nat /\ Len(s[k + 1]) \in Nat
    BY <2>2
  <2>6. Laid(f[k + 1], s, C, k + 1)
    BY <2>1, <2>2, <2>3, <2>4, <2>5, LaidNext
  <2>7. QED
    BY <2>1, <2>4, <2>6
<1>5. n \in U
  <2> HIDE DEF U
  <2>1. \A i \in 1 .. n : i \in U
    BY <1>3, <1>4, UpTo
  <2>2. QED
    BY <2>1
<1>6. QED
  BY <1>1, <1>5

\* Rules: the labels are words, as tokens are, and what a rule finds is not empty.
Labels(rules) == {r.label : r \in ToSet(rules)}

\* A label is some rule's.
LEMMA LabelsAre ==
  ASSUME NEW rules, NEW n \in Nat, Len(rules) = n, DOMAIN rules = 1 .. n, NEW t \in Labels(rules)
  PROVE  \E i \in 1 .. n : rules[i].label = t
BY DEF Labels, ToSet

\* PreferToken chooses one of the tokens, or none.
LEMMA PreferTokenIs ==
  ASSUME NEW rules, NEW n \in Nat, Len(rules) = n, DOMAIN rules = 1 .. n,
         NEW tokens, tokens \subseteq TokenVocab(rules)
  PROVE  PreferToken(tokens, rules) \in tokens \cup {<<>>}
<1> DEFINE first(t) == IF Tier(t) < 2 THEN 0 ELSE Min({i \in DOMAIN rules : rules[i].label = t})
           rank(t) == <<Tier(t), first(t)>>
           before(a, b) == a[1] < b[1] \/ (a[1] = b[1] /\ a[2] <= b[2])
           Best(t) == \A u \in tokens : before(rank(t), rank(u))
<1>1. CASE tokens = {}
  BY <1>1 DEF PreferToken
<1>2. CASE tokens # {}
  <2>1. \A t \in tokens : Tier(t) \in 0 .. 2
    BY DEF Tier
  <2>2. ASSUME NEW t \in tokens PROVE first(t) \in Nat
    <3>1. CASE Tier(t) < 2
      BY <3>1
    <3>2. CASE ~ (Tier(t) < 2)
      <4> DEFINE S == {i \in DOMAIN rules : rules[i].label = t}
      <4>1. t # PII /\ t # SECRET
        <5>1. Tier(t) = IF t = SECRET THEN 0 ELSE IF t = PII THEN 1 ELSE 2
          <6>1. PII # SECRET
            BY DEF PII, SECRET
          <6>2. QED
            BY <6>1 DEF Tier
        <5>2. QED
          BY <3>2, <5>1
      <4>2. t \in Labels(rules)
        BY <4>1 DEF TokenVocab, Builtin, Labels
      <4>3. S \in SUBSET Nat /\ S # {}
        <5>1. \E i \in 1 .. n : rules[i].label = t
          BY <4>2, LabelsAre
        <5>2. QED
          BY <5>1
      <4>4. Min(S) \in S
        <5> HIDE DEF S
        <5> QED BY <4>3, MinIs
      <4>5. first(t) = Min(S)
        BY <3>2
      <4> HIDE DEF S, first
      <4>6. QED
        BY <4>3, <4>4, <4>5
    <3>3. QED
      BY <3>1, <3>2
  <2> HIDE DEF first
  <2> DEFINE tiers == {Tier(t) : t \in tokens}
  <2>3. tiers \in SUBSET Nat /\ tiers # {}
    BY <1>2, <2>1
  <2>4. PICK r \in tiers : \A q \in tiers : r <= q
    <3> HIDE DEF tiers
    <3> QED BY <2>3, LeastNumber
  <2> DEFINE top == {t \in tokens : Tier(t) = r}
             firsts == {first(t) : t \in top}
  <2>5. firsts \in SUBSET Nat /\ firsts # {}
    BY <2>2, <2>4
  <2>6. PICK s \in firsts : \A q \in firsts : s <= q
    <3> HIDE DEF firsts
    <3> QED BY <2>5, LeastNumber
  <2>7. PICK t \in tokens : Tier(t) = r /\ first(t) = s
    BY <2>6
  <2>8. Best(t)
    <3>1. ASSUME NEW u \in tokens PROVE before(rank(t), rank(u))
      <4>1. Tier(u) \in tiers /\ r <= Tier(u) /\ Tier(t) = r /\ Tier(t) \in 0 .. 2 /\ Tier(u) \in 0 .. 2
        BY <2>1, <2>4, <2>7
      <4>2. CASE Tier(u) = r
        <5>1. first(u) \in firsts
          BY <4>2
        <5>2. first(t) <= first(u)
          BY <2>6, <2>7, <5>1
        <5>3. QED
          BY <4>1, <4>2, <5>2
      <4>3. CASE Tier(u) # r
        BY <4>1, <4>3
      <4>4. QED
        BY <4>2, <4>3
    <3>2. QED
      BY <3>1
  <2>9. PreferToken(tokens, rules) = CHOOSE w \in tokens : Best(w)
    BY <1>2 DEF PreferToken, first
  <2> HIDE DEF Best
  <2>10. (CHOOSE w \in tokens : Best(w)) \in tokens
    BY <2>7, <2>8
  <2>11. QED
    BY <2>9, <2>10
<1>3. QED
  BY <1>1, <1>2

\* ExpandLeft goes no further right.
LEMMA ExpandLeftIs ==
  ASSUME NEW text, NEW at \in Nat
  PROVE  ExpandLeft(text, at) \in 0 .. at
<1> DEFINE S == {k \in 0 .. at : \A j \in (k + 1) .. at : text[j] \in Letters}
<1>1. S \in SUBSET Nat /\ at \in S /\ \A k \in S : k \in 0 .. at
  OBVIOUS
<1>2. Min(S) \in S
  <2> HIDE DEF S
  <2> QED BY <1>1, MinIs
<1>3. ExpandLeft(text, at) = Min(S)
  BY DEF ExpandLeft
<1> HIDE DEF S
<1>4. QED
  BY <1>1, <1>2, <1>3

\* A token's symbols, each with the same offset.
LEMMA TaggedIs ==
  ASSUME NEW what \in Seq(Symbol), NEW from, NEW T, from \in T
  PROVE  /\ Tagged(what, from) \in Seq([is : Symbol, at : T]) /\ Len(Tagged(what, from)) = Len(what)
         /\ \A i \in 1 .. Len(what) : Tagged(what, from)[i].is = what[i] /\ Tagged(what, from)[i].at = from
<1> DEFINE n == Len(what)
<1>1. n \in Nat /\ DOMAIN what = 1 .. n /\ \A i \in 1 .. n : what[i] \in Symbol
  OBVIOUS
<1>2. Tagged(what, from) = [k \in 1 .. n |-> [is |-> what[k], at |-> from]]
  BY <1>1 DEF Tagged
<1> DEFINE f == [k \in 1 .. n |-> [is |-> what[k], at |-> from]]
<1> HIDE DEF n
<1>3. \A i \in 1 .. n : f[i] = [is |-> what[i], at |-> from] /\ f[i] \in [is : Symbol, at : T]
  BY <1>1
<1>4. f \in [1 .. n -> [is : Symbol, at : T]]
  BY <1>3
<1>5. f \in Seq([is : Symbol, at : T]) /\ Len(f) = n
  BY <1>1, <1>4
<1>6. QED
  BY <1>2, <1>3, <1>5 DEF n

\* The symbols of a text that is shown of m symbols: each its own, or of a token.
SpotsOf(m) == [is : Symbol, at : {NoOffset} \cup 0 .. (m - 1)]

\* A token's symbols are such.
LEMMA TaggedSpots ==
  ASSUME NEW what \in Seq(Symbol), NEW m, NEW from, from \in {NoOffset} \cup 0 .. (m - 1)
  PROVE  /\ Tagged(what, from) \in Seq(SpotsOf(m)) /\ Len(Tagged(what, from)) = Len(what)
         /\ \A i \in 1 .. Len(what) : Tagged(what, from)[i].at = from
<1> DEFINE T == {NoOffset} \cup 0 .. (m - 1)
<1>1. from \in T
  OBVIOUS
<1>2. SpotsOf(m) = [is : Symbol, at : T]
  BY Zenon DEF SpotsOf
<1> HIDE DEF T
<1>3. /\ Tagged(what, from) \in Seq([is : Symbol, at : T]) /\ Len(Tagged(what, from)) = Len(what)
      /\ \A i \in 1 .. Len(what) : Tagged(what, from)[i].at = from
  BY <1>1, TaggedIs, Zenon
<1>4. QED
  BY <1>2, <1>3, Zenon

\* A span of a detector, or of the belt, as apply takes it.
Piece(a, b, c, t) == [span |-> Span(a, b), cls |-> c, token |-> t]

\* Such spans with the tokens they may have.
Pieces(spans, m, tokens) == \A s \in spans : \E a, b \in 0 .. m, c \in Classes \cup {"unclassified"}, t \in tokens : s = Piece(a, b, c, t)

\* What a masked text shows is of none of the spans.
Apart(masked, spans, m) == \A k \in Shown(masked) : k \in 0 .. (m - 1) /\ k \notin Offsets({s.span : s \in spans})

\* Nothing that a span covers is shown in what apply makes of the spans.
LEMMA ApplyShows ==
  ASSUME NEW text \in Seq(Symbol), NEW m \in Nat, Len(text) = m,
         NEW rules, NEW n \in Nat, Len(rules) = n, DOMAIN rules = 1 .. n, TokenVocab(rules) \subseteq Seq(Symbol),
         NEW spans, Pieces(spans, m, TokenVocab(rules))
  PROVE  Apart(Apply(text, spans, rules), spans, m)
<1> DEFINE wide(s) == [s EXCEPT !.span.start = IF s.token = PII THEN ExpandLeft(text, @) ELSE @]
           pieces == {wide(s) : s \in spans}
           covered == Offsets({p.span : p \in pieces})
           starts == {k \in covered : (k - 1) \notin covered}
           region(k) == Span(k, Min({e \in (k + 1) .. (Len(text) + 1) : e \notin covered}))
           token(k) == PreferToken({p.token : p \in {q \in pieces : Meets(q.span, region(k))}}, rules)
           shown(k) == IF k \in starts THEN Tagged(token(k), NoOffset)
                       ELSE IF k \in covered THEN <<>> ELSE Tagged(<<text[k + 1]>>, k)
           s == [k \in 1 .. m |-> shown(k - 1)]
           R == SpotsOf(m)
<1>1. Apply(text, spans, rules) = FlattenSeq(s)
  BY Zenon DEF Apply
<1>2. ASSUME NEW q \in spans
      PROVE  /\ wide(q).token = q.token /\ q.token \in TokenVocab(rules)
             /\ \A k \in q.span.start .. (q.span.end - 1) : k \in wide(q).span.start .. (wide(q).span.end - 1)
  <2>1. PICK a \in 0 .. m, b \in 0 .. m, c \in Classes \cup {"unclassified"}, t \in TokenVocab(rules) : q = Piece(a, b, c, t)
    BY DEF Pieces
  <2> DEFINE l == IF q.token = PII THEN ExpandLeft(text, a) ELSE a
  <2>2. l \in 0 .. a
    <3>1. ExpandLeft(text, a) \in 0 .. a
      BY ExpandLeftIs
    <3>2. QED
      BY <3>1
  <2>3. q.token = t /\ q.span = Span(a, b) /\ q.span.start = a /\ q.span.end = b
    BY <2>1 DEF Piece, Span
  <2>4. wide(q).token = t /\ wide(q).span.start = l /\ wide(q).span.end = b
    BY <2>1 DEF Piece, Span
  <2> HIDE DEF l, wide
  <2>5. \A k \in a .. (b - 1) : k \in l .. (b - 1)
    BY <2>2
  <2>6. QED
    BY <2>3, <2>4, <2>5
<1>3. \A k \in Offsets({q.span : q \in spans}) : k \in covered
  <2>1. ASSUME NEW k \in Offsets({q.span : q \in spans}) PROVE k \in covered
    <3>1. PICK q \in spans : k \in q.span.start .. (q.span.end - 1)
      BY <2>1 DEF Offsets
    <3>2. k \in wide(q).span.start .. (wide(q).span.end - 1)
      BY <1>2, <3>1
    <3>3. wide(q).span \in {p.span : p \in pieces}
      OBVIOUS
    <3> HIDE DEF wide, pieces
    <3>4. QED
      BY <3>2, <3>3, InOffsets
  <2>2. QED
    BY <2>1
<1>4. ASSUME NEW k \in 0 .. (m - 1) PROVE token(k) \in Seq(Symbol)
  <2> DEFINE tokens == {p.token : p \in {q \in pieces : Meets(q.span, region(k))}}
  <2>1. tokens \subseteq TokenVocab(rules)
    <3>1. \A p \in pieces : p.token \in TokenVocab(rules)
      <4> HIDE DEF wide
      <4> QED BY <1>2
    <3>2. QED
      BY <3>1
  <2> HIDE DEF tokens
  <2>2. PreferToken(tokens, rules) \in tokens \cup {<<>>}
    BY <2>1, PreferTokenIs
  <2>3. PreferToken(tokens, rules) \in Seq(Symbol)
    <3> DEFINE chosen == PreferToken(tokens, rules)
    <3>1. chosen \in tokens \/ chosen = <<>>
      BY <2>2
    <3> HIDE DEF chosen
    <3>2. chosen \in Seq(Symbol)
      <4>1. <<>> \in Seq(Symbol)
        OBVIOUS
      <4>2. QED
        BY <2>1, <3>1, <4>1
    <3>3. QED
      BY <3>2 DEF chosen
  <2>4. QED
    BY <2>3 DEF tokens
<1> HIDE DEF token, covered, starts
<1>5. ASSUME NEW k \in 0 .. (m - 1)
      PROVE  /\ shown(k) \in Seq(R)
             /\ \A i \in 1 .. Len(shown(k)) : shown(k)[i].at # NoOffset => shown(k)[i].at = k /\ k \notin covered
  <2>1. CASE k \in starts
    <3> DEFINE out == Tagged(token(k), NoOffset)
    <3>0. token(k) \in Seq(Symbol) /\ NoOffset \in {NoOffset} \cup 0 .. (m - 1)
      BY <1>4, Zenon
    <3>1. /\ out \in Seq(R) /\ Len(out) = Len(token(k))
          /\ \A i \in 1 .. Len(token(k)) : out[i].at = NoOffset
      BY <3>0, TaggedSpots, Zenon
    <3>2. shown(k) = out
      BY <2>1
    <3> HIDE DEF out, R
    <3>3. QED
      BY <3>1, <3>2
  <2>2. CASE k \notin starts /\ k \in covered
    <3>1. shown(k) = <<>> /\ Len(<<>>) = 0 /\ <<>> \in Seq(R)
      BY <2>2
    <3> DEFINE out == shown(k)
    <3>2. out \in Seq(R) /\ Len(out) = 0
      BY <3>1
    <3> HIDE DEF R, out
    <3>3. \A i \in 1 .. Len(out) : FALSE
      BY <3>2
    <3>4. QED
      BY <3>2, <3>3 DEF out
  <2>3. CASE k \notin starts /\ k \notin covered
    <3> DEFINE one == <<text[k + 1]>>
               out == Tagged(one, k)
    <3>1. one \in Seq(Symbol) /\ k \in {NoOffset} \cup 0 .. (m - 1)
      OBVIOUS
    <3> HIDE DEF one
    <3>2. /\ out \in Seq(R) /\ Len(out) = Len(one)
          /\ \A i \in 1 .. Len(one) : out[i].at = k
      BY <3>1, TaggedSpots, Zenon
    <3>3. shown(k) = out
      BY <2>3 DEF one
    <3> HIDE DEF out, R
    <3>4. QED
      BY <2>3, <3>2, <3>3
  <2>4. QED
    BY <2>1, <2>2, <2>3
<1> HIDE DEF shown
<1>6. CASE m = 0
  <2>1. s = <<>>
    BY <1>6
  <2>2. FlattenSeq(s) = <<>>
    BY <2>1 DEF FlattenSeq
  <2>3. Shown(FlattenSeq(s)) = {}
    BY <2>2 DEF Shown
  <2>4. QED
    BY <1>1, <2>3 DEF Apart
<1>7. CASE m # 0
  <2>1. Len(s) = m /\ \A k \in 1 .. m : s[k] = shown(k - 1) /\ s[k] \in Seq(R) /\ k - 1 \in 0 .. (m - 1)
    <3>1. \A k \in 1 .. m : s[k] = shown(k - 1) /\ k - 1 \in 0 .. (m - 1)
      OBVIOUS
    <3>2. Len(s) = m
      OBVIOUS
    <3> HIDE DEF s, R
    <3>3. QED
      BY <1>5, <3>1, <3>2
  <2> HIDE DEF s, R
  <2> DEFINE flat == FlattenSeq(s)
  <2>2. m \in Nat \ {0} /\ \A k \in 1 .. m : s[k] \in Seq(R)
    BY <1>7, <2>1
  <2>3. flat \in Seq(R) /\ \E C : Laid(flat, s, C, m)
    BY <2>1, <2>2, FlatParts
  <2>4. PICK C : Laid(flat, s, C, m)
    BY <2>3
  <2> HIDE DEF flat
  <2>5. ASSUME NEW q \in DOMAIN flat, flat[q].at # NoOffset
        PROVE  flat[q].at \in 0 .. (m - 1) /\ flat[q].at \notin covered
    <3>1. q \in 1 .. Len(flat)
      BY <2>3
    <3>2. PICK k \in 1 .. m : \E i \in 1 .. Len(s[k]) : q = C[k - 1] + i
      BY <2>4, <3>1 DEF Laid
    <3>3. PICK i \in 1 .. Len(s[k]) : q = C[k - 1] + i
      BY <3>2
    <3>4. flat[q] = s[k][i]
      BY <2>4, <3>3 DEF Laid
    <3>5. i \in 1 .. Len(shown(k - 1)) /\ shown(k - 1)[i].at # NoOffset /\ k - 1 \in 0 .. (m - 1)
      BY <2>1, <2>5, <3>4
    <3>6. shown(k - 1)[i].at = k - 1 /\ k - 1 \notin covered
      BY <1>5, <3>5
    <3>7. QED
      BY <2>1, <3>4, <3>5, <3>6
  <2>6. \A k \in Shown(flat) : k \in 0 .. (m - 1) /\ k \notin covered
    BY <2>5 DEF Shown
  <2>7. QED
    BY <1>1, <1>3, <2>6 DEF Apart, flat
<1>8. QED
  BY <1>6, <1>7

-----------------------------------------------------------------------------
(* Patterns, and the field when the belt decides.                          *)

\* Matches of a pattern of f symbols: each has its symbols, and they do not overlap.
Finds(matches, text, finds, f, m) ==
  /\ \A a \in matches : \E k \in 0 .. (m - f) : a = Span(k, k + f) /\ \A i \in 1 .. f : text[k + i] = finds[i]
  /\ \A a, b \in matches : a.start < b.start => a.end <= b.start

\* Matches of a pattern have its symbols, and none overlaps another.
LEMMA MatchesAre ==
  ASSUME NEW text \in Seq(Symbol), NEW m \in Nat, Len(text) = m,
         NEW rule, rule.finds \in Seq(Symbol), NEW f \in Nat \ {0}, Len(rule.finds) = f
  PROVE  Finds(MatchesOf(rule, text), text, rule.finds, f, m)
<1> DEFINE hits == {k \in 0 .. (m - f) : StartsWith(text, rule.finds, k)}
           Free(g, k) == k \in hits /\ \A j \in 0 .. (k - 1) : g[j] => j + f <= k
           Up(k) == \E g : g = [i \in 0 .. k |-> Free(g, i)]
           taken == CHOOSE g : g = [i \in 0 .. m |-> Free(g, i)]
<1>1. MatchesOf(rule, text) = {Span(k, k + f) : k \in {j \in hits : taken[j]}}
  BY DEF MatchesOf
<1>2. Up(0)
  <2> DEFINE g == [i \in 0 .. 0 |-> i \in hits]
  <2>1. ASSUME NEW i \in 0 .. 0 PROVE Free(g, i) <=> i \in hits
    <3>1. \A j \in 0 .. (i - 1) : FALSE
      OBVIOUS
    <3> HIDE DEF g, hits
    <3>2. QED
      BY <3>1
  <2>2. g = [i \in 0 .. 0 |-> Free(g, i)]
    <3> HIDE DEF hits
    <3>1. QED
      BY <2>1
  <2>3. QED
    BY <2>2
<1> HIDE DEF hits
<1>3. ASSUME NEW k \in 0 .. (m - 1), Up(k) PROVE Up(k + 1)
  <2>1. PICK g : g = [i \in 0 .. k |-> Free(g, i)]
    BY <1>3
  <2> DEFINE h == [i \in 0 .. (k + 1) |-> IF i = k + 1 THEN Free(g, i) ELSE g[i]]
  <2>2. (\A i \in 0 .. k : g[i] = Free(g, i)) /\ \A i \in 0 .. (k + 1) : h[i] = IF i = k + 1 THEN Free(g, i) ELSE g[i]
    BY <2>1
  <2>3. h = [i \in 0 .. (k + 1) |-> h[i]]
    OBVIOUS
  <2> HIDE DEF h
  <2>4. ASSUME NEW i \in 0 .. (k + 1) PROVE h[i] = Free(h, i)
    <3>1. \A j \in 0 .. (i - 1) : j \in 0 .. (k + 1) /\ j # k + 1
      OBVIOUS
    <3>2. \A j \in 0 .. (i - 1) : h[j] = g[j]
      BY <2>2, <3>1
    <3>3. Free(h, i) = Free(g, i)
      BY <3>2
    <3>4. i = k + 1 \/ i \in 0 .. k
      OBVIOUS
    <3>5. h[i] = Free(g, i)
      <4>1. CASE i = k + 1
        BY <2>2, <4>1
      <4>2. CASE i \in 0 .. k
        <5>1. i # k + 1
          BY <4>2
        <5>2. QED
          BY <2>2, <4>2, <5>1
      <4>3. QED
        BY <3>4, <4>1, <4>2
    <3>6. QED
      BY <3>3, <3>5
  <2>5. h = [i \in 0 .. (k + 1) |-> Free(h, i)]
    <3> HIDE DEF Free
    <3> QED BY <2>3, <2>4
  <2>6. QED
    BY <2>5
<1>4. Up(m)
  <2> DEFINE U == {k \in 0 .. m : Up(k)}
  <2> HIDE DEF Up
  <2>1. 0 \in U /\ \A i \in 0 .. (m - 1) : i \in U => i + 1 \in U
    BY <1>2, <1>3
  <2>2. \A i \in 0 .. m : i \in U
    <3> HIDE DEF U
    <3> QED BY <2>1, UpTo
  <2>3. QED
    BY <2>2
<1>5. taken = [i \in 0 .. m |-> Free(taken, i)]
  <2> DEFINE Fixed(g) == g = [i \in 0 .. m |-> Free(g, i)]
  <2>1. \E g : Fixed(g)
    BY <1>4
  <2>2. taken = CHOOSE g : Fixed(g)
    OBVIOUS
  <2> HIDE DEF Fixed, taken
  <2>3. Fixed(taken)
    BY <2>1, <2>2, Zenon
  <2>4. QED
    BY <2>3 DEF Fixed
<1> HIDE DEF taken
<1>6. \A k \in 0 .. m : taken[k] = Free(taken, k)
  BY <1>5
<1>7. \A k \in hits : k \in 0 .. (m - f) /\ k \in 0 .. m /\ \A i \in 1 .. f : text[k + i] = rule.finds[i]
  <2>1. ASSUME NEW k \in hits PROVE k \in 0 .. (m - f) /\ k \in 0 .. m /\ \A i \in 1 .. f : text[k + i] = rule.finds[i]
    <3>1. k \in 0 .. (m - f) /\ StartsWith(text, rule.finds, k)
      BY DEF hits
    <3>2. k \in 0 .. m /\ k \in Nat /\ k + f \in Nat /\ k <= k + f /\ k + f <= m /\ (k + f) - k = f
      BY <3>1
    <3> DEFINE e == k + f
    <3>3. Slice(text, k, e) = rule.finds
      BY <3>1 DEF StartsWith
    <3>4. k \in Nat /\ e \in Nat /\ k <= e /\ e <= Len(text) /\ e - k = f
      BY <3>2
    <3> HIDE DEF e
    <3>5. PartOf(Slice(text, k, e), text, k, e)
      BY <3>4, SliceIsPart
    <3>6. QED
      BY <3>1, <3>2, <3>3, <3>4, <3>5 DEF PartOf
  <2>2. QED
    BY <2>1
<1>8. ASSUME NEW a \in MatchesOf(rule, text)
      PROVE  \E k \in 0 .. (m - f) : a = Span(k, k + f) /\ \A i \in 1 .. f : text[k + i] = rule.finds[i]
  BY <1>1, <1>7
<1>9. ASSUME NEW a \in MatchesOf(rule, text), NEW b \in MatchesOf(rule, text), a.start < b.start PROVE a.end <= b.start
  <2>1. PICK j \in hits : taken[j] /\ a = Span(j, j + f)
    BY <1>1
  <2>2. PICK k \in hits : taken[k] /\ b = Span(k, k + f)
    BY <1>1
  <2>3. a.start = j /\ a.end = j + f /\ b.start = k
    BY <2>1, <2>2, SpanIs
  <2>4. j \in 0 .. (k - 1)
    BY <1>7, <1>9, <2>3
  <2>5. j + f <= k
    BY <1>6, <1>7, <2>1, <2>2, <2>4
  <2>6. QED
    BY <2>3, <2>5
<1>10. QED
  BY <1>8, <1>9 DEF Finds

\* Rules as a sequence of patterns, each with a label that is a word.
RulesTyped(rules, n) ==
  /\ Len(rules) = n /\ DOMAIN rules = 1 .. n
  /\ \A i \in 1 .. n : /\ rules[i].finds \in Seq(Symbol) /\ Len(rules[i].finds) \in Nat \ {0}
                       /\ rules[i].label \in TokenVocab(rules)

\* What detectCustomPatterns gives: spans within the field, of class custom.
CustomAs(custom, m, tokens) == Pieces(custom.spans, m, tokens) /\ \A s \in custom.spans : s.cls = "custom"

\* What the patterns find is within the field.
LEMMA DetectCustomIs ==
  ASSUME NEW text \in Seq(Symbol), NEW m \in Nat, Len(text) = m, NEW rules, NEW n \in Nat, RulesTyped(rules, n)
  PROVE  CustomAs(DetectCustom(text, rules), m, TokenVocab(rules))
<1> DEFINE Step(rule, done) ==
             LET matches == MatchesOf(rule, text)
             IN  IF done.whole # <<>> THEN done
                 ELSE IF Cardinality(matches) > MaxMatches THEN [done EXCEPT !.whole = rule.label]
                 ELSE [done EXCEPT !.spans = @ \cup {[span |-> x, cls |-> "custom", token |-> rule.label] : x \in matches}]
           first == [whole |-> <<>>, spans |-> {}]
           Next1(g, i) == IF i = 0 THEN first ELSE Step(rules[i], g[i - 1])
           Up(k) == \E g : g = [i \in 0 .. k |-> Next1(g, i)]
           done == CHOOSE g : g = [i \in 0 .. n |-> Next1(g, i)]
           tokens == TokenVocab(rules)
           Typed(d) == \E w : \E sp : d = [whole |-> w, spans |-> sp] /\ CustomAs(d, m, tokens)
<1>1. DetectCustom(text, rules) = done[n]
  <2>1. Len(rules) = n
    BY DEF RulesTyped
  <2>2. QED
    BY <2>1, Zenon DEF DetectCustom
<1>2. \A i \in 1 .. n : /\ rules[i].finds \in Seq(Symbol) /\ Len(rules[i].finds) \in Nat \ {0}
                        /\ rules[i].label \in tokens
  BY DEF RulesTyped
<1>3. ASSUME NEW i \in 1 .. n, NEW d, Typed(d) PROVE Typed(Step(rules[i], d))
  <2>1. PICK w, sp : d = [whole |-> w, spans |-> sp]
    BY <1>3
  <2> DEFINE rule == rules[i]
             matches == MatchesOf(rule, text)
             more == {[span |-> x, cls |-> "custom", token |-> rule.label] : x \in matches}
  <2>2. CASE d.whole # <<>>
    BY <1>3, <2>2
  <2>3. CASE d.whole = <<>> /\ Cardinality(matches) > MaxMatches
    <3>1. Step(rule, d) = [d EXCEPT !.whole = rule.label]
      BY <2>3
    <3>2. Step(rule, d) = [whole |-> rule.label, spans |-> sp]
      BY <2>1, <3>1
    <3>3. Step(rule, d).spans = d.spans
      BY <2>1, <3>2
    <3> HIDE DEF Step
    <3>4. CustomAs(Step(rule, d), m, tokens)
      BY <1>3, <3>3 DEF CustomAs
    <3>5. QED
      BY <3>2, <3>4
  <2>4. CASE d.whole = <<>> /\ ~ (Cardinality(matches) > MaxMatches)
    <3>1. Step(rule, d) = [d EXCEPT !.spans = @ \cup more]
      BY <2>4
    <3>2. Step(rule, d) = [whole |-> w, spans |-> sp \cup more] /\ d.spans = sp
      BY <2>1, <3>1
    <3>3. CustomAs(d, m, tokens)
      BY <1>3
    <3>4. ASSUME NEW s \in more PROVE s.cls = "custom" /\ \E a, b \in 0 .. m, c \in Classes \cup {"unclassified"}, t \in tokens : s = Piece(a, b, c, t)
      <4>1. PICK x \in matches : s = [span |-> x, cls |-> "custom", token |-> rule.label]
        BY <3>4
      <4> DEFINE f == Len(rule.finds)
      <4>2. f \in Nat \ {0} /\ rule.finds \in Seq(Symbol)
        BY <1>2
      <4>3. Finds(matches, text, rule.finds, f, m)
        <5>1. f = Len(rule.finds)
          OBVIOUS
        <5> HIDE DEF f, rule
        <5>2. QED
          BY <4>2, <5>1, MatchesAre
      <4> HIDE DEF f
      <4>4. PICK k \in 0 .. (m - f) : x = Span(k, k + f)
        BY <4>3 DEF Finds
      <4>5. k \in 0 .. m /\ k + f \in 0 .. m
        BY <4>2
      <4>6. "custom" \in Classes \cup {"unclassified"} /\ rule.label \in tokens
        BY <1>2 DEF Classes
      <4>7. s = Piece(k, k + f, "custom", rule.label) /\ s.cls = "custom"
        BY <4>1, <4>4 DEF Piece
      <4> HIDE DEF rule, tokens
      <4>8. QED
        BY <4>5, <4>6, <4>7
    <3> DEFINE out == Step(rule, d)
    <3>5. out.spans = d.spans \cup more
      BY <3>2
    <3>6. out = [whole |-> w, spans |-> sp \cup more]
      BY <3>2
    <3> HIDE DEF out, more, tokens
    <3>7. CustomAs(out, m, tokens)
      BY <3>3, <3>4, <3>5 DEF CustomAs, Pieces
    <3>8. Typed(out)
      BY <3>6, <3>7
    <3>9. QED
      BY <3>8 DEF out
  <2>5. QED
    BY <2>2, <2>3, <2>4
<1>4. Typed(first)
  <2>1. CustomAs(first, m, tokens)
    BY DEF CustomAs, Pieces
  <2>2. QED
    BY <2>1
<1> HIDE DEF Step, first, Typed
<1>5. Up(0)
  <2> DEFINE g == [i \in 0 .. 0 |-> first]
  <2>1. g = [i \in 0 .. 0 |-> Next1(g, i)]
    OBVIOUS
  <2>2. QED
    BY <2>1
<1>6. ASSUME NEW k \in 0 .. (n - 1), Up(k) PROVE Up(k + 1)
  <2>1. PICK g : g = [i \in 0 .. k |-> Next1(g, i)]
    BY <1>6
  <2> DEFINE h == [i \in 0 .. (k + 1) |-> IF i = k + 1 THEN Next1(g, i) ELSE g[i]]
  <2>2. (\A i \in 0 .. k : g[i] = Next1(g, i)) /\ \A i \in 0 .. (k + 1) : h[i] = IF i = k + 1 THEN Next1(g, i) ELSE g[i]
    BY <2>1
  <2>3. h = [i \in 0 .. (k + 1) |-> h[i]]
    OBVIOUS
  <2> HIDE DEF h
  <2>4. ASSUME NEW i \in 0 .. (k + 1) PROVE h[i] = Next1(h, i)
    <3>1. i = 0 \/ (i # 0 /\ i - 1 \in 0 .. (k + 1) /\ i - 1 # k + 1)
      OBVIOUS
    <3>2. Next1(h, i) = Next1(g, i)
      <4>1. CASE i = 0
        BY <4>1
      <4>2. CASE i - 1 \in 0 .. (k + 1) /\ i - 1 # k + 1
        <5>1. h[i - 1] = g[i - 1]
          BY <2>2, <4>2
        <5>2. QED
          BY <5>1
      <4>3. QED
        BY <3>1, <4>1, <4>2
    <3>3. i = k + 1 \/ (i \in 0 .. k /\ i # k + 1)
      OBVIOUS
    <3> HIDE DEF Next1
    <3>4. h[i] = Next1(g, i)
      BY <2>2, <3>3
    <3>5. QED
      BY <3>2, <3>4
  <2> HIDE DEF Next1
  <2>5. h = [i \in 0 .. (k + 1) |-> Next1(h, i)]
    BY <2>3, <2>4
  <2>6. QED
    BY <2>5
<1>7. Up(n)
  <2> DEFINE U == {k \in 0 .. n : Up(k)}
  <2> HIDE DEF Up
  <2>1. 0 \in U /\ \A i \in 0 .. (n - 1) : i \in U => i + 1 \in U
    BY <1>5, <1>6
  <2>2. \A i \in 0 .. n : i \in U
    <3> HIDE DEF U
    <3> QED BY <2>1, UpTo
  <2>3. QED
    BY <2>2
<1>8. done = [i \in 0 .. n |-> Next1(done, i)]
  <2> DEFINE Fixed(g) == g = [i \in 0 .. n |-> Next1(g, i)]
  <2>1. \E g : Fixed(g)
    BY <1>7
  <2>2. done = CHOOSE g : Fixed(g)
    OBVIOUS
  <2> HIDE DEF Fixed, done
  <2>3. Fixed(done)
    BY <2>1, <2>2, Zenon
  <2>4. QED
    BY <2>3 DEF Fixed
<1> HIDE DEF done
<1>9. \A i \in 0 .. n : done[i] = Next1(done, i)
  BY <1>8
<1> DEFINE V == {i \in 0 .. n : Typed(done[i])}
<1>10. 0 \in V /\ \A i \in 0 .. (n - 1) : i \in V => i + 1 \in V
  <2>1. 0 \in 0 .. n /\ done[0] = first
    BY <1>9
  <2>2. ASSUME NEW i \in 0 .. (n - 1), i \in V PROVE i + 1 \in V
    <3>1. i + 1 \in 1 .. n /\ i + 1 \in 0 .. n /\ i + 1 # 0 /\ (i + 1) - 1 = i
      OBVIOUS
    <3>2. done[i + 1] = Step(rules[i + 1], done[i])
      BY <1>9, <3>1
    <3>3. QED
      BY <1>3, <2>2, <3>1, <3>2
  <2>3. QED
    BY <1>4, <2>1, <2>2
<1>11. n \in V
  <2> HIDE DEF V
  <2>1. \A i \in 0 .. n : i \in V
    BY <1>10, UpTo
  <2>2. QED
    BY <2>1
<1>12. QED
  BY <1>1, <1>11 DEF Typed

\* What the belt adds covers all of its spans that the core leaves.
Added(core, belt, m, tokens) ==
  /\ Pieces(BeltOnly(core, belt), m, tokens)
  /\ \A k \in Offsets(belt) : k \in Offsets({c.span : c \in core}) \/ k \in Offsets({s.span : s \in BeltOnly(core, belt)})

\* What the belt adds to the core's spans leaves none of its own out.
LEMMA BeltOnlyIs ==
  ASSUME NEW m \in Nat, NEW core, NEW belt, SpansIn(belt, m), NEW tokens, PII \in tokens
  PROVE  Added(core, belt, m, tokens)
<1> DEFINE gaps == Offsets(belt) \ Offsets({c.span : c \in core})
           top == Max(gaps)
           stops(k) == {e \in (k + 1) .. (top + 1) : e \notin gaps}
           starts == {g \in gaps : (g - 1) \notin gaps}
           added(k) == [span |-> Span(k, Min(stops(k))), cls |-> "unclassified", token |-> PII]
           to == BeltOnly(core, belt)
<1>1. to = {added(k) : k \in starts}
  BY DEF BeltOnly
<1>2. gaps \in SUBSET (0 .. m) /\ \A k \in gaps : k \in 0 .. (m - 1)
  <2>1. ASSUME NEW k \in gaps PROVE k \in 0 .. (m - 1) /\ k \in 0 .. m
    <3>1. k \in Offsets(belt)
      BY <2>1
    <3>2. PICK sp \in belt : k \in sp.start .. (sp.end - 1)
      BY <3>1, OffsetsIn
    <3>3. sp.start \in 0 .. m /\ sp.end \in 0 .. m
      BY DEF SpansIn
    <3>4. QED
      BY <3>2, <3>3
  <2> HIDE DEF gaps
  <2>2. QED
    BY <2>1
<1>3. \A k \in Offsets(belt) : k \in gaps \/ k \in Offsets({c.span : c \in core})
  OBVIOUS
<1> HIDE DEF gaps
<1>4. ASSUME NEW k \in starts
      PROVE  /\ k \in 0 .. (m - 1) /\ Min(stops(k)) \in 0 .. m /\ k < Min(stops(k)) /\ Min(stops(k)) \notin gaps
  <2>1. k \in gaps
    OBVIOUS
  <2>2. top \in gaps /\ \A j \in gaps : j <= top
    BY <1>2, <2>1, MaxIs
  <2> HIDE DEF top
  <2>3. k \in 0 .. (m - 1) /\ top \in 0 .. (m - 1) /\ k <= top
    BY <1>2, <2>1, <2>2
  <2>4. top + 1 \in stops(k)
    <3>1. top + 1 \notin gaps
      BY <2>2, <2>3
    <3>2. top + 1 \in (k + 1) .. (top + 1)
      BY <2>3
    <3>3. QED
      BY <3>1, <3>2
  <2>5. stops(k) \in SUBSET Nat /\ stops(k) # {} /\ \A e \in stops(k) : e \in (k + 1) .. (top + 1) /\ e \notin gaps
    <3>1. \A e \in (k + 1) .. (top + 1) : e \in Nat
      BY <2>3
    <3>2. QED
      BY <2>4, <3>1
  <2>6. Min(stops(k)) \in stops(k)
    <3> HIDE DEF stops
    <3> QED BY <2>5, MinIs
  <2> DEFINE stop == Min(stops(k))
  <2>7. stop \in (k + 1) .. (top + 1) /\ stop \notin gaps
    BY <2>5, <2>6
  <2> HIDE DEF stop
  <2>8. k \in 0 .. (m - 1) /\ stop \in 0 .. m /\ k < stop /\ stop \notin gaps
    BY <2>3, <2>7
  <2>9. QED
    BY <2>8 DEF stop
<1>5. Pieces(to, m, tokens)
  <2>1. ASSUME NEW s \in to PROVE \E a, b \in 0 .. m, c \in Classes \cup {"unclassified"}, t \in tokens : s = Piece(a, b, c, t)
    <3>1. PICK k \in starts : s = added(k)
      BY <1>1, <2>1
    <3>2. s = Piece(k, Min(stops(k)), "unclassified", PII)
      BY <3>1 DEF Piece
    <3>3. k \in 0 .. (m - 1) /\ Min(stops(k)) \in 0 .. m
      BY <1>4
    <3>4. k \in 0 .. m
      BY <3>3
    <3> HIDE DEF stops, starts
    <3>5. QED
      BY <3>2, <3>3, <3>4
  <2>2. QED
    BY <2>1 DEF Pieces
<1>6. ASSUME NEW k \in gaps PROVE k \in Offsets({s.span : s \in to})
  <2> DEFINE runs == {x \in 0 .. k : \A y \in x .. k : y \in gaps}
  <2>0. k \in 0 .. (m - 1)
    BY <1>2
  <2>1. runs \in SUBSET Nat /\ k \in runs
    <3>1. \A x \in 0 .. k : x \in Nat
      OBVIOUS
    <3>2. k \in 0 .. k /\ \A y \in k .. k : y = k
      BY <2>0
    <3>3. QED
      BY <1>6, <3>1, <3>2
  <2>2. PICK x \in runs : \A y \in runs : x <= y
    BY <2>1, LeastNumber
  <2>3. x \in 0 .. k /\ \A y \in x .. k : y \in gaps
    BY <2>2
  <2>4. x - 1 \notin gaps
    <3>1. ASSUME x - 1 \in gaps PROVE FALSE
      <4>1. x - 1 \in 0 .. k
        BY <1>2, <2>0, <2>3, <3>1
      <4>2. \A y \in (x - 1) .. k : y = x - 1 \/ y \in x .. k
        BY <2>0, <2>3
      <4>3. x - 1 \in runs
        BY <2>3, <3>1, <4>1, <4>2
      <4>4. x <= x - 1
        BY <2>2, <4>3
      <4>5. QED
        BY <2>0, <2>3, <4>4
    <3>2. QED
      BY <3>1
  <2>5. x \in starts
    <3>1. x \in x .. k
      BY <2>0, <2>3
    <3>2. QED
      BY <2>3, <2>4, <3>1
  <2> DEFINE stop == Min(stops(x))
  <2>6. stop \in 0 .. m /\ x < stop /\ stop \notin gaps
    <3> HIDE DEF starts, stops
    <3> QED BY <1>4, <2>5
  <2>7. added(x) \in to /\ added(x).span = Span(x, stop)
    BY <1>1, <2>5
  <2> HIDE DEF stop, starts, to, added
  <2>8. k < stop
    <3>1. ~ (stop \in x .. k)
      BY <2>3, <2>6
    <3>2. QED
      BY <2>0, <2>3, <2>6, <3>1
  <2>9. k \in Span(x, stop).start .. (Span(x, stop).end - 1)
    <3>1. k \in x .. (stop - 1)
      BY <2>0, <2>3, <2>6, <2>8
    <3>2. QED
      BY <3>1 DEF Span
  <2>10. Span(x, stop) \in {s.span : s \in to}
    BY <2>7
  <2>11. QED
    BY <2>9, <2>10, InOffsets
<1>7. QED
  BY <1>3, <1>5, <1>6 DEF Added

\* A belt that decides covers what the old masker took away, save blanks and labels.
BeltCovers(belt, text, old, m) ==
  /\ SpansIn(belt.spans, m)
  /\ \A k \in 0 .. (m - 1) : k \in Shown(old) \/ text[k + 1] \in Blank \/ k \in Offsets(belt.spans) \/ Labelled(text, m, k)

\* Nothing is shown.
Whole(masked) == Shown(masked) = {}

\* A token for a whole field shows nothing of it.
LEMMA WholeShowsNothing ==
  ASSUME NEW what PROVE Whole(Tagged(what, NoOffset))
BY DEF Whole, Shown, Tagged

\* What the masked field shows when the belt decides.
LEMMA FieldHolds ==
  ASSUME NEW m \in Nat, Len(source) = m, source \in Seq(Symbol),
         NEW rules, NEW n \in Nat, RulesTyped(rules, n), TokenVocab(rules) \subseteq Seq(Symbol), CoreTokens \subseteq Builtin,
         NEW belt, NEW old,
         belt.ok /\ belt.whole = <<>> /\ Len(source) <= ScanCap => BeltCovers(belt, source, old, m),
         ScanCap \in Nat,
         NEW custom, CustomAs(custom, m, TokenVocab(rules))
  PROVE  FieldCovered(belt, custom, rules, Shown(old))
<1> DEFINE tokens == TokenVocab(rules)
<1>1. ASSUME NEW detected \in Detected
      PROVE  /\ Pieces(detected, m, tokens)
             /\ \A d \in detected : d.cls \in Classes
  <2>1. CASE detected = {}
    BY <2>1 DEF Pieces
  <2>2. CASE detected # {}
    <3>1. PICK t \in CoreTokens, a \in 0 .. (m - 1), b \in 1 .. m : detected = {Piece(a, b, "found", t)}
      BY <2>2 DEF Detected, Piece
    <3>2. a \in 0 .. m /\ b \in 0 .. m /\ "found" \in Classes /\ t \in tokens
      BY DEF Classes, TokenVocab
    <3>3. Piece(a, b, "found", t).cls = "found"
      BY DEF Piece
    <3> HIDE DEF tokens
    <3>4. Pieces(detected, m, tokens)
      BY <3>1, <3>2 DEF Pieces
    <3>5. QED
      BY <3>1, <3>2, <3>3, <3>4
  <2>3. QED
    BY <2>1, <2>2
<1>2. ASSUME NEW detected \in Detected, NEW only \in {Classes, Classes \ {"found"}}
      PROVE  LET shown == Shown(MaskField(source, belt, rules, detected, custom, only))
                 applied == {c \in detected \cup custom.spans : c.cls \in only}
                 passed == Offsets({c.span : c \in {d \in detected : d.cls \notin only}})
                 label(k) == \E j \in (k + 2) .. Len(source) :
                               source[j] = ":" /\ \A i \in (k + 2) .. (j - 1) : source[i] = "space"
             IN  /\ shown \cap Offsets({c.span : c \in applied}) = {}
                 /\ \A k \in shown \ (Shown(old) \cup passed) : source[k + 1] \in Blank \/ label(k)
  <2> DEFINE core == detected \cup custom.spans
             wholes == {custom.whole, belt.whole} \ {<<>>}
             applied == {c \in core : c.cls \in only}
             added == BeltOnly(core, belt.spans)
             masked == MaskField(source, belt, rules, detected, custom, only)
             passed == Offsets({c.span : c \in {d \in detected : d.cls \notin only}})
             label(k) == \E j \in (k + 2) .. Len(source) :
                           source[j] = ":" /\ \A i \in (k + 2) .. (j - 1) : source[i] = "space"
  <2>1. masked = IF Len(source) > ScanCap \/ ~belt.ok THEN Tagged(PII, NoOffset)
                 ELSE IF wholes # {} THEN Tagged(PreferToken(wholes, rules), NoOffset)
                 ELSE Apply(source, applied \cup added, rules)
    BY DEF MaskField
  <2>2. CASE Len(source) > ScanCap \/ ~belt.ok \/ wholes # {}
    <3>1. Shown(masked) = {}
      <4>1. Whole(Tagged(PII, NoOffset)) /\ Whole(Tagged(PreferToken(wholes, rules), NoOffset))
        BY WholeShowsNothing
      <4> HIDE DEF wholes, applied, added, masked
      <4>2. QED
        BY <2>1, <2>2, <4>1 DEF Whole
    <3> HIDE DEF masked
    <3>2. QED
      BY <3>1 DEF masked
  <2>3. CASE ~ (Len(source) > ScanCap) /\ belt.ok /\ wholes = {}
    <3>1. masked = Apply(source, applied \cup added, rules)
      <4> HIDE DEF applied, added, wholes, masked
      <4> QED BY <2>1, <2>3
    <3>2. belt.whole = <<>>
      BY <2>3
    <3>3. BeltCovers(belt, source, old, m)
      BY <2>3, <3>2
    <3>4. Added(core, belt.spans, m, tokens)
      <4>1. SpansIn(belt.spans, m) /\ PII \in tokens
        BY <3>3 DEF BeltCovers, TokenVocab, Builtin
      <4> HIDE DEF core, tokens
      <4>2. QED
        BY <4>1, BeltOnlyIs
    <3>5. Pieces(applied \cup added, m, tokens)
      <4>1. Pieces(detected, m, tokens) /\ Pieces(custom.spans, m, tokens) /\ Pieces(added, m, tokens)
        BY <1>1, <3>4 DEF Added, CustomAs
      <4> HIDE DEF tokens, added
      <4>2. QED
        BY <4>1 DEF Pieces
    <3>6. Apart(masked, applied \cup added, m)
      <4>1. Len(rules) = n /\ DOMAIN rules = 1 .. n
        BY DEF RulesTyped
      <4> HIDE DEF applied, added, masked
      <4>2. Apart(Apply(source, applied \cup added, rules), applied \cup added, m)
        BY <3>5, <4>1, ApplyShows
      <4>3. QED
        BY <3>1, <4>2
    <3>7. ASSUME NEW k \in Shown(masked)
          PROVE  /\ k \in 0 .. (m - 1) /\ k \notin Offsets({s.span : s \in applied}) /\ k \notin Offsets({s.span : s \in added})
      <4>1. k \in 0 .. (m - 1) /\ k \notin Offsets({s.span : s \in applied \cup added})
        BY <3>6 DEF Apart
      <4> HIDE DEF applied, added, masked
      <4>2. QED
        BY <4>1 DEF Offsets
    <3>8. ASSUME NEW k \in Shown(masked), k \notin Shown(old), k \notin passed, source[k + 1] \notin Blank PROVE label(k)
      <4>1. k \in 0 .. (m - 1)
        BY <3>7
      <4>2. k \in Offsets(belt.spans) \/ Labelled(source, m, k)
        BY <3>3, <3>8, <4>1 DEF BeltCovers
      <4>3. CASE Labelled(source, m, k)
        BY <4>3 DEF Labelled
      <4>4. CASE k \in Offsets(belt.spans)
        <5>1. k \in Offsets({c.span : c \in core}) \/ k \in Offsets({s.span : s \in added})
          BY <3>4, <4>4 DEF Added
        <5>2. k \in Offsets({c.span : c \in core})
          <6> HIDE DEF core, added, masked, applied
          <6> QED BY <3>7, <5>1
        <5>3. PICK c \in core : k \in c.span.start .. (c.span.end - 1)
          BY <5>2 DEF Offsets
        <5>4. CASE c.cls \in only
          <6>1. c \in applied
            BY <5>4
          <6>2. c.span \in {s.span : s \in applied}
            BY <6>1
          <6> HIDE DEF applied, core, added, masked
          <6>3. k \in Offsets({s.span : s \in applied})
            BY <5>3, <6>2, InOffsets
          <6>4. QED
            BY <3>7, <6>3
        <5>5. CASE c.cls \notin only
          <6>1. c \in detected
            <7>1. "custom" \in only
              BY DEF Classes
            <7>2. c \notin custom.spans
              BY <5>5, <7>1 DEF CustomAs
            <7>3. QED
              BY <7>2
          <6>2. c.span \in {d.span : d \in {e \in detected : e.cls \notin only}}
            BY <5>5, <6>1
          <6>3. k \in passed
            BY <5>3, <6>2, InOffsets
          <6>4. QED
            BY <3>8, <6>3
        <5>6. QED
          BY <5>4, <5>5
      <4>5. QED
        BY <4>2, <4>3, <4>4
    <3>9. Shown(masked) \cap Offsets({c.span : c \in applied}) = {}
      <4> HIDE DEF masked, applied, added
      <4> QED BY <3>7
    <3> HIDE DEF masked, passed, label
    <3>10. \A k \in Shown(masked) \ (Shown(old) \cup passed) : source[k + 1] \in Blank \/ label(k)
      BY <3>8
    <3>11. QED
      BY <3>9, <3>10 DEF masked, passed, label
  <2>4. QED
    BY <2>2, <2>3
<1>3. QED
  BY <1>2 DEF FieldCovered

\* A text of the old masker's whose every symbol is where it should be.
Masked(text, old, tokens) ==
  /\ DOMAIN old = 1 .. Len(old) /\ Traced(text, old, tokens)
  /\ TokensWhole(old) /\ RestsShown(text, old, tokens)

\* When the belt decides, its spans cover what was taken away.
LEMMA CoverHolds ==
  ASSUME NEW text, NEW m \in Nat, Len(text) = m, ScanCap \in Nat, NEW tokens, TokensAreWords(tokens), SECRET \in tokens,
         NEW stepped, stepped.ok /\ stepped.whole = <<>> => Masked(text, stepped.text, tokens),
         NEW belt, belt = CoverFrom(text, stepped, tokens)
  PROVE  /\ belt.ok /\ belt.whole = <<>> /\ Len(text) <= ScanCap => BeltCovers(belt, text, stepped.text, m)
         /\ stepped.ok /\ stepped.whole = <<>> => belt.ok
<1> DEFINE aligned == Align(text, Symbols(stepped.text), tokens)
           out == DropLabels(text, Trimmed(text, aligned.spans))
<1>1. belt = IF Len(text) > ScanCap THEN [ok |-> TRUE, spans |-> {}, whole |-> PII]
             ELSE IF ~stepped.ok \/ ~aligned.ok THEN [ok |-> FALSE, spans |-> {}, whole |-> <<>>]
             ELSE IF stepped.whole # <<>> THEN [ok |-> TRUE, spans |-> {}, whole |-> stepped.whole]
             ELSE [ok |-> TRUE, whole |-> <<>>, spans |-> out]
  BY DEF CoverFrom, CoverStepped
<1>2. ASSUME stepped.ok, stepped.whole = <<>> PROVE CoversHidden(aligned, text, stepped.text, m) /\ text \in Seq(Symbol)
  <2>1. Masked(text, stepped.text, tokens)
    BY <1>2
  <2> DEFINE old == stepped.text
  <2>2. /\ DOMAIN old = 1 .. Len(old) /\ Traced(text, old, tokens)
        /\ TokensWhole(old) /\ RestsShown(text, old, tokens)
    BY <2>1 DEF Masked
  <2> HIDE DEF old
  <2>3. CoversHidden(Align(text, Symbols(old), tokens), text, old, Len(text))
    BY <2>2, AlignCovers
  <2>4. text \in Seq(Symbol)
    BY <2>2 DEF Traced
  <2>5. QED
    BY <2>3, <2>4 DEF old
<1> HIDE DEF aligned, out
<1>3. ASSUME belt.ok, belt.whole = <<>>, Len(text) <= ScanCap PROVE BeltCovers(belt, text, stepped.text, m)
  <2>1. ~ (Len(text) > ScanCap)
    BY <1>3
  <2>2. stepped.ok /\ aligned.ok
    BY <1>1, <1>3, <2>1
  <2>3. stepped.whole = <<>>
    BY <1>1, <1>3, <2>1, <2>2
  <2>4. belt.spans = out
    BY <1>1, <2>1, <2>2, <2>3
  <2>5. CoversHidden(aligned, text, stepped.text, m) /\ text \in Seq(Symbol)
    BY <1>2, <2>2, <2>3
  <2>6. SpansIn(aligned.spans, m)
    BY <2>5 DEF CoversHidden
  <2>7. Narrowed(text, aligned.spans, out, m)
    BY <2>5, <2>6, TrimmedKeeps DEF out
  <2>8. SpansIn(out, m)
    BY <2>7 DEF Narrowed
  <2>9. ASSUME NEW k \in 0 .. (m - 1)
        PROVE  k \in Shown(stepped.text) \/ text[k + 1] \in Blank \/ k \in Offsets(out) \/ Labelled(text, m, k)
    <3>1. k \in Shown(stepped.text) \/ text[k + 1] \in Blank \/ k \in Offsets(aligned.spans)
      BY <2>5 DEF CoversHidden
    <3>2. QED
      BY <2>7, <3>1 DEF Narrowed
  <2>10. QED
    BY <2>4, <2>8, <2>9 DEF BeltCovers
<1>4. ASSUME stepped.ok, stepped.whole = <<>> PROVE belt.ok
  <2>1. aligned.ok
    BY <1>2, <1>4 DEF CoversHidden
  <2>2. CASE Len(text) > ScanCap
    BY <1>1, <2>2
  <2>3. CASE ~ (Len(text) > ScanCap)
    BY <1>1, <1>4, <2>1, <2>3
  <2>4. QED
    BY <2>2, <2>3
<1>5. QED
  BY <1>3, <1>4

-----------------------------------------------------------------------------
(* applyRules: matches become labels, and the text stays traced.           *)

\* A symbol of a label.
Hid(c) == [is |-> c, at |-> NoOffset]

\* Where the symbols of a text are once matches of it became labels: what is at
\* offset k goes after offset C[k].  Each symbol that no match covers is kept where it goes, and a match
\* becomes the label, whose two symbols are in its place.
Fitted(new, old, n, label, covered, starts, C) ==
  /\ \A k \in 0 .. n : C[k] \in Nat
  /\ C[0] = 0 /\ C[n] = Len(new)
  /\ \A j, k \in 0 .. n : j <= k => C[j] <= C[k]
  /\ \A k \in 0 .. (n - 1) : k \notin covered => C[k + 1] = C[k] + 1 /\ new[C[k] + 1] = old[k + 1]
  /\ \A k \in starts : C[k + 1] = C[k] + 2 /\ new[C[k] + 1] = Hid(label[1]) /\ new[C[k] + 2] = Hid(label[2])
  /\ \A k \in covered : k \notin starts => C[k + 1] = C[k]
  /\ \A q \in 1 .. Len(new) : \E k \in 0 .. (n - 1) : \/ k \notin covered /\ q = C[k] + 1
                                                      \/ k \in starts /\ (q = C[k] + 1 \/ q = C[k] + 2)

\* A sequence of one part, or none, and of another.
OnlyFirst(a, c) == Len(c) = Len(a) /\ \A i \in 1 .. Len(a) : c[i] = a[i]

\* An empty part adds nothing.
LEMMA WithNothing ==
  ASSUME NEW S, NEW a \in Seq(S)
  PROVE  a \o <<>> = a /\ <<>> \o a = a
OBVIOUS

\* Replace puts labels in for matches so.
LEMMA ReplaceFits ==
  ASSUME NEW T, NoOffset \in T, NEW old \in Seq([is : Symbol, at : T]), NEW n \in Nat, Len(old) = n,
         NEW label \in Seq(Symbol), Len(label) = 2,
         NEW matches, NEW covered, covered = Offsets(matches), NEW starts, starts = {a.start : a \in matches},
         covered \subseteq 0 .. (n - 1), starts \subseteq covered
  PROVE  /\ Replace(old, matches, label) \in Seq([is : Symbol, at : T])
         /\ \E C : Fitted(Replace(old, matches, label), old, n, label, covered, starts, C)
<1> DEFINE R == [is : Symbol, at : T]
           put == Tagged(label, NoOffset)
           part(k) == (IF k \in starts THEN put ELSE <<>>)
                      \o (IF k < n /\ k \notin covered THEN <<old[k + 1]>> ELSE <<>>)
           s == [k \in 1 .. (n + 1) |-> part(k - 1)]
           new == FlattenSeq(s)
<1>1. Replace(old, matches, label) = new
  BY DEF Replace
<1>2. put \in Seq(R) /\ Len(put) = 2 /\ put[1] = Hid(label[1]) /\ put[2] = Hid(label[2])
  <2>1. put \in Seq(R) /\ Len(put) = 2
    BY TaggedIs
  <2>2. DOMAIN label = 1 .. 2
    OBVIOUS
  <2>3. put = [k \in 1 .. 2 |-> [is |-> label[k], at |-> NoOffset]]
    BY <2>2 DEF Tagged
  <2>4. put[1] = Hid(label[1]) /\ put[2] = Hid(label[2])
    BY <2>3 DEF Hid
  <2>5. QED
    BY <2>1, <2>4
<1>3. \A k \in 0 .. (n - 1) : old[k + 1] \in R
  <2> HIDE DEF R
  <2>1. \A k \in 0 .. (n - 1) : k + 1 \in 1 .. Len(old)
    OBVIOUS
  <2>2. old \in Seq(R)
    BY DEF R
  <2>3. QED
    BY <2>1, <2>2
<1> HIDE DEF put, R
<1>4. ASSUME NEW k \in starts PROVE part(k) = put
  <2>1. k \in covered
    OBVIOUS
  <2>2. part(k) = put \o <<>>
    BY <1>4, <2>1
  <2>3. put \o <<>> = put
    BY <1>2, WithNothing
  <2>4. QED
    BY <2>2, <2>3
<1>5. ASSUME NEW k \in 0 .. (n - 1), k \notin covered PROVE part(k) = <<old[k + 1]>>
  <2>1. k \notin starts /\ k < n
    BY <1>5
  <2>2. part(k) = <<>> \o <<old[k + 1]>>
    BY <1>5, <2>1
  <2>3. <<old[k + 1]>> \in Seq(R)
    BY <1>3
  <2>4. <<>> \o <<old[k + 1]>> = <<old[k + 1]>>
    BY <2>3, WithNothing
  <2>5. QED
    BY <2>2, <2>4
<1>6. ASSUME NEW k, k = n \/ (k \in covered /\ k \notin starts) PROVE part(k) = <<>>
  <2>0. n \notin 0 .. (n - 1) /\ ~ (n < n)
    OBVIOUS
  <2>1. k \notin starts /\ ~ (k < n /\ k \notin covered)
    <3>1. CASE k = n
      <4>1. n \notin starts
        BY <2>0
      <4>2. QED
        BY <2>0, <3>1, <4>1
    <3>2. CASE k \in covered /\ k \notin starts
      BY <3>2
    <3>3. QED
      BY <1>6, <3>1, <3>2
  <2>2. part(k) = <<>> \o <<>>
    BY <2>1
  <2>3. <<>> \in Seq(R)
    OBVIOUS
  <2>4. <<>> \o <<>> = <<>>
    BY <2>3, WithNothing
  <2>5. QED
    BY <2>2, <2>4
<1> HIDE DEF part
<1>7. \A k \in 0 .. n : k \in starts \/ (k \in 0 .. (n - 1) /\ k \notin covered) \/ k = n \/ (k \in covered /\ k \notin starts)
  OBVIOUS
<1>8. \A k \in 0 .. n : part(k) \in Seq(R)
  <2>1. ASSUME NEW k \in 0 .. (n - 1) PROVE <<old[k + 1]>> \in Seq(R)
    BY <1>3
  <2>2. <<>> \in Seq(R)
    OBVIOUS
  <2>3. QED
    BY <1>2, <1>4, <1>5, <1>6, <1>7, <2>1, <2>2
<1>9. /\ n + 1 \in Nat \ {0} /\ Len(s) = n + 1 /\ \A k \in 1 .. (n + 1) : s[k] = part(k - 1) /\ k - 1 \in 0 .. n
      /\ \A k \in 0 .. n : s[k + 1] = part(k) /\ k + 1 \in 1 .. (n + 1) /\ (k + 1) - 1 = k
  <2>1. \A k \in 1 .. (n + 1) : s[k] = part(k - 1) /\ k - 1 \in 0 .. n
    OBVIOUS
  <2>2. ASSUME NEW k \in 0 .. n PROVE s[k + 1] = part(k) /\ k + 1 \in 1 .. (n + 1) /\ (k + 1) - 1 = k
    <3>1. k + 1 \in 1 .. (n + 1) /\ (k + 1) - 1 = k
      OBVIOUS
    <3> HIDE DEF s
    <3>2. QED
      BY <2>1, <3>1
  <2>3. Len(s) = n + 1 /\ n + 1 \in Nat \ {0}
    OBVIOUS
  <2> HIDE DEF s
  <2>4. QED
    BY <2>1, <2>2, <2>3
<1> HIDE DEF s
<1>10. \A k \in 1 .. (n + 1) : s[k] \in Seq(R)
  BY <1>8, <1>9
<1>11. new \in Seq(R) /\ \E C : Laid(new, s, C, n + 1)
  <2> DEFINE e == n + 1
  <2>1. e \in Nat \ {0} /\ Len(s) = e /\ \A k \in 1 .. e : s[k] \in Seq(R)
    BY <1>9, <1>10
  <2> HIDE DEF e
  <2>2. new \in Seq(R) /\ \E C : Laid(new, s, C, e)
    BY <2>1, FlatParts
  <2>3. QED
    BY <2>2 DEF e
<1>12. PICK C : Laid(new, s, C, n + 1)
  BY <1>11
<1> HIDE DEF new
<1>13. /\ \A k \in 0 .. (n + 1) : C[k] \in Nat
       /\ C[0] = 0 /\ C[n + 1] = Len(new)
       /\ \A k \in 1 .. (n + 1) : C[k] = C[k - 1] + Len(s[k])
       /\ \A k \in 1 .. (n + 1) : \A i \in 1 .. Len(s[k]) : new[C[k - 1] + i] = s[k][i]
       /\ \A j, k \in 0 .. (n + 1) : j <= k => C[j] <= C[k]
       /\ \A q \in 1 .. Len(new) : \E k \in 1 .. (n + 1) : \E i \in 1 .. Len(s[k]) : q = C[k - 1] + i
  BY <1>12 DEF Laid
<1>14. /\ \A k \in 0 .. n : C[k + 1] = C[k] + Len(part(k))
       /\ \A k \in 0 .. n : \A i \in 1 .. Len(part(k)) : new[C[k] + i] = part(k)[i]
       /\ \A q \in 1 .. Len(new) : \E k \in 0 .. n : \E i \in 1 .. Len(part(k)) : q = C[k] + i
  <2>1. ASSUME NEW k \in 0 .. n
        PROVE  C[k + 1] = C[k] + Len(part(k)) /\ \A i \in 1 .. Len(part(k)) : new[C[k] + i] = part(k)[i]
    <3>1. s[k + 1] = part(k) /\ k + 1 \in 1 .. (n + 1) /\ (k + 1) - 1 = k
      BY <1>9
    <3> DEFINE l == k + 1
    <3>2. l \in 1 .. (n + 1) /\ s[l] = part(k) /\ l - 1 = k
      BY <3>1
    <3> HIDE DEF l
    <3>3. C[l] = C[k] + Len(part(k)) /\ \A i \in 1 .. Len(part(k)) : new[C[k] + i] = part(k)[i]
      <4>1. C[l] = C[l - 1] + Len(s[l]) /\ \A i \in 1 .. Len(s[l]) : new[C[l - 1] + i] = s[l][i]
        BY <1>13, <3>2, Zenon
      <4>2. QED
        BY <3>2, <4>1, Zenon
    <3>4. QED
      BY <3>3 DEF l
  <2>2. ASSUME NEW q \in 1 .. Len(new) PROVE \E k \in 0 .. n : \E i \in 1 .. Len(part(k)) : q = C[k] + i
    <3>1. PICK k \in 1 .. (n + 1) : \E i \in 1 .. Len(s[k]) : q = C[k - 1] + i
      BY <1>13
    <3>2. s[k] = part(k - 1) /\ k - 1 \in 0 .. n
      BY <1>9
    <3>3. QED
      BY <3>1, <3>2
  <2>3. QED
    BY <2>1, <2>2
<1>15. /\ \A k \in 0 .. n : C[k] \in Nat
       /\ \A j, k \in 0 .. n : j <= k => C[j] <= C[k]
  <2>1. \A k \in 0 .. n : k \in 0 .. (n + 1)
    OBVIOUS
  <2>2. QED
    BY <1>13, <2>1
<1>16. C[0] = 0 /\ C[n] = Len(new)
  <2>1. n \in 0 .. n /\ part(n) = <<>> /\ Len(<<>>) = 0
    BY <1>6
  <2>2. C[n + 1] = C[n] + 0 /\ C[n] \in Nat
    BY <1>14, <1>15, <2>1
  <2>3. QED
    BY <1>13, <2>2
<1>17. ASSUME NEW k \in 0 .. (n - 1), k \notin covered PROVE C[k + 1] = C[k] + 1 /\ new[C[k] + 1] = old[k + 1]
  <2>1. k \in 0 .. n /\ part(k) = <<old[k + 1]>>
    BY <1>5, <1>17
  <2> DEFINE one == <<old[k + 1]>>
  <2>2. Len(one) = 1 /\ one[1] = old[k + 1] /\ 1 \in 1 .. 1 /\ part(k) = one
    BY <2>1
  <2> HIDE DEF one
  <2>3. QED
    BY <1>14, <2>1, <2>2
<1>18. ASSUME NEW k \in starts
       PROVE  C[k + 1] = C[k] + 2 /\ new[C[k] + 1] = Hid(label[1]) /\ new[C[k] + 2] = Hid(label[2])
  <2>1. k \in 0 .. n /\ part(k) = put /\ 1 \in 1 .. 2 /\ 2 \in 1 .. 2
    BY <1>4, <1>18
  <2>2. QED
    BY <1>2, <1>14, <2>1
<1>19. ASSUME NEW k \in covered, k \notin starts PROVE C[k + 1] = C[k]
  <2>1. k \in 0 .. n /\ part(k) = <<>> /\ Len(<<>>) = 0
    BY <1>6, <1>19
  <2>2. C[k + 1] = C[k] + 0 /\ C[k] \in Nat
    BY <1>14, <1>15, <2>1
  <2>3. QED
    BY <2>2
<1>20. ASSUME NEW q \in 1 .. Len(new)
       PROVE  \E k \in 0 .. (n - 1) : \/ k \notin covered /\ q = C[k] + 1
                                      \/ k \in starts /\ (q = C[k] + 1 \/ q = C[k] + 2)
  <2>1. PICK k \in 0 .. n : \E i \in 1 .. Len(part(k)) : q = C[k] + i
    BY <1>14
  <2>2. PICK i \in 1 .. Len(part(k)) : q = C[k] + i
    BY <2>1
  <2>3. part(k) # <<>>
    BY <2>2
  <2>4. k \in starts \/ (k \in 0 .. (n - 1) /\ k \notin covered)
    BY <1>6, <1>7, <2>3
  <2>5. CASE k \in starts
    <3>1. part(k) = put
      BY <1>4, <2>5
    <3>2. i \in 1 .. 2 /\ k \in 0 .. (n - 1)
      BY <1>2, <2>2, <2>5, <3>1
    <3>3. i = 1 \/ i = 2
      BY <3>2
    <3>4. QED
      BY <2>2, <2>5, <3>2, <3>3
  <2>6. CASE k \in 0 .. (n - 1) /\ k \notin covered
    <3>1. part(k) = <<old[k + 1]>> /\ Len(<<old[k + 1]>>) = 1
      BY <1>5, <2>6
    <3>2. i = 1
      BY <2>2, <3>1
    <3>3. QED
      BY <2>2, <2>6, <3>2
  <2>7. QED
    BY <2>4, <2>5, <2>6
<1>21. Fitted(new, old, n, label, covered, starts, C)
  BY <1>15, <1>16, <1>17, <1>18, <1>19, <1>20 DEF Fitted
<1>22. QED
  BY <1>1, <1>11, <1>21 DEF R

\* What matches may take of a text, and how they lie: no blank, no part of a mark
\* and no token, and each is a run of its own.
Marks == Blank \cup {"label", "title", ":"}

\* The symbol after the bracket of a token.
Rest(c, tokens) == <<"[", c>> \in tokens

\* The offsets that matches cover, and where the matches start.
Taking(old, n, tokens, covered, starts) ==
  /\ covered \subseteq 0 .. (n - 1) /\ starts \subseteq covered
  /\ \A k \in covered : old[k + 1].is \notin Marks /\ ~Rest(old[k + 1].is, tokens)
  /\ \A k \in covered : k \notin starts => k - 1 \in covered
  /\ \A k \in 1 .. n : k - 1 \in covered => \E s \in starts : s < k /\ \A j \in (s + 1) .. (k - 1) : j \in covered /\ j \notin starts
  /\ \A i \in 1 .. (n - 1) : StandsAt(old, i, tokens) => i - 1 \notin covered /\ i \notin covered

\* What a pattern with words in it matches is such.
LEMMA TakingHolds ==
  ASSUME NEW old, NEW n \in Nat, Len(old) = n, NEW output, Len(output) = n, \A i \in 1 .. n : output[i] = old[i].is,
         NEW tokens, NEW finds, NEW f \in Nat \ {0}, \A i \in 1 .. f : finds[i] \notin Marks /\ ~Rest(finds[i], tokens),
         NEW matches, Finds(matches, output, finds, f, n),
         \A a \in matches, k \in At(output, tokens) : ~Meets(a, Span(k, k + 2)),
         NEW covered, covered = Offsets(matches), NEW starts, starts = {a.start : a \in matches}
  PROVE  Taking(old, n, tokens, covered, starts)
<1>1. ASSUME NEW a \in matches
      PROVE  /\ a.start \in 0 .. (n - f) /\ a.end = a.start + f /\ a.start \in 0 .. (n - 1) /\ a.end \in 0 .. n
             /\ \A i \in 1 .. f : output[a.start + i] = finds[i]
  <2>1. PICK k \in 0 .. (n - f) : a = Span(k, k + f) /\ \A i \in 1 .. f : output[k + i] = finds[i]
    BY DEF Finds
  <2>2. a.start = k /\ a.end = k + f
    BY <2>1, SpanIs
  <2>3. k \in 0 .. (n - 1) /\ k + f \in 0 .. n
    OBVIOUS
  <2>4. QED
    BY <2>1, <2>2, <2>3
<1>2. ASSUME NEW k \in covered
      PROVE  \E a \in matches : k \in a.start .. (a.end - 1)
  BY OffsetsIn
<1>3. ASSUME NEW a \in matches, NEW k \in a.start .. (a.end - 1) PROVE k \in covered
  BY InOffsets
<1>4. covered \subseteq 0 .. (n - 1)
  <2>1. ASSUME NEW k \in covered PROVE k \in 0 .. (n - 1)
    <3>1. PICK a \in matches : k \in a.start .. (a.end - 1)
      BY <1>2
    <3> DEFINE s == a.start
               e == a.end
    <3>2. s \in 0 .. (n - 1) /\ e \in 0 .. n /\ k \in s .. (e - 1)
      BY <1>1, <3>1
    <3> HIDE DEF s, e
    <3>3. QED
      BY <3>2
  <2>2. QED
    BY <2>1
<1>5. ASSUME NEW a \in matches PROVE a.start \in a.start .. (a.end - 1)
  <2> DEFINE s == a.start
             e == a.end
  <2>1. s \in 0 .. (n - 1) /\ e = s + f
    BY <1>1
  <2> HIDE DEF s, e
  <2>2. s \in s .. (e - 1)
    BY <2>1
  <2>3. QED
    BY <2>2 DEF s, e
<1>6. starts \subseteq covered
  BY <1>3, <1>5
<1>7. ASSUME NEW k \in covered PROVE old[k + 1].is \notin Marks /\ ~Rest(old[k + 1].is, tokens)
  <2>1. PICK a \in matches : k \in a.start .. (a.end - 1)
    BY <1>2
  <2> DEFINE s == a.start
             e == a.end
  <2>2. s \in 0 .. (n - 1) /\ e = s + f /\ k \in s .. (e - 1) /\ \A i \in 1 .. f : output[s + i] = finds[i]
    BY <1>1, <2>1
  <2>3. k \in 0 .. (n - 1)
    BY <1>4
  <2> HIDE DEF s, e
  <2> DEFINE i == (k + 1) - s
  <2>4. i \in 1 .. f /\ s + i = k + 1 /\ k + 1 \in 1 .. n
    BY <2>2, <2>3
  <2> HIDE DEF i
  <2>5. old[k + 1].is = finds[i]
    BY <2>2, <2>4
  <2>6. QED
    BY <2>4, <2>5
<1>8. ASSUME NEW k \in covered, k \notin starts PROVE k - 1 \in covered
  <2>1. PICK a \in matches : k \in a.start .. (a.end - 1)
    BY <1>2
  <2>2. k # a.start
    BY <1>8
  <2> DEFINE s == a.start
             e == a.end
  <2>3. s \in 0 .. (n - 1) /\ e \in 0 .. n /\ k \in s .. (e - 1) /\ k # s
    BY <1>1, <2>1, <2>2
  <2> HIDE DEF s, e
  <2>4. k - 1 \in s .. (e - 1)
    BY <2>3
  <2>5. QED
    BY <1>3, <2>4 DEF s, e
<1>9. ASSUME NEW k \in 1 .. n, k - 1 \in covered
      PROVE  \E s \in starts : s < k /\ \A j \in (s + 1) .. (k - 1) : j \in covered /\ j \notin starts
  <2>1. PICK a \in matches : k - 1 \in a.start .. (a.end - 1)
    BY <1>2, <1>9
  <2> DEFINE s == a.start
             e == a.end
  <2>2. s \in 0 .. (n - 1) /\ e \in 0 .. n /\ k - 1 \in s .. (e - 1) /\ s \in starts
    BY <1>1, <2>1
  <2>3. ASSUME NEW j \in (s + 1) .. (k - 1) PROVE j \in covered /\ j \notin starts
    <3>1. j \in s .. (e - 1) /\ s < j /\ ~ (e <= j)
      <4> HIDE DEF s, e
      <4> QED BY <2>2
    <3>2. j \in covered
      BY <1>3, <3>1
    <3>3. ASSUME NEW b \in matches, b.start = j PROVE FALSE
      <4>1. a.end <= b.start
        BY <3>1, <3>3 DEF Finds
      <4>2. QED
        BY <3>1, <3>3, <4>1
    <3>4. QED
      BY <3>2, <3>3
  <2>4. s < k
    <3> HIDE DEF s, e
    <3> QED BY <2>2
  <2> HIDE DEF s, e
  <2>5. QED
    BY <2>2, <2>3, <2>4
<1>10. ASSUME NEW i \in 1 .. (n - 1), StandsAt(old, i, tokens) PROVE i - 1 \notin covered /\ i \notin covered
  <2>1. i - 1 \in At(output, tokens)
    BY <1>10, StandsAtIs
  <2>2. ASSUME NEW k \in {i - 1, i}, k \in covered PROVE FALSE
    <3>1. PICK a \in matches : k \in a.start .. (a.end - 1)
      BY <1>2, <2>2
    <3> DEFINE s == a.start
               e == a.end
    <3>2. s \in 0 .. (n - 1) /\ e \in 0 .. n /\ k \in s .. (e - 1)
      BY <1>1, <3>1
    <3>3. ~Meets(a, Span(i - 1, (i - 1) + 2))
      BY <2>1
    <3>4. ~ (s < (i - 1) + 2 /\ i - 1 < e)
      BY <3>3 DEF Meets, Span
    <3> HIDE DEF s, e
    <3>5. QED
      BY <3>2, <3>4
  <2>3. QED
    BY <2>2
<1>11. QED
  BY <1>4, <1>6, <1>7, <1>8, <1>9, <1>10 DEF Taking

\* What comes before what was at offset k: a symbol that stays, or a label.
LEMMA BeforeIs ==
  ASSUME NEW old, NEW n \in Nat, NEW tokens, NEW covered, NEW starts, Taking(old, n, tokens, covered, starts),
         NEW new, NEW label, NEW C, Fitted(new, old, n, label, covered, starts, C),
         NEW k \in 1 .. n
  PROVE  \/ k - 1 \notin covered /\ C[k] = C[k - 1] + 1 /\ new[C[k]] = old[k] /\ C[k - 1] \in Nat
         \/ k - 1 \in covered /\ C[k] >= 2 /\ new[C[k]] = Hid(label[2])
<1>1. /\ \A j \in 0 .. n : C[j] \in Nat
      /\ \A j \in 0 .. (n - 1) : j \notin covered => C[j + 1] = C[j] + 1 /\ new[C[j] + 1] = old[j + 1]
      /\ \A j \in starts : C[j + 1] = C[j] + 2 /\ new[C[j] + 2] = Hid(label[2])
      /\ \A j \in covered : j \notin starts => C[j + 1] = C[j]
  BY DEF Fitted
<1>2. k - 1 \in 0 .. (n - 1) /\ (k - 1) + 1 = k /\ k - 1 \in 0 .. n
  OBVIOUS
<1>3. CASE k - 1 \notin covered
  <2>1. C[k] = C[k - 1] + 1 /\ new[C[k - 1] + 1] = old[k]
    BY <1>1, <1>2, <1>3
  <2>2. QED
    BY <1>1, <1>2, <1>3, <2>1
<1>4. CASE k - 1 \in covered
  <2>1. PICK s \in starts : s < k /\ \A j \in (s + 1) .. (k - 1) : j \in covered /\ j \notin starts
    BY <1>4 DEF Taking
  <2>2. s \in 0 .. (n - 1) /\ s + 1 \in 0 .. n /\ s \in 0 .. n
    BY DEF Taking
  <2>3. C[s + 1] = C[s] + 2 /\ new[C[s] + 2] = Hid(label[2]) /\ C[s] \in Nat
    BY <1>1, <2>2
  <2> DEFINE U == {j \in (s + 1) .. k : C[j] = C[s] + 2}
  <2>4. s + 1 \in U /\ \A j \in (s + 1) .. (k - 1) : j \in U => j + 1 \in U
    <3>1. s + 1 \in (s + 1) .. k
      BY <2>1, <2>2
    <3>2. ASSUME NEW j \in (s + 1) .. (k - 1), j \in U PROVE j + 1 \in U
      <4>1. j + 1 \in (s + 1) .. k
        BY <2>2
      <4>2. C[j + 1] = C[j]
        BY <1>1, <2>1
      <4>3. QED
        BY <3>2, <4>1, <4>2
    <3>3. QED
      BY <2>3, <3>1, <3>2
  <2>5. k \in U
    <3>1. s + 1 \in Nat /\ k \in Nat /\ k \in (s + 1) .. k
      BY <2>1, <2>2
    <3> HIDE DEF U
    <3>2. \A j \in (s + 1) .. k : j \in U
      BY <2>4, <3>1, UpTo
    <3>3. QED
      BY <3>1, <3>2
  <2>6. C[k] = C[s] + 2
    BY <2>5
  <2>7. QED
    BY <1>4, <2>3, <2>6
<1>5. QED
  BY <1>3, <1>4

\* The tokens that the matches leave move whole.
MoveWhole(old, n, tokens, covered, new, l, C) ==
  \A i, some : some \subseteq tokens /\ StandsAt(old, i, some) =>
        /\ i \in 1 .. (n - 1) /\ i - 1 \notin covered /\ i \notin covered
        /\ C[i] = C[i - 1] + 1 /\ C[i - 1] \in Nat /\ new[C[i - 1] + 1] = old[i] /\ new[C[i] + 1] = old[i + 1]
        /\ C[i] + 1 <= l
        /\ StandsAt(new, C[i - 1] + 1, some)

\* A token that the matches leave is one afterwards: so of all of them.
LEMMA StandsMove ==
  ASSUME NEW old, NEW n \in Nat, Len(old) = n, NEW tokens, NEW covered, NEW starts, Taking(old, n, tokens, covered, starts),
         NEW new, NEW l \in Nat, Len(new) = l, NEW label, NEW C, Fitted(new, old, n, label, covered, starts, C)
  PROVE  MoveWhole(old, n, tokens, covered, new, l, C)
<1>1. ASSUME NEW i, NEW some, some \subseteq tokens, StandsAt(old, i, some)
      PROVE  /\ i \in 1 .. (n - 1) /\ i - 1 \notin covered /\ i \notin covered
             /\ C[i] = C[i - 1] + 1 /\ C[i - 1] \in Nat /\ new[C[i - 1] + 1] = old[i] /\ new[C[i] + 1] = old[i + 1]
             /\ C[i] + 1 <= l
             /\ StandsAt(new, C[i - 1] + 1, some)
  <2>1. i \in 1 .. (n - 1) /\ StandsAt(old, i, tokens) /\ <<old[i].is, old[i + 1].is>> \in some
    BY <1>1 DEF StandsAt
  <2>2. i - 1 \notin covered /\ i \notin covered
    BY <2>1 DEF Taking
  <2>3. i - 1 \in 0 .. (n - 1) /\ i \in 0 .. (n - 1) /\ (i - 1) + 1 = i /\ i + 1 \in 0 .. n /\ n \in 0 .. n /\ i + 1 <= n /\ i - 1 \in 0 .. n
    BY <2>1
  <2>4. /\ C[i] = C[i - 1] + 1 /\ new[C[i - 1] + 1] = old[i]
        /\ C[i + 1] = C[i] + 1 /\ new[C[i] + 1] = old[i + 1]
    BY <2>2, <2>3 DEF Fitted
  <2>5. C[i - 1] \in Nat /\ C[i + 1] <= C[n] /\ C[n] = l
    BY <2>3 DEF Fitted
  <2>6. C[i] + 1 <= l /\ C[i - 1] + 1 \in 1 .. (l - 1) /\ (C[i - 1] + 1) + 1 = C[i] + 1
    BY <2>4, <2>5
  <2>7. StandsAt(new, C[i - 1] + 1, some)
    BY <2>1, <2>4, <2>6 DEF StandsAt
  <2>8. QED
    BY <2>1, <2>2, <2>4, <2>5, <2>6, <2>7
<1>2. QED
  BY <1>1, Zenon DEF MoveWhole

\* The same of one token.
LEMMA StandsMoves ==
  ASSUME NEW old, NEW n \in Nat, Len(old) = n, NEW tokens, NEW covered, NEW starts, Taking(old, n, tokens, covered, starts),
         NEW new, NEW l \in Nat, Len(new) = l, NEW label, NEW C, Fitted(new, old, n, label, covered, starts, C),
         NEW i, NEW some, some \subseteq tokens, StandsAt(old, i, some)
  PROVE  /\ i \in 1 .. (n - 1) /\ i - 1 \notin covered /\ i \notin covered
         /\ C[i] = C[i - 1] + 1 /\ C[i - 1] \in Nat /\ new[C[i - 1] + 1] = old[i] /\ new[C[i] + 1] = old[i + 1]
         /\ C[i] + 1 <= l
         /\ StandsAt(new, C[i - 1] + 1, some)
<1>1. MoveWhole(old, n, tokens, covered, new, l, C)
  BY StandsMove
<1>2. QED
  BY <1>1, Zenon DEF MoveWhole

\* A symbol that no match takes is at C of its own index.
Stays(new, old, l, C, i) ==
  /\ C[i] = C[i - 1] + 1 /\ C[i] \in 1 .. l /\ C[i - 1] \in Nat /\ new[C[i]] = old[i]
  /\ IsKept(new, C[i]) <=> IsKept(old, i)

\* It stays there.
LEMMA StaysAt ==
  ASSUME NEW old, NEW n \in Nat, NEW covered, NEW starts,
         NEW new, NEW l \in Nat, Len(new) = l, NEW label, NEW C, Fitted(new, old, n, label, covered, starts, C),
         NEW i \in 1 .. n, i - 1 \notin covered
  PROVE  Stays(new, old, l, C, i)
<1>1. i - 1 \in 0 .. (n - 1) /\ (i - 1) + 1 = i /\ i \in 0 .. n /\ n \in 0 .. n /\ i <= n /\ i - 1 \in 0 .. n
  OBVIOUS
<1>2. C[i] = C[i - 1] + 1 /\ new[C[i - 1] + 1] = old[i]
  BY <1>1 DEF Fitted
<1>3. C[i - 1] \in Nat /\ C[i] <= C[n] /\ C[n] = l
  BY <1>1 DEF Fitted
<1>4. C[i] \in 1 .. l /\ new[C[i]] = old[i]
  BY <1>2, <1>3
<1>5. IsKept(new, C[i]) <=> IsKept(old, i)
  BY <1>4 DEF IsKept
<1>6. QED
  BY <1>2, <1>3, <1>4, <1>5 DEF Stays

\* Before a symbol that stays at C[i] = c stands no letter, if none stood there.
LEMMA NoLetterBefore ==
  ASSUME NEW old, NEW n \in Nat, NEW tokens, NEW covered, NEW starts, Taking(old, n, tokens, covered, starts),
         NEW new, NEW label, label[2] \notin Letters, NEW C, Fitted(new, old, n, label, covered, starts, C),
         NEW k \in 0 .. n, k >= 1 => old[k].is \notin Letters, C[k] >= 1
  PROVE  new[C[k]].is \notin Letters
<1>1. C[0] = 0
  BY DEF Fitted
<1>2. k # 0
  BY <1>1
<1>3. k \in 1 .. n /\ old[k].is \notin Letters
  BY <1>2
<1>4. new[C[k]] = old[k] \/ new[C[k]] = Hid(label[2])
  BY <1>3, BeforeIs
<1>5. QED
  BY <1>3, <1>4 DEF Hid

\* A space that was put in stays one.
LEMMA InsertedMoves ==
  ASSUME NEW old, NEW n \in Nat, Len(old) = n, NEW tokens, NEW covered, NEW starts, Taking(old, n, tokens, covered, starts),
         {PII} \subseteq tokens,
         NEW new, NEW l \in Nat, Len(new) = l, NEW label, label[2] \notin Letters,
         NEW C, Fitted(new, old, n, label, covered, starts, C),
         NEW i \in 1 .. n, Inserted(old, i)
  PROVE  i - 1 \notin covered /\ Inserted(new, C[i])
<1>1. \A k \in 1 .. n : old[k].is \in Marks => k - 1 \notin covered
  <2>1. \A k \in 1 .. n : (k - 1) + 1 = k
    OBVIOUS
  <2>2. QED
    BY <2>1 DEF Taking
<1>2. i - 1 \notin covered /\ old[i].is = "space"
  BY <1>1 DEF Inserted, Marks, Blank
<1>3. /\ C[i] = C[i - 1] + 1 /\ C[i] \in 1 .. l /\ C[i - 1] \in Nat /\ new[C[i]] = old[i]
  <2>1. Stays(new, old, l, C, i)
    BY <1>2, StaysAt
  <2>2. QED
    BY <2>1 DEF Stays
<1>4. StandsAt(new, C[i] + 1, {PII})
  <2>1. StandsAt(old, i + 1, {PII})
    BY DEF Inserted
  <2> DEFINE j == i + 1
  <2>2. StandsAt(old, j, {PII}) /\ j - 1 = i
    BY <2>1
  <2> HIDE DEF j
  <2>3. StandsAt(new, C[j - 1] + 1, {PII})
    BY <2>2, StandsMoves
  <2>4. QED
    BY <2>2, <2>3
<1>5. AfterMark(new, C[i])
  <2>1. CASE i >= 2 /\ old[i - 1].is = "title" /\ IsKept(old, i - 1) /\ (i >= 3 => old[i - 2].is \notin Letters)
    <3> DEFINE j == i - 1
               h == i - 2
    <3>1. j \in 1 .. n /\ j - 1 = h /\ h \in 0 .. n /\ (h >= 1 => i >= 3)
      BY <2>1
    <3>2. old[j].is = "title" /\ IsKept(old, j) /\ (h >= 1 => old[h].is \notin Letters) /\ i - 1 = j
      BY <2>1, <3>1
    <3> HIDE DEF j, h
    <3>3. j - 1 \notin covered
      BY <1>1, <3>1, <3>2 DEF Marks
    <3>4. C[j] = C[j - 1] + 1 /\ C[j] \in 1 .. l /\ C[j - 1] \in Nat /\ new[C[j]] = old[j] /\ IsKept(new, C[j])
      <4>1. Stays(new, old, l, C, j)
        BY <3>1, <3>3, StaysAt
      <4>2. QED
        BY <3>2, <4>1 DEF Stays
    <3>5. C[h] >= 1 => new[C[h]].is \notin Letters
      BY <3>1, <3>2, NoLetterBefore
    <3> DEFINE c == C[i]
    <3>6. c \in Nat /\ c - 1 = C[j] /\ c - 2 = C[h] /\ C[h] \in Nat
      BY <1>3, <3>1, <3>2, <3>4
    <3> HIDE DEF c
    <3>7. c >= 2 /\ (c >= 3 => C[h] >= 1)
      BY <3>6
    <3>8. new[c - 1].is = "title" /\ IsKept(new, c - 1) /\ (c >= 3 => new[c - 2].is \notin Letters)
      BY <3>2, <3>4, <3>5, <3>6, <3>7
    <3>9. AfterMark(new, c)
      BY <3>7, <3>8 DEF AfterMark
    <3>10. QED
      BY <3>9 DEF c
  <2>2. CASE /\ i >= 3 /\ old[i - 2].is = "label" /\ old[i - 1].is = ":" /\ IsKept(old, i - 2) /\ IsKept(old, i - 1)
             /\ (i >= 4 => old[i - 3].is \notin Letters)
    <3> DEFINE j == i - 1
               h == i - 2
               g == i - 3
    <3>1. j \in 1 .. n /\ h \in 1 .. n /\ j - 1 = h /\ h - 1 = g /\ g \in 0 .. n /\ (g >= 1 => i >= 4)
      BY <2>2
    <3>2. /\ old[j].is = ":" /\ IsKept(old, j) /\ old[h].is = "label" /\ IsKept(old, h)
          /\ (g >= 1 => old[g].is \notin Letters) /\ i - 1 = j
      BY <2>2, <3>1
    <3> HIDE DEF j, h, g
    <3>3. j - 1 \notin covered /\ h - 1 \notin covered
      BY <1>1, <3>1, <3>2 DEF Marks
    <3>4. C[j] = C[j - 1] + 1 /\ C[j] \in 1 .. l /\ C[j - 1] \in Nat /\ new[C[j]] = old[j] /\ IsKept(new, C[j])
      <4>1. Stays(new, old, l, C, j)
        BY <3>1, <3>3, StaysAt
      <4>2. QED
        BY <3>2, <4>1 DEF Stays
    <3>5. C[h] = C[h - 1] + 1 /\ C[h] \in 1 .. l /\ C[h - 1] \in Nat /\ new[C[h]] = old[h] /\ IsKept(new, C[h])
      <4>1. Stays(new, old, l, C, h)
        BY <3>1, <3>3, StaysAt
      <4>2. QED
        BY <3>2, <4>1 DEF Stays
    <3>6. C[g] >= 1 => new[C[g]].is \notin Letters
      BY <3>1, <3>2, NoLetterBefore
    <3> DEFINE c == C[i]
    <3>7. c \in Nat /\ c - 1 = C[j] /\ c - 2 = C[h] /\ c - 3 = C[g] /\ C[g] \in Nat
      <4>1. C[i] = C[j] + 1 /\ C[j] = C[h] + 1 /\ C[h] = C[g] + 1 /\ C[g] \in Nat
        BY <1>3, <3>1, <3>2, <3>4, <3>5
      <4>2. QED
        BY <4>1
    <3> HIDE DEF c
    <3>8. c >= 3 /\ (c >= 4 => C[g] >= 1)
      BY <3>7
    <3>9. /\ new[c - 2].is = "label" /\ new[c - 1].is = ":" /\ IsKept(new, c - 2) /\ IsKept(new, c - 1)
          /\ (c >= 4 => new[c - 3].is \notin Letters)
      BY <3>2, <3>4, <3>5, <3>6, <3>7, <3>8
    <3>10. AfterMark(new, c)
      BY <3>8, <3>9 DEF AfterMark
    <3>11. QED
      BY <3>10 DEF c
  <2>3. AfterMark(old, i)
    BY DEF Inserted
  <2>4. QED
    BY <2>1, <2>2, <2>3 DEF AfterMark
<1>6. Inserted(new, C[i])
  BY <1>2, <1>3, <1>4, <1>5 DEF Inserted
<1>7. QED
  BY <1>2, <1>6

\* Where a symbol of the text with labels comes from.
Kind(new, old, n, l, covered, starts, C, q) ==
  \/ \E i \in 1 .. n : i - 1 \notin covered /\ q = C[i] /\ Stays(new, old, l, C, i)
  \/ \E s \in starts : q = C[s] + 1 \/ q = C[s] + 2

\* Each symbol of the new text stayed, or is of a label.
LEMMA KindIs ==
  ASSUME NEW old, NEW n \in Nat, NEW covered, NEW starts,
         NEW new, NEW l \in Nat, Len(new) = l, NEW label, NEW C, Fitted(new, old, n, label, covered, starts, C),
         NEW q \in 1 .. l
  PROVE  Kind(new, old, n, l, covered, starts, C, q)
<1>1. PICK k \in 0 .. (n - 1) : \/ k \notin covered /\ q = C[k] + 1
                                \/ k \in starts /\ (q = C[k] + 1 \/ q = C[k] + 2)
  BY DEF Fitted
<1>2. CASE k \notin covered /\ q = C[k] + 1
  <2> DEFINE i == k + 1
  <2>1. i \in 1 .. n /\ i - 1 = k
    OBVIOUS
  <2> HIDE DEF i
  <2>2. Stays(new, old, l, C, i)
    BY <1>2, <2>1, StaysAt
  <2>3. q = C[i]
    BY <1>2, <2>1, <2>2 DEF Stays
  <2>4. QED
    BY <1>2, <2>1, <2>2, <2>3 DEF Kind
<1>3. CASE k \in starts /\ (q = C[k] + 1 \/ q = C[k] + 2)
  BY <1>3 DEF Kind
<1>4. QED
  BY <1>1, <1>2, <1>3

\* A label is a token of the new text, and nothing of it is kept.
Labelling(new, l, C, s, c, tokens) ==
  /\ C[s] \in Nat /\ C[s] + 2 \in 1 .. l
  /\ new[C[s] + 1] = Hid("[") /\ new[C[s] + 2] = Hid(c)
  /\ ~IsKept(new, C[s] + 1) /\ ~IsKept(new, C[s] + 2)
  /\ StandsAt(new, C[s] + 1, tokens)

\* Labels are tokens.
LEMMA LabelStands ==
  ASSUME NEW old, NEW n \in Nat, NEW covered, NEW starts, starts \subseteq 0 .. (n - 1),
         NEW new, NEW l \in Nat, Len(new) = l, NEW c, NEW tokens, <<"[", c>> \in tokens,
         NEW C, Fitted(new, old, n, <<"[", c>>, covered, starts, C),
         NEW s \in starts
  PROVE  Labelling(new, l, C, s, c, tokens)
<1> DEFINE label == <<"[", c>>
<1>1. label[1] = "[" /\ label[2] = c
  OBVIOUS
<1>2. C[s + 1] = C[s] + 2 /\ new[C[s] + 1] = Hid(label[1]) /\ new[C[s] + 2] = Hid(label[2])
  BY DEF Fitted
<1>3. s \in 0 .. n /\ s + 1 \in 0 .. n /\ n \in 0 .. n /\ s + 1 <= n
  OBVIOUS
<1>4. C[s] \in Nat /\ C[s + 1] <= C[n] /\ C[n] = l
  BY <1>3 DEF Fitted
<1>5. C[s] + 2 \in 1 .. l /\ C[s] + 1 \in 1 .. (l - 1) /\ (C[s] + 1) + 1 = C[s] + 2
  BY <1>2, <1>4
<1>6. new[C[s] + 1] = Hid("[") /\ new[C[s] + 2] = Hid(c)
  BY <1>1, <1>2
<1>7. ~IsKept(new, C[s] + 1) /\ ~IsKept(new, C[s] + 2)
  BY <1>6 DEF IsKept, Hid
<1>8. StandsAt(new, C[s] + 1, tokens)
  BY <1>5, <1>6 DEF StandsAt, Hid
<1>9. QED
  BY <1>4, <1>5, <1>6, <1>7, <1>8 DEF Labelling

\* Two symbols side by side that both stay stood side by side.
LEMMA BesideBefore ==
  ASSUME NEW old, NEW n \in Nat, NEW tokens, NEW covered, NEW starts, Taking(old, n, tokens, covered, starts),
         NEW new, NEW label, NEW C, Fitted(new, old, n, label, covered, starts, C),
         NEW j \in 1 .. n, j - 1 \notin covered, NEW q \in Nat, q >= 1, C[j] = q + 1, IsKept(new, q)
  PROVE  j - 1 \in 1 .. n /\ (j - 1) - 1 \in Int /\ C[j - 1] = q /\ new[q] = old[j - 1]
<1>1. C[j] = C[j - 1] + 1 /\ C[j - 1] \in Nat /\ C[0] = 0
  <2>1. j - 1 \in 0 .. (n - 1) /\ (j - 1) + 1 = j /\ j - 1 \in 0 .. n
    OBVIOUS
  <2>2. QED
    BY <2>1 DEF Fitted
<1>2. C[j - 1] = q
  BY <1>1
<1>3. j - 1 # 0
  BY <1>1, <1>2
<1>4. j - 1 \in 1 .. n
  BY <1>3
<1> DEFINE k == j - 1
<1>5. k \in 1 .. n
  BY <1>4
<1> HIDE DEF k
<1>6. new[C[k]] = old[k] \/ new[C[k]] = Hid(label[2])
  BY <1>5, BeforeIs
<1>7. new[q] # Hid(label[2])
  BY DEF IsKept, Hid
<1>8. new[q] = old[k]
  BY <1>2, <1>6, <1>7 DEF k
<1>9. QED
  BY <1>2, <1>4, <1>8 DEF k

\* Two symbols that followed each other, and are side by side still, follow each other.
LEMMA FollowsMoves ==
  ASSUME NEW text, NEW old, NEW n \in Nat, Len(old) = n, NEW tokens, NEW covered, NEW starts, Taking(old, n, tokens, covered, starts),
         {PII} \subseteq tokens,
         NEW new, NEW l \in Nat, Len(new) = l, NEW label, label[2] \notin Letters,
         NEW C, Fitted(new, old, n, label, covered, starts, C),
         NEW i \in 1 .. (n - 1), Follows(text, old, i),
         NEW q \in Nat, C[i + 1] = q + 1, new[q] = old[i], new[q + 1] = old[i + 1]
  PROVE  Follows(text, new, q)
<1>1. CASE old[i + 1].at = old[i].at + 1
  BY <1>1 DEF Follows
<1>2. CASE /\ old[i].is = "label" /\ old[i + 1].is = ":" /\ old[i].at < old[i + 1].at
           /\ i + 2 <= Len(old) /\ ~IsKept(old, i + 2) /\ Inserted(old, i + 2)
           /\ \A k \in (old[i].at + 1) .. (old[i + 1].at - 1) : text[k + 1] \in Blank
  <2> DEFINE j == i + 2
  <2>1. j \in 1 .. n /\ Inserted(old, j) /\ ~IsKept(old, j) /\ j - 1 = i + 1
    BY <1>2
  <2> HIDE DEF j
  <2>2. j - 1 \notin covered /\ Inserted(new, C[j])
    BY <2>1, InsertedMoves
  <2>3. Stays(new, old, l, C, j)
    BY <2>1, <2>2, StaysAt
  <2>4. C[j] = q + 2 /\ C[j] <= l /\ ~IsKept(new, C[j])
    BY <2>1, <2>3 DEF Stays
  <2>5. q + 2 <= Len(new) /\ ~IsKept(new, q + 2) /\ Inserted(new, q + 2)
    BY <2>2, <2>4
  <2>6. /\ new[q].is = "label" /\ new[q + 1].is = ":" /\ new[q].at < new[q + 1].at
        /\ \A k \in (new[q].at + 1) .. (new[q + 1].at - 1) : text[k + 1] \in Blank
    BY <1>2
  <2>7. QED
    BY <2>5, <2>6 DEF Follows
<1>3. QED
  BY <1>1, <1>2 DEF Follows

\* A text in which each symbol is where it should be is one after its matches
\* became labels.
LEMMA MaskedReplaced ==
  ASSUME NEW text, NEW m \in Nat, Len(text) = m, NEW old, NEW n \in Nat, Len(old) = n,
         NEW tokens, TokensAreWords(tokens), Masked(text, old, tokens),
         NEW covered, NEW starts, Taking(old, n, tokens, covered, starts),
         NEW c, <<"[", c>> \in tokens, \A p \in 0 .. (n - 1) : p \in covered => old[p + 1].is # "secret" /\ old[p + 1].is # "pii",
         SECRET \in tokens,
         NEW new \in Seq([is : Symbol, at : {NoOffset} \cup 0 .. (m - 1)]), NEW l \in Nat, Len(new) = l,
         NEW C, Fitted(new, old, n, <<"[", c>>, covered, starts, C)
  PROVE  Masked(text, new, tokens)
<1> DEFINE label == <<"[", c>>
           output == Symbols(old)
<1>1. /\ DOMAIN old = 1 .. n /\ Traced(text, old, tokens)
      /\ TokensWhole(old) /\ RestsShown(text, old, tokens)
  BY DEF Masked
<1>2. TracedAs(text, old, tokens, output, n, m)
  BY <1>1, TracedSymbols
<1>3. /\ text \in Seq(Symbol)
      /\ \A i \in 1 .. n : IsKept(old, i) => old[i].at \in 0 .. (m - 1) /\ text[old[i].at + 1] = old[i].is
      /\ \A i \in 1 .. n : ~IsKept(old, i) => StandsAt(old, i, tokens) \/ StandsAt(old, i - 1, tokens) \/ Inserted(old, i)
      /\ \A i, j \in 1 .. n : i < j /\ IsKept(old, i) /\ IsKept(old, j) => old[i].at < old[j].at
      /\ \A i \in 1 .. (n - 1) : IsKept(old, i) /\ IsKept(old, i + 1) => Follows(text, old, i)
      /\ n = 0 => m = 0
      /\ n > 0 /\ IsKept(old, 1) => old[1].at = 0
      /\ n > 0 /\ IsKept(old, n) => old[n].at = m - 1
  BY <1>2 DEF TracedAs
<1>91. ASSUME NEW i, StandsAt(old, i, tokens)
       PROVE  /\ i \in 1 .. (n - 1) /\ i - 1 \notin covered /\ i \notin covered
              /\ C[i] = C[i - 1] + 1 /\ C[i - 1] \in Nat /\ new[C[i - 1] + 1] = old[i] /\ new[C[i] + 1] = old[i + 1]
              /\ C[i] + 1 <= l
              /\ StandsAt(new, C[i - 1] + 1, tokens)
  <2>1. Fitted(new, old, n, label, covered, starts, C)
    OBVIOUS
  <2> HIDE DEF label
  <2>2. MoveWhole(old, n, tokens, covered, new, l, C) /\ tokens \subseteq tokens
    BY <2>1, StandsMove
  <2>3. QED
    BY <1>91, <2>2, Zenon DEF MoveWhole
<1>4. c \notin Letters \cup Blank \cup {"[", ":"} /\ label[2] = c /\ label[2] \notin Letters /\ {PII} \subseteq tokens
  <2>1. c \notin Letters \cup Blank \cup {"[", ":"}
    BY PairsDiffer
  <2>2. QED
    BY <2>1 DEF TokensAreWords
<1>5. /\ \A k \in 0 .. n : C[k] \in Nat
      /\ C[0] = 0 /\ C[n] = l
      /\ \A j, k \in 0 .. n : j <= k => C[j] <= C[k]
      /\ \A k \in 0 .. (n - 1) : k \notin covered => C[k + 1] = C[k] + 1
      /\ \A k \in starts : C[k + 1] = C[k] + 2
  BY DEF Fitted
<1>6. covered \subseteq 0 .. (n - 1) /\ starts \subseteq covered /\ \A k \in covered : k \notin starts => k - 1 \in covered
  BY DEF Taking
<1>7. ASSUME NEW q \in 1 .. l PROVE Kind(new, old, n, l, covered, starts, C, q)
  BY KindIs
<1>8. ASSUME NEW s \in starts PROVE Labelling(new, l, C, s, c, tokens)
  BY <1>6, LabelStands
<1>9. ASSUME NEW q \in 1 .. l, IsKept(new, q)
      PROVE  \E i \in 1 .. n : i - 1 \notin covered /\ q = C[i] /\ Stays(new, old, l, C, i) /\ IsKept(old, i)
  <2>1. \A s \in starts : q # C[s] + 1 /\ q # C[s] + 2
    BY <1>8, <1>9 DEF Labelling
  <2>2. PICK i \in 1 .. n : i - 1 \notin covered /\ q = C[i] /\ Stays(new, old, l, C, i)
    BY <1>7, <2>1 DEF Kind
  <2>3. IsKept(old, i)
    BY <1>9, <2>2 DEF Stays
  <2>4. QED
    BY <2>2, <2>3
<1>10. ASSUME NEW q \in 1 .. l, IsKept(new, q) PROVE text[new[q].at + 1] = new[q].is /\ new[q].at \in 0 .. (m - 1)
  <2>1. PICK i \in 1 .. n : i - 1 \notin covered /\ q = C[i] /\ Stays(new, old, l, C, i) /\ IsKept(old, i)
    BY <1>9, <1>10
  <2>2. new[q] = old[i]
    BY <2>1 DEF Stays
  <2>3. QED
    BY <1>3, <2>1, <2>2
<1>11. ASSUME NEW q \in 1 .. l, ~IsKept(new, q)
       PROVE  StandsAt(new, q, tokens) \/ StandsAt(new, q - 1, tokens) \/ Inserted(new, q)
  <2>1. CASE \E s \in starts : q = C[s] + 1 \/ q = C[s] + 2
    <3>1. PICK s \in starts : q = C[s] + 1 \/ q = C[s] + 2
      BY <2>1
    <3>2. StandsAt(new, C[s] + 1, tokens) /\ C[s] \in Nat
      BY <1>8 DEF Labelling
    <3>3. CASE q = C[s] + 1
      BY <3>2, <3>3
    <3>4. CASE q = C[s] + 2
      <4>1. q - 1 = C[s] + 1
        BY <3>2, <3>4
      <4>2. QED
        BY <3>2, <4>1
    <3>5. QED
      BY <3>1, <3>3, <3>4
  <2>2. CASE \E i \in 1 .. n : i - 1 \notin covered /\ q = C[i] /\ Stays(new, old, l, C, i)
    <3>1. PICK i \in 1 .. n : i - 1 \notin covered /\ q = C[i] /\ Stays(new, old, l, C, i)
      BY <2>2
    <3>2. ~IsKept(old, i) /\ q = C[i - 1] + 1 /\ C[i - 1] \in Nat
      BY <1>11, <3>1 DEF Stays
    <3>3. CASE StandsAt(old, i, tokens)
      <4>1. StandsAt(new, C[i - 1] + 1, tokens)
        BY <3>3, <1>91
      <4>2. QED
        BY <3>2, <4>1
    <3>4. CASE StandsAt(old, i - 1, tokens)
      <4> DEFINE j == i - 1
      <4>1. StandsAt(old, j, tokens)
        BY <3>4
      <4> HIDE DEF j
      <4>2. C[j] = C[j - 1] + 1 /\ StandsAt(new, C[j - 1] + 1, tokens)
        BY <4>1, <1>91
      <4>3. q - 1 = C[j]
        BY <3>2 DEF j
      <4>4. QED
        BY <4>2, <4>3
    <3>5. CASE Inserted(old, i)
      <4>1. Inserted(new, C[i])
        BY <1>4, <3>5, InsertedMoves
      <4>2. QED
        BY <3>1, <4>1
    <3>6. QED
      BY <1>3, <3>2, <3>3, <3>4, <3>5
  <2>3. QED
    BY <1>7, <2>1, <2>2 DEF Kind
<1>12. ASSUME NEW q \in 1 .. l, NEW r \in 1 .. l, q < r, IsKept(new, q), IsKept(new, r) PROVE new[q].at < new[r].at
  <2>1. PICK i \in 1 .. n : i - 1 \notin covered /\ q = C[i] /\ Stays(new, old, l, C, i) /\ IsKept(old, i)
    BY <1>9, <1>12
  <2>2. PICK j \in 1 .. n : j - 1 \notin covered /\ r = C[j] /\ Stays(new, old, l, C, j) /\ IsKept(old, j)
    BY <1>9, <1>12
  <2>3. new[q] = old[i] /\ new[r] = old[j]
    BY <2>1, <2>2 DEF Stays
  <2>4. i < j
    <3>1. CASE j <= i
      <4>1. C[j] <= C[i]
        BY <1>5, <3>1
      <4>2. QED
        BY <1>12, <2>1, <2>2, <4>1
    <3>2. QED
      BY <3>1
  <2>5. QED
    BY <1>3, <2>1, <2>2, <2>3, <2>4
<1>13. ASSUME NEW q \in 1 .. (l - 1), IsKept(new, q), IsKept(new, q + 1) PROVE Follows(text, new, q)
  <2>1. q + 1 \in 1 .. l /\ q \in Nat /\ q >= 1
    OBVIOUS
  <2>2. PICK j \in 1 .. n : j - 1 \notin covered /\ q + 1 = C[j] /\ Stays(new, old, l, C, j) /\ IsKept(old, j)
    BY <1>9, <1>13, <2>1
  <2>3. j - 1 \in 1 .. n /\ C[j - 1] = q /\ new[q] = old[j - 1]
    BY <1>13, <2>1, <2>2, BesideBefore
  <2> DEFINE i == j - 1
  <2>4. i \in 1 .. (n - 1) /\ i + 1 = j /\ new[q] = old[i]
    BY <2>3
  <2> HIDE DEF i
  <2>5. new[q + 1] = old[i + 1] /\ C[i + 1] = q + 1 /\ IsKept(old, i) /\ IsKept(old, i + 1)
    BY <1>13, <2>2, <2>4 DEF Stays, IsKept
  <2>6. Follows(text, old, i)
    BY <1>3, <2>4, <2>5
  <2>7. QED
    BY <1>4, <2>1, <2>4, <2>5, <2>6, FollowsMoves
<1>14. l = 0 => n = 0
  <2>1. ASSUME n # 0 PROVE l # 0
    <3>1. 0 \in 0 .. (n - 1) /\ 1 \in 0 .. n /\ 0 + 1 = 1 /\ n \in 0 .. n /\ 1 <= n
      BY <2>1
    <3>2. 0 \notin covered \/ 0 \in starts
      <4>1. 0 - 1 \notin 0 .. (n - 1)
        OBVIOUS
      <4>2. QED
        BY <1>6, <4>1
    <3>3. C[1] = 1 \/ C[1] = 2
      BY <1>5, <3>1, <3>2
    <3>4. C[1] <= C[n]
      BY <1>5, <3>1
    <3>5. QED
      BY <1>5, <3>3, <3>4
  <2>2. QED
    BY <2>1
<1>15. ASSUME l > 0, IsKept(new, 1) PROVE new[1].at = 0
  <2>1. 1 \in 1 .. l
    BY <1>15
  <2>2. PICK i \in 1 .. n : i - 1 \notin covered /\ 1 = C[i] /\ Stays(new, old, l, C, i) /\ IsKept(old, i)
    BY <1>9, <1>15, <2>1
  <2>3. i = 1
    <3>1. CASE i # 1
      <4> DEFINE k == i - 1
      <4>1. k \in 1 .. n /\ k - 1 \in 0 .. n /\ C[k] = 0
        <5>1. C[i] = C[i - 1] + 1 /\ C[i - 1] \in Nat
          BY <2>2 DEF Stays
        <5>2. QED
          BY <2>2, <3>1, <5>1
      <4> HIDE DEF k
      <4>2. C[k - 1] \in Nat
        BY <1>5, <4>1
      <4>3. C[k] = C[k - 1] + 1 \/ C[k] >= 2
        BY <4>1, BeforeIs
      <4>4. QED
        BY <4>1, <4>2, <4>3
    <3>2. QED
      BY <3>1
  <2>4. new[1] = old[1]
    BY <2>2, <2>3 DEF Stays
  <2>5. QED
    BY <1>3, <2>2, <2>3, <2>4
<1>16. ASSUME l > 0, IsKept(new, l) PROVE new[l].at = m - 1
  <2>1. l \in 1 .. l
    BY <1>16
  <2>2. PICK i \in 1 .. n : i - 1 \notin covered /\ l = C[i] /\ Stays(new, old, l, C, i) /\ IsKept(old, i)
    BY <1>9, <1>16, <2>1
  <2>3. i = n
    <3>1. CASE i < n
      <4>1. i \in 0 .. (n - 1) /\ i + 1 \in 0 .. n /\ n \in 0 .. n /\ i + 1 <= n
        BY <3>1
      <4>2. i \notin covered \/ i \in starts
        BY <1>6, <2>2
      <4>3. C[i + 1] = C[i] + 1 \/ C[i + 1] = C[i] + 2
        BY <1>5, <4>1, <4>2
      <4>4. C[i + 1] <= C[n]
        BY <1>5, <4>1
      <4>5. QED
        BY <1>5, <2>2, <4>3, <4>4
    <3>2. QED
      BY <3>1
  <2>4. new[l] = old[n]
    BY <2>2, <2>3 DEF Stays
  <2>5. QED
    BY <1>3, <2>2, <2>3, <2>4
<1>17. Traced(text, new, tokens)
  <2> DEFINE T == {NoOffset} \cup 0 .. (m - 1)
  <2>1. new \in Seq([is : Symbol, at : T]) /\ Len(text) = m /\ Len(new) = l
    OBVIOUS
  <2>2. \A q \in 1 .. l : IF IsKept(new, q) THEN text[new[q].at + 1] = new[q].is
                          ELSE StandsAt(new, q, tokens) \/ StandsAt(new, q - 1, tokens) \/ Inserted(new, q)
    BY <1>10, <1>11
  <2>3. \A q, r \in 1 .. l : q < r /\ IsKept(new, q) /\ IsKept(new, r) => new[q].at < new[r].at
    BY <1>12
  <2>4. \A q \in 1 .. (l - 1) : IsKept(new, q) /\ IsKept(new, q + 1) => Follows(text, new, q)
    BY <1>13
  <2>5. l = 0 => m = 0
    BY <1>3, <1>14
  <2>6. l > 0 => (IsKept(new, 1) => new[1].at = 0) /\ (IsKept(new, l) => new[l].at = m - 1)
    BY <1>15, <1>16
  <2>7. QED
    BY <1>3, <2>1, <2>2, <2>3, <2>4, <2>5, <2>6 DEF Traced
<1>18. TokensWhole(new)
  <2>1. ASSUME NEW q \in 1 .. l, ~IsKept(new, q), new[q].is = "[" PROVE q + 1 \in 1 .. l /\ ~IsKept(new, q + 1)
    <3>1. CASE \E s \in starts : q = C[s] + 1 \/ q = C[s] + 2
      <4>1. PICK s \in starts : q = C[s] + 1 \/ q = C[s] + 2
        BY <3>1
      <4>2. C[s] \in Nat /\ C[s] + 2 \in 1 .. l /\ new[C[s] + 2] = Hid(c) /\ ~IsKept(new, C[s] + 2)
        BY <1>8 DEF Labelling
      <4>3. q # C[s] + 2
        BY <1>4, <2>1, <4>2 DEF Hid
      <4>4. q + 1 = C[s] + 2
        BY <4>1, <4>2, <4>3
      <4>5. QED
        BY <4>2, <4>4
    <3>2. CASE \E i \in 1 .. n : i - 1 \notin covered /\ q = C[i] /\ Stays(new, old, l, C, i)
      <4>1. PICK i \in 1 .. n : i - 1 \notin covered /\ q = C[i] /\ Stays(new, old, l, C, i)
        BY <3>2
      <4>2. ~IsKept(old, i) /\ old[i].is = "["
        BY <2>1, <4>1 DEF Stays
      <4>3. i + 1 \in 1 .. n /\ ~IsKept(old, i + 1)
        BY <1>1, <4>2 DEF TokensWhole
      <4>4. ~StandsAt(old, i - 1, tokens)
        <5>1. (i - 1) + 1 = i
          OBVIOUS
        <5>2. QED
          BY <4>2, <5>1, PairsDiffer DEF StandsAt
      <4>5. StandsAt(old, i, tokens)
        BY <1>3, <4>2, <4>4 DEF Inserted
      <4>6. i \notin covered /\ C[i] + 1 <= l /\ new[C[i] + 1] = old[i + 1]
        BY <4>5, <1>91
      <4>7. q + 1 \in 1 .. l /\ new[q + 1] = old[i + 1]
        BY <4>1, <4>6
      <4>8. QED
        BY <4>3, <4>7 DEF IsKept
    <3>3. QED
      BY <1>7, <3>1, <3>2 DEF Kind
  <2>2. QED
    BY <2>1 DEF TokensWhole
<1>19. ASSUME NEW k \in 0 .. (m - 1), k \notin Shown(new)
       PROVE  k \notin Shown(old) \/ \E i \in 1 .. n : i - 1 \in covered /\ text[k + 1] = old[i].is
  <2>1. CASE k \in Shown(old)
    <3>1. PICK i \in 1 .. n : old[i].at = k /\ IsKept(old, i)
      BY <1>1, <2>1 DEF Shown, IsKept
    <3>2. text[k + 1] = old[i].is
      BY <1>3, <3>1
    <3>3. CASE i - 1 \notin covered
      <4>1. Stays(new, old, l, C, i)
        BY <3>3, StaysAt
      <4>2. C[i] \in DOMAIN new /\ new[C[i]].at = k
        BY <3>1, <4>1 DEF Stays
      <4>3. k \in Shown(new)
        BY <3>1, <4>2 DEF Shown, IsKept
      <4>4. QED
        BY <1>19, <4>3
    <3>4. QED
      BY <3>2, <3>3
  <2>2. QED
    BY <2>1
<1>20. ASSUME NEW i \in 1 .. n, i - 1 \in covered
       PROVE  /\ \A x \in Symbol : <<"[", x>> \in tokens => old[i].is # x
              /\ old[i].is # "pii"
  <2>1. (i - 1) + 1 = i /\ i - 1 \in 0 .. (n - 1)
    OBVIOUS
  <2>2. ~Rest(old[i].is, tokens) /\ old[i].is # "pii"
    BY <1>20, <2>1 DEF Taking
  <2>3. QED
    BY <2>2 DEF Rest
<1>21. RestsShown(text, new, tokens)
  <2>1. ASSUME NEW k \in 0 .. (m - 1), k \notin Shown(new), NEW x \in Symbol, <<"[", x>> \in tokens \ {PII} PROVE text[k + 1] # x
    <3>1. CASE k \notin Shown(old)
      BY <1>1, <2>1, <3>1 DEF RestsShown
    <3>2. CASE \E i \in 1 .. n : i - 1 \in covered /\ text[k + 1] = old[i].is
      BY <1>20, <2>1, <3>2
    <3>3. QED
      BY <1>19, <2>1, <3>1, <3>2
  <2>2. ASSUME NEW k \in 0 .. (m - 1), k \notin Shown(new), text[k + 1] = "pii"
        PROVE  \E q \in 1 .. l : new[q].is = "secret" /\ ~IsKept(new, q)
    <3>1. k \notin Shown(old)
      BY <1>19, <1>20, <2>2
    <3>2. PICK i \in 1 .. n : old[i].is = "secret" /\ ~IsKept(old, i)
      BY <1>1, <2>2, <3>1 DEF RestsShown
    <3>3. i - 1 \notin covered
      <4>1. (i - 1) + 1 = i /\ i - 1 \in 0 .. (n - 1)
        OBVIOUS
      <4>2. QED
        BY <3>2, <4>1
    <3>4. Stays(new, old, l, C, i)
      BY <3>3, StaysAt
    <3>5. QED
      BY <3>2, <3>4 DEF Stays
  <2>3. QED
    BY <2>1, <2>2 DEF RestsShown
<1>22. DOMAIN new = 1 .. Len(new)
  OBVIOUS
<1>23. QED
  BY <1>17, <1>18, <1>21, <1>22 DEF Masked

-----------------------------------------------------------------------------
(* Pattern after pattern.                                                  *)

\* The operator's patterns as the proofs take them: what they find has neither
\* blanks nor parts of marks or tokens in it.
RulesHeld(rules, n, tokens) ==
  /\ RulesTyped(rules, n) /\ tokens = TokenVocab(rules) /\ TokensAreWords(tokens) /\ SECRET \in tokens
  /\ \A i \in 1 .. n : \A j \in 1 .. Len(rules[i].finds) :
       rules[i].finds[j] \notin Marks \cup {"pii", "secret"} /\ ~Rest(rules[i].finds[j], tokens)

\* And so after a pattern that hits no chain.
LEMMA MatchesReplaced ==
  ASSUME NEW text, NEW m \in Nat, Len(text) = m, NEW old, NEW tokens, TokensAreWords(tokens), SECRET \in tokens,
         Masked(text, old, tokens),
         NEW rule, rule.finds \in Seq(Symbol), NEW f \in Nat \ {0}, Len(rule.finds) = f, rule.label \in tokens,
         \A j \in 1 .. f : rule.finds[j] \notin Marks \cup {"pii", "secret"} /\ ~Rest(rule.finds[j], tokens),
         NEW matches, matches = MatchesOf(rule, Symbols(old)),
         NEW exact, ~ChainHit(Symbols(old), matches, tokens, exact)
  PROVE  Masked(text, Replace(old, matches, rule.label), tokens)
<1> DEFINE n == Len(old)
           output == Symbols(old)
           covered == Offsets(matches)
           starts == {a.start : a \in matches}
           T == {NoOffset} \cup 0 .. (m - 1)
<1>1. DOMAIN old = 1 .. n /\ Traced(text, old, tokens)
  BY DEF Masked
<1>2. TracedAs(text, old, tokens, output, n, m)
  BY <1>1, TracedSymbols
<1>3. n \in Nat /\ Len(old) = n /\ Len(output) = n /\ output \in Seq(Symbol) /\ \A i \in 1 .. n : output[i] = old[i].is
  BY <1>2 DEF TracedAs
<1>4. Finds(matches, output, rule.finds, f, n)
  <2> HIDE DEF n, output
  <2>1. Finds(MatchesOf(rule, output), output, rule.finds, f, n)
    BY <1>3, MatchesAre
  <2>2. QED
    BY <2>1 DEF output
<1>5. ASSUME NEW a \in matches, NEW k \in At(output, tokens) PROVE ~Meets(a, Span(k, k + 2))
  <2>1. TokensIn(output, 0, Len(output), tokens) = At(output, tokens)
    <3> HIDE DEF n, output
    <3>1. 0 \in Nat /\ n \in Nat
      BY <1>3
    <3>2. TokensIn(output, 0, n, tokens) = AtWithin(output, 0, n, tokens)
      BY <1>3, <3>1, TokensInIs
    <3>3. QED
      BY <1>3, <3>2 DEF At
  <2>2. k \in TokensIn(output, 0, Len(output), tokens)
    BY <2>1
  <2>3. ~Meets(a, Span(k, k + 2))
    BY <2>2 DEF ChainHit
  <2>4. QED
    BY <2>3
<1>6. \A j \in 1 .. f : rule.finds[j] \notin Marks /\ ~Rest(rule.finds[j], tokens)
  OBVIOUS
<1>7. Taking(old, n, tokens, covered, starts)
  <2> DEFINE finds == rule.finds
  <2>1. \A j \in 1 .. f : finds[j] \notin Marks /\ ~Rest(finds[j], tokens)
    BY <1>6
  <2>2. Finds(matches, output, finds, f, n)
    BY <1>4
  <2>3. \A a \in matches, k \in At(output, tokens) : ~Meets(a, Span(k, k + 2))
    BY <1>5
  <2>4. covered = Offsets(matches) /\ starts = {a.start : a \in matches}
    OBVIOUS
  <2> HIDE DEF n, output, finds, covered, starts
  <2>5. QED
    BY <1>3, <2>1, <2>2, <2>3, <2>4, TakingHolds
<1>8. PICK c \in Symbol : rule.label = <<"[", c>>
  BY DEF TokensAreWords
<1>9. rule.label \in Seq(Symbol) /\ Len(rule.label) = 2
  <2>1. "[" \in Symbol
    BY DEF Symbol
  <2>2. QED
    BY <1>8, <2>1
<1> DEFINE new == Replace(old, matches, rule.label)
<1>10. new \in Seq([is : Symbol, at : T]) /\ \E C : Fitted(new, old, n, rule.label, covered, starts, C)
  <2> DEFINE label == rule.label
  <2>1. old \in Seq([is : Symbol, at : T])
    BY <1>1 DEF Traced
  <2>2. covered \subseteq 0 .. (n - 1) /\ starts \subseteq covered
    BY <1>7 DEF Taking
  <2>3. covered = Offsets(matches) /\ starts = {a.start : a \in matches} /\ NoOffset \in T /\ label \in Seq(Symbol) /\ Len(label) = 2
    BY <1>9
  <2> HIDE DEF n, covered, starts, T, label
  <2>4. /\ Replace(old, matches, label) \in Seq([is : Symbol, at : T])
        /\ \E C : Fitted(Replace(old, matches, label), old, n, label, covered, starts, C)
    BY <1>3, <2>1, <2>2, <2>3, ReplaceFits
  <2>5. QED
    BY <2>4 DEF label
<1>11. PICK C : Fitted(new, old, n, <<"[", c>>, covered, starts, C)
  BY <1>8, <1>10
<1>12. \A p \in 0 .. (n - 1) : p \in covered => old[p + 1].is # "secret" /\ old[p + 1].is # "pii"
  <2>1. ASSUME NEW p \in covered PROVE p + 1 \in 1 .. n /\ \E j \in 1 .. f : old[p + 1].is = rule.finds[j]
    <3>1. PICK a \in matches : p \in a.start .. (a.end - 1)
      BY OffsetsIn
    <3>2. PICK k \in 0 .. (n - f) : a = Span(k, k + f) /\ \A i \in 1 .. f : output[k + i] = rule.finds[i]
      BY <1>4 DEF Finds
    <3>3. p \in k .. (k + f - 1)
      BY <3>1, <3>2 DEF Span
    <3> DEFINE j == (p + 1) - k
    <3> HIDE DEF n, covered, output
    <3>4. j \in 1 .. f /\ k + j = p + 1 /\ p + 1 \in 1 .. n
      BY <1>3, <3>3
    <3> HIDE DEF j
    <3>5. old[p + 1].is = rule.finds[j]
      BY <1>3, <3>2, <3>4
    <3>6. QED
      BY <3>4, <3>5
  <2> HIDE DEF n, covered
  <2>2. ASSUME NEW p \in covered PROVE old[p + 1].is # "secret" /\ old[p + 1].is # "pii"
    BY <2>1
  <2>3. QED
    BY <2>2
<1>13. QED
  <2> DEFINE l == Len(new)
  <2>1. l \in Nat /\ Len(new) = l
    <3> HIDE DEF T, new
    <3> QED BY <1>10
  <2>2. <<"[", c>> \in tokens /\ new \in Seq([is : Symbol, at : {NoOffset} \cup 0 .. (m - 1)])
    BY <1>8, <1>10
  <2> HIDE DEF n, covered, starts, new, l
  <2>3. Masked(text, new, tokens)
    BY <1>3, <1>7, <1>11, <1>12, <2>1, <2>2, MaskedReplaced
  <2>4. QED
    BY <2>3 DEF new

\* What applyRules keeps as it goes from pattern to pattern.
Applied(text, d, tokens) ==
  /\ \E ok, t, w, x : d = [ok |-> ok, text |-> t, whole |-> w, exact |-> x]
  /\ d.ok /\ d.whole = <<>> => Masked(text, d.text, tokens)

\* Applied, of the parts of a record.
LEMMA AppliedAs ==
  ASSUME NEW text, NEW tokens, NEW ok, NEW t, NEW w, NEW x, NEW out,
         out = [ok |-> ok, text |-> t, whole |-> w, exact |-> x],
         ok /\ w = <<>> => Masked(text, t, tokens)
  PROVE  Applied(text, out, tokens)
<1>1. out.ok = ok /\ out.whole = w /\ out.text = t
  OBVIOUS
<1>2. \E a, b, c, e : out = [ok |-> a, text |-> b, whole |-> c, exact |-> e]
  OBVIOUS
<1>3. out.ok /\ out.whole = <<>> => Masked(text, out.text, tokens)
  BY <1>1
<1>4. QED
  BY <1>2, <1>3 DEF Applied

\* One pattern of applyRules.
LEMMA StepApplied ==
  ASSUME NEW text, NEW tokens, TokensAreWords(tokens), SECRET \in tokens,
         NEW m \in Nat, Len(text) = m,
         NEW rule, rule.finds \in Seq(Symbol), NEW f \in Nat \ {0}, Len(rule.finds) = f, rule.label \in tokens,
         \A j \in 1 .. f : rule.finds[j] \notin Marks \cup {"pii", "secret"} /\ ~Rest(rule.finds[j], tokens),
         NEW d, Applied(text, d, tokens),
         NEW matches, matches = MatchesOf(rule, Symbols(d.text)), NEW found,
         NEW out,
         out = IF ~d.ok \/ d.whole # <<>> \/ matches = {} THEN d
               ELSE IF Cardinality(matches) > MaxMatches THEN [d EXCEPT !.whole = rule.label]
               ELSE IF ChainHit(Symbols(d.text), matches, tokens, d.exact) THEN [d EXCEPT !.ok = FALSE]
               ELSE [d EXCEPT !.text = Replace(@, matches, rule.label), !.exact = found]
  PROVE  Applied(text, out, tokens)
<1>1. PICK ok, t, w, x : d = [ok |-> ok, text |-> t, whole |-> w, exact |-> x]
  BY DEF Applied
<1>2. CASE ~d.ok \/ d.whole # <<>> \/ matches = {}
  BY <1>2
<1>3. CASE d.ok /\ d.whole = <<>> /\ matches # {} /\ Cardinality(matches) > MaxMatches
  <2>1. out = [ok |-> ok, text |-> t, whole |-> rule.label, exact |-> x]
    BY <1>1, <1>3
  <2>2. PICK c \in Symbol : rule.label = <<"[", c>>
    BY DEF TokensAreWords
  <2>3. rule.label # <<>>
    BY <2>2
  <2>4. QED
    BY <2>1, <2>3, AppliedAs
<1>4. CASE d.ok /\ d.whole = <<>> /\ matches # {} /\ ~ (Cardinality(matches) > MaxMatches)
            /\ ChainHit(Symbols(d.text), matches, tokens, d.exact)
  <2>1. out = [ok |-> FALSE, text |-> t, whole |-> w, exact |-> x]
    BY <1>1, <1>4
  <2>2. QED
    BY <2>1, AppliedAs
<1>5. CASE d.ok /\ d.whole = <<>> /\ matches # {} /\ ~ (Cardinality(matches) > MaxMatches)
            /\ ~ChainHit(Symbols(d.text), matches, tokens, d.exact)
  <2> DEFINE new == Replace(t, matches, rule.label)
  <2>1. out = [ok |-> ok, text |-> new, whole |-> w, exact |-> found]
    BY <1>1, <1>5
  <2>2. Masked(text, t, tokens) /\ d.text = t /\ d.exact = x
    BY <1>1, <1>5 DEF Applied
  <2>3. Masked(text, new, tokens)
    <3>1. matches = MatchesOf(rule, Symbols(t))
      BY <2>2
    <3>2. ~ChainHit(Symbols(t), matches, tokens, x)
      BY <1>5, <2>2
    <3>3. Masked(text, t, tokens)
      BY <2>2
    <3>4. QED
      BY <3>1, <3>2, <3>3, MatchesReplaced
  <2> HIDE DEF new
  <2>4. QED
    BY <2>1, <2>3, AppliedAs
<1>6. QED
  BY <1>2, <1>3, <1>4, <1>5

\* The operator's patterns leave a text whose symbols are where they should be,
\* when they leave one at all.
LEMMA MaskedApplied ==
  ASSUME NEW text, NEW m \in Nat, Len(text) = m, NEW old, NEW rules, NEW n \in Nat, NEW tokens, RulesHeld(rules, n, tokens),
         Masked(text, old, tokens)
  PROVE  /\ LET st == ApplyRules(old, rules, tokens) IN st.ok /\ st.whole = <<>> => Masked(text, st.text, tokens)
         /\ n = 0 => ApplyRules(old, rules, tokens).ok /\ ApplyRules(old, rules, tokens).whole = <<>>
<1> DEFINE Step(rule, done) ==
             LET matches == MatchesOf(rule, Symbols(done.text))
             IN  IF ~done.ok \/ done.whole # <<>> \/ matches = {} THEN done
                 ELSE IF Cardinality(matches) > MaxMatches THEN [done EXCEPT !.whole = rule.label]
                 ELSE IF ChainHit(Symbols(done.text), matches, tokens, done.exact) THEN [done EXCEPT !.ok = FALSE]
                 ELSE [done EXCEPT !.text = Replace(@, matches, rule.label),
                                   !.exact = {Span(MapPos(x.start, matches), MapPos(x.start, matches) + 2) : x \in matches}
                                             \cup {Span(MapPos(e.start, matches), MapPos(e.end, matches)) : e \in @}]
           first == [ok |-> TRUE, text |-> old, whole |-> <<>>, exact |-> {}]
           Next1(g, i) == IF i = 0 THEN first ELSE Step(rules[i], g[i - 1])
           Up(k) == \E g : g = [i \in 0 .. k |-> Next1(g, i)]
           done == CHOOSE g : g = [i \in 0 .. n |-> Next1(g, i)]
           Typed(d) == Applied(text, d, tokens)
<1>0. TokensAreWords(tokens) /\ SECRET \in tokens
  BY DEF RulesHeld
<1>1. ApplyRules(old, rules, tokens) = done[n]
  <2>1. Len(rules) = n
    BY DEF RulesHeld, RulesTyped
  <2>2. QED
    BY <2>1, Zenon DEF ApplyRules
<1>2. \A i \in 1 .. n :
        /\ rules[i].finds \in Seq(Symbol) /\ Len(rules[i].finds) \in Nat \ {0} /\ rules[i].label \in tokens
        /\ \A j \in 1 .. Len(rules[i].finds) :
             rules[i].finds[j] \notin Marks \cup {"pii", "secret"} /\ ~Rest(rules[i].finds[j], tokens)
  BY DEF RulesHeld, RulesTyped
<1>3. ASSUME NEW i \in 1 .. n, NEW d, Typed(d) PROVE Typed(Step(rules[i], d))
  <2> DEFINE rule == rules[i]
             f == Len(rule.finds)
             matches == MatchesOf(rule, Symbols(d.text))
             found == {Span(MapPos(x.start, matches), MapPos(x.start, matches) + 2) : x \in matches}
                      \cup {Span(MapPos(e.start, matches), MapPos(e.end, matches)) : e \in d.exact}
             out == Step(rule, d)
  <2>1. out = IF ~d.ok \/ d.whole # <<>> \/ matches = {} THEN d
              ELSE IF Cardinality(matches) > MaxMatches THEN [d EXCEPT !.whole = rule.label]
              ELSE IF ChainHit(Symbols(d.text), matches, tokens, d.exact) THEN [d EXCEPT !.ok = FALSE]
              ELSE [d EXCEPT !.text = Replace(@, matches, rule.label), !.exact = found]
    <3> HIDE DEF rule
    <3>1. QED
      BY <1>3 DEF Applied
  <2>2. rule.finds \in Seq(Symbol) /\ f \in Nat \ {0} /\ Len(rule.finds) = f /\ rule.label \in tokens
    BY <1>2
  <2>3. \A j \in 1 .. f : rule.finds[j] \notin Marks \cup {"pii", "secret"} /\ ~Rest(rule.finds[j], tokens)
    BY <1>2
  <2>4. matches = MatchesOf(rule, Symbols(d.text)) /\ Applied(text, d, tokens)
    BY <1>3
  <2> HIDE DEF rule, f, matches, found, out, Step
  <2>5. Applied(text, out, tokens)
    BY <1>0, <2>1, <2>2, <2>3, <2>4, StepApplied
  <2>6. QED
    BY <2>5 DEF out, rule
<1>4. Typed(first)
  BY DEF Applied
<1> HIDE DEF Step, first, Typed
<1>5. Up(0)
  <2> DEFINE g == [i \in 0 .. 0 |-> first]
  <2>1. g = [i \in 0 .. 0 |-> Next1(g, i)]
    OBVIOUS
  <2>2. QED
    BY <2>1
<1>6. ASSUME NEW k \in 0 .. (n - 1), Up(k) PROVE Up(k + 1)
  <2>1. PICK g : g = [i \in 0 .. k |-> Next1(g, i)]
    BY <1>6
  <2> DEFINE h == [i \in 0 .. (k + 1) |-> IF i = k + 1 THEN Next1(g, i) ELSE g[i]]
  <2>2. (\A i \in 0 .. k : g[i] = Next1(g, i)) /\ \A i \in 0 .. (k + 1) : h[i] = IF i = k + 1 THEN Next1(g, i) ELSE g[i]
    BY <2>1
  <2>3. h = [i \in 0 .. (k + 1) |-> h[i]]
    OBVIOUS
  <2> HIDE DEF h
  <2>4. ASSUME NEW i \in 0 .. (k + 1) PROVE h[i] = Next1(h, i)
    <3>1. i = 0 \/ (i # 0 /\ i - 1 \in 0 .. (k + 1) /\ i - 1 # k + 1)
      OBVIOUS
    <3>2. Next1(h, i) = Next1(g, i)
      <4>1. CASE i = 0
        BY <4>1
      <4>2. CASE i - 1 \in 0 .. (k + 1) /\ i - 1 # k + 1
        <5>1. h[i - 1] = g[i - 1]
          BY <2>2, <4>2
        <5>2. QED
          BY <5>1
      <4>3. QED
        BY <3>1, <4>1, <4>2
    <3>3. i = k + 1 \/ (i \in 0 .. k /\ i # k + 1)
      OBVIOUS
    <3> HIDE DEF Next1
    <3>4. h[i] = Next1(g, i)
      BY <2>2, <3>3
    <3>5. QED
      BY <3>2, <3>4
  <2> HIDE DEF Next1
  <2>5. h = [i \in 0 .. (k + 1) |-> Next1(h, i)]
    BY <2>3, <2>4
  <2>6. QED
    BY <2>5
<1>7. Up(n)
  <2> DEFINE U == {k \in 0 .. n : Up(k)}
  <2> HIDE DEF Up
  <2>1. 0 \in U /\ \A i \in 0 .. (n - 1) : i \in U => i + 1 \in U
    BY <1>5, <1>6
  <2>2. \A i \in 0 .. n : i \in U
    <3> HIDE DEF U
    <3> QED BY <2>1, UpTo
  <2>3. QED
    BY <2>2
<1>8. done = [i \in 0 .. n |-> Next1(done, i)]
  <2> DEFINE Fixed(g) == g = [i \in 0 .. n |-> Next1(g, i)]
  <2>1. \E g : Fixed(g)
    BY <1>7
  <2>2. done = CHOOSE g : Fixed(g)
    OBVIOUS
  <2> HIDE DEF Fixed, done
  <2>3. Fixed(done)
    BY <2>1, <2>2, Zenon
  <2>4. QED
    BY <2>3 DEF Fixed
<1> HIDE DEF done
<1>9. \A i \in 0 .. n : done[i] = Next1(done, i)
  BY <1>8
<1> DEFINE V == {i \in 0 .. n : Typed(done[i])}
<1>10. 0 \in V /\ \A i \in 0 .. (n - 1) : i \in V => i + 1 \in V
  <2>1. 0 \in 0 .. n /\ done[0] = first
    BY <1>9
  <2>2. ASSUME NEW i \in 0 .. (n - 1), i \in V PROVE i + 1 \in V
    <3>1. i + 1 \in 1 .. n /\ i + 1 \in 0 .. n /\ i + 1 # 0 /\ (i + 1) - 1 = i
      OBVIOUS
    <3>2. done[i + 1] = Step(rules[i + 1], done[i])
      BY <1>9, <3>1
    <3>3. QED
      BY <1>3, <2>2, <3>1, <3>2
  <2>3. QED
    BY <1>4, <2>1, <2>2
<1>11. n \in V
  <2> HIDE DEF V
  <2>1. \A i \in 0 .. n : i \in V
    BY <1>10, UpTo
  <2>2. QED
    BY <2>1
<1>12. n = 0 => done[n] = first
  BY <1>9
<1>13. QED
  BY <1>1, <1>11, <1>12 DEF Typed, Applied, first

-----------------------------------------------------------------------------
(* The field grows: what stood in it stays.                                *)

\* One sequence after another.
Joined(x, y, xy, n, b) ==
  /\ DOMAIN xy = 1 .. (n + b) /\ Len(xy) = n + b
  /\ \A i \in 1 .. n : xy[i] = x[i]
  /\ \A i \in 1 .. b : n + i \in 1 .. (n + b) /\ xy[n + i] = y[i]

\* Concatenation puts one after the other.
LEMMA JoinedIs ==
  ASSUME NEW S, NEW x \in Seq(S), NEW y \in Seq(S), NEW n \in Nat, Len(x) = n, NEW b \in Nat, Len(y) = b
  PROVE  x \o y \in Seq(S) /\ Joined(x, y, x \o y, n, b)
<1> DEFINE xy == x \o y
<1>1. xy \in Seq(S) /\ Len(xy) = n + b /\ \A i \in 1 .. (n + b) : xy[i] = IF i <= n THEN x[i] ELSE y[i - n]
  OBVIOUS
<1>2. DOMAIN xy = 1 .. (n + b)
  BY <1>1
<1> HIDE DEF xy
<1>3. ASSUME NEW i \in 1 .. n PROVE xy[i] = x[i]
  <2>1. i \in 1 .. (n + b) /\ i <= n
    OBVIOUS
  <2>2. QED
    BY <1>1, <2>1
<1>4. ASSUME NEW i \in 1 .. b PROVE n + i \in 1 .. (n + b) /\ xy[n + i] = y[i]
  <2>1. n + i \in 1 .. (n + b) /\ ~ (n + i <= n) /\ (n + i) - n = i
    OBVIOUS
  <2>2. QED
    BY <1>1, <2>1
<1>5. xy \in Seq(S) /\ Joined(x, y, xy, n, b)
  BY <1>1, <1>2, <1>3, <1>4 DEF Joined
<1>6. QED
  BY <1>5 DEF xy

\* A sequence over a set is one over a greater set.
LEMMA SeqOfMore ==
  ASSUME NEW S, NEW W, S \subseteq W, NEW x \in Seq(S)
  PROVE  x \in Seq(W)
OBVIOUS

\* An index of two sequences is of the first or of the second.
LEMMA InJoined ==
  ASSUME NEW n \in Nat, NEW b \in Nat, NEW i \in 1 .. (n + b)
  PROVE  i \in 1 .. n \/ \E j \in 1 .. b : i = n + j
<1>1. i <= n \/ (i - n \in 1 .. b /\ i = n + (i - n))
  OBVIOUS
<1>2. QED
  BY <1>1

\* What the masker puts in for a segment of m to m + a - 1: what it kept is where
\* it was, and what it put in is a token, or stands before one after a mark.
Grafts(add, all, put, both, m, a, n, b, tokens) ==
  /\ \A i \in 1 .. b : IsKept(put, i) => put[i].at \in m .. (m + a - 1) /\ all[put[i].at + 1] = put[i].is
  /\ \A i \in 1 .. b : ~IsKept(put, i) => StandsAt(put, i, tokens) \/ StandsAt(put, i - 1, tokens) \/ Inserted(both, n + i)
  /\ \A i, j \in 1 .. b : i < j /\ IsKept(put, i) /\ IsKept(put, j) => put[i].at < put[j].at
  /\ \A i \in 1 .. (b - 1) : IsKept(put, i) /\ IsKept(put, i + 1) => Follows(all, both, n + i)
  /\ b = 0 => a = 0
  /\ b > 0 /\ IsKept(put, 1) => put[1].at = m
  /\ b > 0 /\ IsKept(put, b) => put[b].at = m + a - 1

\* And what it took away has no rest of a token in it, save in a secret.
Leaves(add, put, m, a, b, tokens) ==
  /\ \A i \in 1 .. b : ~IsKept(put, i) /\ put[i].is = "[" => i + 1 \in 1 .. b /\ ~IsKept(put, i + 1)
  /\ \A j \in 1 .. a : m + j - 1 \notin Shown(put) /\ Rest(add[j], tokens) =>
       add[j] = "pii" /\ \E i \in 1 .. b : put[i].is = "secret" /\ ~IsKept(put, i)

\* What stood in the old masker's text stands there when the text has grown.
LEMMA Persists ==
  ASSUME NEW old, NEW put, NEW both, NEW n \in Nat, NEW b \in Nat, Joined(old, put, both, n, b), Len(old) = n, Len(put) = b,
         NEW i \in 1 .. n, NEW tokens
  PROVE  /\ IsKept(both, i) <=> IsKept(old, i)
         /\ StandsAt(old, i, tokens) => StandsAt(both, i, tokens)
         /\ Inserted(old, i) => Inserted(both, i)
<1>1. \A j \in 1 .. n : both[j] = old[j]
  BY DEF Joined
<1>2. Len(both) = n + b
  BY DEF Joined
<1>3. ASSUME NEW T, NEW j \in Int, StandsAt(old, j, T) PROVE StandsAt(both, j, T)
  <2>1. j \in 1 .. (n - 1) /\ <<old[j].is, old[j + 1].is>> \in T
    BY <1>3 DEF StandsAt
  <2>2. j \in 1 .. n /\ j + 1 \in 1 .. n /\ j \in 1 .. (n + b - 1)
    BY <2>1
  <2>3. both[j] = old[j] /\ both[j + 1] = old[j + 1]
    BY <1>1, <2>2
  <2>4. QED
    BY <1>2, <2>1, <2>2, <2>3 DEF StandsAt
<1>4. \A j \in 1 .. n : IsKept(both, j) <=> IsKept(old, j)
  BY <1>1 DEF IsKept
<1>5. AfterMark(old, i) => AfterMark(both, i)
  <2>1. (i >= 2 => i - 1 \in 1 .. n) /\ (i >= 3 => i - 2 \in 1 .. n) /\ (i >= 4 => i - 3 \in 1 .. n)
    OBVIOUS
  <2>2. (i >= 2 => both[i - 1] = old[i - 1]) /\ (i >= 3 => both[i - 2] = old[i - 2]) /\ (i >= 4 => both[i - 3] = old[i - 3])
    BY <1>1, <2>1
  <2>3. (i >= 2 => (IsKept(both, i - 1) <=> IsKept(old, i - 1))) /\ (i >= 3 => (IsKept(both, i - 2) <=> IsKept(old, i - 2)))
    BY <1>4, <2>1
  <2>4. i >= 3 => i >= 2
    OBVIOUS
  <2>5. QED
    BY <2>2, <2>3, <2>4 DEF AfterMark
<1>6. Inserted(old, i) => Inserted(both, i)
  <2>1. i + 1 \in Int
    OBVIOUS
  <2>2. QED
    BY <1>1, <1>3, <1>5, <2>1 DEF Inserted
<1>7. StandsAt(old, i, tokens) => StandsAt(both, i, tokens)
  BY <1>3
<1>8. QED
  BY <1>4, <1>6, <1>7

\* What stands between two symbols of a text is of the text.
LEMMA BetweenSymbols ==
  ASSUME NEW m \in Nat, NEW x \in 0 .. (m - 1), NEW y \in 0 .. (m - 1), NEW k \in (x + 1) .. (y - 1)
  PROVE  k + 1 \in 1 .. m
OBVIOUS

\* What followed a symbol follows it when the text has grown.
LEMMA FollowsPersists ==
  ASSUME NEW old, NEW put, NEW both, NEW n \in Nat, NEW b \in Nat, Joined(old, put, both, n, b), Len(old) = n, Len(put) = b,
         NEW text, NEW all, NEW m \in Nat, \A j \in 1 .. m : all[j] = text[j],
         NEW i \in 1 .. (n - 1), old[i].at \in 0 .. (m - 1), old[i + 1].at \in 0 .. (m - 1), Follows(text, old, i)
  PROVE  Follows(all, both, i)
<1>1. i \in 1 .. n /\ i + 1 \in 1 .. n
  OBVIOUS
<1>2. both[i] = old[i] /\ both[i + 1] = old[i + 1] /\ Len(both) = n + b
  BY <1>1 DEF Joined
<1>3. CASE old[i + 1].at = old[i].at + 1
  BY <1>2, <1>3 DEF Follows
<1>4. CASE /\ old[i].is = "label" /\ old[i + 1].is = ":" /\ old[i].at < old[i + 1].at
           /\ i + 2 <= Len(old) /\ ~IsKept(old, i + 2) /\ Inserted(old, i + 2)
           /\ \A k \in (old[i].at + 1) .. (old[i + 1].at - 1) : text[k + 1] \in Blank
  <2>1. i + 2 \in 1 .. n /\ i + 2 <= n + b
    BY <1>4
  <2> DEFINE j == i + 2
  <2>2. j \in 1 .. n /\ ~IsKept(old, j) /\ Inserted(old, j)
    BY <1>4, <2>1
  <2> HIDE DEF j
  <2>3. ~IsKept(both, j) /\ Inserted(both, j)
    BY <2>2, Persists
  <2>4. ASSUME NEW k \in (old[i].at + 1) .. (old[i + 1].at - 1) PROVE all[k + 1] \in Blank
    <3> DEFINE x == old[i].at
               y == old[i + 1].at
    <3>1. x \in 0 .. (m - 1) /\ y \in 0 .. (m - 1) /\ k \in (x + 1) .. (y - 1)
      OBVIOUS
    <3> HIDE DEF x, y
    <3>2. k + 1 \in 1 .. m
      BY <3>1, BetweenSymbols, Zenon
    <3>3. QED
      BY <1>4, <3>2
  <2>5. QED
    BY <1>2, <1>4, <2>1, <2>3, <2>4 DEF Follows, j
<1>5. QED
  BY <1>3, <1>4 DEF Follows

\* A segment more, and each symbol of the text is still where it should be.
LEMMA MaskedGrown ==
  ASSUME NEW text, NEW m \in Nat, Len(text) = m, NEW old, NEW n \in Nat, Len(old) = n, NEW tokens, PII \in tokens, Masked(text, old, tokens),
         NEW add \in Seq(Symbol), NEW a \in Nat, Len(add) = a,
         NEW put \in Seq([is : Symbol, at : {NoOffset} \cup m .. (m + a - 1)]), NEW b \in Nat, Len(put) = b,
         NEW all, all = text \o add, NEW both, both = old \o put,
         Grafts(add, all, put, both, m, a, n, b, tokens), Leaves(add, put, m, a, b, tokens)
  PROVE  Masked(all, both, tokens)
<1> DEFINE output == Symbols(old)
           T == {NoOffset} \cup 0 .. (m + a - 1)
<1>1. /\ DOMAIN old = 1 .. n /\ Traced(text, old, tokens)
      /\ TokensWhole(old) /\ RestsShown(text, old, tokens)
  BY DEF Masked
<1>2. TracedAs(text, old, tokens, output, n, m)
  BY <1>1, TracedSymbols
<1>3. /\ text \in Seq(Symbol)
      /\ \A i \in 1 .. n : IsKept(old, i) => old[i].at \in 0 .. (m - 1) /\ text[old[i].at + 1] = old[i].is
      /\ \A i \in 1 .. n : ~IsKept(old, i) => StandsAt(old, i, tokens) \/ StandsAt(old, i - 1, tokens) \/ Inserted(old, i)
      /\ \A i, j \in 1 .. n : i < j /\ IsKept(old, i) /\ IsKept(old, j) => old[i].at < old[j].at
      /\ \A i \in 1 .. (n - 1) : IsKept(old, i) /\ IsKept(old, i + 1) => Follows(text, old, i)
      /\ n = 0 => m = 0
      /\ n > 0 /\ IsKept(old, 1) => old[1].at = 0
      /\ n > 0 /\ IsKept(old, n) => old[n].at = m - 1
  BY <1>2 DEF TracedAs
<1>4. all \in Seq(Symbol) /\ Joined(text, add, all, m, a)
  <2>1. text \o add \in Seq(Symbol) /\ Joined(text, add, text \o add, m, a)
    BY <1>3, JoinedIs
  <2>2. QED
    BY <2>1
<1>5. both \in Seq([is : Symbol, at : T]) /\ Joined(old, put, both, n, b)
  <2> DEFINE S == [is : Symbol, at : T]
  <2>1. old \in Seq([is : Symbol, at : {NoOffset} \cup 0 .. (m - 1)])
    BY <1>1 DEF Traced
  <2>2. [is : Symbol, at : {NoOffset} \cup 0 .. (m - 1)] \subseteq S
    OBVIOUS
  <2>3. [is : Symbol, at : {NoOffset} \cup m .. (m + a - 1)] \subseteq S
    OBVIOUS
  <2> HIDE DEF S
  <2>4. old \in Seq(S)
    BY <2>1, <2>2, SeqOfMore
  <2>5. put \in Seq(S)
    BY <2>3, SeqOfMore
  <2>6. old \o put \in Seq(S) /\ Joined(old, put, old \o put, n, b)
    BY <2>4, <2>5, JoinedIs
  <2>7. QED
    BY <2>6 DEF S
<1>6. Len(all) = m + a /\ Len(both) = n + b /\ DOMAIN both = 1 .. (n + b)
  BY <1>4, <1>5 DEF Joined
<1>7. /\ \A i \in 1 .. m : all[i] = text[i]
      /\ \A i \in 1 .. a : m + i \in 1 .. (m + a) /\ all[m + i] = add[i]
  BY <1>4 DEF Joined
<1>8. /\ \A i \in 1 .. n : both[i] = old[i]
      /\ \A i \in 1 .. b : n + i \in 1 .. (n + b) /\ both[n + i] = put[i]
  BY <1>5 DEF Joined
<1>9. /\ \A i \in 1 .. n : IsKept(both, i) <=> IsKept(old, i)
      /\ \A i \in 1 .. b : IsKept(both, n + i) <=> IsKept(put, i)
  BY <1>8 DEF IsKept
<1>10. /\ \A i \in 1 .. b : IsKept(put, i) => put[i].at \in m .. (m + a - 1) /\ all[put[i].at + 1] = put[i].is
       /\ \A i \in 1 .. b : ~IsKept(put, i) => StandsAt(put, i, tokens) \/ StandsAt(put, i - 1, tokens) \/ Inserted(both, n + i)
       /\ \A i, j \in 1 .. b : i < j /\ IsKept(put, i) /\ IsKept(put, j) => put[i].at < put[j].at
       /\ \A i \in 1 .. (b - 1) : IsKept(put, i) /\ IsKept(put, i + 1) => Follows(all, both, n + i)
       /\ b = 0 => a = 0
       /\ b > 0 /\ IsKept(put, 1) => put[1].at = m
       /\ b > 0 /\ IsKept(put, b) => put[b].at = m + a - 1
  BY DEF Grafts
<1>11. ASSUME NEW i \in 1 .. (n + b)
       PROVE  IF IsKept(both, i) THEN all[both[i].at + 1] = both[i].is
              ELSE StandsAt(both, i, tokens) \/ StandsAt(both, i - 1, tokens) \/ Inserted(both, i)
  <2>1. CASE i \in 1 .. n
    <3>1. CASE IsKept(both, i)
      <4>1. IsKept(old, i) /\ both[i] = old[i]
        BY <1>8, <1>9, <2>1, <3>1
      <4> DEFINE x == old[i].at
      <4>2. x \in 0 .. (m - 1) /\ text[x + 1] = old[i].is
        BY <1>3, <2>1, <4>1
      <4>3. both[i].at = x
        BY <4>1
      <4> HIDE DEF x
      <4>4. x + 1 \in 1 .. m
        BY <4>2
      <4>5. QED
        BY <1>7, <3>1, <4>1, <4>2, <4>3, <4>4
    <3>2. CASE ~IsKept(both, i)
      <4>1. ~IsKept(old, i)
        BY <1>9, <2>1, <3>2
      <4>2. StandsAt(old, i, tokens) \/ StandsAt(old, i - 1, tokens) \/ Inserted(old, i)
        BY <1>3, <2>1, <4>1
      <4>3. CASE StandsAt(old, i, tokens)
        <5>1. StandsAt(both, i, tokens)
          BY <1>5, <2>1, <4>3, Persists
        <5>2. QED
          BY <3>2, <5>1
      <4>4. CASE StandsAt(old, i - 1, tokens)
        <5> DEFINE j == i - 1
        <5>1. j \in 1 .. n /\ StandsAt(old, j, tokens)
          BY <2>1, <4>4 DEF StandsAt
        <5> HIDE DEF j
        <5>2. StandsAt(both, j, tokens)
          BY <1>5, <5>1, Persists
        <5>3. QED
          BY <3>2, <5>2 DEF j
      <4>5. CASE Inserted(old, i)
        <5>1. Inserted(both, i)
          BY <1>5, <2>1, <4>5, Persists
        <5>2. QED
          BY <3>2, <5>1
      <4>6. QED
        BY <4>2, <4>3, <4>4, <4>5
    <3>3. QED
      BY <3>1, <3>2
  <2>2. ASSUME NEW j \in 1 .. b, i = n + j
        PROVE  IF IsKept(both, i) THEN all[both[i].at + 1] = both[i].is
               ELSE StandsAt(both, i, tokens) \/ StandsAt(both, i - 1, tokens) \/ Inserted(both, i)
    <3>1. both[i] = put[j] /\ (IsKept(both, i) <=> IsKept(put, j))
      BY <1>8, <1>9, <2>2
    <3>2. CASE IsKept(both, i)
      BY <1>10, <3>1, <3>2
    <3>3. CASE ~IsKept(both, i)
      <4>1. StandsAt(put, j, tokens) \/ StandsAt(put, j - 1, tokens) \/ Inserted(both, n + j)
        BY <1>10, <3>1, <3>3
      <4>2. ASSUME NEW h \in Int, StandsAt(put, h, tokens) PROVE StandsAt(both, n + h, tokens)
        <5>1. h \in 1 .. (b - 1) /\ <<put[h].is, put[h + 1].is>> \in tokens
          BY <4>2 DEF StandsAt
        <5>2. h \in 1 .. b /\ h + 1 \in 1 .. b /\ n + h \in 1 .. (n + b - 1) /\ n + (h + 1) = (n + h) + 1
          BY <5>1
        <5>3. both[n + h] = put[h] /\ both[(n + h) + 1] = put[h + 1]
          BY <1>8, <5>2
        <5>4. QED
          BY <1>6, <5>1, <5>2, <5>3 DEF StandsAt
      <4>3. CASE StandsAt(put, j, tokens)
        <5>1. StandsAt(both, i, tokens)
          BY <2>2, <4>2, <4>3
        <5>2. QED
          BY <3>3, <5>1
      <4>4. CASE StandsAt(put, j - 1, tokens)
        <5>1. j - 1 \in Int /\ n + (j - 1) = i - 1
          BY <2>2
        <5>2. StandsAt(both, i - 1, tokens)
          BY <4>2, <4>4, <5>1
        <5>3. QED
          BY <3>3, <5>2
      <4>5. CASE Inserted(both, n + j)
        BY <2>2, <3>3, <4>5
      <4>6. QED
        BY <4>1, <4>3, <4>4, <4>5
    <3>4. QED
      BY <3>2, <3>3
  <2>3. i \in 1 .. n \/ \E j \in 1 .. b : i = n + j
    BY InJoined
  <2>4. QED
    BY <2>1, <2>2, <2>3
<1>12. ASSUME NEW i \in 1 .. (n + b), NEW j \in 1 .. (n + b), i < j, IsKept(both, i), IsKept(both, j)
       PROVE  both[i].at < both[j].at
  <2>1. CASE j \in 1 .. n
    <3>1. i \in 1 .. n
      BY <1>12, <2>1
    <3>2. IsKept(old, i) /\ IsKept(old, j) /\ both[i] = old[i] /\ both[j] = old[j]
      BY <1>8, <1>9, <1>12, <2>1, <3>1
    <3>3. QED
      BY <1>3, <1>12, <2>1, <3>1, <3>2
  <2>2. ASSUME NEW q \in 1 .. b, j = n + q, i \in 1 .. n PROVE both[i].at < both[j].at
    <3>1. IsKept(old, i) /\ both[i] = old[i] /\ IsKept(put, q) /\ both[j] = put[q]
      BY <1>8, <1>9, <1>12, <2>2
    <3> DEFINE x == old[i].at
               y == put[q].at
    <3>2. x \in 0 .. (m - 1)
      BY <1>3, <2>2, <3>1
    <3>3. y \in m .. (m + a - 1)
      BY <1>10, <3>1
    <3>4. both[i].at = x /\ both[j].at = y
      BY <3>1
    <3> HIDE DEF x, y
    <3>5. QED
      BY <3>2, <3>3, <3>4
  <2>3. ASSUME NEW p \in 1 .. b, i = n + p, NEW q \in 1 .. b, j = n + q PROVE both[i].at < both[j].at
    <3>1. p < q
      BY <1>12, <2>3
    <3>2. IsKept(put, p) /\ both[i] = put[p] /\ IsKept(put, q) /\ both[j] = put[q]
      BY <1>8, <1>9, <1>12, <2>3
    <3>3. QED
      BY <1>10, <3>1, <3>2
  <2>4. j \in 1 .. n \/ \E q \in 1 .. b : j = n + q
    BY InJoined
  <2>5. i \in 1 .. n \/ \E p \in 1 .. b : i = n + p
    BY InJoined
  <2>6. QED
    BY <2>1, <2>2, <2>3, <2>4, <2>5
<1>13. ASSUME NEW i \in 1 .. (n + b - 1), IsKept(both, i), IsKept(both, i + 1) PROVE Follows(all, both, i)
  <2>1. CASE i \in 1 .. (n - 1)
    <3>1. i \in 1 .. n /\ i + 1 \in 1 .. n
      BY <2>1
    <3>2. IsKept(old, i) /\ IsKept(old, i + 1)
      BY <1>9, <1>13, <3>1
    <3>3. Follows(text, old, i)
      BY <1>3, <2>1, <3>2
    <3>4. old[i].at \in 0 .. (m - 1) /\ old[i + 1].at \in 0 .. (m - 1)
      BY <1>3, <3>1, <3>2
    <3>5. \A j \in 1 .. m : all[j] = text[j]
      BY <1>7
    <3>6. QED
      BY <1>5, <2>1, <3>3, <3>4, <3>5, FollowsPersists
  <2>2. CASE i = n
    <3>1. n > 0 /\ n \in 1 .. n /\ b > 0 /\ 1 \in 1 .. b
      BY <2>2
    <3>2. IsKept(old, n) /\ both[i] = old[n] /\ IsKept(put, 1) /\ both[i + 1] = put[1]
      BY <1>8, <1>9, <1>13, <2>2, <3>1
    <3>3. both[i].at = m - 1 /\ both[i + 1].at = m
      BY <1>3, <1>10, <3>1, <3>2
    <3>4. QED
      BY <3>3 DEF Follows
  <2>3. CASE i > n
    <3> DEFINE j == i - n
    <3>1. j \in 1 .. (b - 1) /\ j \in 1 .. b /\ j + 1 \in 1 .. b /\ i = n + j /\ i + 1 = n + (j + 1)
      BY <2>3
    <3> HIDE DEF j
    <3>2. IsKept(put, j) /\ IsKept(put, j + 1)
      BY <1>9, <1>13, <3>1
    <3>3. QED
      BY <1>10, <3>1, <3>2
  <2>4. QED
    BY <2>1, <2>2, <2>3
<1>14. n + b = 0 => m + a = 0
  BY <1>3, <1>10
<1>15. ASSUME n + b > 0, IsKept(both, 1) PROVE both[1].at = 0
  <2>1. CASE n > 0
    <3>1. 1 \in 1 .. n
      BY <2>1
    <3>2. QED
      BY <1>3, <1>8, <1>9, <1>15, <2>1, <3>1
  <2>2. CASE n = 0
    <3>1. 1 \in 1 .. b /\ n + 1 = 1 /\ m = 0 /\ b > 0
      BY <1>3, <1>15, <2>2
    <3>2. IsKept(put, 1) /\ both[1] = put[1]
      BY <1>8, <1>9, <1>15, <3>1
    <3>3. QED
      BY <1>10, <3>1, <3>2
  <2>3. n > 0 \/ n = 0
    BY n \in Nat
  <2>4. QED
    BY <2>1, <2>2, <2>3
<1>16. ASSUME n + b > 0, IsKept(both, n + b) PROVE both[n + b].at = m + a - 1
  <2>1. CASE b > 0
    <3>1. b \in 1 .. b
      BY <2>1
    <3>2. IsKept(put, b) /\ both[n + b] = put[b]
      BY <1>8, <1>9, <1>16, <3>1
    <3>3. QED
      BY <1>10, <2>1, <3>2
  <2>2. CASE b = 0
    <3>1. n \in 1 .. n /\ n + b = n /\ a = 0 /\ n > 0 /\ m + a = m
      BY <1>10, <1>16, <2>2
    <3>2. IsKept(old, n) /\ both[n + b] = old[n]
      BY <1>8, <1>9, <1>16, <3>1
    <3>3. old[n].at = m - 1
      BY <1>3, <3>1, <3>2
    <3>4. QED
      BY <3>1, <3>2, <3>3
  <2>3. b > 0 \/ b = 0
    BY b \in Nat
  <2>4. QED
    BY <2>1, <2>2, <2>3
<1>17. Traced(all, both, tokens)
  <2> HIDE DEF T
  <2>1. both \in Seq([is : Symbol, at : {NoOffset} \cup 0 .. (Len(all) - 1)])
    BY <1>5, <1>6 DEF T
  <2>2. \A i \in 1 .. Len(both) :
          IF IsKept(both, i) THEN all[both[i].at + 1] = both[i].is
          ELSE StandsAt(both, i, tokens) \/ StandsAt(both, i - 1, tokens) \/ Inserted(both, i)
    BY <1>6, <1>11
  <2>3. \A i, j \in 1 .. Len(both) : i < j /\ IsKept(both, i) /\ IsKept(both, j) => both[i].at < both[j].at
    BY <1>6, <1>12
  <2>4. \A i \in 1 .. (Len(both) - 1) : IsKept(both, i) /\ IsKept(both, i + 1) => Follows(all, both, i)
    BY <1>6, <1>13
  <2>5. Len(both) = 0 => Len(all) = 0
    BY <1>6, <1>14
  <2>6. Len(both) > 0 => /\ IsKept(both, 1) => both[1].at = 0
                         /\ IsKept(both, Len(both)) => both[Len(both)].at = Len(all) - 1
    BY <1>6, <1>15, <1>16
  <2>7. QED
    BY <1>4, <2>1, <2>2, <2>3, <2>4, <2>5, <2>6 DEF Traced
<1>18. TokensWhole(both)
  <2>1. ASSUME NEW i \in 1 .. (n + b), ~IsKept(both, i), both[i].is = "[" PROVE i + 1 \in 1 .. (n + b) /\ ~IsKept(both, i + 1)
    <3>1. CASE i \in 1 .. n
      <4>1. ~IsKept(old, i) /\ old[i].is = "["
        BY <1>8, <1>9, <2>1, <3>1
      <4>2. i + 1 \in 1 .. n /\ ~IsKept(old, i + 1)
        BY <1>1, <3>1, <4>1 DEF TokensWhole
      <4>3. i + 1 \in 1 .. (n + b)
        BY <4>2
      <4>4. QED
        BY <1>9, <4>2, <4>3
    <3>2. ASSUME NEW j \in 1 .. b, i = n + j PROVE i + 1 \in 1 .. (n + b) /\ ~IsKept(both, i + 1)
      <4>1. ~IsKept(put, j) /\ put[j].is = "["
        BY <1>8, <1>9, <2>1, <3>2
      <4>2. j + 1 \in 1 .. b /\ ~IsKept(put, j + 1)
        BY <4>1 DEF Leaves
      <4>3. i + 1 = n + (j + 1) /\ i + 1 \in 1 .. (n + b)
        BY <3>2, <4>2
      <4>4. QED
        BY <1>9, <4>2, <4>3
    <3>3. QED
      BY <3>1, <3>2, InJoined
  <2>2. QED
    BY <1>6, <2>1 DEF TokensWhole
<1>19. Shown(old) \subseteq Shown(both) /\ Shown(put) \subseteq Shown(both)
  <2>1. DOMAIN old = 1 .. n /\ DOMAIN put = 1 .. b /\ DOMAIN both = 1 .. (n + b)
    BY <1>1, <1>6
  <2>2. ASSUME NEW i \in 1 .. n PROVE i \in DOMAIN both /\ both[i].at = old[i].at
    <3>1. i \in 1 .. (n + b)
      OBVIOUS
    <3>2. QED
      BY <1>8, <2>1, <3>1
  <2>3. ASSUME NEW i \in 1 .. b PROVE n + i \in DOMAIN both /\ both[n + i].at = put[i].at
    BY <1>8, <2>1
  <2>4. ASSUME NEW x \in Shown(old) PROVE x \in Shown(both)
    <3>1. PICK i \in 1 .. n : x = old[i].at /\ x # NoOffset
      BY <2>1, Zenon DEF Shown
    <3>2. i \in DOMAIN both /\ x = both[i].at
      BY <2>2, <3>1, Zenon
    <3>3. QED
      BY <3>1, <3>2, Zenon DEF Shown
  <2>5. ASSUME NEW x \in Shown(put) PROVE x \in Shown(both)
    <3>1. PICK i \in 1 .. b : x = put[i].at /\ x # NoOffset
      BY <2>1, Zenon DEF Shown
    <3>2. n + i \in DOMAIN both /\ x = both[n + i].at
      BY <2>3, <3>1, Zenon
    <3>3. QED
      BY <3>1, <3>2, Zenon DEF Shown
  <2>6. QED
    BY <2>4, <2>5, Zenon
<1>20. RestsShown(all, both, tokens)
  <2>1. ASSUME NEW k \in 0 .. (m + a - 1), k \notin Shown(both), Rest(all[k + 1], tokens)
        PROVE  all[k + 1] = "pii" /\ \E i \in 1 .. (n + b) : both[i].is = "secret" /\ ~IsKept(both, i)
    <3>1. CASE k < m
      <4>1. k \in 0 .. (m - 1) /\ k + 1 \in 1 .. m
        BY <3>1
      <4>2. k \notin Shown(old) /\ all[k + 1] = text[k + 1]
        BY <1>7, <1>19, <2>1, <4>1
      <4>3. text[k + 1] \in Symbol
        BY <1>3, <4>1
      <4>4. <<"[", text[k + 1]>> \notin tokens \ {PII}
        BY <1>1, <4>1, <4>2, <4>3 DEF RestsShown
      <4>5. <<"[", text[k + 1]>> = PII
        BY <2>1, <4>2, <4>4 DEF Rest
      <4>6. text[k + 1] = "pii"
        BY <4>5 DEF PII
      <4>7. PICK i \in 1 .. n : old[i].is = "secret" /\ ~IsKept(old, i)
        BY <1>1, <4>1, <4>2, <4>6 DEF RestsShown
      <4>8. i \in 1 .. (n + b) /\ both[i] = old[i] /\ ~IsKept(both, i)
        BY <1>8, <1>9, <4>7
      <4>9. QED
        BY <4>2, <4>6, <4>7, <4>8
    <3>2. CASE k >= m
      <4> DEFINE j == (k + 1) - m
      <4>1. j \in 1 .. a /\ k + 1 = m + j /\ m + j - 1 = k
        BY <3>2
      <4> HIDE DEF j
      <4>2. all[k + 1] = add[j]
        BY <1>7, <4>1
      <4>3. k \notin Shown(put)
        BY <1>19, <2>1
      <4>4. add[j] = "pii" /\ \E i \in 1 .. b : put[i].is = "secret" /\ ~IsKept(put, i)
        BY <2>1, <4>1, <4>2, <4>3 DEF Leaves
      <4>5. PICK i \in 1 .. b : put[i].is = "secret" /\ ~IsKept(put, i)
        BY <4>4
      <4>6. n + i \in 1 .. (n + b) /\ both[n + i] = put[i] /\ ~IsKept(both, n + i)
        BY <1>8, <1>9, <4>5
      <4>7. both[n + i].is = "secret"
        BY <4>5, <4>6
      <4>8. QED
        BY <4>2, <4>4, <4>6, <4>7
    <3>3. QED
      BY <3>1, <3>2
  <2>2. ASSUME NEW k \in 0 .. (m + a - 1), k \notin Shown(both), NEW c \in Symbol, <<"[", c>> \in tokens \ {PII}
        PROVE  all[k + 1] # c
    <3>1. SUFFICES ASSUME all[k + 1] = c PROVE FALSE
      OBVIOUS
    <3>2. Rest(all[k + 1], tokens)
      BY <2>2, <3>1 DEF Rest
    <3>3. c = "pii"
      BY <2>1, <2>2, <3>1, <3>2
    <3>4. QED
      BY <2>2, <3>3 DEF PII
  <2>3. ASSUME NEW k \in 0 .. (m + a - 1), k \notin Shown(both), all[k + 1] = "pii"
        PROVE  \E i \in 1 .. (n + b) : both[i].is = "secret" /\ ~IsKept(both, i)
    <3>1. PII \in tokens \/ PII \notin tokens
      OBVIOUS
    <3>2. QED
      BY <2>1, <2>3, <3>1 DEF Rest, PII
  <2>4. \A k \in 0 .. (Len(all) - 1) : k \notin Shown(both) =>
          \A c \in Symbol : <<"[", c>> \in tokens \ {PII} => all[k + 1] # c
    BY <1>6, <2>2
  <2>5. \A k \in 0 .. (Len(all) - 1) : k \notin Shown(both) /\ all[k + 1] = "pii" =>
          \E i \in 1 .. Len(both) : both[i].is = "secret" /\ ~IsKept(both, i)
    <3>1. ASSUME NEW k \in 0 .. (Len(all) - 1), k \notin Shown(both), all[k + 1] = "pii"
          PROVE  \E i \in 1 .. Len(both) : both[i].is = "secret" /\ ~IsKept(both, i)
      <4>1. k \in 0 .. (m + a - 1)
        BY <1>6
      <4>2. \E i \in 1 .. (n + b) : both[i].is = "secret" /\ ~IsKept(both, i)
        BY <2>3, <3>1, <4>1
      <4>3. QED
        BY <1>6, <4>2
    <3>2. QED
      BY <3>1
  <2>6. QED
    BY <2>4, <2>5 DEF RestsShown
<1>21. QED
  BY <1>6, <1>17, <1>18, <1>20 DEF Masked

-----------------------------------------------------------------------------
(* The hypothesis on texts, and what a segment adds.                       *)

\* A text of strings is one of symbols.
LEMMA StringsAreSymbols ==
  ASSUME NEW text \in Seq(STRING)
  PROVE  text \in Seq(Symbol)
<1>1. STRING \subseteq Symbol
  BY DEF Symbol
<1>2. QED
  BY <1>1, SeqOfMore

\* A function on 1 .. a is a sequence of length a.
LEMMA SeqAs ==
  ASSUME NEW S, NEW a \in Nat, NEW f, f = [k \in 1 .. a |-> f[k]], \A k \in 1 .. a : f[k] \in S
  PROVE  f \in Seq(S) /\ Len(f) = a
<1>1. f \in [1 .. a -> S]
  OBVIOUS
<1>2. f \in Seq(S)
  BY <1>1
<1>3. QED
  BY <1>1, <1>2

\* A sequence of two.
LEMMA PairOf ==
  ASSUME NEW S, NEW label \in Seq(S), Len(label) = 2
  PROVE  label = <<label[1], label[2]>> /\ label[1] \in S /\ label[2] \in S
<1>1. label[1] \in S /\ label[2] \in S
  OBVIOUS
<1> DEFINE x == label[1]
           y == label[2]
<1>2. <<x, y>> \in Seq(S) /\ Len(<<x, y>>) = 2 /\ <<x, y>>[1] = x /\ <<x, y>>[2] = y
  BY <1>1
<1>3. \A k \in 1 .. Len(label) : label[k] = <<x, y>>[k]
  BY <1>2
<1>4. label = <<x, y>>
  BY <1>2, <1>3, SameSeq
<1>5. QED
  BY <1>1, <1>4

\* The words of the tokens with a field's patterns.
LEMMA VocabularyIs ==
  ASSUME PatternsAsWords, NEW rules \in Rules
  PROVE  /\ TokensAreWords(TokenVocab(rules))
         /\ Builtin \subseteq TokenVocab(rules) /\ TokenVocab(rules) \subseteq Seq(Symbol)
         /\ \A c : Rest(c, TokenVocab(rules)) => c \in Rests
<1> DEFINE tokens == TokenVocab(rules)
           Rules1 == [finds : Seq(STRING) \ {<<>>}, label : Seq(STRING)]
<1>1. rules \in Seq(Rules1)
  BY DEF PatternsAsWords
<1>2. \A i \in DOMAIN rules : rules[i].label \in Seq(STRING)
  <2>1. ASSUME NEW i \in DOMAIN rules PROVE rules[i] \in Rules1
    <3> HIDE DEF Rules1
    <3>1. QED
      BY <1>1
  <2>2. ASSUME NEW i \in DOMAIN rules PROVE rules[i].label \in Seq(STRING)
    <3>1. rules[i] \in Rules1
      BY <2>1
    <3>2. QED
      BY <3>1
  <2>3. QED
    BY <2>2
<1>3. \A i \in DOMAIN rules : Len(rules[i].label) = 2 /\ rules[i].label[1] = "["
                              /\ rules[i].label[2] \notin Blank \cup Letters \cup {"[", ":"}
  BY DEF PatternsAsWords
<1>4. ASSUME NEW i \in DOMAIN rules
      PROVE  \E c \in Symbol : rules[i].label = <<"[", c>> /\ c \notin Letters \cup Blank \cup {"[", ":"}
  <2> DEFINE label == rules[i].label
  <2>1. label \in Seq(STRING) /\ Len(label) = 2 /\ label[1] = "[" /\ label[2] \notin Blank \cup Letters \cup {"[", ":"}
    BY <1>2, <1>3
  <2> HIDE DEF label
  <2>2. label = <<"[", label[2]>> /\ label[2] \in STRING
    BY <2>1, PairOf
  <2>3. label[2] \in Symbol
    BY <2>2 DEF Symbol
  <2>4. \E c \in Symbol : label = <<"[", c>> /\ c \notin Letters \cup Blank \cup {"[", ":"}
    BY <2>1, <2>2, <2>3
  <2>5. QED
    BY <2>4 DEF label
<1>5. \A t \in tokens : t \in Builtin \/ \E i \in DOMAIN rules : t = rules[i].label
  BY DEF TokenVocab, ToSet
<1>6. Builtin \subseteq tokens
  BY DEF TokenVocab
<1>7. ASSUME NEW t \in Builtin
      PROVE  \E c \in Symbol : t = <<"[", c>> /\ c \notin Letters \cup Blank \cup {"[", ":"}
  <2>1. "pii" \in Symbol /\ "secret" \in Symbol
    BY DEF Symbol
  <2>2. "pii" \notin Letters \cup Blank \cup {"[", ":"} /\ "secret" \notin Letters \cup Blank \cup {"[", ":"}
    BY DEF Letters, Blank
  <2>3. t = <<"[", "pii">> \/ t = <<"[", "secret">>
    BY DEF Builtin, PII, SECRET
  <2>4. QED
    BY <2>1, <2>2, <2>3
<1>8. \A t \in tokens : \E c \in Symbol : t = <<"[", c>> /\ c \notin Letters \cup Blank \cup {"[", ":"}
  <2>1. ASSUME NEW t \in tokens
        PROVE  \E c \in Symbol : t = <<"[", c>> /\ c \notin Letters \cup Blank \cup {"[", ":"}
    BY <1>4, <1>5, <1>7
  <2>2. QED
    BY <2>1
<1>9. PII \in tokens
  BY <1>6 DEF Builtin
<1>10. TokensAreWords(tokens)
  BY <1>8, <1>9 DEF TokensAreWords
<1>11. ASSUME NEW t \in tokens PROVE t \in Seq(Symbol)
  <2>1. PICK c \in Symbol : t = <<"[", c>>
    BY <1>8
  <2>2. "[" \in Symbol
    BY DEF Symbol
  <2>3. QED
    BY <2>1, <2>2
<1>12. ASSUME NEW c, <<"[", c>> \in tokens PROVE c \in Rests
  <2>1. <<"[", c>> \in Vocab
    BY <1>12 DEF Vocab
  <2>2. <<"[", c>>[2] = c
    OBVIOUS
  <2>3. QED
    BY <2>1, <2>2 DEF Rests
<1>13. \A c : Rest(c, tokens) => c \in Rests
  BY <1>12 DEF Rest
<1> HIDE DEF tokens
<1>14. TokensAreWords(tokens) /\ Builtin \subseteq tokens /\ tokens \subseteq Seq(Symbol)
       /\ \A c : Rest(c, tokens) => c \in Rests
  BY <1>6, <1>10, <1>11, <1>13
<1>15. QED
  BY <1>14 DEF tokens

\* The operator's patterns are such as the proofs take them.
LEMMA RulesAreHeld ==
  ASSUME PatternsAsWords, NEW rules \in Rules
  PROVE  Len(rules) \in Nat /\ RulesHeld(rules, Len(rules), TokenVocab(rules))
<1> DEFINE tokens == TokenVocab(rules)
           Rules1 == [finds : Seq(STRING) \ {<<>>}, label : Seq(STRING)]
           n == Len(rules)
<1>1. rules \in Seq(Rules1)
  BY DEF PatternsAsWords
<1>2. n \in Nat /\ DOMAIN rules = 1 .. n /\ \A i \in 1 .. n : rules[i] \in Rules1
  <2> HIDE DEF Rules1
  <2>1. QED
    BY <1>1
<1> HIDE DEF n
<1>3. TokensAreWords(tokens) /\ Builtin \subseteq tokens /\ \A c : Rest(c, tokens) => c \in Rests
  BY VocabularyIs
<1>4. ASSUME NEW i \in 1 .. n
      PROVE  /\ rules[i].finds \in Seq(Symbol) /\ Len(rules[i].finds) \in Nat \ {0} /\ rules[i].label \in tokens
             /\ \A j \in 1 .. Len(rules[i].finds) :
                  rules[i].finds[j] \notin Marks \cup {"pii", "secret"} /\ ~Rest(rules[i].finds[j], tokens)
  <2> DEFINE finds == rules[i].finds
  <2>1. finds \in Seq(STRING) /\ finds # <<>>
    <3>1. rules[i] \in Rules1
      BY <1>2
    <3>2. QED
      BY <3>1
  <2>2. \A k \in DOMAIN finds : finds[k] \notin Blank \cup {"label", "title", ":"} \cup Rests
    BY <1>2 DEF PatternsAsWords
  <2>3. rules[i].label \in tokens
    <3>1. rules[i] \in ToSet(rules)
      BY <1>2 DEF ToSet
    <3>2. QED
      BY <3>1 DEF TokenVocab
  <2> HIDE DEF finds
  <2>4. finds \in Seq(Symbol)
    BY <2>1, StringsAreSymbols
  <2>5. Len(finds) \in Nat \ {0} /\ DOMAIN finds = 1 .. Len(finds)
    BY <2>1
  <2>6. "pii" \in Rests /\ "secret" \in Rests
    <3>1. <<"[", "pii">> \in tokens /\ <<"[", "secret">> \in tokens
      BY <1>3 DEF Builtin, PII, SECRET
    <3>2. QED
      BY <1>3, <3>1 DEF Rest
  <2>7. ASSUME NEW j \in 1 .. Len(finds) PROVE finds[j] \notin Marks \cup {"pii", "secret"} /\ ~Rest(finds[j], tokens)
    <3>1. finds[j] \notin Blank \cup {"label", "title", ":"} /\ finds[j] \notin Rests
      BY <2>2, <2>5
    <3>2. finds[j] \notin Marks /\ finds[j] # "pii" /\ finds[j] # "secret"
      BY <2>6, <3>1 DEF Marks
    <3>3. ~Rest(finds[j], tokens)
      BY <1>3, <3>1
    <3>4. QED
      BY <3>2, <3>3
  <2>8. /\ finds \in Seq(Symbol) /\ Len(finds) \in Nat \ {0} /\ rules[i].label \in tokens
        /\ \A j \in 1 .. Len(finds) : finds[j] \notin Marks \cup {"pii", "secret"} /\ ~Rest(finds[j], tokens)
    BY <2>3, <2>4, <2>5, <2>7
  <2>9. QED
    BY <2>8 DEF finds
<1>5. n = Len(rules) /\ SECRET \in tokens
  BY <1>3 DEF n, Builtin
<1>6. RulesTyped(rules, n)
  <2>1. \A i \in 1 .. n : /\ rules[i].finds \in Seq(Symbol) /\ Len(rules[i].finds) \in Nat \ {0} /\ rules[i].label \in tokens
    BY <1>4
  <2>2. QED
    BY <1>2, <1>5, <2>1 DEF RulesTyped
<1>7. \A i \in 1 .. n : \A j \in 1 .. Len(rules[i].finds) :
        rules[i].finds[j] \notin Marks \cup {"pii", "secret"} /\ ~Rest(rules[i].finds[j], tokens)
  BY <1>4
<1> HIDE DEF tokens
<1>8. tokens = TokenVocab(rules)
  BY DEF tokens
<1>9. RulesHeld(rules, n, tokens)
  BY <1>3, <1>5, <1>6, <1>7, <1>8 DEF RulesHeld
<1>10. QED
  BY <1>2, <1>9 DEF n, tokens

\* What stands at the end of the text when it has grown, and of what the masker
\* makes of it.
Adds(all, add, m, a) == \A i \in 1 .. a : m + i \in 1 .. (m + a) /\ all[m + i] = add[i]

\* What the masker wrote is at the end of its text.
Puts(both, put, n, b) == \A i \in 1 .. b : both[n + i] = put[i]

\* Symbols that were kept, from m.
Kepts(put, add, m) == put = [k \in DOMAIN add |-> [is |-> add[k], at |-> m + 0 + k - 1]]

\* What the masker makes of a segment is as it should be.
Fit(add, all, put, both, m, a, n, b, tokens) ==
  /\ put \in Seq([is : Symbol, at : {NoOffset} \cup m .. (m + a - 1)]) /\ Len(put) = b
  /\ Grafts(add, all, put, both, m, a, n, b, tokens) /\ Leaves(add, put, m, a, b, tokens)

\* A segment that is left as it is.
LEMMA LeaveGrafts ==
  ASSUME NEW add \in Seq(Symbol), NEW m \in Nat, NEW a \in Nat, Len(add) = a, NEW n \in Nat, NEW tokens,
         NEW put, Kepts(put, add, m), NEW all, Adds(all, add, m, a), NEW both, Puts(both, put, n, a)
  PROVE  Fit(add, all, put, both, m, a, n, a, tokens)
<1> DEFINE S == [is : Symbol, at : {NoOffset} \cup m .. (m + a - 1)]
<1>1. DOMAIN add = 1 .. a /\ \A k \in 1 .. a : add[k] \in Symbol
  OBVIOUS
<1>2. DOMAIN put = 1 .. a /\ \A k \in 1 .. a : put[k] = [is |-> add[k], at |-> m + 0 + k - 1]
  BY <1>1 DEF Kepts
<1>3. ASSUME NEW k \in 1 .. a
      PROVE  put[k].is = add[k] /\ put[k].at = m + k - 1 /\ put[k].at \in m .. (m + a - 1) /\ IsKept(put, k) /\ put[k] \in S
  <2>1. m + 0 + k - 1 = m + k - 1 /\ m + k - 1 \in m .. (m + a - 1) /\ m + k - 1 # NoOffset
    BY DEF NoOffset
  <2>2. put[k].is = add[k] /\ put[k].at = m + k - 1
    BY <1>2, <2>1
  <2>3. add[k] \in Symbol
    BY <1>1
  <2>4. put[k] \in S
    BY <1>2, <2>1, <2>3
  <2>5. QED
    BY <2>1, <2>2, <2>4 DEF IsKept
<1>4. put \in Seq(S) /\ Len(put) = a
  <2> HIDE DEF S
  <2>1. \A k \in 1 .. a : put[k] \in S
    BY <1>3
  <2>2. put = [k \in 1 .. a |-> put[k]]
    BY <1>1 DEF Kepts
  <2>3. QED
    BY <2>1, <2>2, SeqAs
<1> HIDE DEF S
<1>5. \A i \in 1 .. a : IsKept(put, i) => put[i].at \in m .. (m + a - 1) /\ all[put[i].at + 1] = put[i].is
  <2>1. ASSUME NEW i \in 1 .. a PROVE put[i].at \in m .. (m + a - 1) /\ all[put[i].at + 1] = put[i].is
    <3>1. put[i].at \in m .. (m + a - 1) /\ put[i].at = m + i - 1 /\ put[i].is = add[i]
      BY <1>3
    <3>2. (m + i - 1) + 1 = m + i
      OBVIOUS
    <3>3. all[m + i] = add[i]
      BY DEF Adds
    <3>4. QED
      BY <3>1, <3>2, <3>3
  <2>2. QED
    BY <2>1
<1>6. \A i, j \in 1 .. a : i < j /\ IsKept(put, i) /\ IsKept(put, j) => put[i].at < put[j].at
  BY <1>3
<1>7. \A i \in 1 .. (a - 1) : IsKept(put, i) /\ IsKept(put, i + 1) => Follows(all, both, n + i)
  <2>1. ASSUME NEW i \in 1 .. (a - 1) PROVE Follows(all, both, n + i)
    <3>1. i \in 1 .. a /\ i + 1 \in 1 .. a /\ n + (i + 1) = (n + i) + 1
      OBVIOUS
    <3>2. both[n + i] = put[i] /\ both[(n + i) + 1] = put[i + 1]
      BY <3>1 DEF Puts
    <3>3. put[i].at = m + i - 1 /\ put[i + 1].at = m + (i + 1) - 1
      BY <1>3, <3>1
    <3>4. both[(n + i) + 1].at = both[n + i].at + 1
      BY <3>2, <3>3
    <3>5. QED
      BY <3>4 DEF Follows
  <2>2. QED
    BY <2>1
<1>8. /\ a > 0 /\ IsKept(put, 1) => put[1].at = m
      /\ a > 0 /\ IsKept(put, a) => put[a].at = m + a - 1
  <2>1. a > 0 => 1 \in 1 .. a /\ a \in 1 .. a
    BY a \in Nat
  <2>2. QED
    BY <1>3, <2>1
<1>9. Grafts(add, all, put, both, m, a, n, a, tokens)
  BY <1>3, <1>5, <1>6, <1>7, <1>8 DEF Grafts
<1>10. \A j \in 1 .. a : m + j - 1 \in Shown(put)
  <2>1. ASSUME NEW j \in 1 .. a PROVE m + j - 1 \in Shown(put)
    <3>1. j \in DOMAIN put /\ put[j].at = m + j - 1 /\ m + j - 1 # NoOffset
      BY <1>2, <1>3 DEF IsKept
    <3>2. QED
      BY <3>1 DEF Shown
  <2>2. QED
    BY <2>1
<1>11. Leaves(add, put, m, a, a, tokens)
  BY <1>3, <1>10 DEF Leaves
<1>12. QED
  BY <1>4, <1>9, <1>11 DEF S, Fit

\* A symbol the masker kept from k, and one it put in.
KeptAs(c, k) == [is |-> c, at |-> k]

\* A symbol the masker put in.
PutAs(c) == KeptAs(c, NoOffset)

\* The parts of both.
LEMMA KeptAsIs ==
  ASSUME NEW c, NEW k
  PROVE  KeptAs(c, k).is = c /\ KeptAs(c, k).at = k /\ PutAs(c).is = c /\ PutAs(c).at = NoOffset
BY DEF KeptAs, PutAs

\* A segment that is hidden by a token.
LEMMA HideGrafts ==
  ASSUME NEW add \in Seq(Symbol), NEW m \in Nat, NEW a \in Nat, Len(add) = a, NEW n \in Nat, NEW tokens,
         NEW c \in Symbol, <<"[", c>> \in tokens, c # "[",
         \A j \in 1 .. a : Rest(add[j], tokens) => c = "secret" /\ add[j] = "pii",
         NEW put, put = <<PutAs("["), PutAs(c)>>, NEW all, NEW both
  PROVE  Fit(add, all, put, both, m, a, n, 2, tokens)
<1> DEFINE S == [is : Symbol, at : {NoOffset} \cup m .. (m + a - 1)]
<1>1. "[" \in Symbol
  BY DEF Symbol
<1>2. PutAs("[") \in S /\ PutAs(c) \in S
  BY <1>1 DEF PutAs, KeptAs
<1>3. Len(put) = 2 /\ put[1] = PutAs("[") /\ put[2] = PutAs(c)
  OBVIOUS
<1>4. put \in Seq(S)
  <2> HIDE DEF S
  <2>1. QED
    BY <1>2
<1> HIDE DEF S
<1>5. put[1].is = "[" /\ put[2].is = c
  BY <1>3 DEF KeptAs, PutAs
<1>6. ~IsKept(put, 1) /\ ~IsKept(put, 2)
  BY <1>3 DEF IsKept, KeptAs, PutAs
<1>7. \A i \in 1 .. 2 : i = 1 \/ i = 2
  OBVIOUS
<1>8. StandsAt(put, 1, tokens)
  BY <1>3, <1>5 DEF StandsAt
<1>9. \A i \in 1 .. 2 : ~IsKept(put, i) /\ (StandsAt(put, i, tokens) \/ StandsAt(put, i - 1, tokens))
  <2>1. 2 - 1 = 1
    OBVIOUS
  <2>2. QED
    BY <1>6, <1>7, <1>8, <2>1
<1>10. \A i \in 1 .. (2 - 1) : i \in 1 .. 2
  OBVIOUS
<1>11. Grafts(add, all, put, both, m, a, n, 2, tokens)
  <2>1. 1 \in 1 .. 2 /\ 2 \in 1 .. 2 /\ 2 # 0
    OBVIOUS
  <2>2. QED
    BY <1>9, <1>10, <2>1 DEF Grafts
<1>12. Leaves(add, put, m, a, 2, tokens)
  <2>1. ASSUME NEW i \in 1 .. 2, put[i].is = "[" PROVE i + 1 \in 1 .. 2 /\ ~IsKept(put, i + 1)
    <3>1. i = 1
      BY <1>5, <1>7, <2>1
    <3>2. 1 + 1 = 2 /\ 2 \in 1 .. 2
      OBVIOUS
    <3>3. QED
      BY <1>6, <3>1, <3>2
  <2>2. ASSUME NEW j \in 1 .. a, Rest(add[j], tokens)
        PROVE  add[j] = "pii" /\ \E i \in 1 .. 2 : put[i].is = "secret" /\ ~IsKept(put, i)
    <3>1. 2 \in 1 .. 2
      OBVIOUS
    <3>2. QED
      BY <1>5, <1>6, <2>2, <3>1
  <2>3. QED
    BY <2>1, <2>2 DEF Leaves
<1>13. QED
  BY <1>3, <1>4, <1>11, <1>12 DEF S, Fit

\* Where the old text ends before a mark: in no letter of a word.
EndsApart(both, n) == n > 0 => both[n].is \notin Letters

\* A title stays, and a name after it is hidden.
LEMMA TitledGrafts ==
  ASSUME NEW add \in Seq(Symbol), NEW m \in Nat, NEW a \in Nat \ {0}, Len(add) = a, NEW n \in Nat, NEW tokens, PII \in tokens,
         add[1] = "title", \A j \in 2 .. a : ~Rest(add[j], tokens),
         NEW put, put = <<KeptAs("title", m), PutAs("space"), PutAs("["), PutAs("pii")>>,
         NEW all, all[m + 1] = "title",
         NEW both, Len(both) = n + 4, \A i \in 1 .. 4 : both[n + i] = put[i], EndsApart(both, n)
  PROVE  Fit(add, all, put, both, m, a, n, 4, tokens)
<1> DEFINE S == [is : Symbol, at : {NoOffset} \cup m .. (m + a - 1)]
<1>1. "[" \in Symbol /\ "pii" \in Symbol /\ "space" \in Symbol /\ "title" \in Symbol
  BY DEF Symbol, Letters, Blank
<1>2. KeptAs("title", m) \in S /\ PutAs("space") \in S /\ PutAs("[") \in S /\ PutAs("pii") \in S
  BY <1>1 DEF PutAs, KeptAs
<1>3. Len(put) = 4 /\ put[1] = KeptAs("title", m) /\ put[2] = PutAs("space") /\ put[3] = PutAs("[") /\ put[4] = PutAs("pii")
  OBVIOUS
<1>4. put \in Seq(S)
  <2> HIDE DEF S
  <2>1. QED
    BY <1>2
<1> HIDE DEF S
<1>5. put[1].is = "title" /\ put[2].is = "space" /\ put[3].is = "[" /\ put[4].is = "pii" /\ put[1].at = m
  BY <1>3 DEF KeptAs, PutAs
<1>6. IsKept(put, 1) /\ ~IsKept(put, 2) /\ ~IsKept(put, 3) /\ ~IsKept(put, 4)
  <2>1. m # NoOffset
    BY DEF NoOffset
  <2>2. QED
    BY <1>3, <2>1 DEF IsKept, KeptAs, PutAs
<1>7. \A i \in 1 .. 4 : i = 1 \/ i = 2 \/ i = 3 \/ i = 4
  OBVIOUS
<1>8. StandsAt(put, 3, tokens)
  <2>1. 3 \in 1 .. (Len(put) - 1) /\ 3 + 1 = 4
    BY <1>3
  <2>2. <<put[3].is, put[4].is>> \in tokens
    BY <1>5, Zenon DEF PII
  <2>3. QED
    BY <2>1, <2>2, Zenon DEF StandsAt
<1>9. both[n + 1] = put[1] /\ both[n + 2] = put[2] /\ both[n + 3] = put[3] /\ both[n + 4] = put[4]
  OBVIOUS
<1>10. Inserted(both, n + 2)
  <2>1. n + 2 >= 2 /\ (n + 2) - 1 = n + 1 /\ (n + 2) - 2 = n /\ (n + 2 >= 3 => n > 0)
        /\ (n + 2) + 1 = n + 3 /\ (n + 3) + 1 = n + 4 /\ n + 3 \in 1 .. (n + 4 - 1)
    OBVIOUS
  <2>2. both[n + 1].is = "title" /\ IsKept(both, n + 1)
    BY <1>5, <1>6, <1>9 DEF IsKept
  <2>3. AfterMark(both, n + 2)
    BY <2>1, <2>2 DEF AfterMark, EndsApart
  <2>4. StandsAt(both, n + 3, {PII})
    BY <1>5, <1>9, <2>1 DEF StandsAt, PII
  <2>5. QED
    BY <1>5, <1>9, <2>1, <2>3, <2>4 DEF Inserted
<1>11. \A i \in 1 .. 4 : ~IsKept(put, i) => StandsAt(put, i, tokens) \/ StandsAt(put, i - 1, tokens) \/ Inserted(both, n + i)
  <2>1. 4 - 1 = 3
    OBVIOUS
  <2>2. QED
    BY <1>6, <1>7, <1>8, <1>10, <2>1
<1>12. m \in m .. (m + a - 1)
  OBVIOUS
<1>13. \A i \in 1 .. (4 - 1) : i + 1 \in 1 .. 4 /\ i + 1 # 1
  OBVIOUS
<1>14. Grafts(add, all, put, both, m, a, n, 4, tokens)
  <2>1. \A i \in 1 .. 4 : IsKept(put, i) => i = 1
    BY <1>6, <1>7
  <2>2. \A i \in 1 .. 4 : IsKept(put, i) => put[i].at \in m .. (m + a - 1) /\ all[put[i].at + 1] = put[i].is
    BY <1>5, <1>12, <2>1
  <2>3. \A i, j \in 1 .. 4 : i < j /\ IsKept(put, i) /\ IsKept(put, j) => put[i].at < put[j].at
    BY <2>1
  <2>4. \A i \in 1 .. (4 - 1) : IsKept(put, i) /\ IsKept(put, i + 1) => Follows(all, both, n + i)
    BY <1>13, <2>1
  <2>5. ~IsKept(put, 4) /\ 4 # 0
    BY <1>6
  <2>6. QED
    BY <1>5, <1>11, <2>2, <2>3, <2>4, <2>5 DEF Grafts
<1>15. m \in Shown(put)
  <2>1. DOMAIN put = 1 .. 4 /\ 1 \in 1 .. 4
    BY <1>3
  <2>2. m # NoOffset
    BY DEF NoOffset
  <2>3. QED
    BY <1>5, <2>1, <2>2 DEF Shown
<1>16. Leaves(add, put, m, a, 4, tokens)
  <2>1. ASSUME NEW i \in 1 .. 4, put[i].is = "[" PROVE i + 1 \in 1 .. 4 /\ ~IsKept(put, i + 1)
    <3>1. i = 3
      BY <1>5, <1>7, <2>1
    <3>2. 3 + 1 = 4 /\ 4 \in 1 .. 4
      OBVIOUS
    <3>3. QED
      BY <1>6, <3>1, <3>2
  <2>2. ASSUME NEW j \in 1 .. a, m + j - 1 \notin Shown(put) PROVE ~Rest(add[j], tokens)
    <3>1. j = 1 \/ j \in 2 .. a
      OBVIOUS
    <3>2. j # 1
      <4>1. m + 1 - 1 = m
        OBVIOUS
      <4>2. QED
        BY <1>15, <2>2, <4>1
    <3>3. QED
      BY <3>1, <3>2
  <2>3. QED
    BY <2>1, <2>2 DEF Leaves
<1>17. QED
  BY <1>3, <1>4, <1>14, <1>16 DEF S, Fit

\* A label, its colon g symbols after it, and a name.
LabelledAt(add, all, m, a, g, tokens) ==
  /\ add[1] = "label" /\ all[m + 1] = "label" /\ all[m + g + 1] = ":"
  /\ \A k \in (m + 1) .. (m + g - 1) : all[k + 1] \in Blank
  /\ \A j \in 2 .. a : j # g + 1 => ~Rest(add[j], tokens)

\* A label and its colon stay, and a name after them is hidden.
LEMMA LabelledGrafts ==
  ASSUME NEW add \in Seq(Symbol), NEW m \in Nat, NEW a \in Nat \ {0}, Len(add) = a, NEW n \in Nat, NEW tokens, PII \in tokens,
         NEW g \in 1 .. (a - 1), NEW all, LabelledAt(add, all, m, a, g, tokens),
         NEW put, put = <<KeptAs("label", m), KeptAs(":", m + g), PutAs("space"), PutAs("["), PutAs("pii")>>,
         NEW both, Len(both) = n + 5, Puts(both, put, n, 5), EndsApart(both, n)
  PROVE  Fit(add, all, put, both, m, a, n, 5, tokens)
<1> DEFINE S == [is : Symbol, at : {NoOffset} \cup m .. (m + a - 1)]
           h == m + g
<1>P. /\ all[m + 1] = "label" /\ all[m + g + 1] = ":" /\ \A k \in (m + 1) .. (m + g - 1) : all[k + 1] \in Blank
      /\ \A j \in 2 .. a : j # g + 1 => ~Rest(add[j], tokens)
  BY DEF LabelledAt
<1>1. "[" \in Symbol /\ "pii" \in Symbol /\ "space" \in Symbol /\ "label" \in Symbol /\ ":" \in Symbol
  BY DEF Symbol, Letters, Blank
<1>0. m \in m .. (m + a - 1) /\ h \in m .. (m + a - 1) /\ m < h /\ h \in Nat
  OBVIOUS
<1> HIDE DEF h
<1>2. KeptAs("label", m) \in S /\ KeptAs(":", h) \in S /\ PutAs("space") \in S /\ PutAs("[") \in S /\ PutAs("pii") \in S
  BY <1>0, <1>1 DEF PutAs, KeptAs
<1>3. /\ Len(put) = 5 /\ put[1] = KeptAs("label", m) /\ put[2] = KeptAs(":", h)
      /\ put[3] = PutAs("space") /\ put[4] = PutAs("[") /\ put[5] = PutAs("pii")
  BY DEF h
<1>4. put \in Seq(S)
  <2> HIDE DEF S
  <2>1. put = <<KeptAs("label", m), KeptAs(":", h), PutAs("space"), PutAs("["), PutAs("pii")>>
    BY DEF h
  <2>2. QED
    BY <1>2, <2>1
<1> HIDE DEF S
<1>5. /\ put[1].is = "label" /\ put[2].is = ":" /\ put[3].is = "space" /\ put[4].is = "[" /\ put[5].is = "pii"
      /\ put[1].at = m /\ put[2].at = h
  BY <1>3 DEF KeptAs, PutAs
<1>6. IsKept(put, 1) /\ IsKept(put, 2) /\ ~IsKept(put, 3) /\ ~IsKept(put, 4) /\ ~IsKept(put, 5)
  <2>1. m # NoOffset /\ h # NoOffset
    BY <1>0 DEF NoOffset
  <2>2. QED
    BY <1>3, <2>1 DEF IsKept, KeptAs, PutAs
<1>7. \A i \in 1 .. 5 : i = 1 \/ i = 2 \/ i = 3 \/ i = 4 \/ i = 5
  OBVIOUS
<1>8. StandsAt(put, 4, tokens)
  <2>1. 4 + 1 = 5 /\ 4 \in 1 .. (Len(put) - 1)
    BY <1>3
  <2>2. <<put[4].is, put[4 + 1].is>> \in tokens
    BY <1>5, <2>1 DEF PII
  <2>3. QED
    BY <2>1, <2>2 DEF StandsAt
<1>9. both[n + 1] = put[1] /\ both[n + 2] = put[2] /\ both[n + 3] = put[3] /\ both[n + 4] = put[4] /\ both[n + 5] = put[5]
  <2>1. 1 \in 1 .. 5 /\ 2 \in 1 .. 5 /\ 3 \in 1 .. 5 /\ 4 \in 1 .. 5 /\ 5 \in 1 .. 5
    OBVIOUS
  <2>2. QED
    BY <2>1 DEF Puts
<1>10. Inserted(both, n + 3)
  <2>1. n + 3 >= 3 /\ (n + 3) - 1 = n + 2 /\ (n + 3) - 2 = n + 1 /\ (n + 3) - 3 = n /\ (n + 3 >= 4 => n > 0)
        /\ (n + 3) + 1 = n + 4 /\ (n + 4) + 1 = n + 5 /\ n + 4 \in 1 .. (n + 5 - 1)
    OBVIOUS
  <2>2. both[n + 1].is = "label" /\ IsKept(both, n + 1) /\ both[n + 2].is = ":" /\ IsKept(both, n + 2)
    BY <1>5, <1>6, <1>9 DEF IsKept
  <2>3. AfterMark(both, n + 3)
    <3> DEFINE i == n + 3
    <3>1. i >= 3 /\ i - 1 = n + 2 /\ i - 2 = n + 1 /\ i - 3 = n /\ (i >= 4 => n > 0)
      BY <2>1
    <3> HIDE DEF i
    <3>2. AfterMark(both, i)
      BY <2>2, <3>1 DEF AfterMark, EndsApart
    <3>3. QED
      BY <3>2 DEF i
  <2>4. StandsAt(both, n + 4, {PII})
    <3> DEFINE i == n + 4
    <3>1. i \in 1 .. (Len(both) - 1) /\ i = n + 4 /\ i + 1 = n + 5
      BY <2>1
    <3>2. both[i].is = "[" /\ both[i + 1].is = "pii"
      BY <1>5, <1>9, <3>1
    <3> HIDE DEF i
    <3>3. StandsAt(both, i, {PII})
      BY <3>1, <3>2 DEF StandsAt, PII
    <3>4. QED
      BY <3>3 DEF i
  <2>5. QED
    BY <1>5, <1>9, <2>1, <2>3, <2>4 DEF Inserted
<1>11. \A i \in 1 .. 5 : ~IsKept(put, i) => StandsAt(put, i, tokens) \/ StandsAt(put, i - 1, tokens) \/ Inserted(both, n + i)
  <2>1. 5 - 1 = 4
    OBVIOUS
  <2>2. QED
    BY <1>6, <1>7, <1>8, <1>10, <2>1
<1>12. Follows(all, both, n + 1)
  <2>1. (n + 1) + 1 = n + 2 /\ (n + 1) + 2 = n + 3 /\ n + 3 <= n + 5
    OBVIOUS
  <2>2. \A k \in (m + 1) .. (h - 1) : all[k + 1] \in Blank
    BY <1>P DEF h
  <2>3. ~IsKept(both, n + 3)
    BY <1>6, <1>9 DEF IsKept
  <2>4. /\ both[n + 1].is = "label" /\ both[n + 2].is = ":" /\ both[n + 1].at = m /\ both[n + 2].at = h
    BY <1>5, <1>9
  <2> DEFINE i == n + 1
  <2>5. /\ both[i].is = "label" /\ both[i + 1].is = ":" /\ both[i].at < both[i + 1].at
        /\ i + 2 <= Len(both) /\ ~IsKept(both, i + 2) /\ Inserted(both, i + 2)
        /\ \A k \in (both[i].at + 1) .. (both[i + 1].at - 1) : all[k + 1] \in Blank
    BY <1>0, <1>10, <2>1, <2>2, <2>3, <2>4
  <2> HIDE DEF i
  <2>6. Follows(all, both, i)
    BY <2>5 DEF Follows
  <2>7. QED
    BY <2>6 DEF i
<1>13. \A i \in 1 .. (5 - 1) : i + 1 \in 1 .. 5 /\ i \in 1 .. 5 /\ (i = 1 \/ (i + 1 # 1 /\ i + 1 # 2))
  OBVIOUS
<1>14. Grafts(add, all, put, both, m, a, n, 5, tokens)
  <2>1. \A i \in 1 .. 5 : IsKept(put, i) => i = 1 \/ i = 2
    BY <1>6, <1>7
  <2>2. all[h + 1] = ":"
    BY <1>P DEF h
  <2>3. \A i \in 1 .. 5 : IsKept(put, i) => put[i].at \in m .. (m + a - 1) /\ all[put[i].at + 1] = put[i].is
    <3>1. put[1].at \in m .. (m + a - 1) /\ all[put[1].at + 1] = put[1].is
      BY <1>P, <1>0, <1>5
    <3>2. put[2].at \in m .. (m + a - 1) /\ all[put[2].at + 1] = put[2].is
      BY <1>0, <1>5, <2>2
    <3>3. QED
      BY <2>1, <3>1, <3>2
  <2>4. \A i, j \in 1 .. 5 : i < j /\ IsKept(put, i) /\ IsKept(put, j) => put[i].at < put[j].at
    <3>1. \A i, j \in 1 .. 5 : i < j /\ IsKept(put, i) /\ IsKept(put, j) => i = 1 /\ j = 2
      BY <2>1
    <3>2. QED
      BY <1>0, <1>5, <3>1
  <2>5. \A i \in 1 .. (5 - 1) : IsKept(put, i) /\ IsKept(put, i + 1) => Follows(all, both, n + i)
    <3>1. \A i \in 1 .. (5 - 1) : IsKept(put, i + 1) => i = 1
      BY <1>13, <2>1
    <3>2. QED
      BY <1>12, <3>1
  <2>6. ~IsKept(put, 5) /\ 5 # 0
    BY <1>6
  <2>7. QED
    BY <1>5, <1>11, <2>3, <2>4, <2>5, <2>6 DEF Grafts
<1>15. m \in Shown(put) /\ h \in Shown(put)
  <2>1. DOMAIN put = 1 .. 5 /\ 1 \in 1 .. 5 /\ 2 \in 1 .. 5
    BY <1>3
  <2>2. m # NoOffset /\ h # NoOffset
    BY <1>0 DEF NoOffset
  <2>3. QED
    BY <1>5, <2>1, <2>2 DEF Shown
<1>16. Leaves(add, put, m, a, 5, tokens)
  <2>1. ASSUME NEW i \in 1 .. 5, put[i].is = "[" PROVE i + 1 \in 1 .. 5 /\ ~IsKept(put, i + 1)
    <3>1. i = 4
      BY <1>5, <1>7, <2>1
    <3>2. 4 + 1 = 5 /\ 5 \in 1 .. 5
      OBVIOUS
    <3>3. QED
      BY <1>6, <3>1, <3>2
  <2>2. ASSUME NEW j \in 1 .. a, m + j - 1 \notin Shown(put) PROVE ~Rest(add[j], tokens)
    <3>1. j = 1 \/ j = g + 1 \/ (j \in 2 .. a /\ j # g + 1)
      OBVIOUS
    <3>2. m + 1 - 1 = m /\ m + (g + 1) - 1 = h
      BY DEF h
    <3>3. j # 1 /\ j # g + 1
      BY <1>15, <2>2, <3>2
    <3>4. QED
      BY <1>P, <3>1, <3>3
  <2>3. QED
    BY <2>1, <2>2 DEF Leaves
<1>17. QED
  BY <1>3, <1>4, <1>14, <1>16 DEF S, Fit

\* A text with no token's rest in it.
Clean(x, tokens) == x \in Seq(Symbol) /\ \A k \in DOMAIN x : ~Rest(x[k], tokens)

\* Two texts without rests are one without.
LEMMA CleanJoined ==
  ASSUME NEW tokens, NEW x, Clean(x, tokens), NEW y, Clean(y, tokens), NEW n \in Nat, Len(x) = n, NEW b \in Nat, Len(y) = b
  PROVE  Clean(x \o y, tokens) /\ Joined(x, y, x \o y, n, b)
<1>1. x \in Seq(Symbol) /\ y \in Seq(Symbol) /\ DOMAIN x = 1 .. n /\ DOMAIN y = 1 .. b
  BY DEF Clean
<1> DEFINE xy == x \o y
<1>2. xy \in Seq(Symbol) /\ Joined(x, y, xy, n, b)
  BY <1>1, JoinedIs
<1> HIDE DEF xy
<1>3. ASSUME NEW k \in DOMAIN xy PROVE ~Rest(xy[k], tokens)
  <2>1. k \in 1 .. (n + b)
    BY <1>2 DEF Joined
  <2>2. k \in 1 .. n \/ \E j \in 1 .. b : k = n + j
    BY <2>1, InJoined
  <2>3. CASE k \in 1 .. n
    BY <1>1, <1>2, <2>3 DEF Joined, Clean
  <2>4. ASSUME NEW j \in 1 .. b, k = n + j PROVE ~Rest(xy[k], tokens)
    <3>1. xy[k] = y[j]
      BY <1>2, <2>4 DEF Joined
    <3>2. QED
      BY <1>1, <3>1 DEF Clean
  <2>5. QED
    BY <2>2, <2>3, <2>4
<1>4. Clean(xy, tokens) /\ Joined(x, y, xy, n, b)
  BY <1>2, <1>3 DEF Clean
<1>5. QED
  BY <1>4 DEF xy

\* Letters, blanks and colons are no rests.
LEMMA CleanOne ==
  ASSUME NEW tokens, TokensAreWords(tokens), NEW c \in Letters \cup Blank \cup {":"}
  PROVE  Clean(<<c>>, tokens) /\ Len(<<c>>) = 1 /\ <<c>>[1] = c
<1>1. c \in Symbol
  BY DEF Symbol
<1>2. <<c>> \in Seq(Symbol) /\ Len(<<c>>) = 1 /\ DOMAIN <<c>> = 1 .. 1 /\ <<c>>[1] = c
  BY <1>1
<1>3. ~Rest(c, tokens)
  <2>1. SUFFICES ASSUME <<"[", c>> \in tokens PROVE FALSE
    BY DEF Rest
  <2>2. c \notin Letters \cup Blank \cup {"[", ":"}
    BY <2>1, PairsDiffer
  <2>3. QED
    BY <2>2
<1>4. \A k \in DOMAIN <<c>> : <<c>>[k] = c
  BY <1>2
<1>5. QED
  BY <1>2, <1>3, <1>4 DEF Clean

\* Nor are texts of blanks.
LEMMA CleanBlanks ==
  ASSUME NEW tokens, TokensAreWords(tokens), NEW gap \in Seq(Blank)
  PROVE  Clean(gap, tokens) /\ Len(gap) \in Nat
<1>1. Blank \subseteq Symbol
  BY DEF Symbol
<1>2. gap \in Seq(Symbol)
  BY <1>1, SeqOfMore
<1>3. Len(gap) \in Nat /\ \A k \in DOMAIN gap : gap[k] \in Blank
  OBVIOUS
<1>4. ASSUME NEW c \in Blank PROVE ~Rest(c, tokens)
  <2>1. SUFFICES ASSUME <<"[", c>> \in tokens PROVE FALSE
    BY DEF Rest
  <2>2. c \notin Letters \cup Blank \cup {"[", ":"}
    BY <2>1, PairsDiffer
  <2>3. QED
    BY <2>2
<1>5. QED
  BY <1>2, <1>3, <1>4 DEF Clean

\* The mark before a name, and the name.
LEMMA TitledText ==
  ASSUME NEW tokens, TokensAreWords(tokens), NEW gap \in Seq(Blank), NEW name, Clean(name, tokens)
  PROVE  LET add == <<"title">> \o gap \o name
         IN  add \in Seq(Symbol) /\ Len(add) \in Nat \ {0} /\ add[1] = "title" /\ \A j \in 2 .. Len(add) : ~Rest(add[j], tokens)
<1> DEFINE t == <<"title">>
           u == t \o gap
           add == u \o name
           p == Len(gap)
           q == Len(name)
<1>1. Clean(t, tokens) /\ Len(t) = 1 /\ t[1] = "title"
  <2>1. "title" \in Letters \cup Blank \cup {":"}
    BY DEF Letters
  <2>2. QED
    BY <2>1, CleanOne
<1>2. Clean(gap, tokens) /\ p \in Nat
  BY CleanBlanks
<1>3. q \in Nat
  BY DEF Clean
<1> HIDE DEF t, p, q
<1>4. Len(gap) = p /\ Len(name) = q /\ 1 \in Nat
  BY DEF p, q
<1>5. Clean(u, tokens) /\ Joined(t, gap, u, 1, p)
  BY <1>1, <1>2, <1>4, CleanJoined
<1> HIDE DEF u
<1>6. Len(u) = 1 + p /\ 1 + p \in Nat
  BY <1>2, <1>5 DEF Joined
<1>7. Clean(add, tokens) /\ Joined(u, name, add, 1 + p, q)
  BY <1>3, <1>4, <1>5, <1>6, CleanJoined
<1> HIDE DEF add
<1>8. Len(add) = (1 + p) + q /\ DOMAIN add = 1 .. ((1 + p) + q)
  BY <1>7 DEF Joined
<1>9. u[1] = t[1] /\ add[1] = u[1]
  <2>1. 1 \in 1 .. 1 /\ 1 \in 1 .. (1 + p)
    BY <1>2
  <2>2. QED
    BY <1>5, <1>7, <2>1 DEF Joined
<1>10. add \in Seq(Symbol) /\ \A k \in DOMAIN add : ~Rest(add[k], tokens)
  BY <1>7 DEF Clean
<1>11. Len(add) \in Nat \ {0} /\ \A j \in 2 .. Len(add) : j \in DOMAIN add
  BY <1>2, <1>3, <1>8
<1>12. add \in Seq(Symbol) /\ Len(add) \in Nat \ {0} /\ add[1] = "title" /\ \A j \in 2 .. Len(add) : ~Rest(add[j], tokens)
  BY <1>1, <1>9, <1>10, <1>11
<1>13. QED
  BY <1>12 DEF add, u, t

\* A label, blanks, a colon, blanks and a name.
IsLabelled(add, q, tokens) ==
  /\ add \in Seq(Symbol) /\ Len(add) \in Nat /\ q + 1 \in 1 .. (Len(add) - 1)
  /\ add[1] = "label" /\ add[q + 2] = ":" /\ \A k \in 1 .. q : add[k + 1] \in Blank
  /\ \A j \in 2 .. Len(add) : ~Rest(add[j], tokens)

\* Label, blanks, colon, blanks and name make such a text.
LEMMA LabelledText ==
  ASSUME NEW tokens, TokensAreWords(tokens), NEW gap \in Seq(Blank), NEW before \in Seq(Blank), NEW q \in Nat, Len(before) = q,
         NEW name, Clean(name, tokens)
  PROVE  IsLabelled(<<"label">> \o before \o <<":">> \o gap \o name, q, tokens)
<1> DEFINE t == <<"label">>
           c == <<":">>
           u == t \o before
           v == u \o c
           w == v \o gap
           add == w \o name
           p == Len(gap)
           r == Len(name)
<1>1. Clean(t, tokens) /\ Len(t) = 1 /\ t[1] = "label" /\ Clean(c, tokens) /\ Len(c) = 1 /\ c[1] = ":"
  <2>1. "label" \in Letters \cup Blank \cup {":"} /\ ":" \in Letters \cup Blank \cup {":"}
    BY DEF Letters
  <2>2. QED
    BY <2>1, CleanOne
<1>2. Clean(gap, tokens) /\ p \in Nat /\ Clean(before, tokens)
  BY CleanBlanks
<1>3. r \in Nat
  BY DEF Clean
<1>B. \A k \in 1 .. q : before[k] \in Blank
  OBVIOUS
<1> HIDE DEF t, c, p, r
<1>4. Len(gap) = p /\ Len(name) = r /\ 1 \in Nat
  BY DEF p, r
<1>5. Clean(u, tokens) /\ Joined(t, before, u, 1, q)
  BY <1>1, <1>2, <1>4, CleanJoined
<1> HIDE DEF u
<1>6. Len(u) = 1 + q /\ 1 + q \in Nat
  BY <1>5 DEF Joined
<1>7. Clean(v, tokens) /\ Joined(u, c, v, 1 + q, 1)
  BY <1>1, <1>4, <1>5, <1>6, CleanJoined
<1> HIDE DEF v
<1>8. Len(v) = (1 + q) + 1 /\ (1 + q) + 1 \in Nat
  BY <1>7 DEF Joined
<1>9. Clean(w, tokens) /\ Joined(v, gap, w, (1 + q) + 1, p)
  BY <1>2, <1>4, <1>7, <1>8, CleanJoined
<1> HIDE DEF w
<1>10. Len(w) = ((1 + q) + 1) + p /\ ((1 + q) + 1) + p \in Nat
  BY <1>2, <1>9 DEF Joined
<1>11. Clean(add, tokens) /\ Joined(w, name, add, ((1 + q) + 1) + p, r)
  BY <1>3, <1>4, <1>9, <1>10, CleanJoined
<1> HIDE DEF add
<1>12. Len(add) = (((1 + q) + 1) + p) + r /\ DOMAIN add = 1 .. ((((1 + q) + 1) + p) + r)
  BY <1>11 DEF Joined
<1>13. \A k \in 1 .. (q + 2) : add[k] = v[k]
  <2>1. ASSUME NEW k \in 1 .. (q + 2) PROVE add[k] = v[k]
    <3>1. k \in 1 .. ((1 + q) + 1) /\ k \in 1 .. (((1 + q) + 1) + p)
      BY <1>2
    <3>2. QED
      BY <1>9, <1>11, <3>1 DEF Joined
  <2>2. QED
    BY <2>1
<1>14. v[q + 2] = ":"
  <2>1. 1 \in 1 .. 1 /\ (1 + q) + 1 = q + 2
    OBVIOUS
  <2>2. v[(1 + q) + 1] = c[1]
    BY <1>7, <2>1 DEF Joined
  <2>3. QED
    BY <1>1, <2>1, <2>2
<1>15. v[1] = "label" /\ \A k \in 1 .. q : v[k + 1] \in Blank
  <2>1. 1 \in 1 .. 1 /\ 1 \in 1 .. (1 + q)
    OBVIOUS
  <2>2. v[1] = "label"
    BY <1>1, <1>5, <1>7, <2>1 DEF Joined
  <2>3. ASSUME NEW k \in 1 .. q PROVE v[k + 1] \in Blank
    <3>1. k + 1 = 1 + k /\ 1 + k \in 1 .. (1 + q)
      OBVIOUS
    <3>2. u[1 + k] = before[k] /\ v[1 + k] = u[1 + k]
      BY <1>5, <1>7, <3>1 DEF Joined
    <3>3. QED
      BY <1>B, <3>1, <3>2
  <2>4. QED
    BY <2>2, <2>3
<1>16. add \in Seq(Symbol) /\ \A k \in DOMAIN add : ~Rest(add[k], tokens)
  BY <1>11 DEF Clean
<1>17. /\ Len(add) \in Nat /\ q + 1 \in 1 .. (Len(add) - 1) /\ \A j \in 2 .. Len(add) : j \in DOMAIN add
       /\ 1 \in 1 .. (q + 2) /\ q + 2 \in 1 .. (q + 2) /\ \A k \in 1 .. q : k + 1 \in 1 .. (q + 2)
  BY <1>2, <1>3, <1>12
<1>18. IsLabelled(add, q, tokens)
  BY <1>13, <1>14, <1>15, <1>16, <1>17 DEF IsLabelled
<1>19. QED
  BY <1>18 DEF add, w, v, u, t, c

\* One symbol the masker keeps, and what it writes for a name: a space and the token.
Name == Tagged(<<"space">> \o PII, NoOffset)

\* A symbol with its offset.
Spot == [is : Symbol, at : Int]

\* Its three symbols.
LEMMA NameIs == Name \in Seq(Spot) /\ Len(Name) = 3 /\ Name[1] = PutAs("space") /\ Name[2] = PutAs("[") /\ Name[3] = PutAs("pii")
<1> DEFINE what == <<"space", "[", "pii">>
<1>1. <<"space">> \o PII = what
  <2>1. "[" \in Symbol /\ "pii" \in Symbol /\ "space" \in Symbol
    BY DEF Symbol, Blank
  <2>2. <<"space">> \in Seq(Symbol) /\ Len(<<"space">>) = 1 /\ <<"space">>[1] = "space"
    BY <2>1
  <2>3. PII \in Seq(Symbol) /\ Len(PII) = 2 /\ PII[1] = "[" /\ PII[2] = "pii"
    BY <2>1 DEF PII
  <2> DEFINE a == <<"space">>
             ab == a \o PII
  <2> HIDE DEF a
  <2>4. a \in Seq(Symbol) /\ Len(a) = 1 /\ a[1] = "space" /\ 1 \in Nat /\ 2 \in Nat
    BY <2>2 DEF a
  <2>5. ab \in Seq(Symbol) /\ Joined(a, PII, ab, 1, 2)
    BY <2>3, <2>4, JoinedIs
  <2> HIDE DEF ab
  <2>6. 1 \in 1 .. 1 /\ 1 \in 1 .. 2 /\ 2 \in 1 .. 2 /\ 1 + 1 = 2 /\ 1 + 2 = 3
    OBVIOUS
  <2>7. Len(ab) = 3 /\ ab[1] = "space" /\ ab[2] = "[" /\ ab[3] = "pii"
    BY <2>3, <2>4, <2>5, <2>6 DEF Joined
  <2>8. what \in Seq(Symbol) /\ Len(what) = 3 /\ what[1] = "space" /\ what[2] = "[" /\ what[3] = "pii"
    BY <2>1
  <2>9. \A k \in 1 .. 3 : k = 1 \/ k = 2 \/ k = 3
    OBVIOUS
  <2> HIDE DEF what
  <2>10. \A k \in 1 .. Len(ab) : ab[k] = what[k]
    BY <2>7, <2>8, <2>9
  <2>11. ab = what
    BY <2>5, <2>7, <2>8, <2>10, SameSeq
  <2>12. QED
    BY <2>11 DEF ab, a
<1>2. DOMAIN what = 1 .. 3 /\ what[1] = "space" /\ what[2] = "[" /\ what[3] = "pii"
  OBVIOUS
<1>3. Name = [k \in 1 .. 3 |-> [is |-> what[k], at |-> NoOffset]]
  BY <1>1, <1>2 DEF Name, Tagged
<1>4. Name[1] = PutAs("space") /\ Name[2] = PutAs("[") /\ Name[3] = PutAs("pii")
  <2>1. 1 \in 1 .. 3 /\ 2 \in 1 .. 3 /\ 3 \in 1 .. 3
    OBVIOUS
  <2> HIDE DEF what
  <2>2. QED
    BY <1>2, <1>3, <2>1 DEF PutAs, KeptAs
<1>5. \A k \in 1 .. 3 : Name[k] \in Spot
  <2>1. "[" \in Symbol /\ "pii" \in Symbol /\ "space" \in Symbol /\ NoOffset \in Int
    BY DEF Symbol, Blank, NoOffset
  <2>2. PutAs("space") \in Spot /\ PutAs("[") \in Spot /\ PutAs("pii") \in Spot
    BY <2>1 DEF PutAs, KeptAs, Spot
  <2>3. \A k \in 1 .. 3 : k = 1 \/ k = 2 \/ k = 3
    OBVIOUS
  <2>4. QED
    BY <1>4, <2>2, <2>3
<1>6. Name = [k \in 1 .. 3 |-> Name[k]]
  <2> HIDE DEF what
  <2> QED BY <1>3
<1>7. Name \in Seq(Spot) /\ Len(Name) = 3
  BY <1>5, <1>6, SeqAs
<1>8. QED
  BY <1>4, <1>7

\* One symbol that was kept, as the model writes it.
LEMMA OneKept ==
  ASSUME NEW c \in Symbol, NEW x \in Nat, NEW from \in Nat, NEW k \in Int, k = x + from
  PROVE  LET f == [i \in DOMAIN <<c>> |-> [is |-> <<c>>[i], at |-> x + from + i - 1]]
         IN  f \in Seq(Spot) /\ Len(f) = 1 /\ f[1] = KeptAs(c, k)
<1> DEFINE f == [i \in DOMAIN <<c>> |-> [is |-> <<c>>[i], at |-> x + from + i - 1]]
<1>1. DOMAIN <<c>> = 1 .. 1 /\ <<c>>[1] = c
  OBVIOUS
<1>2. f = [i \in 1 .. 1 |-> [is |-> <<c>>[i], at |-> x + from + i - 1]]
  BY <1>1
<1>3. f[1] = [is |-> c, at |-> x + from + 1 - 1]
  <2>1. 1 \in 1 .. 1
    OBVIOUS
  <2>2. QED
    BY <1>1, <1>2, <2>1
<1>4. f = [i \in 1 .. 1 |-> f[i]]
  BY <1>2
<1> HIDE DEF f
<1>5. x + from + 1 - 1 = k
  OBVIOUS
<1>6. f[1] = KeptAs(c, k)
  BY <1>3, <1>5 DEF KeptAs
<1>7. KeptAs(c, k) \in Spot
  BY DEF KeptAs, Spot
<1>8. \A i \in 1 .. 1 : f[i] \in Spot
  <2>1. \A i \in 1 .. 1 : i = 1
    OBVIOUS
  <2>2. QED
    BY <1>6, <1>7, <2>1
<1>9. f \in Seq(Spot) /\ Len(f) = 1
  BY <1>4, <1>8, SeqAs
<1>10. QED
  BY <1>6, <1>9 DEF f

\* What is put in is a symbol with an offset.
LEMMA NameSpots == PutAs("space") \in Spot /\ PutAs("[") \in Spot /\ PutAs("pii") \in Spot
<1>1. "[" \in Symbol /\ "pii" \in Symbol /\ "space" \in Symbol /\ NoOffset \in Int
  BY DEF Symbol, Blank, NoOffset
<1>2. QED
  BY <1>1 DEF PutAs, KeptAs, Spot

\* Four and five symbols with their offsets.
LEMMA FourSpots ==
  ASSUME NEW e \in Spot, NEW f \in Spot, NEW g \in Spot, NEW h \in Spot
  PROVE  <<e, f, g, h>> \in Seq(Spot) /\ Len(<<e, f, g, h>>) = 4
OBVIOUS

LEMMA FiveSpots ==
  ASSUME NEW d \in Spot, NEW e \in Spot, NEW f \in Spot, NEW g \in Spot, NEW h \in Spot
  PROVE  <<d, e, f, g, h>> \in Seq(Spot) /\ Len(<<d, e, f, g, h>>) = 5
OBVIOUS

\* What the masker writes for a title and a name.
LEMMA TitledPut ==
  ASSUME NEW k \in Int, NEW f \in Seq(Spot), Len(f) = 1, f[1] = KeptAs("title", k)
  PROVE  f \o Name = <<KeptAs("title", k), PutAs("space"), PutAs("["), PutAs("pii")>>
<1> DEFINE g == f \o Name
           w == <<KeptAs("title", k), PutAs("space"), PutAs("["), PutAs("pii")>>
<1>1. Name \in Seq(Spot) /\ Len(Name) = 3 /\ Name[1] = PutAs("space") /\ Name[2] = PutAs("[") /\ Name[3] = PutAs("pii")
  BY NameIs
<1>2. g \in Seq(Spot) /\ Joined(f, Name, g, 1, 3)
  <2>1. Name \in Seq(Spot) /\ Len(Name) = 3 /\ 1 \in Nat /\ 3 \in Nat
    BY <1>1
  <2>2. QED
    BY <2>1, JoinedIs
<1> HIDE DEF g
<1>3. 1 \in 1 .. 1 /\ 1 \in 1 .. 3 /\ 2 \in 1 .. 3 /\ 3 \in 1 .. 3 /\ 1 + 1 = 2 /\ 1 + 2 = 3 /\ 1 + 3 = 4
  OBVIOUS
<1>4. Len(g) = 4 /\ g[1] = f[1] /\ g[2] = Name[1] /\ g[3] = Name[2] /\ g[4] = Name[3]
  BY <1>2, <1>3 DEF Joined
<1>5. w \in Seq(Spot) /\ Len(w) = 4 /\ w[1] = KeptAs("title", k) /\ w[2] = PutAs("space") /\ w[3] = PutAs("[") /\ w[4] = PutAs("pii")
  <2>1. KeptAs("title", k) \in Spot
    <3>1. "title" \in Symbol
      BY DEF Symbol, Letters
    <3>2. QED
      BY <3>1 DEF KeptAs, Spot
  <2>2. QED
    BY <2>1, NameSpots
<1> HIDE DEF w
<1>6. \A i \in 1 .. 4 : i = 1 \/ i = 2 \/ i = 3 \/ i = 4
  OBVIOUS
<1>7. \A i \in 1 .. Len(g) : g[i] = w[i]
  BY <1>1, <1>4, <1>5, <1>6
<1>8. g = w
  BY <1>2, <1>4, <1>5, <1>7, SameSeq
<1>9. QED
  BY <1>8 DEF g, w

\* What it writes for a label, its colon and a name.
LEMMA LabelledPut ==
  ASSUME NEW k \in Int, NEW f \in Seq(Spot), Len(f) = 1, f[1] = KeptAs("label", k),
         NEW h \in Int, NEW c \in Seq(Spot), Len(c) = 1, c[1] = KeptAs(":", h)
  PROVE  f \o c \o Name = <<KeptAs("label", k), KeptAs(":", h), PutAs("space"), PutAs("["), PutAs("pii")>>
<1> DEFINE u == f \o c
           g == u \o Name
           w == <<KeptAs("label", k), KeptAs(":", h), PutAs("space"), PutAs("["), PutAs("pii")>>
<1>1. Name \in Seq(Spot) /\ Len(Name) = 3 /\ Name[1] = PutAs("space") /\ Name[2] = PutAs("[") /\ Name[3] = PutAs("pii")
  BY NameIs
<1>2. 1 \in Nat /\ 2 \in Nat /\ 3 \in Nat /\ 1 + 1 = 2 /\ 2 + 3 = 5 /\ 2 + 1 = 3 /\ 2 + 2 = 4
      /\ 1 \in 1 .. 1 /\ 1 \in 1 .. 2 /\ 2 \in 1 .. 2 /\ 1 \in 1 .. 3 /\ 2 \in 1 .. 3 /\ 3 \in 1 .. 3
  OBVIOUS
<1>3. u \in Seq(Spot) /\ Joined(f, c, u, 1, 1)
  BY <1>2, JoinedIs
<1> HIDE DEF u
<1>4. Len(u) = 2 /\ u[1] = f[1] /\ u[2] = c[1]
  BY <1>2, <1>3 DEF Joined
<1>5. g \in Seq(Spot) /\ Joined(u, Name, g, 2, 3)
  <2>1. Name \in Seq(Spot) /\ Len(Name) = 3
    BY <1>1
  <2>2. QED
    BY <1>2, <1>3, <1>4, <2>1, JoinedIs
<1> HIDE DEF g
<1>6. Len(g) = 5 /\ g[1] = u[1] /\ g[2] = u[2] /\ g[3] = Name[1] /\ g[4] = Name[2] /\ g[5] = Name[3]
  BY <1>2, <1>5 DEF Joined
<1>7. /\ w \in Seq(Spot) /\ Len(w) = 5 /\ w[1] = KeptAs("label", k) /\ w[2] = KeptAs(":", h)
      /\ w[3] = PutAs("space") /\ w[4] = PutAs("[") /\ w[5] = PutAs("pii")
  <2>1. KeptAs("label", k) \in Spot /\ KeptAs(":", h) \in Spot
    <3>1. "label" \in Symbol /\ ":" \in Symbol
      BY DEF Symbol, Letters
    <3>2. QED
      BY <3>1 DEF KeptAs, Spot
  <2>2. QED
    BY <2>1, NameSpots
<1> HIDE DEF w
<1>8. \A i \in 1 .. 5 : i = 1 \/ i = 2 \/ i = 3 \/ i = 4 \/ i = 5
  OBVIOUS
<1>9. \A i \in 1 .. Len(g) : g[i] = w[i]
  BY <1>1, <1>4, <1>6, <1>7, <1>8
<1>10. g = w
  BY <1>5, <1>6, <1>7, <1>9, SameSeq
<1>11. QED
  BY <1>10 DEF g, w, u

\* A built-in token's two symbols.
LEMMA HiddenPut ==
  ASSUME NEW token \in Builtin
  PROVE  \E c \in {"pii", "secret"} : token = <<"[", c>> /\ Tagged(token, NoOffset) = <<PutAs("["), PutAs(c)>>
<1>1. PICK c \in {"pii", "secret"} : token = <<"[", c>>
  BY DEF Builtin, PII, SECRET
<1>2. DOMAIN token = 1 .. 2 /\ token[1] = "[" /\ token[2] = c
  BY <1>1
<1> DEFINE g == Tagged(token, NoOffset)
           w == <<PutAs("["), PutAs(c)>>
<1>3. g = [k \in 1 .. 2 |-> [is |-> token[k], at |-> NoOffset]]
  BY <1>2 DEF Tagged
<1>4. g[1] = PutAs("[") /\ g[2] = PutAs(c)
  <2>1. 1 \in 1 .. 2 /\ 2 \in 1 .. 2
    OBVIOUS
  <2> HIDE DEF g
  <2>2. QED
    BY <1>2, <1>3, <2>1 DEF PutAs, KeptAs
<1>5. PutAs("[") \in Spot /\ PutAs(c) \in Spot
  <2>1. "[" \in Symbol /\ "pii" \in Symbol /\ "secret" \in Symbol /\ NoOffset \in Int
    BY DEF Symbol, NoOffset
  <2>2. QED
    BY <2>1 DEF PutAs, KeptAs, Spot
<1>6. g = [k \in 1 .. 2 |-> g[k]]
  BY <1>3
<1> HIDE DEF g
<1>7. \A k \in 1 .. 2 : k = 1 \/ k = 2
  OBVIOUS
<1>8. g \in Seq(Spot) /\ Len(g) = 2
  <2>1. \A k \in 1 .. 2 : g[k] \in Spot
    BY <1>4, <1>5, <1>7
  <2>2. 2 \in Nat
    OBVIOUS
  <2>3. QED
    BY <1>6, <2>1, <2>2, SeqAs
<1>9. w \in Seq(Spot) /\ Len(w) = 2 /\ w[1] = PutAs("[") /\ w[2] = PutAs(c)
  BY <1>5
<1> HIDE DEF w
<1>10. \A k \in 1 .. Len(g) : g[k] = w[k]
  BY <1>4, <1>7, <1>8, <1>9
<1>11. g = w
  BY <1>8, <1>9, <1>10, SameSeq
<1>12. QED
  BY <1>1, <1>11 DEF g, w

-----------------------------------------------------------------------------
(* The actions, the invariant and the property.                            *)

\* How the text and what the masker makes of it grow.
LEMMA Growing ==
  ASSUME NEW text, NEW old, NEW tokens, Masked(text, old, tokens),
         NEW add \in Seq(Symbol), NEW a \in Nat, Len(add) = a, NEW put, NEW b \in Nat, Len(put) = b,
         put \in Seq(Spot)
  PROVE  /\ Len(text) \in Nat /\ Len(old) \in Nat
         /\ Joined(text, add, text \o add, Len(text), a)
         /\ Joined(old, put, old \o put, Len(old), b)
<1> DEFINE T == [is : Symbol, at : {NoOffset} \cup 0 .. (Len(text) - 1)]
<1>1. text \in Seq(Symbol) /\ old \in Seq(T)
  BY DEF Masked, Traced
<1>2. T \subseteq Spot
  BY DEF Spot, NoOffset
<1> HIDE DEF T
<1>3. old \in Seq(Spot)
  BY <1>1, <1>2, SeqOfMore
<1>4. Len(text) \in Nat
  BY <1>1
<1>5. Len(old) \in Nat
  BY <1>3
<1> DEFINE m == Len(text)
           n == Len(old)
<1>6. m \in Nat /\ Len(text) = m /\ n \in Nat /\ Len(old) = n
  BY <1>4, <1>5
<1> HIDE DEF m, n
<1>7. Joined(text, add, text \o add, m, a)
  BY <1>1, <1>6, JoinedIs
<1>8. Joined(old, put, old \o put, n, b)
  BY <1>3, <1>6, JoinedIs
<1>9. QED
  BY <1>6, <1>7, <1>8 DEF m, n

\* Where a mark may stand, the text before it ends in no word.
LEMMA BoundaryApart ==
  ASSUME NEW old, NEW n \in Nat, Len(old) = n, DOMAIN old = 1 .. n, BoundaryOk(Symbols(old), Len(old)),
         NEW both, \A i \in 1 .. n : both[i] = old[i]
  PROVE  EndsApart(both, n)
<1>1. SUFFICES ASSUME n > 0 PROVE both[n].is \notin Letters
  BY DEF EndsApart
<1>2. n \in 1 .. n
  BY <1>1
<1>3. Symbols(old)[n] = old[n].is
  BY <1>2 DEF Symbols
<1>4. QED
  BY <1>1, <1>2, <1>3 DEF BoundaryOk

\* The invariant: whatever the patterns, each symbol of what the old masker makes
\* of the field is where it should be.
StaysMasked == \A rules \in Rules : Masked(source, legacy, TokenVocab(rules))

\* Leave keeps the invariant.
LEMMA LeaveMasked ==
  ASSUME NEW tokens, TokensAreWords(tokens), Masked(source, legacy, tokens), NEW add \in Seq(Symbol), Leave(add)
  PROVE  Masked(source', legacy', tokens)
<1> DEFINE put == KeptText(add, 0)
           a == Len(add)
           m == Len(source)
           n == Len(legacy)
           all == source \o add
           both == legacy \o put
<1>1. source' = all /\ legacy' = both
  BY DEF Leave, Grow
<1>2. a \in Nat /\ DOMAIN add = 1 .. a /\ \A k \in 1 .. a : add[k] \in Symbol
  OBVIOUS
<1>3. put = [k \in DOMAIN add |-> [is |-> add[k], at |-> m + 0 + k - 1]]
  BY DEF KeptText
<1>4. m \in Nat /\ n \in Nat
  <2>1. source \in Seq(Symbol) /\ legacy \in Seq([is : Symbol, at : {NoOffset} \cup 0 .. (Len(source) - 1)])
    BY DEF Masked, Traced
  <2>2. QED
    BY <2>1
<1> HIDE DEF put, a, m, n, all, both
<1>5. put \in Seq(Spot) /\ Len(put) = a
  <2>1. put = [k \in 1 .. a |-> put[k]] /\ \A k \in 1 .. a : put[k] = [is |-> add[k], at |-> m + 0 + k - 1]
    BY <1>2, <1>3
  <2>2. ASSUME NEW k \in 1 .. a PROVE put[k] \in Spot
    <3>1. m + 0 + k - 1 \in Int /\ add[k] \in Symbol
      BY <1>2, <1>4
    <3>2. QED
      BY <2>1, <3>1 DEF Spot
  <2>3. QED
    BY <1>2, <2>1, <2>2, SeqAs
<1>6. a = Len(add) /\ m = Len(source) /\ n = Len(legacy) /\ all = source \o add /\ both = legacy \o put
  BY DEF a, m, n, all, both
<1>7. Joined(source, add, all, m, a) /\ Joined(legacy, put, both, n, a)
  BY <1>2, <1>5, <1>6, Growing
<1>8. Adds(all, add, m, a)
  BY <1>7 DEF Joined, Adds
<1>9. Puts(both, put, n, a)
  BY <1>7 DEF Joined, Puts
<1>10. Kepts(put, add, m)
  BY <1>3 DEF Kepts
<1>11. Fit(add, all, put, both, m, a, n, a, tokens)
  <2>1. m \in Nat
    BY <1>4
  <2>2. n \in Nat
    BY <1>4
  <2>3. a \in Nat
    BY <1>2
  <2>4. Len(add) = a
    BY <1>6
  <2>5. QED
    BY <1>8, <1>9, <1>10, <2>1, <2>2, <2>3, <2>4, LeaveGrafts
<1>12. PII \in tokens
  BY DEF TokensAreWords
<1>13. Masked(all, both, tokens)
  BY <1>2, <1>4, <1>6, <1>11, <1>12, MaskedGrown DEF Fit
<1>14. QED
  BY <1>1, <1>13

\* Hide keeps the invariant.
LEMMA HideMasked ==
  ASSUME NEW tokens, TokensAreWords(tokens), Builtin \subseteq tokens, \A c : Rest(c, tokens) => c \in Rests,
         Masked(source, legacy, tokens),
         NEW h, h.text \in Seq(Symbol), h.token \in Builtin,
         \A k \in DOMAIN h.text : h.text[k] \in Rests => h.token = SECRET /\ h.text[k] = "pii",
         Hide(h)
  PROVE  Masked(source', legacy', tokens)
<1> DEFINE add == h.text
           put == Tagged(h.token, NoOffset)
           a == Len(add)
           m == Len(source)
           n == Len(legacy)
           all == source \o add
           both == legacy \o put
<1>1. source' = all /\ legacy' = both
  BY DEF Hide, Grow
<1>2. add \in Seq(Symbol) /\ a \in Nat /\ DOMAIN add = 1 .. a
  OBVIOUS
<1>3. PICK c \in {"pii", "secret"} : h.token = <<"[", c>> /\ put = <<PutAs("["), PutAs(c)>>
  BY HiddenPut
<1>4. m \in Nat /\ n \in Nat
  <2>1. source \in Seq(Symbol) /\ legacy \in Seq([is : Symbol, at : {NoOffset} \cup 0 .. (Len(source) - 1)])
    BY DEF Masked, Traced
  <2>2. QED
    BY <2>1
<1>5. \A j \in 1 .. a : Rest(add[j], tokens) => c = "secret" /\ add[j] = "pii"
  <2>1. ASSUME NEW j \in 1 .. a, Rest(add[j], tokens) PROVE c = "secret" /\ add[j] = "pii"
    <3>1. h.token = SECRET /\ add[j] = "pii"
      BY <1>2, <2>1
    <3>2. <<"[", c>> = <<"[", "secret">>
      BY <1>3, <3>1 DEF SECRET
    <3>3. QED
      BY <3>1, <3>2
  <2>2. QED
    BY <2>1
<1> HIDE DEF put, add, a, m, n, all, both
<1>6. c \in Symbol /\ <<"[", c>> \in tokens /\ c # "["
  <2>1. c \in Symbol /\ c # "["
    BY DEF Symbol
  <2>2. QED
    BY <1>3, <2>1
<1>7. a = Len(add) /\ m = Len(source) /\ n = Len(legacy) /\ all = source \o add /\ both = legacy \o put
  BY DEF a, m, n, all, both
<1>8. Fit(add, all, put, both, m, a, n, 2, tokens)
  BY <1>2, <1>3, <1>4, <1>5, <1>6, <1>7, HideGrafts
<1>10. PII \in tokens
  BY DEF TokensAreWords
<1>11. Masked(all, both, tokens)
  <2>1. 2 \in Nat
    OBVIOUS
  <2>2. QED
    BY <1>2, <1>4, <1>7, <1>8, <1>10, <2>1, MaskedGrown DEF Fit
<1>12. QED
  BY <1>1, <1>11

\* HideTitled keeps the invariant.
LEMMA HideTitledMasked ==
  ASSUME NEW tokens, TokensAreWords(tokens), Masked(source, legacy, tokens),
         NEW mark, mark.gap \in Seq(Blank), Clean(mark.name, tokens), HideTitled(mark)
  PROVE  Masked(source', legacy', tokens)
<1> DEFINE add == <<"title">> \o mark.gap \o mark.name
           one == KeptText(<<"title">>, 0)
           put == one \o Name
           a == Len(add)
           m == Len(source)
           n == Len(legacy)
           all == source \o add
           both == legacy \o put
<1>1. source' = all /\ legacy' = both
  BY DEF HideTitled, Grow, Name
<1>2. BoundaryOk(Symbols(legacy), Len(legacy))
  BY DEF HideTitled
<1>3. add \in Seq(Symbol) /\ a \in Nat \ {0} /\ add[1] = "title" /\ \A j \in 2 .. a : ~Rest(add[j], tokens)
  <2> DEFINE gap == mark.gap
             name == mark.name
  <2>1. gap \in Seq(Blank) /\ Clean(name, tokens)
    OBVIOUS
  <2> HIDE DEF gap, name
  <2> DEFINE w == <<"title">> \o gap \o name
  <2>2. w \in Seq(Symbol) /\ Len(w) \in Nat \ {0} /\ w[1] = "title" /\ \A j \in 2 .. Len(w) : ~Rest(w[j], tokens)
    BY <2>1, TitledText
  <2>3. add = w
    BY DEF gap, name
  <2> HIDE DEF w, add
  <2>4. QED
    BY <2>2, <2>3
<1>4. m \in Nat /\ n \in Nat /\ DOMAIN legacy = 1 .. n
  <2>1. source \in Seq(Symbol) /\ legacy \in Seq([is : Symbol, at : {NoOffset} \cup 0 .. (Len(source) - 1)])
    BY DEF Masked, Traced
  <2>2. QED
    BY <2>1
<1>5. one \in Seq(Spot) /\ Len(one) = 1 /\ one[1] = KeptAs("title", m)
  <2>1. one = [i \in DOMAIN <<"title">> |-> [is |-> <<"title">>[i], at |-> m + 0 + i - 1]]
    BY DEF KeptText
  <2>2. "title" \in Symbol /\ 0 \in Nat /\ m \in Int /\ m = m + 0
    <3> HIDE DEF m
    <3>1. QED
      BY <1>4 DEF Symbol, Letters
  <2> HIDE DEF one, m
  <2>3. QED
    BY <1>4, <2>1, <2>2, OneKept
<1> HIDE DEF one, m
<1>6. put = <<KeptAs("title", m), PutAs("space"), PutAs("["), PutAs("pii")>>
  BY <1>4, <1>5, TitledPut
<1> HIDE DEF put, add, a, n, all, both
<1>7. a = Len(add) /\ m = Len(source) /\ n = Len(legacy) /\ all = source \o add /\ both = legacy \o put
  BY DEF a, m, n, all, both
<1>8. put \in Seq(Spot) /\ Len(put) = 4
  <2>1. KeptAs("title", m) \in Spot
    <3>1. "title" \in Symbol
      BY DEF Symbol, Letters
    <3>2. QED
      BY <1>4, <3>1 DEF KeptAs, Spot
  <2>2. /\ put = <<KeptAs("title", m), PutAs("space"), PutAs("["), PutAs("pii")>>
        /\ put \in Seq(Spot) /\ Len(put) = 4
    BY <1>6, <2>1, NameSpots, FourSpots, Zenon
  <2>3. QED
    BY <2>2, Zenon
<1>9. Joined(source, add, all, m, a) /\ Joined(legacy, put, both, n, 4)
  <2> DEFINE b == 4
  <2>1. b \in Nat /\ put \in Seq(Spot) /\ Len(put) = b
    BY <1>8
  <2>2. add \in Seq(Symbol) /\ a \in Nat /\ Len(add) = a
    BY <1>3, <1>7
  <2> HIDE DEF b
  <2>3. Joined(source, add, source \o add, Len(source), a) /\ Joined(legacy, put, legacy \o put, Len(legacy), b)
    BY <2>1, <2>2, Growing
  <2>4. Joined(source, add, all, m, a) /\ Joined(legacy, put, both, n, b)
    BY <1>7, <2>3, Zenon
  <2>5. QED
    BY <2>4 DEF b
<1>10. /\ Len(both) = n + 4 /\ \A i \in 1 .. 4 : both[n + i] = put[i]
       /\ \A i \in 1 .. n : both[i] = legacy[i]
       /\ all[m + 1] = "title"
  <2>1. 1 \in 1 .. a
    BY <1>3
  <2>2. QED
    BY <1>3, <1>9, <2>1 DEF Joined
<1>11. EndsApart(both, n)
  BY <1>2, <1>4, <1>7, <1>10, BoundaryApart
<1>12. PII \in tokens
  BY DEF TokensAreWords
<1>13. Fit(add, all, put, both, m, a, n, 4, tokens)
  BY <1>3, <1>4, <1>6, <1>7, <1>10, <1>11, <1>12, TitledGrafts
<1>14. Masked(all, both, tokens)
  BY <1>3, <1>4, <1>7, <1>8, <1>12, <1>13, MaskedGrown DEF Fit
<1>15. QED
  BY <1>1, <1>14

\* HideLabelled keeps the invariant.
LEMMA HideLabelledMasked ==
  ASSUME NEW tokens, TokensAreWords(tokens), Masked(source, legacy, tokens),
         NEW mark, mark.gap \in Seq(Blank), Clean(mark.name, tokens), HideLabelled(mark)
  PROVE  Masked(source', legacy', tokens)
<1>1. PICK before \in {<<>>, mark.gap} :
        Grow(<<"label">> \o before \o <<":">> \o mark.gap \o mark.name,
             KeptText(<<"label">>, 0) \o KeptText(<<":">>, 1 + Len(before)) \o Tagged(<<"space">> \o PII, NoOffset))
  BY DEF HideLabelled
<1> DEFINE q == Len(before)
           add == <<"label">> \o before \o <<":">> \o mark.gap \o mark.name
           one == KeptText(<<"label">>, 0)
           two == KeptText(<<":">>, 1 + q)
           put == one \o two \o Name
           a == Len(add)
           m == Len(source)
           n == Len(legacy)
           all == source \o add
           both == legacy \o put
           g == q + 1
           h == m + g
<1>2. source' = all /\ legacy' = both
  BY <1>1 DEF Grow, Name
<1>3. BoundaryOk(Symbols(legacy), Len(legacy))
  BY DEF HideLabelled
<1>4. before \in Seq(Blank)
  <2>1. before = <<>> \/ before = mark.gap
    OBVIOUS
  <2>2. <<>> \in Seq(Blank)
    OBVIOUS
  <2>3. QED
    BY <2>1, <2>2
<1>5. q \in Nat
  BY <1>4
<1>6. /\ add \in Seq(Symbol) /\ a \in Nat /\ g \in 1 .. (a - 1)
      /\ add[1] = "label" /\ add[q + 2] = ":" /\ \A k \in 1 .. q : add[k + 1] \in Blank
      /\ \A j \in 2 .. a : ~Rest(add[j], tokens)
  <2> DEFINE gap == mark.gap
             name == mark.name
  <2>1. gap \in Seq(Blank) /\ Clean(name, tokens) /\ before \in Seq(Blank) /\ q \in Nat /\ Len(before) = q
    BY <1>4, <1>5
  <2>3. add = <<"label">> \o before \o <<":">> \o gap \o name /\ a = Len(add) /\ g = q + 1
    OBVIOUS
  <2> HIDE DEF gap, name, q, add, a, g
  <2> DEFINE w == <<"label">> \o before \o <<":">> \o gap \o name
  <2>2. IsLabelled(w, q, tokens)
    BY <2>1, LabelledText
  <2>4. add = w
    BY <2>3
  <2> HIDE DEF w
  <2>5. QED
    BY <2>2, <2>3, <2>4 DEF IsLabelled
<1>7. m \in Nat /\ n \in Nat /\ DOMAIN legacy = 1 .. n
  <2>1. source \in Seq(Symbol) /\ legacy \in Seq([is : Symbol, at : {NoOffset} \cup 0 .. (Len(source) - 1)])
    BY DEF Masked, Traced
  <2>2. QED
    BY <2>1
<1>8. one \in Seq(Spot) /\ Len(one) = 1 /\ one[1] = KeptAs("label", m)
  <2>1. one = [i \in DOMAIN <<"label">> |-> [is |-> <<"label">>[i], at |-> m + 0 + i - 1]]
    BY DEF KeptText
  <2>2. "label" \in Symbol /\ 0 \in Nat /\ m \in Int /\ m = m + 0
    <3> HIDE DEF m
    <3>1. QED
      BY <1>7 DEF Symbol, Letters
  <2> HIDE DEF one, m
  <2>3. QED
    BY <1>7, <2>1, <2>2, OneKept
<1>9. two \in Seq(Spot) /\ Len(two) = 1 /\ two[1] = KeptAs(":", h)
  <2> DEFINE from == 1 + q
  <2>1. two = [i \in DOMAIN <<":">> |-> [is |-> <<":">>[i], at |-> m + from + i - 1]]
    BY DEF KeptText
  <2>2. ":" \in Symbol /\ from \in Nat /\ h \in Int /\ h = m + from
    <3> HIDE DEF m, q
    <3>1. QED
      BY <1>5, <1>7 DEF Symbol
  <2> HIDE DEF two, m, from, h
  <2>3. QED
    BY <1>7, <2>1, <2>2, OneKept
<1> HIDE DEF one, two, m, q
<1>10. put = <<KeptAs("label", m), KeptAs(":", h), PutAs("space"), PutAs("["), PutAs("pii")>>
  <2>1. h \in Int /\ m \in Int
    BY <1>5, <1>7
  <2> HIDE DEF h
  <2>2. QED
    BY <1>8, <1>9, <2>1, LabelledPut
<1> HIDE DEF put, add, a, n, all, both
<1>11. a = Len(add) /\ m = Len(source) /\ n = Len(legacy) /\ all = source \o add /\ both = legacy \o put
  BY DEF a, m, n, all, both
<1>12. put \in Seq(Spot) /\ Len(put) = 5
  <2>1. KeptAs("label", m) \in Spot /\ KeptAs(":", h) \in Spot
    <3>1. "label" \in Symbol /\ ":" \in Symbol /\ h \in Int /\ m \in Int
      BY <1>5, <1>7 DEF Symbol, Letters
    <3>2. QED
      BY <3>1 DEF KeptAs, Spot
  <2> HIDE DEF h
  <2>2. put \in Seq(Spot) /\ Len(put) = 5
    BY <1>10, <2>1, NameSpots, FiveSpots, Zenon
  <2>3. QED
    BY <2>2, Zenon
<1>13. Joined(source, add, all, m, a) /\ Joined(legacy, put, both, n, 5)
  <2> DEFINE b == 5
  <2>1. b \in Nat /\ put \in Seq(Spot) /\ Len(put) = b
    BY <1>12
  <2>2. add \in Seq(Symbol) /\ a \in Nat /\ Len(add) = a
    BY <1>6, <1>11
  <2> HIDE DEF b
  <2>3. Joined(source, add, source \o add, Len(source), a) /\ Joined(legacy, put, legacy \o put, Len(legacy), b)
    BY <2>1, <2>2, Growing
  <2>4. Joined(source, add, all, m, a) /\ Joined(legacy, put, both, n, b)
    BY <1>11, <2>3, Zenon
  <2>5. QED
    BY <2>4 DEF b
<1>14. /\ Len(both) = n + 5 /\ \A i \in 1 .. 5 : both[n + i] = put[i]
       /\ \A i \in 1 .. n : both[i] = legacy[i]
       /\ \A i \in 1 .. a : all[m + i] = add[i]
  BY <1>13 DEF Joined
<1>15. all[m + 1] = "label" /\ all[m + g + 1] = ":" /\ \A k \in (m + 1) .. (m + g - 1) : all[k + 1] \in Blank
  <2>1. 1 \in 1 .. a /\ q + 2 \in 1 .. a /\ m + g + 1 = m + (q + 2)
    BY <1>5, <1>6, <1>7
  <2>2. ASSUME NEW k \in (m + 1) .. (m + g - 1) PROVE all[k + 1] \in Blank
    <3> DEFINE j == k - m
    <3>1. j \in 1 .. q /\ j + 1 \in 1 .. a /\ k + 1 = m + (j + 1)
      BY <1>5, <1>6, <1>7
    <3> HIDE DEF j
    <3>2. all[k + 1] = add[j + 1]
      BY <1>14, <3>1
    <3>3. QED
      BY <1>6, <3>1, <3>2
  <2>3. QED
    BY <1>6, <1>14, <2>1, <2>2
<1>16. EndsApart(both, n)
  BY <1>3, <1>7, <1>11, <1>14, BoundaryApart
<1>17. PII \in tokens
  BY DEF TokensAreWords
<1>18. a \in Nat \ {0} /\ g \in 1 .. (a - 1) /\ LabelledAt(add, all, m, a, g, tokens)
  BY <1>6, <1>15 DEF LabelledAt
<1>P. Puts(both, put, n, 5)
  BY <1>14 DEF Puts
<1>19. put = <<KeptAs("label", m), KeptAs(":", m + g), PutAs("space"), PutAs("["), PutAs("pii")>>
  BY <1>10
<1> HIDE DEF g, h
<1>20. Fit(add, all, put, both, m, a, n, 5, tokens)
  <2>1. /\ add \in Seq(Symbol) /\ m \in Nat /\ Len(add) = a /\ n \in Nat /\ Len(both) = n + 5
    BY <1>6, <1>7, <1>11, <1>14
  <2>2. QED
    BY <1>16, <1>17, <1>18, <1>19, <1>P, <2>1, LabelledGrafts
<1>21. Masked(all, both, tokens)
  BY <1>6, <1>7, <1>11, <1>12, <1>17, <1>20, MaskedGrown DEF Fit
<1>22. QED
  BY <1>2, <1>21

\* An empty field is traced.
LEMMA EmptyMasked ==
  ASSUME NEW tokens
  PROVE  Masked(<<>>, <<>>, tokens)
<1> DEFINE e == <<>>
<1>1. Len(e) = 0 /\ DOMAIN e = 1 .. 0 /\ e \in Seq(Symbol) /\ 0 \in Nat
  OBVIOUS
<1>2. e \in Seq([is : Symbol, at : {NoOffset} \cup 0 .. (Len(e) - 1)])
  OBVIOUS
<1> HIDE DEF e
<1>3. /\ \A i \in 1 .. Len(e) : FALSE
      /\ \A k \in 0 .. (Len(e) - 1) : FALSE
      /\ \A i \in 1 .. (Len(e) - 1) : FALSE
      /\ ~ (Len(e) > 0)
  BY <1>1
<1>4. Traced(e, e, tokens)
  BY <1>1, <1>2, <1>3 DEF Traced
<1>5. TokensWhole(e)
  BY <1>3 DEF TokensWhole
<1>6. RestsShown(e, e, tokens)
  BY <1>3 DEF RestsShown
<1>7. Masked(e, e, tokens)
  BY <1>1, <1>4, <1>5, <1>6 DEF Masked
<1>8. QED
  BY <1>7 DEF e

\* A name without the tokens' rests is clean.
LEMMA NamesAreClean ==
  ASSUME SegmentsAsWords, NEW mark \in Marked, NEW tokens, \A c : Rest(c, tokens) => c \in Rests
  PROVE  mark.gap \in Seq(Blank) /\ Clean(mark.name, tokens)
<1>1. mark.gap \in Seq(Blank) /\ mark.name \in Seq(STRING) /\ \A k \in DOMAIN mark.name : mark.name[k] \notin Rests
  BY DEF SegmentsAsWords
<1> DEFINE name == mark.name
<1>2. name \in Seq(STRING) /\ \A k \in DOMAIN name : name[k] \notin Rests
  BY <1>1
<1> HIDE DEF name
<1>3. name \in Seq(Symbol)
  BY <1>2, StringsAreSymbols
<1>4. Clean(name, tokens)
  BY <1>2, <1>3 DEF Clean
<1>5. QED
  BY <1>1, <1>4 DEF name

\* One segment more: each of the model's four actions keeps the invariant.
LEMMA StepStaysMasked ==
  ASSUME TextsAsMasked, NEW rules \in Rules, Masked(source, legacy, TokenVocab(rules)), MaskingNext
  PROVE  Masked(source', legacy', TokenVocab(rules))
<1> DEFINE tokens == TokenVocab(rules)
<1>1. PatternsAsWords /\ SegmentsAsWords
  BY DEF TextsAsMasked
<1>2. TokensAreWords(tokens) /\ Builtin \subseteq tokens /\ \A c : Rest(c, tokens) => c \in Rests
  BY <1>1, VocabularyIs
<1>3. Masked(source, legacy, tokens)
  OBVIOUS
<1> HIDE DEF tokens
<1>4. ASSUME NEW text \in Untouched, Leave(text) PROVE Masked(source', legacy', tokens)
  <2>1. text \in Seq(STRING)
    BY <1>1 DEF SegmentsAsWords
  <2>2. text \in Seq(Symbol)
    BY <2>1, StringsAreSymbols
  <2>3. QED
    BY <1>2, <1>3, <1>4, <2>2, LeaveMasked
<1>5. ASSUME NEW h \in Hidden, Hide(h) PROVE Masked(source', legacy', tokens)
  <2>1. /\ h.text \in Seq(STRING) /\ h.token \in Builtin
        /\ \A k \in DOMAIN h.text : h.text[k] \in Rests => h.token = SECRET /\ h.text[k] = "pii"
    BY <1>1 DEF SegmentsAsWords
  <2>2. h.text \in Seq(Symbol)
    BY <2>1, StringsAreSymbols
  <2>3. QED
    BY <1>2, <1>3, <1>5, <2>1, <2>2, HideMasked
<1>6. ASSUME NEW mark \in Marked, HideTitled(mark) \/ HideLabelled(mark) PROVE Masked(source', legacy', tokens)
  <2>1. mark.gap \in Seq(Blank) /\ Clean(mark.name, tokens)
    BY <1>1, <1>2, NamesAreClean
  <2>2. CASE HideTitled(mark)
    BY <1>2, <1>3, <2>1, <2>2, HideTitledMasked
  <2>3. CASE HideLabelled(mark)
    BY <1>2, <1>3, <2>1, <2>3, HideLabelledMasked
  <2>4. QED
    BY <1>6, <2>2, <2>3
<1>7. Masked(source', legacy', tokens)
  BY <1>4, <1>5, <1>6 DEF MaskingNext
<1>8. QED
  BY <1>7 DEF tokens

\* However a field grows: every symbol of the old masker's text stands in the field
\* where it says, or in a token, or between a mark and one.
THEOREM LegacyStaysTraced == TextsAsMasked /\ MaskingSpec => []StaysMasked
<1>1. MaskingInit => StaysMasked
  <2>1. SUFFICES ASSUME MaskingInit, NEW rules \in Rules PROVE Masked(source, legacy, TokenVocab(rules))
    BY DEF StaysMasked
  <2>2. source = <<>> /\ legacy = <<>>
    BY <2>1 DEF MaskingInit
  <2>3. QED
    BY <2>2, EmptyMasked
<1>2. TextsAsMasked /\ StaysMasked /\ [MaskingNext]_maskingVars => StaysMasked'
  <2>1. SUFFICES ASSUME TextsAsMasked, StaysMasked, [MaskingNext]_maskingVars, NEW rules \in Rules
                 PROVE  Masked(source', legacy', TokenVocab(rules))
    BY DEF StaysMasked
  <2>2. Masked(source, legacy, TokenVocab(rules))
    BY <2>1 DEF StaysMasked
  <2>3. CASE MaskingNext
    BY <2>1, <2>2, <2>3, StepStaysMasked
  <2>4. CASE UNCHANGED maskingVars
    BY <2>2, <2>4 DEF maskingVars
  <2>5. QED
    BY <2>1, <2>3, <2>4
<1>3. QED
  <2>1. SUFFICES ASSUME TextsAsMasked PROVE MaskingSpec => []StaysMasked
    OBVIOUS
  <2>2. StaysMasked /\ [MaskingNext]_maskingVars => StaysMasked'
    BY <1>2, <2>1
  <2>3. QED
    BY <1>1, <2>2, PTL DEF MaskingSpec

\* Of each field and each operator's patterns, what maskField shows was neither
\* found by the core nor taken away by the old masker or by a pattern, save blanks
\* and labels; and without patterns the belt finds an alignment of the two texts.
THEOREM MaskedIsNotShown == TextsAsMasked /\ MaskingSpec => []MaskCovers
<1>1. TextsAsMasked /\ StaysMasked => MaskCovers
  <2>1. SUFFICES ASSUME TextsAsMasked, StaysMasked, NEW rules \in Rules
                 PROVE  /\ rules = <<>> => Cover(source, legacy, rules).ok
                        /\ FieldCovered(Cover(source, legacy, rules), DetectCustom(source, rules), rules,
                                        Shown(ApplyRules(legacy, rules, TokenVocab(rules)).text))
    BY DEF MaskCovers
  <2> DEFINE tokens == TokenVocab(rules)
             n == Len(rules)
             m == Len(source)
             stepped == ApplyRules(legacy, rules, tokens)
             belt == CoverFrom(source, stepped, tokens)
             custom == DetectCustom(source, rules)
  <2>2. PatternsAsWords /\ CoreTokens \subseteq Builtin /\ ScanCap \in Nat
    BY <2>1 DEF TextsAsMasked
  <2>3. TokensAreWords(tokens) /\ tokens \subseteq Seq(Symbol) /\ SECRET \in tokens
    <3>1. TokensAreWords(tokens) /\ Builtin \subseteq tokens /\ tokens \subseteq Seq(Symbol)
      BY <2>2, VocabularyIs
    <3>2. QED
      BY <3>1 DEF Builtin
  <2>4. n \in Nat /\ RulesHeld(rules, n, tokens)
    BY <2>2, RulesAreHeld
  <2>5. Masked(source, legacy, tokens)
    BY <2>1 DEF StaysMasked
  <2>6. source \in Seq(Symbol)
    BY <2>5 DEF Masked, Traced
  <2>7. m \in Nat
    BY <2>6
  <2>8. Cover(source, legacy, rules) = belt
    BY DEF Cover
  <2>9. n = Len(rules) /\ m = Len(source) /\ belt = CoverFrom(source, stepped, tokens)
        /\ tokens = TokenVocab(rules) /\ stepped = ApplyRules(legacy, rules, tokens)
    OBVIOUS
  <2> HIDE DEF n, m, stepped, belt, custom, tokens
  <2>10. /\ stepped.ok /\ stepped.whole = <<>> => Masked(source, stepped.text, tokens)
         /\ n = 0 => stepped.ok /\ stepped.whole = <<>>
    <3> DEFINE st == ApplyRules(legacy, rules, tokens)
    <3>1. /\ st.ok /\ st.whole = <<>> => Masked(source, st.text, tokens)
          /\ n = 0 => st.ok /\ st.whole = <<>>
      BY <2>4, <2>5, <2>7, <2>9, MaskedApplied
    <3>2. QED
      BY <2>9, <3>1
  <2>11. stepped.ok /\ stepped.whole = <<>> => Masked(source, stepped.text, tokens)
    BY <2>10
  <2>12. /\ belt.ok /\ belt.whole = <<>> /\ Len(source) <= ScanCap => BeltCovers(belt, source, stepped.text, m)
         /\ stepped.ok /\ stepped.whole = <<>> => belt.ok
    BY <2>2, <2>3, <2>7, <2>9, <2>11, CoverHolds
  <2>13. rules = <<>> => belt.ok
    <3>1. rules = <<>> => n = 0
      BY <2>9
    <3>2. QED
      BY <2>10, <2>12, <3>1
  <2>14. RulesTyped(rules, n)
    BY <2>4 DEF RulesHeld
  <2>15. CustomAs(custom, m, tokens)
    <3>1. CustomAs(DetectCustom(source, rules), m, TokenVocab(rules))
      BY <2>4, <2>6, <2>7, <2>9, <2>14, DetectCustomIs
    <3>2. QED
      BY <2>9, <3>1 DEF custom
  <2>16. FieldCovered(belt, custom, rules, Shown(stepped.text))
    <3>1. belt.ok /\ belt.whole = <<>> /\ Len(source) <= ScanCap => BeltCovers(belt, source, stepped.text, m)
      BY <2>12
    <3>2. TokenVocab(rules) \subseteq Seq(Symbol) /\ CustomAs(custom, m, TokenVocab(rules))
      BY <2>3, <2>9, <2>15
    <3> DEFINE old == stepped.text
    <3>3. belt.ok /\ belt.whole = <<>> /\ Len(source) <= ScanCap => BeltCovers(belt, source, old, m)
      BY <3>1
    <3> HIDE DEF old
    <3>4. m = Len(source) /\ Len(source) = m /\ n \in Nat
      BY <2>4, <2>9
    <3>5. FieldCovered(belt, custom, rules, Shown(old))
      BY <2>2, <2>6, <2>7, <2>14, <3>2, <3>3, <3>4, FieldHolds
    <3>6. QED
      BY <3>5 DEF old
  <2>17. QED
    BY <2>8, <2>9, <2>13, <2>16 DEF custom
<1>2. QED
  <2>1. SUFFICES ASSUME TextsAsMasked PROVE MaskingSpec => []MaskCovers
    OBVIOUS
  <2>2. StaysMasked => MaskCovers
    BY <1>1, <2>1
  <2>3. MaskingSpec => []StaysMasked
    BY <2>1, LegacyStaysTraced
  <2>4. QED
    BY <2>2, <2>3, PTL
=============================================================================
