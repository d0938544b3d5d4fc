------------------------------- MODULE SseProofs -------------------------------
(***************************************************************************)
(* An event that is sent as SSE arrives with its tokens and its cursor,    *)
(* for events of any text and of any length, unless Python cut it inside a *)
(* string.  Lines and fields are recursive functions of a text, so what    *)
(* they do is proved by induction over the set of texts for which a fact   *)
(* holds: it has the empty text and, with a text, each that is longer by   *)
(* one character (Induct).                                                 *)
(***************************************************************************)
EXTENDS FramingProofs

--------------------------------------------------------------------------------
\* Induction over sequences, for a set of them.

LEMMA FrontLast ==
    ASSUME NEW S, NEW t \in Seq(S), t # <<>>
    PROVE  /\ Front(t) \in Seq(S) /\ Last(t) \in S /\ t = Append(Front(t), Last(t))
           /\ Len(t) \in Nat \ {0} /\ Len(Front(t)) = Len(t) - 1
           /\ \A i \in 1..Len(t) - 1 : Front(t)[i] = t[i]
<1>1. Len(t) \in Nat \ {0} /\ Last(t) = t[Len(t)] /\ Last(t) \in S
  BY EmptySeq, LenProperties, ElementOfSeq DEF Last
<1>2. /\ Front(t) \in Seq(S) /\ Len(Front(t)) = Len(t) - 1
      /\ \A i \in 1..Len(t) - 1 : Front(t)[i] = t[i]
  <2>1. /\ SubSeq(t, 1, Len(t) - 1) \in Seq(S) /\ Len(SubSeq(t, 1, Len(t) - 1)) = Len(t) - 1
        /\ \A i \in 1..Len(t) - 1 : SubSeq(t, 1, Len(t) - 1)[i] = t[i]
    <3>1. \A i \in 1..Len(t) - 1 : t[i] \in S
      BY <1>1, ElementOfSeq
    <3>2. PICK n \in Nat : n = Len(t) - 1
      BY <1>1
    <3>3. /\ SubSeq(t, 1, n) \in Seq(S)
          /\ Len(SubSeq(t, 1, n)) = IF 1 <= n THEN n - 1 + 1 ELSE 0
          /\ \A i \in 1..n - 1 + 1 : SubSeq(t, 1, n)[i] = t[1 + i - 1]
      BY <3>1, <3>2, SubSeqProperties
    <3>4. Len(SubSeq(t, 1, n)) = n /\ \A i \in 1..n : SubSeq(t, 1, n)[i] = t[i]
      BY <3>3
    <3> QED BY <3>2, <3>3, <3>4
  <2> QED BY <2>1 DEF Front
<1>3. t = Append(Front(t), Last(t))
  <2>1. /\ Append(Front(t), Last(t)) \in Seq(S) /\ Len(Append(Front(t), Last(t))) = Len(t)
        /\ \A i \in 1..Len(t) - 1 : Append(Front(t), Last(t))[i] = t[i]
        /\ Append(Front(t), Last(t))[Len(t)] = t[Len(t)]
    BY <1>1, <1>2, AppendProperties
  <2>2. \A i \in 1..Len(t) : Append(Front(t), Last(t))[i] = t[i]
    BY <1>1, <2>1
  <2> HIDE DEF Front
  <2> QED BY <2>1, <2>2, SeqEqual
<1> QED BY <1>1, <1>2, <1>3

LEMMA Induct ==
    ASSUME NEW S, NEW Good, <<>> \in Good,
           \A t \in Seq(S), c \in S : t \in Good => Append(t, c) \in Good
    PROVE  Seq(S) \subseteq Good
<1> SUFFICES ASSUME NEW t \in Seq(S), t \notin Good PROVE FALSE
  OBVIOUS
<1> DEFINE Bad == {n \in 0..Len(t) : SubSeq(t, 1, n) \notin Good}
<1>1. Len(t) \in Nat
  BY LenProperties
<1>2. Len(t) \in Bad
  <2>1. SubSeq(t, 1, Len(t)) = t
    BY SubSeqFull
  <2>2. Len(t) \in 0..Len(t)
    BY <1>1
  <2>3. SubSeq(t, 1, Len(t)) \notin Good
    BY <2>1, Zenon
  <2> QED BY <2>2, <2>3, Zenon
<1>3. PICK n \in Bad : \A k \in Bad : n <= k
  <2>1. Bad \in SUBSET (0..Len(t)) /\ Bad # {}
    BY <1>2
  <2> HIDE DEF Bad
  <2> QED BY <1>1, <2>1, Least
<1>4. n # 0
  <2>1. SubSeq(t, 1, 0) = <<>>
    BY <1>1
  <2> QED BY <2>1
<1>5. n - 1 \in 0..Len(t) /\ SubSeq(t, 1, n - 1) \in Good
  BY <1>1, <1>3, <1>4
<1>6. SubSeq(t, 1, n - 1) \in Seq(S) /\ t[n] \in S /\ SubSeq(t, 1, n) = Append(SubSeq(t, 1, n - 1), t[n])
  BY <1>1, <1>4
<1> QED BY <1>5, <1>6

--------------------------------------------------------------------------------
\* Split, which is written with a recursive function.

SplitsTo(f, text, cuts, m) ==
    f = [n \in 0..m |-> IF n = 0 THEN <<<<>>>> ELSE Continued(f[n - 1], text[n], cuts)]

LEMMA SplitsAt ==
    ASSUME NEW f, NEW text, NEW cuts, NEW m, SplitsTo(f, text, cuts, m), NEW n \in 0..m
    PROVE  f[n] = IF n = 0 THEN <<<<>>>> ELSE Continued(f[n - 1], text[n], cuts)
<1> DEFINE g == [k \in 0..m |-> IF k = 0 THEN <<<<>>>> ELSE Continued(f[k - 1], text[k], cuts)]
<1>1. g[n] = IF n = 0 THEN <<<<>>>> ELSE Continued(f[n - 1], text[n], cuts)
  OBVIOUS
<1>2. f = g
  BY DEF SplitsTo
<1> HIDE DEF g
<1> QED BY <1>1, <1>2

LEMMA SplitSplits ==
    ASSUME NEW text, NEW cuts, Len(text) \in Nat
    PROVE  \E f : SplitsTo(f, text, cuts, Len(text)) /\ Split(text, cuts) = f[Len(text)]
<1> DEFINE Missing == {n \in 0..Len(text) : ~\E f : SplitsTo(f, text, cuts, n)}
<1>1. Missing = {}
  <2> SUFFICES ASSUME Missing # {} PROVE FALSE
    OBVIOUS
  <2>1. Min(Missing) \in Missing /\ \A n \in Missing : Min(Missing) <= n
    <3>1. Missing \in SUBSET (0..Len(text))
      OBVIOUS
    <3> HIDE DEF Missing
    <3> QED BY <3>1, Least
  <2>2. PICK n \in 0..Len(text) : n \in Missing /\ \A k \in Missing : n <= k
    BY <2>1
  <2>3. n # 0
    <3> DEFINE g == [k \in 0..0 |-> <<<<>>>>]
    <3>1. ASSUME NEW k \in 0..0
          PROVE  g[k] = IF k = 0 THEN <<<<>>>> ELSE Continued(g[k - 1], text[k], cuts)
      OBVIOUS
    <3>2. g = [k \in 0..0 |-> g[k]]
      OBVIOUS
    <3> HIDE DEF g
    <3>3. SplitsTo(g, text, cuts, 0)
      BY <3>1, <3>2 DEF SplitsTo
    <3> QED BY <2>2, <3>3
  <2>4. PICK f : SplitsTo(f, text, cuts, n - 1)
    <3>1. n - 1 \in 0..Len(text) /\ ~(n <= n - 1)
      BY <2>3
    <3> QED BY <2>2, <3>1
  <2> DEFINE g == [k \in 0..n |-> IF k = n THEN Continued(f[n - 1], text[n], cuts) ELSE f[k]]
  <2>5. ASSUME NEW k \in 0..n
        PROVE  g[k] = IF k = 0 THEN <<<<>>>> ELSE Continued(g[k - 1], text[k], cuts)
    <3>1. k # 0 => k - 1 \in 0..n /\ g[k - 1] = f[k - 1]
      OBVIOUS
    <3>2. k # n => f[k] = IF k = 0 THEN <<<<>>>> ELSE Continued(f[k - 1], text[k], cuts)
      <4>1. k # n => k \in 0..n - 1
        OBVIOUS
      <4>2. \A i \in 0..n - 1 : f[i] = IF i = 0 THEN <<<<>>>> ELSE Continued(f[i - 1], text[i], cuts)
        <5> HIDE DEF g
        <5>1. ASSUME NEW i \in 0..n - 1
              PROVE  f[i] = IF i = 0 THEN <<<<>>>> ELSE Continued(f[i - 1], text[i], cuts)
          BY <2>4, SplitsAt
        <5> QED BY <5>1
      <4> QED BY <4>1, <4>2, Zenon
    <3>3. g[k] = IF k = n THEN Continued(f[n - 1], text[n], cuts) ELSE f[k]
      OBVIOUS
    <3> HIDE DEF g
    <3> QED BY <2>3, <3>1, <3>2, <3>3
  <2>6. g = [k \in 0..n |-> g[k]]
    OBVIOUS
  <2> HIDE DEF g
  <2>7. SplitsTo(g, text, cuts, n)
    BY <2>5, <2>6 DEF SplitsTo
  <2> QED BY <2>2, <2>7
<1>2. \E f : SplitsTo(f, text, cuts, Len(text))
  <2>1. Len(text) \in 0..Len(text) /\ Len(text) \notin Missing
    BY <1>1
  <2> QED BY <2>1
<1> QED BY <1>2 DEF SplitsTo, Split

LEMMA ContinuedType ==
    ASSUME NEW S, NEW lines \in Seq(Seq(S)), lines # <<>>, NEW char \in S, NEW cuts
    PROVE  Continued(lines, char, cuts) \in Seq(Seq(S)) /\ Continued(lines, char, cuts) # <<>>
<1>1. Front(lines) \in Seq(Seq(S)) /\ Last(lines) \in Seq(S) /\ <<>> \in Seq(S)
  BY FrontLast
<1>2. Append(Last(lines), char) \in Seq(S)
  BY <1>1, AppendProperties
<1>3. Append(lines, <<>>) \in Seq(Seq(S)) /\ Append(lines, <<>>) # <<>>
  BY <1>1, AppendProperties, Zenon
<1>4. /\ Append(Front(lines), Append(Last(lines), char)) \in Seq(Seq(S))
      /\ Append(Front(lines), Append(Last(lines), char)) # <<>>
  <2> DEFINE front == Front(lines)
  <2> DEFINE last == Append(Last(lines), char)
  <2>1. front \in Seq(Seq(S)) /\ last \in Seq(S)
    BY <1>1, <1>2
  <2> HIDE DEF front, last
  <2>2. Append(front, last) \in Seq(Seq(S)) /\ Append(front, last) # <<>>
    BY <2>1, AppendProperties
  <2> QED BY <2>2 DEF front, last
<1>5. CASE char \in cuts
  BY <1>3, <1>5, Zenon DEF Continued
<1>6. CASE char \notin cuts
  BY <1>4, <1>6, Zenon DEF Continued
<1> QED BY <1>5, <1>6

\* Two texts that begin alike are split alike as far as they do.
SameUpTo(text, other, m) ==
    m <= Len(text) /\ m <= Len(other) /\ \A i \in 1..m : text[i] = other[i]

LEMMA SplitsAlike ==
    ASSUME NEW S, NEW text \in Seq(S), NEW other \in Seq(S), NEW m \in Nat, SameUpTo(text, other, m), NEW cuts,
           NEW f, NEW g, SplitsTo(f, text, cuts, Len(text)), SplitsTo(g, other, cuts, Len(other)),
           NEW n \in 0..m
    PROVE  f[n] = g[n] /\ f[n] \in Seq(Seq(S)) /\ f[n] # <<>>
<1> DEFINE Different == {i \in 0..m : ~(f[i] = g[i] /\ f[i] \in Seq(Seq(S)) /\ f[i] # <<>>)}
<1> SUFFICES ASSUME Different # {} PROVE FALSE
  OBVIOUS
<1>1. PICK i \in 0..m : i \in Different /\ \A k \in Different : i <= k
  <2>1. Different \in SUBSET (0..m)
    OBVIOUS
  <2>2. Min(Different) \in Different /\ \A k \in Different : Min(Different) <= k
    <3> HIDE DEF Different
    <3> QED BY <2>1, Least
  <2> QED BY <2>2
<1>2. /\ f[i] = IF i = 0 THEN <<<<>>>> ELSE Continued(f[i - 1], text[i], cuts)
      /\ g[i] = IF i = 0 THEN <<<<>>>> ELSE Continued(g[i - 1], other[i], cuts)
  <2>1. i \in 0..Len(text) /\ i \in 0..Len(other)
    BY LenProperties DEF SameUpTo
  <2> QED BY <2>1, SplitsAt
<1>3. i # 0
  <2>1. <<<<>>>> \in Seq(Seq(S)) /\ <<<<>>>> # <<>>
    <3>1. <<>> \in Seq(S)
      OBVIOUS
    <3> QED BY <3>1
  <2> QED BY <1>1, <1>2, <2>1
<1>4. i - 1 \in 0..m /\ ~(i <= i - 1)
  BY <1>3
<1>5. f[i - 1] = g[i - 1] /\ f[i - 1] \in Seq(Seq(S)) /\ f[i - 1] # <<>>
  BY <1>1, <1>4
<1>6. text[i] = other[i] /\ text[i] \in S
  <2>1. i \in 1..m /\ i \in 1..Len(text)
    BY <1>3, LenProperties DEF SameUpTo
  <2> QED BY <2>1, ElementOfSeq DEF SameUpTo
<1> QED BY <1>1, <1>2, <1>3, <1>5, <1>6, ContinuedType

LEMMA SplitAppend ==
    ASSUME NEW S, NEW text \in Seq(S), NEW char \in S, NEW cuts
    PROVE  /\ Split(Append(text, char), cuts) = Continued(Split(text, cuts), char, cuts)
           /\ Split(text, cuts) \in Seq(Seq(S)) /\ Split(text, cuts) # <<>>
<1> DEFINE more == Append(text, char)
<1>1. /\ Len(text) \in Nat /\ more \in Seq(S) /\ Len(more) = Len(text) + 1
      /\ more[Len(text) + 1] = char
      /\ \A i \in 1..Len(text) : text[i] = more[i]
  BY AppendProperties, LenProperties
<1> HIDE DEF more
<1>2. PICK f : SplitsTo(f, text, cuts, Len(text)) /\ Split(text, cuts) = f[Len(text)]
  BY <1>1, SplitSplits
<1>3. PICK g : SplitsTo(g, more, cuts, Len(more)) /\ Split(more, cuts) = g[Len(more)]
  BY <1>1, SplitSplits
<1>4. g[Len(more)] = Continued(g[Len(text)], char, cuts)
  <2>1. Len(more) \in 0..Len(more) /\ Len(more) # 0 /\ Len(more) - 1 = Len(text)
    BY <1>1
  <2> QED BY <1>1, <1>3, <2>1, SplitsAt
<1>5. f[Len(text)] = g[Len(text)] /\ f[Len(text)] \in Seq(Seq(S)) /\ f[Len(text)] # <<>>
  <2>1. Len(text) \in 0..Len(text) /\ Len(text) <= Len(text) /\ Len(text) <= Len(more)
    BY <1>1
  <2>2. ASSUME NEW n \in 0..Len(text) PROVE f[n] = g[n] /\ f[n] \in Seq(Seq(S)) /\ f[n] # <<>>
    <3>1. PICK m \in Nat : m = Len(text)
      BY <1>1
    <3>2. n \in 0..m /\ SameUpTo(text, more, m)
      BY <1>1, <3>1 DEF SameUpTo
    <3>3. SplitsTo(f, text, cuts, Len(text)) /\ SplitsTo(g, more, cuts, Len(more)) /\ more \in Seq(S)
      BY <1>1, <1>2, <1>3
    <3> HIDE DEF SplitsTo
    <3> QED BY <3>2, <3>3, SplitsAlike
  <2> QED BY <2>1, <2>2, Zenon
<1>6. Split(more, cuts) = Continued(Split(text, cuts), char, cuts)
  BY <1>2, <1>3, <1>4, <1>5, Zenon
<1> QED BY <1>2, <1>5, <1>6, Zenon DEF more

LEMMA SplitEmpty == ASSUME NEW cuts PROVE Split(<<>>, cuts) = <<<<>>>>
<1>1. Len(<<>>) = 0
  OBVIOUS
<1>2. PICK f : SplitsTo(f, <<>>, cuts, Len(<<>>)) /\ Split(<<>>, cuts) = f[Len(<<>>)]
  BY <1>1, SplitSplits
<1>3. 0 \in 0..Len(<<>>)
  BY <1>1
<1> QED BY <1>1, <1>2, <1>3, SplitsAt

--------------------------------------------------------------------------------
\* What Split makes of lines.

LEMMA AppendAs ==
    ASSUME NEW S, NEW s \in Seq(S), NEW x \in S, NEW t \in Seq(S), Len(t) = Len(s) + 1,
           \A i \in 1..Len(s) : t[i] = s[i], t[Len(s) + 1] = x
    PROVE  t = Append(s, x)
<1>1. /\ Append(s, x) \in Seq(S) /\ Len(Append(s, x)) = Len(s) + 1 /\ Len(s) \in Nat
      /\ \A i \in 1..Len(s) : Append(s, x)[i] = s[i]
      /\ Append(s, x)[Len(s) + 1] = x
  BY AppendProperties, LenProperties
<1>2. \A i \in 1..Len(s) + 1 : i \in 1..Len(s) \/ i = Len(s) + 1
  BY <1>1
<1>3. \A i \in 1..Len(t) : t[i] = Append(s, x)[i]
  BY <1>1, <1>2
<1> QED BY <1>1, <1>3, SeqEqual

LEMMA FrontLastAppend ==
    ASSUME NEW S, NEW s \in Seq(S), NEW x \in S
    PROVE  Front(Append(s, x)) = s /\ Last(Append(s, x)) = x
<1> DEFINE t == Append(s, x)
<1>1. t \in Seq(S) /\ t # <<>>
  BY AppendProperties
<1> HIDE DEF t
<1>2. Front(t) \in Seq(S) /\ Last(t) \in S /\ t = Append(Front(t), Last(t))
  BY <1>1, FrontLast
<1>3. Append(Front(t), Last(t)) = Append(s, x)
  BY <1>2 DEF t
<1>4. Front(t) = s /\ Last(t) = x
  BY <1>2, <1>3, AppendInjective
<1> QED BY <1>4 DEF t

LEMMA ConcatAppend ==
    ASSUME NEW S, NEW s \in Seq(S), NEW t \in Seq(S), NEW x \in S
    PROVE  s \o Append(t, x) = Append(s \o t, x)
<1>1. <<x>> \in Seq(S) /\ s \o t \in Seq(S)
  BY ConcatProperties
<1>2. Append(t, x) = t \o <<x>> /\ Append(s \o t, x) = (s \o t) \o <<x>>
  BY <1>1, AppendIsConcat
<1> QED BY <1>1, <1>2, ConcatAssociative

LEMMA ContinuedParts ==
    ASSUME NEW S, NEW lines \in Seq(Seq(S)), NEW line \in Seq(S), NEW char \in S, NEW cuts
    PROVE  Continued(Append(lines, line), char, cuts) =
               IF char \in cuts THEN Append(Append(lines, line), <<>>) ELSE Append(lines, Append(line, char))
BY FrontLastAppend DEF Continued

\* A text that goes on without a cut stays on its last line.
Ends(text, cuts, lines, line) == Split(text, cuts) = Append(lines, line)
Uncut(T, S, cuts) == T \subseteq S /\ T \cap cuts = {}

LEMMA SplitOn ==
    ASSUME NEW S, NEW cuts, NEW text \in Seq(S), NEW lines \in Seq(Seq(S)), NEW line \in Seq(S),
           Ends(text, cuts, lines, line),
           NEW T, Uncut(T, S, cuts), NEW rest \in Seq(T)
    PROVE  Ends(text \o rest, cuts, lines, line \o rest)
<1> DEFINE Good == {u \in Seq(T) : Split(text \o u, cuts) = Append(lines, line \o u)}
<1>1. <<>> \in Good
  <2>1. text \o <<>> = text /\ line \o <<>> = line /\ <<>> \in Seq(T)
    BY ConcatEmptySeq
  <2> QED BY <2>1 DEF Ends
<1>2. ASSUME NEW u \in Seq(T), NEW c \in T, u \in Good PROVE Append(u, c) \in Good
  <2>1. u \in Seq(S) /\ c \in S /\ c \notin cuts /\ Append(u, c) \in Seq(T)
    BY SeqMonotonic, AppendProperties DEF Uncut
  <2>2. Split(text \o u, cuts) = Append(lines, line \o u)
    BY <1>2
  <2> HIDE DEF Good
  <2>3. text \o Append(u, c) = Append(text \o u, c)
    BY <2>1, ConcatAppend
  <2>4. line \o Append(u, c) = Append(line \o u, c)
    BY <2>1, ConcatAppend
  <2> DEFINE whole == text \o u
  <2> DEFINE last == line \o u
  <2>5. whole \in Seq(S) /\ last \in Seq(S)
    BY <2>1, ConcatProperties
  <2>6. Split(whole, cuts) = Append(lines, last)
    BY <2>2
  <2> HIDE DEF whole, last
  <2>7. Split(Append(whole, c), cuts) = Continued(Split(whole, cuts), c, cuts)
    BY <2>1, <2>5, SplitAppend
  <2>8. Continued(Append(lines, last), c, cuts) = Append(lines, Append(last, c))
    BY <2>1, <2>5, ContinuedParts
  <2>9. Split(text \o Append(u, c), cuts) = Append(lines, line \o Append(u, c))
    BY <2>3, <2>4, <2>6, <2>7, <2>8 DEF whole, last
  <2> QED BY <2>1, <2>9 DEF Good
<1>3. Seq(T) \subseteq Good
  <2> HIDE DEF Good
  <2> QED BY <1>1, <1>2, Induct
<1> QED BY <1>3 DEF Ends

\* After a cut it makes a line of its own.
LEMMA SplitOnNext ==
    ASSUME NEW S, NEW cuts, NEW text \in Seq(S), NEW lines \in Seq(Seq(S)),
           Ends(text, cuts, lines, <<>>),
           NEW T, Uncut(T, S, cuts), NEW rest \in Seq(T)
    PROVE  Ends(text \o rest, cuts, lines, rest)
<1>1. PICK empty \in Seq(S) : empty = <<>>
  <2>1. <<>> \in Seq(S)
    OBVIOUS
  <2> QED BY <2>1
<1>2. Ends(text, cuts, lines, empty)
  BY <1>1
<1>3. Ends(text \o rest, cuts, lines, empty \o rest)
  BY <1>2, SplitOn
<1>4. empty \o rest = rest
  BY <1>1, ConcatEmptySeq
<1> QED BY <1>3, <1>4

\* Lines hold no cuts.
LEMMA SplitLines ==
    ASSUME NEW S, NEW text \in Seq(S), NEW cuts
    PROVE  Split(text, cuts) \in Seq(Seq(S \ cuts)) /\ Split(text, cuts) # <<>>
<1> DEFINE Good == {t \in Seq(S) : Split(t, cuts) \in Seq(Seq(S \ cuts)) /\ Split(t, cuts) # <<>>}
<1>1. <<>> \in Good
  <2>1. <<<<>>>> \in Seq(Seq(S \ cuts)) /\ <<<<>>>> # <<>> /\ <<>> \in Seq(S)
    <3>1. <<>> \in Seq(S \ cuts)
      OBVIOUS
    <3> QED BY <3>1
  <2> QED BY <2>1, SplitEmpty
<1>2. ASSUME NEW t \in Seq(S), NEW c \in S, t \in Good PROVE Append(t, c) \in Good
  <2> DEFINE lines == Split(t, cuts)
  <2>1. lines \in Seq(Seq(S \ cuts)) /\ lines # <<>> /\ Append(t, c) \in Seq(S)
    BY <1>2, AppendProperties
  <2>2. Split(Append(t, c), cuts) = Continued(lines, c, cuts)
    BY SplitAppend
  <2> HIDE DEF lines
  <2>3. /\ Front(lines) \in Seq(Seq(S \ cuts)) /\ Last(lines) \in Seq(S \ cuts)
        /\ <<>> \in Seq(S \ cuts)
    BY <2>1, FrontLast
  <2>4. CASE c \in cuts
    <3>1. Append(lines, <<>>) \in Seq(Seq(S \ cuts)) /\ Append(lines, <<>>) # <<>>
      BY <2>1, <2>3, AppendProperties
    <3> QED BY <2>1, <2>2, <2>4, <3>1 DEF Continued
  <2>5. CASE c \notin cuts
    <3> DEFINE front == Front(lines)
    <3> DEFINE last == Append(Last(lines), c)
    <3>1. front \in Seq(Seq(S \ cuts)) /\ last \in Seq(S \ cuts)
      BY <2>3, <2>5, AppendProperties
    <3>2. Split(Append(t, c), cuts) = Append(front, last)
      BY <2>2, <2>5 DEF Continued
    <3> HIDE DEF front, last
    <3>3. Append(front, last) \in Seq(Seq(S \ cuts)) /\ Append(front, last) # <<>>
      BY <3>1, AppendProperties
    <3> QED BY <2>1, <3>2, <3>3
  <2> QED BY <2>4, <2>5
<1>3. Seq(S) \subseteq Good
  <2> HIDE DEF Good
  <2> QED BY <1>1, <1>2, Induct
<1> QED BY <1>3

\* The message that is made of lines, each with its line feed, is split into them.
Ended(lines) == [i \in DOMAIN lines |-> Append(lines[i], "newline")]

LEMMA EndedAppend ==
    ASSUME NEW S, "newline" \in S, NEW lines \in Seq(Seq(S)), NEW line \in Seq(S)
    PROVE  /\ Ended(lines) \in Seq(Seq(S)) /\ Append(line, "newline") \in Seq(S)
           /\ Ended(Append(lines, line)) = Append(Ended(lines), Append(line, "newline"))
<1> DEFINE more == Append(lines, line)
<1>1. /\ Len(lines) \in Nat /\ DOMAIN lines = 1..Len(lines) /\ more \in Seq(Seq(S))
      /\ Len(more) = Len(lines) + 1 /\ DOMAIN more = 1..(Len(lines) + 1)
      /\ more[Len(lines) + 1] = line
      /\ \A i \in 1..Len(lines) : more[i] = lines[i]
  BY AppendProperties, LenProperties
<1> HIDE DEF more
<1>2. ASSUME NEW x \in Seq(S) PROVE Append(x, "newline") \in Seq(S)
  BY AppendProperties
<1>3. Ended(lines) = [i \in 1..Len(lines) |-> Append(lines[i], "newline")]
  BY <1>1 DEF Ended
<1>4. Ended(more) = [i \in 1..(Len(lines) + 1) |-> Append(more[i], "newline")]
  BY <1>1 DEF Ended
<1>5. \A i \in 1..Len(lines) : Append(lines[i], "newline") \in Seq(S)
  BY <1>2, ElementOfSeq
<1>6. \A i \in 1..(Len(lines) + 1) : Append(more[i], "newline") \in Seq(S)
  <2>1. \A i \in 1..(Len(lines) + 1) : more[i] \in Seq(S)
    BY <1>1, ElementOfSeq
  <2> QED BY <1>2, <2>1
<1>7. Ended(lines) \in Seq(Seq(S)) /\ Len(Ended(lines)) = Len(lines)
  BY <1>1, <1>3, <1>5, IsASeq
<1>8. Ended(more) \in Seq(Seq(S)) /\ Len(Ended(more)) = Len(lines) + 1
  BY <1>1, <1>4, <1>6, IsASeq
<1>9. Append(line, "newline") \in Seq(S)
  BY <1>2
<1>10. /\ \A i \in 1..Len(lines) : Ended(more)[i] = Ended(lines)[i]
       /\ Ended(more)[Len(lines) + 1] = Append(line, "newline")
  <2>1. \A i \in 1..Len(lines) : Ended(lines)[i] = Append(lines[i], "newline")
    BY <1>3, Zenon
  <2>2. \A i \in 1..(Len(lines) + 1) : Ended(more)[i] = Append(more[i], "newline")
    BY <1>4, Zenon
  <2>3. /\ \A i \in 1..Len(lines) : i \in 1..(Len(lines) + 1) /\ more[i] = lines[i]
        /\ Len(lines) + 1 \in 1..(Len(lines) + 1)
    BY <1>1
  <2> QED BY <1>1, <2>1, <2>2, <2>3, Zenon
<1>11. Ended(more) = Append(Ended(lines), Append(line, "newline"))
  BY <1>7, <1>8, <1>9, <1>10, AppendAs
<1> QED BY <1>7, <1>9, <1>11 DEF more

LEMMA SplitEnded ==
    ASSUME NEW S, "newline" \in S, NEW lines \in Seq(Seq(S \ {"newline"}))
    PROVE  /\ FlattenSeq(Ended(lines)) \in Seq(S)
           /\ Split(FlattenSeq(Ended(lines)), {"newline"}) = Append(lines, <<>>)
<1> DEFINE Good == {m \in Seq(Seq(S \ {"newline"})) :
                        /\ FlattenSeq(Ended(m)) \in Seq(S)
                        /\ Split(FlattenSeq(Ended(m)), {"newline"}) = Append(m, <<>>)}
<1>1. <<>> \in Good
  <2>1. Ended(<<>>) = <<>> /\ Len(<<>>) = 0
    BY DEF Ended
  <2>2. FlattenSeq(Ended(<<>>)) = <<>>
    BY <2>1 DEF FlattenSeq
  <2>3. <<>> \in Seq(S) /\ <<>> \in Seq(Seq(S \ {"newline"})) /\ Append(<<>>, <<>>) = <<<<>>>>
    OBVIOUS
  <2> QED BY <2>2, <2>3, SplitEmpty
<1>2. ASSUME NEW m \in Seq(Seq(S \ {"newline"})), NEW line \in Seq(S \ {"newline"}), m \in Good
      PROVE  Append(m, line) \in Good
  <2> DEFINE text == FlattenSeq(Ended(m))
  <2>1. text \in Seq(S) /\ Split(text, {"newline"}) = Append(m, <<>>)
    BY <1>2
  <2>2. Append(m, line) \in Seq(Seq(S \ {"newline"}))
    BY AppendProperties
  <2> HIDE DEF Good
  <2>3. line \in Seq(S) /\ <<>> \in Seq(S)
    BY SeqMonotonic
  <2>4. m \in Seq(Seq(S))
    <3>1. Seq(S \ {"newline"}) \subseteq Seq(S)
      BY SeqMonotonic
    <3> QED BY <3>1, SeqMonotonic
  <2>5. /\ Ended(Append(m, line)) = Append(Ended(m), Append(line, "newline"))
        /\ Ended(m) \in Seq(Seq(S)) /\ Append(line, "newline") \in Seq(S)
    BY <2>3, <2>4, EndedAppend
  <2>6. FlattenSeq(Append(Ended(m), Append(line, "newline"))) = text \o Append(line, "newline")
    BY <2>5, FlattenAppend
  <2> HIDE DEF text
  <2>7. FlattenSeq(Ended(Append(m, line))) = Append(text \o line, "newline")
    <3>1. text \o Append(line, "newline") = Append(text \o line, "newline")
      BY <2>1, <2>3, ConcatAppend
    <3> QED BY <2>5, <2>6, <3>1
  <2>8. text \o line \in Seq(S)
    BY <2>1, <2>3, ConcatProperties
  <2>9. Split(text \o line, {"newline"}) = Append(m, line)
    <3>1. PICK cuts, T : cuts = {"newline"} /\ T = S \ {"newline"}
      OBVIOUS
    <3>2. Uncut(T, S, cuts) /\ line \in Seq(T) /\ Ends(text, cuts, m, <<>>)
      BY <2>1, <3>1 DEF Uncut, Ends
    <3>3. Ends(text \o line, cuts, m, line)
      BY <2>1, <2>4, <3>2, SplitOnNext
    <3> QED BY <3>1, <3>3 DEF Ends
  <2> DEFINE whole == text \o line
  <2>11. whole \in Seq(S) /\ Split(whole, {"newline"}) = Append(m, line)
    BY <2>8, <2>9
  <2> HIDE DEF whole
  <2>12. Split(Append(whole, "newline"), {"newline"}) = Continued(Split(whole, {"newline"}), "newline", {"newline"})
    BY <2>11, SplitAppend
  <2>13. Continued(Append(m, line), "newline", {"newline"}) = Append(Append(m, line), <<>>)
    <3>1. "newline" \in {"newline"}
      OBVIOUS
    <3> QED BY <3>1, Zenon DEF Continued
  <2>14. Append(whole, "newline") \in Seq(S)
    BY <2>11, AppendProperties
  <2>15. FlattenSeq(Ended(Append(m, line))) = Append(whole, "newline")
    BY <2>7 DEF whole
  <2> QED BY <2>2, <2>11, <2>12, <2>13, <2>14, <2>15 DEF Good
<1>3. Seq(Seq(S \ {"newline"})) \subseteq Good
  <2> HIDE DEF Good
  <2> QED BY <1>1, <1>2, Induct
<1> QED BY <1>3

--------------------------------------------------------------------------------
\* The tokens of a text.

Breaks == {"newline", "return"}
Token(char) == IF char \in Breaks THEN <<>> ELSE <<char>>

LEMMA TokensAppend ==
    ASSUME NEW S, NEW text \in Seq(S), NEW char \in S
    PROVE  /\ Tokens(text) \in Seq(S) /\ Token(char) \in Seq(S)
           /\ Tokens(Append(text, char)) = Tokens(text) \o Token(char)
<1> DEFINE Parts(t) == [i \in DOMAIN t |-> IF t[i] \in {"newline", "return"} THEN <<>> ELSE <<t[i]>>]
<1> DEFINE more == Append(text, char)
<1>1. /\ Len(text) \in Nat /\ DOMAIN text = 1..Len(text) /\ more \in Seq(S)
      /\ Len(more) = Len(text) + 1 /\ DOMAIN more = 1..(Len(text) + 1)
      /\ more[Len(text) + 1] = char
      /\ \A i \in 1..Len(text) : more[i] = text[i]
  BY AppendProperties, LenProperties
<1> HIDE DEF more
<1>2. ASSUME NEW c \in S PROVE Token(c) \in Seq(S)
  BY DEF Token
<1>3. Parts(text) = [i \in 1..Len(text) |-> Token(text[i])]
  BY <1>1 DEF Token, Breaks
<1>4. Parts(more) = [i \in 1..(Len(text) + 1) |-> Token(more[i])]
  BY <1>1 DEF Token, Breaks
<1>5. Tokens(text) = FlattenSeq(Parts(text)) /\ Tokens(more) = FlattenSeq(Parts(more))
  BY DEF Tokens
<1> HIDE DEF Parts
<1>6. \A i \in 1..Len(text) : Token(text[i]) \in Seq(S)
  BY <1>2, ElementOfSeq
<1>7. \A i \in 1..(Len(text) + 1) : Token(more[i]) \in Seq(S)
  <2>1. \A i \in 1..(Len(text) + 1) : more[i] \in S
    BY <1>1, ElementOfSeq
  <2> QED BY <1>2, <2>1
<1>8. Parts(text) \in Seq(Seq(S)) /\ Len(Parts(text)) = Len(text)
  BY <1>1, <1>3, <1>6, IsASeq
<1>9. Parts(more) \in Seq(Seq(S)) /\ Len(Parts(more)) = Len(text) + 1
  BY <1>1, <1>4, <1>7, IsASeq
<1>10. Token(char) \in Seq(S)
  BY <1>2
<1>11. /\ \A i \in 1..Len(text) : Parts(more)[i] = Parts(text)[i]
       /\ Parts(more)[Len(text) + 1] = Token(char)
  BY <1>1, <1>3, <1>4
<1>12. Parts(more) = Append(Parts(text), Token(char))
  BY <1>8, <1>9, <1>10, <1>11, AppendAs
<1>13. FlattenSeq(Append(Parts(text), Token(char))) = FlattenSeq(Parts(text)) \o Token(char)
       /\ FlattenSeq(Parts(text)) \in Seq(S)
  BY <1>8, <1>10, FlattenAppend
<1> QED BY <1>5, <1>10, <1>12, <1>13 DEF more

LEMMA TokensEmpty == Tokens(<<>>) = <<>>
<1> DEFINE parts == [i \in DOMAIN <<>> |-> IF <<>>[i] \in {"newline", "return"} THEN <<>> ELSE << <<>>[i] >>]
<1>1. parts = <<>> /\ Len(<<>>) = 0
  OBVIOUS
<1>2. Tokens(<<>>) = FlattenSeq(parts)
  BY DEF Tokens
<1> HIDE DEF parts
<1> QED BY <1>1, <1>2 DEF FlattenSeq

LEMMA TokensConcat ==
    ASSUME NEW S, NEW text \in Seq(S), NEW rest \in Seq(S)
    PROVE  Tokens(text \o rest) = Tokens(text) \o Tokens(rest)
<1> DEFINE Good == {u \in Seq(S) : Tokens(text \o u) = Tokens(text) \o Tokens(u)}
<1>1. <<>> \in Good
  <2>1. /\ text \o <<>> = text /\ <<>> \in Seq(S)
        /\ Tokens(text) \o <<>> = Tokens(text)
    <3>1. Tokens(text) \in Seq(S) \/ S = {}
      BY TokensAppend
    <3>2. S = {} => text = <<>>
      BY EmptySeq, LenProperties, ElementOfSeq
    <3>3. Tokens(text) \in Seq(S)
      BY <3>1, <3>2, TokensEmpty
    <3> QED BY <3>3, ConcatEmptySeq
  <2> QED BY <2>1, TokensEmpty
<1>2. ASSUME NEW u \in Seq(S), NEW c \in S, u \in Good PROVE Append(u, c) \in Good
  <2>1. Tokens(text \o u) = Tokens(text) \o Tokens(u)
    BY <1>2
  <2> HIDE DEF Good
  <2>2. Append(u, c) \in Seq(S) /\ text \o Append(u, c) = Append(text \o u, c)
    BY AppendProperties, ConcatAppend
  <2> DEFINE whole == text \o u
  <2>3. whole \in Seq(S)
    BY ConcatProperties
  <2> HIDE DEF whole
  <2>4. Tokens(Append(whole, c)) = Tokens(whole) \o Token(c)
    BY <2>3, TokensAppend
  <2>5. /\ Tokens(Append(u, c)) = Tokens(u) \o Token(c)
        /\ Tokens(u) \in Seq(S) /\ Tokens(text) \in Seq(S) /\ Token(c) \in Seq(S)
    BY TokensAppend
  <2>6. (Tokens(text) \o Tokens(u)) \o Token(c) = Tokens(text) \o (Tokens(u) \o Token(c))
    <3> DEFINE p == Tokens(text)
    <3> DEFINE q == Tokens(u)
    <3> DEFINE r == Token(c)
    <3>1. p \in Seq(S) /\ q \in Seq(S) /\ r \in Seq(S)
      BY <2>5
    <3> HIDE DEF p, q, r
    <3>2. (p \o q) \o r = p \o (q \o r)
      BY <3>1, ConcatAssociative
    <3> QED BY <3>2 DEF p, q, r
  <2>7. Tokens(text \o Append(u, c)) = Tokens(text) \o Tokens(Append(u, c))
    BY <2>1, <2>2, <2>4, <2>5, <2>6 DEF whole
  <2> QED BY <2>2, <2>7 DEF Good
<1>3. Seq(S) \subseteq Good
  <2> HIDE DEF Good
  <2> QED BY <1>1, <1>2, Induct
<1> QED BY <1>3

LEMMA FlattenContinued ==
    ASSUME NEW S, NEW lines \in Seq(Seq(S)), lines # <<>>, NEW char \in S, NEW cuts
    PROVE  /\ FlattenSeq(lines) \in Seq(S)
           /\ FlattenSeq(Continued(lines, char, cuts)) =
                  IF char \in cuts THEN FlattenSeq(lines) ELSE Append(FlattenSeq(lines), char)
<1> DEFINE front == Front(lines)
<1> DEFINE last == Last(lines)
<1>1. front \in Seq(Seq(S)) /\ last \in Seq(S) /\ lines = Append(front, last)
  BY FrontLast
<1>2. Continued(lines, char, cuts) =
          IF char \in cuts THEN Append(lines, <<>>) ELSE Append(front, Append(last, char))
  BY DEF Continued
<1> HIDE DEF front, last
<1>3. FlattenSeq(lines) = FlattenSeq(front) \o last /\ FlattenSeq(front) \in Seq(S)
  BY <1>1, FlattenAppend
<1>4. FlattenSeq(lines) \in Seq(S)
  BY <1>1, <1>3, ConcatProperties
<1>5. FlattenSeq(Append(lines, <<>>)) = FlattenSeq(lines)
  <2>1. PICK empty \in Seq(S) : empty = <<>>
    <3>1. <<>> \in Seq(S)
      OBVIOUS
    <3> QED BY <3>1
  <2>2. FlattenSeq(Append(lines, empty)) = FlattenSeq(lines) \o empty
    BY FlattenAppend
  <2>3. FlattenSeq(lines) \o empty = FlattenSeq(lines)
    BY <1>4, <2>1, ConcatEmptySeq
  <2> QED BY <2>1, <2>2, <2>3
<1>6. FlattenSeq(Append(front, Append(last, char))) = Append(FlattenSeq(lines), char)
  <2>1. Append(last, char) \in Seq(S)
    BY <1>1, AppendProperties
  <2>2. FlattenSeq(Append(front, Append(last, char))) = FlattenSeq(front) \o Append(last, char)
    BY <1>1, <2>1, FlattenAppend
  <2>3. FlattenSeq(front) \o Append(last, char) = Append(FlattenSeq(front) \o last, char)
    BY <1>1, <1>3, ConcatAppend
  <2> QED BY <1>3, <2>2, <2>3
<1> QED BY <1>2, <1>4, <1>5, <1>6

\* If the cuts are breaks, the lines of a text have its tokens.
LEMMA TokensOfLines ==
    ASSUME NEW S, NEW cuts, S \cap cuts \subseteq Breaks, NEW text \in Seq(S)
    PROVE  Tokens(FlattenSeq(Split(text, cuts))) = Tokens(text)
<1> DEFINE Good == {t \in Seq(S) : Tokens(FlattenSeq(Split(t, cuts))) = Tokens(t)}
<1>1. <<>> \in Good
  <2>1. PICK empty \in Seq(S) : empty = <<>>
    <3>1. <<>> \in Seq(S)
      OBVIOUS
    <3> QED BY <3>1
  <2>2. FlattenSeq(<<<<>>>>) = <<>>
    <3>1. FlattenSeq(Append(<<>>, empty)) = FlattenSeq(<<>>) \o empty /\ FlattenSeq(<<>>) \in Seq(S)
      <4>1. <<>> \in Seq(Seq(S))
        OBVIOUS
      <4> QED BY <4>1, FlattenAppend
    <3>2. FlattenSeq(<<>>) = <<>>
      <4>1. Len(<<>>) = 0
        OBVIOUS
      <4> QED BY <4>1 DEF FlattenSeq
    <3>3. Append(<<>>, <<>>) = <<<<>>>> /\ <<>> \o <<>> = <<>>
      OBVIOUS
    <3> QED BY <2>1, <3>1, <3>2, <3>3
  <2> QED BY <2>1, <2>2, SplitEmpty
<1>2. ASSUME NEW t \in Seq(S), NEW c \in S, t \in Good PROVE Append(t, c) \in Good
  <2> DEFINE lines == Split(t, cuts)
  <2>1. Tokens(FlattenSeq(lines)) = Tokens(t) /\ Append(t, c) \in Seq(S)
    BY <1>2, AppendProperties
  <2> HIDE DEF Good
  <2>2. Split(Append(t, c), cuts) = Continued(lines, c, cuts) /\ lines \in Seq(Seq(S)) /\ lines # <<>>
    BY SplitAppend
  <2> HIDE DEF lines
  <2>3. /\ FlattenSeq(lines) \in Seq(S)
        /\ FlattenSeq(Continued(lines, c, cuts)) =
               IF c \in cuts THEN FlattenSeq(lines) ELSE Append(FlattenSeq(lines), c)
    BY <2>2, FlattenContinued
  <2>4. Tokens(Append(t, c)) = Tokens(t) \o Token(c) /\ Tokens(t) \in Seq(S)
    BY TokensAppend
  <2>5. CASE c \in cuts
    <3>1. Token(c) = <<>>
      BY <2>5 DEF Token
    <3>2. Tokens(t) \o Token(c) = Tokens(t)
      BY <2>4, <3>1, ConcatEmptySeq
    <3> QED BY <2>1, <2>2, <2>3, <2>4, <2>5, <3>2 DEF Good
  <2>6. CASE c \notin cuts
    <3> DEFINE flat == FlattenSeq(lines)
    <3>1. flat \in Seq(S) /\ Tokens(flat) = Tokens(t)
      BY <2>1, <2>3
    <3> HIDE DEF flat
    <3>2. Tokens(Append(flat, c)) = Tokens(flat) \o Token(c)
      BY <3>1, TokensAppend
    <3>3. FlattenSeq(Split(Append(t, c), cuts)) = Append(flat, c)
      BY <2>2, <2>3, <2>6 DEF flat
    <3> QED BY <2>1, <2>4, <3>1, <3>2, <3>3 DEF Good
  <2> QED BY <2>5, <2>6
<1>3. Seq(S) \subseteq Good
  <2> HIDE DEF Good
  <2> QED BY <1>1, <1>2, Induct
<1> QED BY <1>3

--------------------------------------------------------------------------------
\* The rows of a message, and what the decoder makes of them.

Labelled(lines) == [i \in DOMAIN lines |-> <<"data:">> \o lines[i]]
Signs == Characters \cup {"data:", "id:", Cursor}

LEMMA LabelledAppend ==
    ASSUME NEW S, "data:" \in S, NEW lines \in Seq(Seq(S)), NEW line \in Seq(S)
    PROVE  /\ Labelled(lines) \in Seq(Seq(S)) /\ Len(Labelled(lines)) = Len(lines)
           /\ <<"data:">> \o line \in Seq(S)
           /\ Labelled(Append(lines, line)) = Append(Labelled(lines), <<"data:">> \o line)
<1> DEFINE more == Append(lines, line)
<1>1. /\ Len(lines) \in Nat /\ DOMAIN lines = 1..Len(lines) /\ more \in Seq(Seq(S))
      /\ Len(more) = Len(lines) + 1 /\ DOMAIN more = 1..(Len(lines) + 1)
      /\ more[Len(lines) + 1] = line
      /\ \A i \in 1..Len(lines) : more[i] = lines[i]
  BY AppendProperties, LenProperties
<1> HIDE DEF more
<1>2. ASSUME NEW x \in Seq(S) PROVE <<"data:">> \o x \in Seq(S)
  <2>1. <<"data:">> \in Seq(S)
    OBVIOUS
  <2> QED BY <2>1, ConcatProperties
<1>3. Labelled(lines) = [i \in 1..Len(lines) |-> <<"data:">> \o lines[i]]
  BY <1>1 DEF Labelled
<1>4. Labelled(more) = [i \in 1..(Len(lines) + 1) |-> <<"data:">> \o more[i]]
  BY <1>1 DEF Labelled
<1>5. \A i \in 1..Len(lines) : <<"data:">> \o lines[i] \in Seq(S)
  BY <1>2, ElementOfSeq
<1>6. \A i \in 1..(Len(lines) + 1) : <<"data:">> \o more[i] \in Seq(S)
  <2>1. \A i \in 1..(Len(lines) + 1) : more[i] \in Seq(S)
    BY <1>1, ElementOfSeq
  <2> QED BY <1>2, <2>1
<1>7. Labelled(lines) \in Seq(Seq(S)) /\ Len(Labelled(lines)) = Len(lines)
  BY <1>1, <1>3, <1>5, IsASeq
<1>8. Labelled(more) \in Seq(Seq(S)) /\ Len(Labelled(more)) = Len(lines) + 1
  BY <1>1, <1>4, <1>6, IsASeq
<1>9. <<"data:">> \o line \in Seq(S)
  BY <1>2
<1>10. /\ \A i \in 1..Len(lines) : Labelled(more)[i] = Labelled(lines)[i]
       /\ Labelled(more)[Len(lines) + 1] = <<"data:">> \o line
  <2>1. \A i \in 1..Len(lines) : Labelled(lines)[i] = <<"data:">> \o lines[i]
    BY <1>3, Zenon
  <2>2. \A i \in 1..(Len(lines) + 1) : Labelled(more)[i] = <<"data:">> \o more[i]
    BY <1>4, Zenon
  <2>3. /\ \A i \in 1..Len(lines) : i \in 1..(Len(lines) + 1) /\ more[i] = lines[i]
        /\ Len(lines) + 1 \in 1..(Len(lines) + 1)
    BY <1>1
  <2> QED BY <1>1, <2>1, <2>2, <2>3, Zenon
<1>11. Labelled(more) = Append(Labelled(lines), <<"data:">> \o line)
  BY <1>7, <1>8, <1>9, <1>10, AppendAs
<1> QED BY <1>7, <1>9, <1>11 DEF more

LEMMA ValueTokens ==
    ASSUME NEW S, "data:" \in S, NEW line \in Seq(S)
    PROVE  Value(<<"data:">> \o line) \in Seq(S) /\ Tokens(Value(<<"data:">> \o line)) = Tokens(line)
<1>1. Tail(<<"data:">> \o line) = line
  OBVIOUS
<1>2. Value(<<"data:">> \o line) = IF line # <<>> /\ Last(line) = "return" THEN Front(line) ELSE line
  BY <1>1 DEF Value
<1>3. CASE line # <<>> /\ Last(line) = "return"
  <2>1. PICK front \in Seq(S), char \in S : line = Append(front, char) /\ front = Front(line) /\ char = "return"
    BY <1>3, FrontLast
  <2>2. Tokens(Append(front, char)) = Tokens(front) \o Token(char) /\ Tokens(front) \in Seq(S)
    BY TokensAppend
  <2>3. Token(char) = <<>>
    BY <2>1 DEF Token, Breaks
  <2>4. Tokens(front) \o Token(char) = Tokens(front)
    BY <2>2, <2>3, ConcatEmptySeq
  <2> QED BY <1>2, <1>3, <2>1, <2>2, <2>4
<1>4. CASE ~(line # <<>> /\ Last(line) = "return")
  BY <1>2, <1>4
<1> QED BY <1>3, <1>4

LEMMA FieldAppend ==
    ASSUME NEW S, NEW message \in Seq(Seq(S)), NEW row \in Seq(S), NEW name
    PROVE  /\ Field(message, name) \in Seq(Seq(S))
           /\ Field(Append(message, row), name) =
                  IF Head(row) = name THEN Append(Field(message, name), row) ELSE Field(message, name)
<1> DEFINE Pick(x) == IF Head(x) = name THEN <<x>> ELSE <<>>
<1> DEFINE Parts(m) == [i \in DOMAIN m |-> Pick(m[i])]
<1> DEFINE more == Append(message, row)
<1>1. /\ Len(message) \in Nat /\ DOMAIN message = 1..Len(message) /\ more \in Seq(Seq(S))
      /\ Len(more) = Len(message) + 1 /\ DOMAIN more = 1..(Len(message) + 1)
      /\ more[Len(message) + 1] = row
      /\ \A i \in 1..Len(message) : more[i] = message[i]
  BY AppendProperties, LenProperties
<1> HIDE DEF more
<1>2. ASSUME NEW x \in Seq(S) PROVE Pick(x) \in Seq(Seq(S))
  OBVIOUS
<1>3. Field(message, name) = FlattenSeq(Parts(message)) /\ Field(more, name) = FlattenSeq(Parts(more))
  BY DEF Field
<1>4. \A i \in 1..Len(message) : Pick(message[i]) \in Seq(Seq(S))
  BY <1>2, ElementOfSeq
<1>5. \A i \in 1..(Len(message) + 1) : Pick(more[i]) \in Seq(Seq(S))
  <2>1. \A i \in 1..(Len(message) + 1) : more[i] \in Seq(S)
    BY <1>1, ElementOfSeq
  <2> QED BY <1>2, <2>1
<1>6. Pick(row) = (IF Head(row) = name THEN <<row>> ELSE <<>>) /\ Pick(row) \in Seq(Seq(S))
  BY <1>2
<1> HIDE DEF Pick
<1>7. Parts(message) = [i \in 1..Len(message) |-> Pick(message[i])]
  BY <1>1
<1>8. Parts(more) = [i \in 1..(Len(message) + 1) |-> Pick(more[i])]
  BY <1>1
<1> HIDE DEF Parts
<1>9. Parts(message) \in Seq(Seq(Seq(S))) /\ Len(Parts(message)) = Len(message)
  BY <1>1, <1>4, <1>7, IsASeq
<1>10. Parts(more) \in Seq(Seq(Seq(S))) /\ Len(Parts(more)) = Len(message) + 1
  BY <1>1, <1>5, <1>8, IsASeq
<1>11. /\ \A i \in 1..Len(message) : Parts(more)[i] = Parts(message)[i]
       /\ Parts(more)[Len(message) + 1] = Pick(row)
  BY <1>1, <1>7, <1>8
<1>12. Parts(more) = Append(Parts(message), Pick(row))
  BY <1>6, <1>9, <1>10, <1>11, AppendAs
<1>13. FlattenSeq(Append(Parts(message), Pick(row))) = FlattenSeq(Parts(message)) \o Pick(row)
       /\ FlattenSeq(Parts(message)) \in Seq(Seq(S))
  BY <1>6, <1>9, FlattenAppend
<1> DEFINE field == Field(message, name)
<1>14. field \in Seq(Seq(S)) /\ Field(more, name) = field \o Pick(row)
  BY <1>3, <1>12, <1>13
<1> HIDE DEF field
<1>15. field \o <<row>> = Append(field, row) /\ field \o <<>> = field
  BY <1>14, AppendIsConcat, ConcatEmptySeq
<1>16. Field(more, name) = IF Head(row) = name THEN Append(field, row) ELSE field
  BY <1>6, <1>14, <1>15
<1> QED BY <1>14, <1>16 DEF more, field

\* The decoder finds the data lines behind the id line, if there is one.
LEMMA FieldOfRows ==
    ASSUME NEW S, "data:" \in S, NEW first \in Seq(Seq(S)), NEW lines \in Seq(Seq(S))
    PROVE  /\ first \o Labelled(lines) \in Seq(Seq(S))
           /\ Field(first \o Labelled(lines), "data:") = Field(first, "data:") \o Labelled(lines)
           /\ Field(first \o Labelled(lines), "id:") = Field(first, "id:")
<1> DEFINE Good == {d \in Seq(Seq(S)) :
                        /\ first \o Labelled(d) \in Seq(Seq(S))
                        /\ Field(first \o Labelled(d), "data:") = Field(first, "data:") \o Labelled(d)
                        /\ Field(first \o Labelled(d), "id:") = Field(first, "id:")}
<1>1. <<>> \in Good
  <2>1. Labelled(<<>>) = <<>> /\ <<>> \in Seq(Seq(S)) /\ <<>> \in Seq(S)
    BY DEF Labelled
  <2>2. Field(first, "data:") \in Seq(Seq(S))
    BY <2>1, FieldAppend
  <2>3. first \o <<>> = first /\ Field(first, "data:") \o <<>> = Field(first, "data:")
    BY <2>2, ConcatEmptySeq
  <2> QED BY <2>1, <2>3
<1>2. ASSUME NEW d \in Seq(Seq(S)), NEW line \in Seq(S), d \in Good PROVE Append(d, line) \in Good
  <2> DEFINE whole == first \o Labelled(d)
  <2> DEFINE row == <<"data:">> \o line
  <2>1. /\ whole \in Seq(Seq(S))
        /\ Field(whole, "data:") = Field(first, "data:") \o Labelled(d)
        /\ Field(whole, "id:") = Field(first, "id:")
        /\ Append(d, line) \in Seq(Seq(S))
    BY <1>2, AppendProperties
  <2> HIDE DEF Good
  <2>2. /\ Labelled(d) \in Seq(Seq(S)) /\ row \in Seq(S)
        /\ Labelled(Append(d, line)) = Append(Labelled(d), row)
    BY LabelledAppend
  <2>3. Head(row) = "data:" /\ "data:" # "id:"
    OBVIOUS
  <2> HIDE DEF row
  <2>4. first \o Append(Labelled(d), row) = Append(whole, row)
    BY <2>2, ConcatAppend
  <2> HIDE DEF whole
  <2>5. /\ Field(Append(whole, row), "data:") = Append(Field(whole, "data:"), row)
        /\ Field(Append(whole, row), "id:") = Field(whole, "id:")
    <3>1. Field(Append(whole, row), "data:") =
              IF Head(row) = "data:" THEN Append(Field(whole, "data:"), row) ELSE Field(whole, "data:")
      BY <2>1, <2>2, FieldAppend
    <3>2. Field(Append(whole, row), "id:") =
              IF Head(row) = "id:" THEN Append(Field(whole, "id:"), row) ELSE Field(whole, "id:")
      BY <2>1, <2>2, FieldAppend
    <3> QED BY <2>3, <3>1, <3>2, Zenon
  <2>6. Append(whole, row) \in Seq(Seq(S))
    BY <2>1, <2>2, AppendProperties
  <2>7. Append(Field(first, "data:") \o Labelled(d), row) = Field(first, "data:") \o Append(Labelled(d), row)
    <3>1. PICK p, q : p = Field(first, "data:") /\ q = Labelled(d)
      OBVIOUS
    <3>2. p \in Seq(Seq(S)) /\ q \in Seq(Seq(S)) /\ row \in Seq(S)
      BY <2>2, <3>1, FieldAppend
    <3>3. p \o Append(q, row) = Append(p \o q, row)
      BY <3>2, ConcatAppend
    <3> QED BY <3>1, <3>3
  <2> QED BY <2>1, <2>2, <2>4, <2>5, <2>6, <2>7 DEF Good
<1>3. Seq(Seq(S)) \subseteq Good
  <2> HIDE DEF Good
  <2> QED BY <1>1, <1>2, Induct
<1> QED BY <1>3

\* A further row of a message adds its value, after a line feed if it is not the first.
Part(i, row) == (IF i = 1 THEN <<>> ELSE <<"newline">>) \o Value(row)

LEMMA PayloadAppend ==
    ASSUME NEW S, "newline" \in S, NEW data \in Seq(Seq(S)), \A i \in 1..Len(data) : Value(data[i]) \in Seq(S),
           NEW row \in Seq(S), Value(row) \in Seq(S)
    PROVE  /\ Payload(data) \in Seq(S)
           /\ Payload(Append(data, row)) = Payload(data) \o Part(Len(data) + 1, row)
<1> DEFINE Parts(m) == [i \in DOMAIN m |-> (IF i = 1 THEN <<>> ELSE <<"newline">>) \o Value(m[i])]
<1> DEFINE more == Append(data, row)
<1>1. /\ Len(data) \in Nat /\ DOMAIN data = 1..Len(data) /\ more \in Seq(Seq(S))
      /\ Len(more) = Len(data) + 1 /\ DOMAIN more = 1..(Len(data) + 1)
      /\ more[Len(data) + 1] = row
      /\ \A i \in 1..Len(data) : more[i] = data[i]
  BY AppendProperties, LenProperties
<1> HIDE DEF more
<1>2. ASSUME NEW i, NEW x, Value(x) \in Seq(S) PROVE Part(i, x) \in Seq(S)
  <2>1. <<>> \in Seq(S) /\ <<"newline">> \in Seq(S)
    OBVIOUS
  <2>2. (IF i = 1 THEN <<>> ELSE <<"newline">>) \in Seq(S)
    BY <2>1
  <2> QED BY <1>2, <2>2, ConcatProperties DEF Part
<1>3. Payload(data) = FlattenSeq(Parts(data)) /\ Payload(more) = FlattenSeq(Parts(more))
  BY DEF Payload
<1>4. Parts(data) = [i \in 1..Len(data) |-> Part(i, data[i])]
  BY <1>1 DEF Part
<1>5. Parts(more) = [i \in 1..(Len(data) + 1) |-> Part(i, more[i])]
  BY <1>1 DEF Part
<1> HIDE DEF Parts
<1>6. \A i \in 1..Len(data) : Part(i, data[i]) \in Seq(S)
  BY <1>2
<1>7. \A i \in 1..(Len(data) + 1) : Part(i, more[i]) \in Seq(S)
  <2>1. \A i \in 1..(Len(data) + 1) : Value(more[i]) \in Seq(S)
    <3>1. \A i \in 1..(Len(data) + 1) : i \in 1..Len(data) \/ i = Len(data) + 1
      BY <1>1
    <3> QED BY <1>1, <3>1
  <2> QED BY <1>2, <2>1
<1>8. Parts(data) \in Seq(Seq(S)) /\ Len(Parts(data)) = Len(data)
  BY <1>1, <1>4, <1>6, IsASeq
<1>9. Parts(more) \in Seq(Seq(S)) /\ Len(Parts(more)) = Len(data) + 1
  BY <1>1, <1>5, <1>7, IsASeq
<1>10. Part(Len(data) + 1, row) \in Seq(S)
  BY <1>2
<1>11. /\ \A i \in 1..Len(data) : Parts(more)[i] = Parts(data)[i]
       /\ Parts(more)[Len(data) + 1] = Part(Len(data) + 1, row)
  BY <1>1, <1>4, <1>5
<1>12. Parts(more) = Append(Parts(data), Part(Len(data) + 1, row))
  BY <1>8, <1>9, <1>10, <1>11, AppendAs
<1>13. FlattenSeq(Append(Parts(data), Part(Len(data) + 1, row))) = FlattenSeq(Parts(data)) \o Part(Len(data) + 1, row)
       /\ FlattenSeq(Parts(data)) \in Seq(S)
  BY <1>8, <1>10, FlattenAppend
<1> QED BY <1>3, <1>12, <1>13 DEF more

\* What the decoder joins are the tokens of the lines.
LEMMA PayloadTokens ==
    ASSUME NEW S, {"data:", "newline"} \subseteq S, NEW lines \in Seq(Seq(S))
    PROVE  Tokens(Payload(Labelled(lines))) = Tokens(FlattenSeq(lines))
<1> DEFINE Good == {d \in Seq(Seq(S)) : /\ Payload(Labelled(d)) \in Seq(S)
                                        /\ Tokens(Payload(Labelled(d))) = Tokens(FlattenSeq(d))}
<1>1. <<>> \in Good
  <2>1. Labelled(<<>>) = <<>> /\ <<>> \in Seq(Seq(S)) /\ <<>> \in Seq(S) /\ Len(<<>>) = 0
    BY DEF Labelled
  <2>2. Payload(<<>>) = FlattenSeq(<<>>)
    BY DEF Payload
  <2>3. FlattenSeq(<<>>) = <<>>
    BY <2>1 DEF FlattenSeq
  <2> QED BY <2>1, <2>2, <2>3
<1>2. ASSUME NEW d \in Seq(Seq(S)), NEW line \in Seq(S), d \in Good PROVE Append(d, line) \in Good
  <2> DEFINE row == <<"data:">> \o line
  <2> DEFINE old == Labelled(d)
  <2>1. /\ Payload(old) \in Seq(S) /\ Tokens(Payload(old)) = Tokens(FlattenSeq(d))
        /\ Append(d, line) \in Seq(Seq(S))
    BY <1>2, AppendProperties
  <2> HIDE DEF Good
  <2>2. /\ old \in Seq(Seq(S)) /\ Len(old) = Len(d) /\ row \in Seq(S)
        /\ Labelled(Append(d, line)) = Append(old, row)
    BY LabelledAppend
  <2>3. \A i \in 1..Len(old) : Value(old[i]) \in Seq(S)
    <3>1. \A i \in 1..Len(d) : Value(<<"data:">> \o d[i]) \in Seq(S)
      BY ValueTokens, ElementOfSeq
    <3>2. \A i \in 1..Len(d) : old[i] = <<"data:">> \o d[i]
      <4>1. DOMAIN d = 1..Len(d)
        BY LenProperties
      <4> QED BY <4>1, Zenon DEF Labelled
    <3> QED BY <2>2, <3>1, <3>2, Zenon
  <2>4. Value(row) \in Seq(S) /\ Tokens(Value(row)) = Tokens(line)
    BY ValueTokens
  <2> DEFINE break == IF Len(old) + 1 = 1 THEN <<>> ELSE <<"newline">>
  <2>5. break \in Seq(S) /\ Tokens(break) = <<>>
    <3>1. <<>> \in Seq(S) /\ <<"newline">> = Append(<<>>, "newline") /\ <<"newline">> \in Seq(S)
      OBVIOUS
    <3>2. Tokens(Append(<<>>, "newline")) = Tokens(<<>>) \o Token("newline")
      BY <3>1, TokensAppend
    <3>3. Token("newline") = <<>> /\ <<>> \o <<>> = <<>>
      BY DEF Token, Breaks
    <3> QED BY <3>1, <3>2, <3>3, TokensEmpty
  <2>6. Part(Len(old) + 1, row) = break \o Value(row)
    BY DEF Part
  <2> HIDE DEF break, row, old
  <2> DEFINE value == Value(row)
  <2>7. Payload(Append(old, row)) = Payload(old) \o (break \o value)
    BY <2>2, <2>3, <2>4, <2>6, PayloadAppend
  <2>8. value \in Seq(S) /\ Tokens(value) = Tokens(line)
    BY <2>4
  <2> HIDE DEF value
  <2>9. break \o value \in Seq(S) /\ Tokens(break \o value) = Tokens(break) \o Tokens(value)
    BY <2>5, <2>8, ConcatProperties, TokensConcat
  <2>10. Tokens(value) \in Seq(S) /\ Tokens(break) \o Tokens(value) = Tokens(line)
    <3>1. Tokens(value) \in Seq(S)
      BY <2>2, <2>8, TokensAppend
    <3> QED BY <2>5, <2>8, <3>1, ConcatEmptySeq
  <2> DEFINE part == break \o value
  <2>11. part \in Seq(S) /\ Tokens(part) = Tokens(line) /\ Payload(Append(old, row)) = Payload(old) \o part
    BY <2>7, <2>9, <2>10
  <2> HIDE DEF part
  <2>12. /\ Payload(old) \o part \in Seq(S)
         /\ Tokens(Payload(old) \o part) = Tokens(Payload(old)) \o Tokens(part)
    BY <2>1, <2>11, ConcatProperties, TokensConcat
  <2>13. FlattenSeq(Append(d, line)) = FlattenSeq(d) \o line /\ FlattenSeq(d) \in Seq(S)
    BY FlattenAppend
  <2>14. Tokens(FlattenSeq(d) \o line) = Tokens(FlattenSeq(d)) \o Tokens(line)
    BY <2>13, TokensConcat
  <2> QED BY <2>1, <2>2, <2>11, <2>12, <2>13, <2>14 DEF Good
<1>3. Seq(Seq(S)) \subseteq Good
  <2> HIDE DEF Good
  <2> QED BY <1>1, <1>2, Induct
<1> QED BY <1>3

--------------------------------------------------------------------------------
\* The message, from the encoder to the decoder.

First == IF event.cursor = NoCursor THEN <<>> ELSE << <<"id:", event.cursor>> >>
Transmitted == FlattenSeq(Ended(Rows)) \o <<"newline">>

Sending == /\ sender \in Senders
           /\ event \in [text : Events, cursor : {Cursor, NoCursor}]

LEMMA LinesType ==
    ASSUME Sending
    PROVE  /\ event.text \in Seq(Characters)
           /\ Lines(event.text) \in Seq(Seq(Characters \ {"newline"}))
<1>1. event.text \in Seq(Characters)
  BY SseAssumption DEF Sending
<1>2. Split(event.text, {"newline"}) \in Seq(Seq(Characters \ {"newline"}))
  <2>1. PICK text, cuts : text = event.text /\ cuts = {"newline"}
    OBVIOUS
  <2>2. text \in Seq(Characters)
    BY <1>1, <2>1
  <2>3. Split(text, cuts) \in Seq(Seq(Characters \ cuts))
    BY <2>2, SplitLines
  <2> QED BY <2>1, <2>3
<1>3. PythonLines(event.text) \in Seq(Seq(Characters \ {"newline"}))
  <2>1. PICK text, cuts, lines : /\ text = event.text /\ cuts = {"newline", "return", "separator"}
                                 /\ lines = Split(text, cuts)
    OBVIOUS
  <2>2. text \in Seq(Characters)
    BY <1>1, <2>1
  <2>3. lines \in Seq(Seq(Characters \ cuts)) /\ lines # <<>>
    BY <2>1, <2>2, SplitLines
  <2>4. Front(lines) \in Seq(Seq(Characters \ cuts))
    BY <2>3, FrontLast
  <2>5. PythonLines(event.text) \in Seq(Seq(Characters \ cuts))
    BY <2>1, <2>3, <2>4 DEF PythonLines
  <2>6. Seq(Characters \ cuts) \subseteq Seq(Characters \ {"newline"})
    <3>1. Characters \ cuts \subseteq Characters \ {"newline"}
      BY <2>1
    <3> QED BY <3>1, SeqMonotonic
  <2>7. Seq(Seq(Characters \ cuts)) \subseteq Seq(Seq(Characters \ {"newline"}))
    BY <2>6, SeqMonotonic
  <2> QED BY <2>5, <2>7
<1> QED BY <1>1, <1>2, <1>3 DEF Lines, TypeScriptLines

LEMMA RowsAre ==
    ASSUME Sending
    PROVE  /\ Rows = First \o Labelled(Lines(event.text))
           /\ First \in Seq(Seq(Signs \ {"newline"}))
           /\ Lines(event.text) \in Seq(Seq(Signs \ {"newline"}))
           /\ Rows \in Seq(Seq(Signs \ {"newline"}))
           /\ \A i \in 1..Len(Rows) : Rows[i] # <<>>
<1> DEFINE S == Signs \ {"newline"}
<1>1. Rows = First \o Labelled(Lines(event.text))
  BY DEF Rows, First, Labelled
<1>2. "data:" \in S /\ "id:" \in S /\ Characters \ {"newline"} \subseteq S /\ Cursor \in S
  BY SseAssumption DEF Signs
<1>3. First \in Seq(Seq(S)) /\ \A i \in 1..Len(First) : First[i] # <<>>
  <2>1. CASE event.cursor = NoCursor
    BY <2>1 DEF First
  <2>2. CASE event.cursor # NoCursor
    <3>1. event.cursor \in S
      BY <1>2, <2>2 DEF Sending
    <3> HIDE DEF S
    <3>2. <<"id:", event.cursor>> \in Seq(S)
      BY <1>2, <3>1
    <3>3. PICK row \in Seq(S) : row = <<"id:", event.cursor>> /\ row # <<>>
      BY <3>2
    <3>4. First = <<row>>
      BY <2>2, <3>3 DEF First
    <3> QED BY <3>3, <3>4
  <2> QED BY <2>1, <2>2
<1>4. Lines(event.text) \in Seq(Seq(S))
  <2>1. Seq(Characters \ {"newline"}) \subseteq Seq(S)
    BY <1>2, SeqMonotonic
  <2>2. Seq(Seq(Characters \ {"newline"})) \subseteq Seq(Seq(S))
    BY <2>1, SeqMonotonic
  <2> QED BY <2>2, LinesType
<1> DEFINE lines == Lines(event.text)
<1>5. lines \in Seq(Seq(S))
  BY <1>4
<1> HIDE DEF lines, S
<1>6. Labelled(lines) \in Seq(Seq(S)) /\ First \o Labelled(lines) \in Seq(Seq(S))
  <2>1. PICK line \in Seq(S) : TRUE
    <3>1. <<>> \in Seq(S)
      OBVIOUS
    <3> QED BY <3>1
  <2> QED BY <1>2, <1>3, <1>5, <2>1, LabelledAppend, FieldOfRows
<1>7. \A i \in 1..Len(Labelled(lines)) : Labelled(lines)[i] # <<>>
  <2>1. DOMAIN lines = 1..Len(lines) /\ Len(lines) \in Nat
    BY <1>5, LenProperties
  <2>2. Labelled(lines) = [i \in 1..Len(lines) |-> <<"data:">> \o lines[i]]
    BY <2>1 DEF Labelled
  <2>3. Len(Labelled(lines)) = Len(lines)
    BY <2>1, <2>2
  <2>4. \A i \in 1..Len(lines) : lines[i] \in Seq(S)
    BY <1>5, ElementOfSeq
  <2>5. \A x \in Seq(S) : <<"data:">> \o x # <<>>
    OBVIOUS
  <2>6. \A i \in 1..Len(lines) : Labelled(lines)[i] = <<"data:">> \o lines[i]
    BY <2>2, Zenon
  <2> QED BY <2>3, <2>4, <2>5, <2>6, Zenon
<1>8. \A i \in 1..Len(First \o Labelled(lines)) : (First \o Labelled(lines))[i] # <<>>
  <2>1. PICK p, q : p = First /\ q = Labelled(lines)
    OBVIOUS
  <2>2. /\ p \in Seq(Seq(S)) /\ q \in Seq(Seq(S))
        /\ \A i \in 1..Len(p) : p[i] # <<>>
        /\ \A i \in 1..Len(q) : q[i] # <<>>
    BY <1>3, <1>6, <1>7, <2>1
  <2>3. /\ Len(p) \in Nat /\ Len(q) \in Nat /\ Len(p \o q) = Len(p) + Len(q)
        /\ \A i \in 1..Len(p) + Len(q) : (p \o q)[i] = IF i <= Len(p) THEN p[i] ELSE q[i - Len(p)]
    BY <2>2, ConcatProperties, LenProperties
  <2>4. \A i \in 1..Len(p \o q) : (p \o q)[i] # <<>>
    <3> SUFFICES ASSUME NEW i \in 1..Len(p) + Len(q) PROVE (p \o q)[i] # <<>>
      BY <2>3
    <3>1. CASE i <= Len(p)
      <4>1. i \in 1..Len(p)
        BY <2>3, <3>1
      <4> QED BY <2>2, <2>3, <3>1, <4>1
    <3>2. CASE ~(i <= Len(p))
      <4>1. i - Len(p) \in 1..Len(q)
        BY <2>3, <3>2
      <4> QED BY <2>2, <2>3, <3>2, <4>1
    <3> QED BY <3>1, <3>2
  <2> QED BY <2>1, <2>4
<1> QED BY <1>1, <1>3, <1>5, <1>6, <1>8 DEF lines, S

\* The client takes exactly the rows for the message.
LEMMA MessageIsRows ==
    ASSUME Sending, wire = Transmitted
    PROVE  Message = Rows
<1>1. PICK sent : sent = Rows
  OBVIOUS
<1>2. sent \in Seq(Seq(Signs \ {"newline"})) /\ \A i \in 1..Len(sent) : sent[i] # <<>>
  BY <1>1, RowsAre
<1>3. "newline" \in Signs
  BY DEF Signs, Characters
<1> DEFINE text == FlattenSeq(Ended(sent))
<1>4. text \in Seq(Signs) /\ Split(text, {"newline"}) = Append(sent, <<>>)
  BY <1>2, <1>3, SplitEnded
<1>5. wire = text \o <<"newline">>
  BY <1>1 DEF Transmitted
<1> HIDE DEF text
<1>6. wire = Append(text, "newline")
  BY <1>3, <1>4, <1>5, AppendIsConcat
<1> DEFINE lines == Append(Append(sent, <<>>), <<>>)
<1>7. Split(wire, {"newline"}) = lines
  <2>1. Split(Append(text, "newline"), {"newline"}) = Continued(Split(text, {"newline"}), "newline", {"newline"})
    BY <1>3, <1>4, SplitAppend
  <2>2. "newline" \in {"newline"}
    OBVIOUS
  <2>3. Continued(Append(sent, <<>>), "newline", {"newline"}) = lines
    BY <2>2, Zenon DEF Continued
  <2> QED BY <1>4, <1>6, <2>1, <2>3
<1> DEFINE S == Seq(Signs \ {"newline"})
<1>8. <<>> \in S /\ sent \in Seq(S)
  BY <1>2
<1> HIDE DEF S
<1>9. PICK n \in Nat : n = Len(sent)
  BY <1>8, LenProperties
<1>10. /\ Append(sent, <<>>) \in Seq(S) /\ Len(Append(sent, <<>>)) = n + 1
       /\ \A i \in 1..n : Append(sent, <<>>)[i] = sent[i]
       /\ Append(sent, <<>>)[n + 1] = <<>>
  BY <1>8, <1>9, AppendProperties
<1> DEFINE first == Append(sent, <<>>)
<1>11. /\ lines \in Seq(S) /\ Len(lines) = n + 2
       /\ \A i \in 1..n : lines[i] = sent[i]
       /\ lines[n + 1] = <<>>
  <2>1. first \in Seq(S) /\ Len(first) = n + 1
    BY <1>10
  <2> HIDE DEF first
  <2>2. /\ Append(first, <<>>) \in Seq(S) /\ Len(Append(first, <<>>)) = n + 2
        /\ \A i \in 1..n + 1 : Append(first, <<>>)[i] = first[i]
    BY <1>8, <2>1, AppendProperties
  <2>3. \A i \in 1..n : i \in 1..n + 1 /\ n + 1 \in 1..n + 1
    OBVIOUS
  <2>4. n + 1 \in 1..n + 1
    OBVIOUS
  <2> QED BY <1>10, <2>2, <2>3, <2>4 DEF first
<1> HIDE DEF lines
<1> DEFINE Blank == {i \in DOMAIN lines : lines[i] = <<>>}
<1>12. DOMAIN lines = 1..n + 2
  BY <1>11, LenProperties
<1>13. Min(Blank) = n + 1
  <2>1. n + 1 \in Blank
    BY <1>11, <1>12
  <2>2. \A i \in Blank : n + 1 <= i
    <3> SUFFICES ASSUME NEW i \in 1..n + 2, lines[i] = <<>>, i < n + 1 PROVE FALSE
      BY <1>12
    <3>1. i \in 1..n /\ i \in 1..Len(sent)
      BY <1>9
    <3> QED BY <1>2, <1>11, <3>1
  <2>3. Blank \subseteq Int
    BY <1>12
  <2> HIDE DEF Blank
  <2>4. \A i \in Blank : (\A j \in Blank : i <= j) => i = n + 1
    BY <2>1, <2>2, <2>3
  <2> QED BY <2>1, <2>2, <2>4, Zenon DEF Min
<1>14. SubSeq(lines, 1, n) = sent
  <2>1. \A i \in 1..n : lines[i] \in S
    BY <1>11, <1>12, ElementOfSeq
  <2>2. /\ SubSeq(lines, 1, n) \in Seq(S)
        /\ Len(SubSeq(lines, 1, n)) = IF 1 <= n THEN n - 1 + 1 ELSE 0
        /\ \A i \in 1..n - 1 + 1 : SubSeq(lines, 1, n)[i] = lines[1 + i - 1]
    BY <2>1, SubSeqProperties
  <2>3. Len(SubSeq(lines, 1, n)) = n /\ \A i \in 1..n : SubSeq(lines, 1, n)[i] = sent[i]
    BY <1>11, <2>2
  <2> QED BY <1>8, <1>9, <2>2, <2>3, SeqEqual
<1>15. Message = SubSeq(lines, 1, Min(Blank) - 1)
  BY <1>7 DEF Message
<1> HIDE DEF Blank
<1>16. Min(Blank) - 1 = n
  BY <1>13
<1> QED BY <1>1, <1>14, <1>15, <1>16, Zenon

LEMMA FieldEmpty == ASSUME NEW name PROVE Field(<<>>, name) = <<>>
<1>1. [i \in DOMAIN <<>> |-> IF Head(<<>>[i]) = name THEN << <<>>[i] >> ELSE <<>>] = <<>> /\ Len(<<>>) = 0
  OBVIOUS
<1>2. FlattenSeq(<<>>) = <<>>
  BY <1>1 DEF FlattenSeq
<1> QED BY <1>1, <1>2 DEF Field

\* What the decoder reads off the rows.
LEMMA Reads ==
    ASSUME Sending
    PROVE  /\ Field(Rows, "data:") = Labelled(Lines(event.text))
           /\ Field(Rows, "id:") = First
<1> DEFINE S == Signs \ {"newline"}
<1>1. PICK lines, first : lines = Lines(event.text) /\ first = First
  OBVIOUS
<1>2. /\ lines \in Seq(Seq(S)) /\ first \in Seq(Seq(S)) /\ "data:" \in S /\ "id:" \in S
      /\ Rows = first \o Labelled(lines)
  BY <1>1, RowsAre DEF Signs
<1>3. event.cursor # NoCursor => event.cursor \in S
  BY SseAssumption DEF Signs, Sending
<1> HIDE DEF S
<1>4. /\ Field(first \o Labelled(lines), "data:") = Field(first, "data:") \o Labelled(lines)
      /\ Field(first \o Labelled(lines), "id:") = Field(first, "id:")
  BY <1>2, FieldOfRows
<1>5. Field(first, "data:") = <<>> /\ Field(first, "id:") = first
  <2>1. CASE event.cursor = NoCursor
    BY <1>1, <2>1, FieldEmpty DEF First
  <2>2. CASE event.cursor # NoCursor
    <3> DEFINE row == <<"id:", event.cursor>>
    <3>1. row \in Seq(S) /\ Head(row) = "id:" /\ Head(row) # "data:"
      BY <1>2, <1>3, <2>2
    <3>2. first = <<row>> /\ <<row>> = Append(<<>>, row) /\ <<>> \in Seq(Seq(S))
      BY <1>1, <2>2 DEF First
    <3> HIDE DEF row
    <3>3. PICK none \in Seq(Seq(S)) : none = <<>>
      BY <3>2
    <3>4. Field(Append(none, row), "data:") = IF Head(row) = "data:" THEN Append(Field(none, "data:"), row) ELSE Field(none, "data:")
      BY <3>1, FieldAppend
    <3>5. Field(Append(none, row), "id:") = IF Head(row) = "id:" THEN Append(Field(none, "id:"), row) ELSE Field(none, "id:")
      BY <3>1, FieldAppend
    <3> QED BY <3>1, <3>2, <3>3, <3>4, <3>5, FieldEmpty
  <2> QED BY <2>1, <2>2
<1>6. <<>> \o Labelled(lines) = Labelled(lines)
  <2>1. PICK line \in Seq(S) : TRUE
    <3>1. <<>> \in Seq(S)
      OBVIOUS
    <3> QED BY <3>1
  <2>2. Labelled(lines) \in Seq(Seq(S))
    BY <1>2, <2>1, LabelledAppend
  <2> QED BY <2>2, ConcatEmptySeq
<1> QED BY <1>1, <1>2, <1>4, <1>5, <1>6

\* Unless Python cuts it, the lines of an event are joined to one with its tokens.
LEMMA SameTokens ==
    ASSUME Sending, ~(sender = "python" /\ Contains(event.text, "separator"))
    PROVE  SameValue(Payload(Labelled(Lines(event.text))), event.text)
<1> DEFINE S == Signs
<1>1. PICK text, lines : text = event.text /\ lines = Lines(event.text)
  OBVIOUS
<1>2. lines \in Seq(Seq(Characters \ {"newline"})) /\ text \in Seq(Characters)
  BY <1>1, LinesType
<1>3. lines \in Seq(Seq(Signs))
  <2>1. Characters \ {"newline"} \subseteq Signs
    BY DEF Signs
  <2>2. Seq(Characters \ {"newline"}) \subseteq Seq(Signs)
    BY <2>1, SeqMonotonic
  <2>3. Seq(Seq(Characters \ {"newline"})) \subseteq Seq(Seq(Signs))
    BY <2>2, SeqMonotonic
  <2> QED BY <1>2, <2>3
<1>4. Tokens(Payload(Labelled(lines))) = Tokens(FlattenSeq(lines))
  <2>1. {"data:", "newline"} \subseteq Signs
    BY DEF Signs, Characters
  <2> QED BY <1>3, <2>1, PayloadTokens
<1>5. Tokens(FlattenSeq(lines)) = Tokens(text)
  <2>1. CASE sender = "python"
    <3>1. PICK cuts, T : cuts = {"newline", "return", "separator"} /\ T = Characters \ {"separator"}
      OBVIOUS
    <3>2. text \in Seq(T)
      <4>1. \A i \in 1..Len(text) : text[i] # "separator"
        BY <1>1, <2>1 DEF Contains
      <4>2. \A i \in 1..Len(text) : text[i] \in T
        BY <1>2, <3>1, <4>1, ElementOfSeq
      <4>3. Len(text) \in Nat /\ text = [i \in 1..Len(text) |-> text[i]]
        BY <1>2, LenProperties
      <4>4. [i \in 1..Len(text) |-> text[i]] \in Seq(T)
        BY <4>2, <4>3, IsASeq
      <4> QED BY <4>3, <4>4
    <3>3. T \cap cuts \subseteq Breaks
      BY <3>1 DEF Breaks, Characters
    <3>4. Tokens(FlattenSeq(Split(text, cuts))) = Tokens(text)
      BY <3>2, <3>3, TokensOfLines
    <3> DEFINE split == Split(text, cuts)
    <3>5. split \in Seq(Seq(T)) /\ split # <<>>
      <4>1. PICK char \in T : TRUE
        BY <3>1 DEF Characters
      <4> QED BY <3>2, <4>1, SplitAppend
    <3>6. lines = IF Len(split) > 1 /\ Last(split) = <<>> THEN Front(split) ELSE split
      BY <1>1, <2>1, <3>1 DEF Lines, PythonLines
    <3> HIDE DEF split
    <3>7. CASE Last(split) = <<>>
      <4>1. Front(split) \in Seq(Seq(T)) /\ <<>> \in Seq(T) /\ split = Append(Front(split), <<>>)
        BY <3>5, <3>7, FrontLast
      <4> DEFINE front == Front(split)
      <4>2. front \in Seq(Seq(T)) /\ split = Append(front, <<>>)
        BY <4>1
      <4> HIDE DEF front
      <4>3. PICK empty \in Seq(T) : empty = <<>>
        BY <4>1
      <4>4. FlattenSeq(Append(front, empty)) = FlattenSeq(front) \o empty /\ FlattenSeq(front) \in Seq(T)
        BY <4>2, FlattenAppend
      <4>5. FlattenSeq(front) \o empty = FlattenSeq(front)
        BY <4>3, <4>4, ConcatEmptySeq
      <4>6. FlattenSeq(split) = FlattenSeq(front)
        BY <4>2, <4>3, <4>4, <4>5
      <4>7. FlattenSeq(lines) = FlattenSeq(split)
        BY <3>6, <4>6 DEF front
      <4> QED BY <3>4, <4>7 DEF split
    <3>8. CASE Last(split) # <<>>
      BY <3>4, <3>6, <3>8 DEF split
    <3> QED BY <3>7, <3>8
  <2>2. CASE sender # "python"
    <3>1. PICK cuts : cuts = {"newline"}
      OBVIOUS
    <3>2. Characters \cap cuts \subseteq Breaks
      BY <3>1 DEF Breaks
    <3>3. Tokens(FlattenSeq(Split(text, cuts))) = Tokens(text)
      BY <1>2, <3>2, TokensOfLines
    <3> QED BY <1>1, <2>2, <3>1, <3>3 DEF Lines, TypeScriptLines
  <2> QED BY <2>1, <2>2
<1> QED BY <1>1, <1>4, <1>5 DEF SameValue

\* What is on the wire is the message of the event, and what was received is the
\* event, unless Python has cut it.
SseInv ==
    \/ sender = "nobody" /\ received = Nothing
    \/ /\ Sending
       /\ wire = <<>> => received = Nothing
       /\ wire # <<>> => wire = Transmitted
       /\ EventArrivesUnlessCut

LEMMA SseStep_Inv == SseInv /\ [Next]_vars => SseInv'
<1> SUFFICES ASSUME SseInv, [Next]_vars PROVE SseInv'
  OBVIOUS
<1>1. CASE UNCHANGED sseVars
  BY <1>1 DEF sseVars, SseInv, Sending, Transmitted, Rows, Lines, EventArrivesUnlessCut
<1>2. CASE sender # "nobody" /\ Encode
  <2>1. Sending /\ received = Nothing
    BY <1>2 DEF SseInv, Encode
  <2>2. Sending' /\ received' = Nothing /\ Transmitted' = Transmitted
    BY <1>2, <2>1 DEF Encode, Sending, Transmitted, Rows, Lines
  <2>3. wire' = Transmitted
    BY <1>2 DEF Encode, Transmitted, Ended
  <2>4. EventArrivesUnlessCut'
    BY <2>2 DEF EventArrivesUnlessCut, Nothing
  <2> QED BY <2>2, <2>3, <2>4 DEF SseInv
<1>3. CASE sender # "nobody" /\ Decode
  <2>1. Sending /\ wire = Transmitted /\ wire # <<>>
    BY <1>3 DEF SseInv, Decode
  <2>2. Sending' /\ wire' = wire /\ Transmitted' = Transmitted
    BY <1>3, <2>1 DEF Decode, Sending, Transmitted, Rows, Lines
  <2>3. Field(Message, "data:") = Labelled(Lines(event.text)) /\ Field(Message, "id:") = First
    BY <2>1, MessageIsRows, Reads
  <2>4. received' = [text |-> Payload(Labelled(Lines(event.text))),
                     cursor |-> IF First = <<>> THEN NoCursor ELSE Last(First)[2]]
    BY <1>3, <2>3 DEF Decode
  <2>5. (IF First = <<>> THEN NoCursor ELSE Last(First)[2]) = event.cursor
    BY DEF First, Last
  <2>6. ~(sender = "python" /\ Contains(event.text, "separator")) =>
            SameValue(Payload(Labelled(Lines(event.text))), event.text)
    BY <2>1, SameTokens
  <2>7. EventArrivesUnlessCut'
    <3>1. received'.text = Payload(Labelled(Lines(event.text))) /\ received'.cursor = event.cursor
      BY <2>4, <2>5
    <3>2. sender' = sender /\ event' = event
      BY <1>3 DEF Decode
    <3> QED BY <2>6, <3>1, <3>2 DEF EventArrivesUnlessCut, SameValue, Contains
  <2> QED BY <2>1, <2>2, <2>7 DEF SseInv
<1> QED BY <1>1, <1>2, <1>3 DEF Next, SseStep, vars

\* What decodeSse makes of what encode_sse or encodeSse wrote is the event that was
\* sent, its tokens and its cursor, unless splitlines() cut a string of it.
THEOREM EventsArrive == Spec => []EventArrivesUnlessCut
<1>1. Init => SseInv
  <2>1. SseIdle => SseInv
    BY DEF SseIdle, SseInv
  <2>2. SseInit => SseInv
    BY DEF SseInit, SseInv, Sending, EventArrivesUnlessCut
  <2> QED BY <2>1, <2>2 DEF Init
<1>2. SseInv => EventArrivesUnlessCut
  BY DEF SseInv, EventArrivesUnlessCut
<1> QED BY <1>1, <1>2, SseStep_Inv, PTL DEF Spec
================================================================================
