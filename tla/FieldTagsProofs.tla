-------------------------- MODULE FieldTagsProofs --------------------------
(***************************************************************************)
(* A theorem about FieldTags: how the text of a tag is cut into its        *)
(* segments, for texts of any length.                                      *)
(***************************************************************************)
EXTENDS FieldTags, FoldLemmas, SequenceTheorems

-----------------------------------------------------------------------------
(* The loop of parseSegments. *)

\* Where the loop begins, and what it has at any time for texts over Tokens.
Begin == [segs |-> <<>>, buf |-> <<>>, escaped |-> FALSE, grouped |-> FALSE]
States(Tokens) == [segs : Seq(Seq(Tokens)), buf : Seq(Tokens), escaped : BOOLEAN,
                   grouped : BOOLEAN]

\* One round as a function of the round and what the loop had before it.
Round(text, Tokens) == [is \in (1 .. Len(text)) \X States(Tokens) |-> Take(is[2], text[is[1]])]

\* A round keeps the types.
LEMMA TakeType ==
  ASSUME NEW Tokens, NEW s \in States(Tokens), NEW ch \in Tokens
  PROVE  Take(s, ch) \in States(Tokens)
<1>1. <<>> \in Seq(Tokens) /\ Append(s.buf, ch) \in Seq(Tokens)
      /\ Append(s.segs, s.buf) \in Seq(Seq(Tokens))
  BY DEF States
<1>2. s.segs \in Seq(Seq(Tokens)) /\ s.buf \in Seq(Tokens) /\ s.escaped \in BOOLEAN
      /\ s.grouped \in BOOLEAN
  BY DEF States
<1>3. (ch \in Left \/ (s.grouped /\ ch \notin Right)) \in BOOLEAN
  BY <1>2
<1>. QED
  BY <1>1, <1>2, <1>3 DEF Take, States

\* What parseSegments returns when the loop ends.
Result(s) == IF s.buf = <<>> THEN s.segs ELSE Append(s.segs, s.buf)

\* The fold of the loop is its rounds, one after the other.
LEMMA Rounds ==
  ASSUME NEW Tokens, NEW text \in Seq(Tokens)
  PROVE  \E r : /\ r[0] = Begin
                /\ \A i \in 1 .. Len(text) : r[i] = Take(r[i - 1], text[i])
                /\ \A i \in 0 .. Len(text) : r[i] \in States(Tokens)
                /\ ParseSegments(text) = Result(r[Len(text)])
<1>. DEFINE n == Len(text)
            V == States(Tokens)
            F == Round(text, Tokens)
            Again(h) == [s \in SUBSET (1 .. n) |->
                           IF s = {} THEN Begin ELSE Take(h[s \ {Max(s)}], text[Max(s)])]
            g == CHOOSE h : h = Again(h)
<1>1. n \in Nat /\ DOMAIN text = 1 .. n /\ \A i \in 1 .. n : text[i] \in Tokens
  BY LenProperties, ElementOfSeq
<1>2. /\ Begin \in V /\ F \in [(1 .. n) \X V -> V]
      /\ \A i \in 1 .. n, s \in V : F[<<i, s>>] = Take(s, text[i])
  <2>1. Begin \in V
    BY EmptySeq DEF Begin, States
  <2>2. \A i \in 1 .. n, s \in V : Take(s, text[i]) \in V
    BY <1>1, TakeType
  <2>. HIDE DEF V
  <2>. QED
    BY <2>1, <2>2 DEF Round, V
<1>3. Chooses(Greatest(n), 1 .. n) /\ \A s \in SUBSET (1 .. n) : Greatest(n)[s] = Max(s)
  BY <1>1, GreatestChooses
<1>. HIDE DEF V, F, n
<1>4. PICK h : Solves(h, 1 .. n, Greatest(n), V, Begin, F)
  <2>1. Recursive(1 .. n, Greatest(n), V, Begin, F)
    BY <1>1, <1>2, <1>3, FS_Interval DEF Recursive
  <2>. QED
    BY <2>1, Recursion
<1>5. h = Again(h)
  <2>1. ASSUME NEW s \in SUBSET (1 .. n), s # {}
        PROVE  h[s] = Take(h[s \ {Max(s)}], text[Max(s)])
    <3>1. Max(s) \in 1 .. n /\ h[s \ {Max(s)}] \in V
      BY <1>3, <1>4, <2>1 DEF Chooses, Solves
    <3>2. h[s] = F[<<Max(s), h[s \ {Max(s)}]>>]
      BY <1>3, <1>4, <2>1 DEF Solves, FoldStep
    <3>. QED
      BY <1>2, <3>1, <3>2
  <2>2. h[{}] = Begin
    BY <1>4 DEF Solves, FoldStep
  <2>. QED
    BY <1>4, <2>1, <2>2 DEF Solves
<1>6. g = Again(g)
  BY <1>5
<1>7. ParseSegments(text) = Result(g[1 .. n])
  BY <1>1 DEF ParseSegments, FoldLeft, MapThenFoldSet, Result, Begin
<1>. HIDE DEF g
<1>8. g[{}] = Begin /\ \A i \in 1 .. n : g[1 .. i] = Take(g[1 .. i - 1], text[i])
  <2>1. g[{}] = Begin
    BY <1>6
  <2>2. ASSUME NEW i \in 1 .. n PROVE g[1 .. i] = Take(g[1 .. i - 1], text[i])
    <3>. n \in Nat /\ i \in 1 .. n
      BY <1>1
    <3>1. 1 .. i \in SUBSET (1 .. n) /\ 1 .. i # {} /\ (1 .. i) \ {i} = 1 .. i - 1
      BY IndicesUpTo
    <3>2. Max(1 .. i) = i
      BY <1>1, GreatestChooses
    <3>. QED
      BY <1>6, <3>1, <3>2
  <2>. QED
    BY <2>1, <2>2
<1>. DEFINE r == [i \in 0 .. n |-> g[1 .. i]]
<1>9. /\ r[0] = Begin /\ r[n] = g[1 .. n]
      /\ \A i \in 1 .. n : r[i] = Take(r[i - 1], text[i])
  BY <1>1, <1>8
<1>. HIDE DEF r
<1>10. \A i \in 0 .. n : r[i] \in V
  <2>. DEFINE T == {i \in Nat : i <= n => r[i] \in V}
  <2>1. 0 \in T
    BY <1>2, <1>9
  <2>2. ASSUME NEW i \in Nat, i \in T PROVE i + 1 \in T
    <3>. SUFFICES ASSUME i + 1 <= n PROVE r[i + 1] \in V
      OBVIOUS
    <3>1. i + 1 \in 1 .. n /\ r[i] \in V /\ text[i + 1] \in Tokens
      BY <1>1, <2>2
    <3>2. r[i + 1] = Take(r[i], text[i + 1])
      BY <1>9, <3>1
    <3>. QED
      BY <3>1, <3>2, TakeType DEF V
  <2>. HIDE DEF T
  <2>3. Nat \subseteq T
    BY <2>1, <2>2, NumberInduction
  <2>. QED
    BY <1>1, <2>3 DEF T
<1>. QED
  BY <1>7, <1>9, <1>10 DEF n, V

-----------------------------------------------------------------------------
(* Where a text is cut. *)

\* After i tokens a bracket is open: one was opened and none closed since.  The
\* backslashes at the places E take the tokens behind them out of the rule.
Inside(text, E, i) ==
    \E j \in 1 .. i :
       /\ text[j] \in Left /\ j - 1 \notin E
       /\ \A k \in j + 1 .. i : text[k] \in Right => k - 1 \in E

\* The tokens among the first i that are ch, that no backslash of E precedes
\* and no bracket encloses.
Bare(text, E, i, ch) == {j \in 1 .. i : text[j] = ch /\ j - 1 \notin E /\ ~Inside(text, E, j - 1)}

\* The backslashes that count: those that no other one precedes and no bracket
\* encloses.
Escapes(text, E) == E = Bare(text, E, Len(text), "\\")

Commas(text, E, i) == Bare(text, E, i, ",")

\* The tokens of piece are those of text at the places S, in order.
Reads(text, S, piece) ==
    \E at \in [1 .. Len(piece) -> S] :
       /\ \A k, l \in 1 .. Len(piece) : k < l => at[k] < at[l]
       /\ \A x \in S : \E k \in 1 .. Len(piece) : at[k] = x
       /\ \A k \in 1 .. Len(piece) : piece[k] = text[at[k]]

\* The first i tokens are cut at the places D: the pieces segs lie between
\* them, and buf is what follows the last, all without what is at E.
CutAt(text, E, i, D, segs, buf) ==
    \E cut \in [0 .. Len(segs) -> 0 .. i] :
       /\ cut[0] = 0
       /\ \A k \in 1 .. Len(segs) : cut[k - 1] < cut[k]
       /\ {cut[k] : k \in 1 .. Len(segs)} = D
       /\ \A k \in 1 .. Len(segs) : Reads(text, (cut[k - 1] + 1 .. cut[k] - 1) \ E, segs[k])
       /\ Reads(text, (cut[Len(segs)] + 1 .. i) \ E, buf)

\* The empty piece.
LEMMA ReadsNothing == ASSUME NEW text PROVE Reads(text, {}, <<>>)
<1>1. Len(<<>>) = 0
  OBVIOUS
<1>. DEFINE at == [k \in 1 .. 0 |-> 0]
<1>2. at \in [1 .. 0 -> {}]
  OBVIOUS
<1>. QED
  BY <1>1, <1>2 DEF Reads

\* A piece with one more token.
LEMMA PieceGrows ==
  ASSUME NEW Tokens, NEW text \in Seq(Tokens), NEW i \in Nat, i < Len(text),
         NEW S \in SUBSET (1 .. i), NEW piece \in Seq(Tokens), Reads(text, S, piece)
  PROVE  Reads(text, S \cup {i + 1}, Append(piece, text[i + 1]))
<1>. DEFINE m == Len(piece)
            more == Append(piece, text[i + 1])
<1>0. text[i + 1] \in Tokens
  BY LenProperties, ElementOfSeq
<1>1. /\ m \in Nat /\ Len(more) = m + 1
      /\ \A k \in 1 .. m : more[k] = piece[k]
      /\ more[m + 1] = text[i + 1]
  BY <1>0, LenProperties, AppendProperties
<1>. HIDE DEF m, more
<1>2. PICK at \in [1 .. m -> S] :
         /\ \A k, l \in 1 .. m : k < l => at[k] < at[l]
         /\ \A x \in S : \E k \in 1 .. m : at[k] = x
         /\ \A k \in 1 .. m : piece[k] = text[at[k]]
  BY DEF Reads, m
<1>. DEFINE next == [k \in 1 .. m + 1 |-> IF k = m + 1 THEN i + 1 ELSE at[k]]
<1>3. \A k \in 1 .. m + 1 : k = m + 1 \/ k \in 1 .. m
  BY <1>1
<1>4. /\ next \in [1 .. m + 1 -> S \cup {i + 1}]
      /\ next[m + 1] = i + 1
      /\ \A k \in 1 .. m : next[k] = at[k] /\ at[k] \in S /\ at[k] \in 1 .. i
  <2>1. \A k \in 1 .. m : at[k] \in S /\ at[k] \in 1 .. i /\ k # m + 1 /\ k \in 1 .. m + 1
    <3>1. \A k \in 1 .. m : at[k] \in S
      BY <1>2
    <3>2. \A k \in 1 .. m : k # m + 1 /\ k \in 1 .. m + 1
      BY <1>1
    <3>. QED
      BY <3>1, <3>2
  <2>2. m + 1 \in 1 .. m + 1
    BY <1>1
  <2>. QED
    BY <1>3, <2>1, <2>2
<1>. HIDE DEF next
<1>5. \A k, l \in 1 .. m + 1 : k < l => next[k] < next[l]
  <2>. SUFFICES ASSUME NEW k \in 1 .. m + 1, NEW l \in 1 .. m + 1, k < l
                PROVE  next[k] < next[l]
    OBVIOUS
  <2>1. k \in 1 .. m
    BY <1>1
  <2>2. CASE l = m + 1
    BY <1>4, <2>1, <2>2
  <2>3. CASE l \in 1 .. m
    BY <1>2, <1>4, <2>1, <2>3
  <2>. QED
    BY <1>3, <2>2, <2>3
<1>6. \A x \in S \cup {i + 1} : \E k \in 1 .. m + 1 : next[k] = x
  <2>1. m + 1 \in 1 .. m + 1 /\ 1 .. m \subseteq 1 .. m + 1
    BY <1>1
  <2>. QED
    BY <1>2, <1>4, <2>1
<1>7. \A k \in 1 .. m + 1 : more[k] = text[next[k]]
  BY <1>1, <1>2, <1>3, <1>4
<1>8. Reads(text, S \cup {i + 1}, more)
  <2>1. Len(more) = m + 1
    BY <1>1
  <2>2. /\ next \in [1 .. Len(more) -> S \cup {i + 1}]
        /\ \A k, l \in 1 .. Len(more) : k < l => next[k] < next[l]
        /\ \A x \in S \cup {i + 1} : \E k \in 1 .. Len(more) : next[k] = x
        /\ \A k \in 1 .. Len(more) : more[k] = text[next[k]]
    <3>. USE <2>1
    <3>1. next \in [1 .. Len(more) -> S \cup {i + 1}]
      BY <1>4
    <3>2. \A k, l \in 1 .. Len(more) : k < l => next[k] < next[l]
      BY <1>5
    <3>3. \A x \in S \cup {i + 1} : \E k \in 1 .. Len(more) : next[k] = x
      BY <1>6
    <3>4. \A k \in 1 .. Len(more) : more[k] = text[next[k]]
      BY <1>7
    <3>. QED
      BY <3>1, <3>2, <3>3, <3>4
  <2>. QED
    BY <2>2, Zenon DEF Reads
<1>. QED
  BY <1>8 DEF more

\* Nothing is cut yet.
LEMMA CutNothing == ASSUME NEW text, NEW E PROVE CutAt(text, E, 0, {}, <<>>, <<>>)
<1>. DEFINE cut == [k \in 0 .. 0 |-> 0]
<1>1. Len(<<>>) = 0 /\ (0 + 1 .. 0) \ E = {}
  OBVIOUS
<1>2. cut \in [0 .. 0 -> 0 .. 0] /\ cut[0] = 0
  OBVIOUS
<1>3. {cut[k] : k \in 1 .. 0} = {}
  OBVIOUS
<1>. HIDE DEF cut
<1>4. Reads(text, (cut[Len(<<>>)] + 1 .. 0) \ E, <<>>)
  BY <1>1, <1>2, ReadsNothing
<1>. QED
  BY <1>1, <1>2, <1>3, <1>4 DEF CutAt

\* The next token goes to the last piece, unless it is at E.
LEMMA CutGrows ==
  ASSUME NEW Tokens, NEW text \in Seq(Tokens), NEW i \in Nat, i < Len(text), NEW E,
         NEW D, NEW segs \in Seq(Seq(Tokens)), NEW buf \in Seq(Tokens),
         CutAt(text, E, i, D, segs, buf)
  PROVE  CutAt(text, E, i + 1, D, segs,
               IF i + 1 \in E THEN buf ELSE Append(buf, text[i + 1]))
<1>. DEFINE m == Len(segs)
            more == IF i + 1 \in E THEN buf ELSE Append(buf, text[i + 1])
<1>1. m \in Nat
  BY LenProperties
<1>. HIDE DEF m
<1>2. PICK cut \in [0 .. m -> 0 .. i] :
         /\ cut[0] = 0
         /\ \A k \in 1 .. m : cut[k - 1] < cut[k]
         /\ {cut[k] : k \in 1 .. m} = D
         /\ \A k \in 1 .. m : Reads(text, (cut[k - 1] + 1 .. cut[k] - 1) \ E, segs[k])
         /\ Reads(text, (cut[m] + 1 .. i) \ E, buf)
  BY DEF CutAt, m
<1>3. cut \in [0 .. m -> 0 .. i + 1]
  BY <1>2
<1>4. cut[m] \in 0 .. i
  BY <1>1, <1>2
<1>5. Reads(text, (cut[m] + 1 .. i + 1) \ E, more)
  <2>1. PICK c \in 0 .. i : c = cut[m]
    BY <1>4
  <2>2. Reads(text, (c + 1 .. i) \ E, buf)
    BY <1>2, <2>1
  <2>3. CASE i + 1 \in E
    <3>1. (c + 1 .. i + 1) \ E = (c + 1 .. i) \ E
      BY <2>3
    <3>. QED
      BY <2>1, <2>2, <2>3, <3>1
  <2>4. CASE i + 1 \notin E
    <3>1. (c + 1 .. i + 1) \ E = ((c + 1 .. i) \ E) \cup {i + 1}
      BY <2>4
    <3>2. (c + 1 .. i) \ E \in SUBSET (1 .. i)
      OBVIOUS
    <3>3. Reads(text, ((c + 1 .. i) \ E) \cup {i + 1}, Append(buf, text[i + 1]))
      BY <2>2, <3>2, PieceGrows
    <3>. QED
      BY <2>1, <2>4, <3>1, <3>3
  <2>. QED
    BY <2>3, <2>4
<1>. HIDE DEF more
<1>6. CutAt(text, E, i + 1, D, segs, more)
  BY <1>2, <1>3, <1>5 DEF CutAt, m
<1>. QED
  BY <1>6 DEF more

\* A piece ends, at a token that is left out.
LEMMA CutSplits ==
  ASSUME NEW Tokens, NEW text \in Seq(Tokens), NEW i \in Nat, i < Len(text), NEW E,
         NEW D, NEW segs \in Seq(Seq(Tokens)), NEW buf \in Seq(Tokens),
         CutAt(text, E, i, D, segs, buf)
  PROVE  CutAt(text, E, i + 1, D \cup {i + 1}, Append(segs, buf), <<>>)
<1>. DEFINE m == Len(segs)
            more == Append(segs, buf)
<1>1. /\ m \in Nat /\ Len(more) = m + 1
      /\ \A k \in 1 .. m : more[k] = segs[k]
      /\ more[m + 1] = buf
  BY LenProperties, AppendProperties
<1>. HIDE DEF m, more
<1>2. PICK cut \in [0 .. m -> 0 .. i] :
         /\ cut[0] = 0
         /\ \A k \in 1 .. m : cut[k - 1] < cut[k]
         /\ {cut[k] : k \in 1 .. m} = D
         /\ \A k \in 1 .. m : Reads(text, (cut[k - 1] + 1 .. cut[k] - 1) \ E, segs[k])
         /\ Reads(text, (cut[m] + 1 .. i) \ E, buf)
  BY DEF CutAt, m
<1>. DEFINE next == [k \in 0 .. m + 1 |-> IF k = m + 1 THEN i + 1 ELSE cut[k]]
<1>3. /\ next \in [0 .. m + 1 -> 0 .. i + 1]
      /\ next[m + 1] = i + 1 /\ next[0] = 0
      /\ \A k \in 0 .. m : next[k] = cut[k] /\ cut[k] \in 0 .. i
  <2>1. \A k \in 0 .. m : cut[k] \in 0 .. i
    BY <1>2
  <2>2. \A k \in 0 .. m + 1 : k # m + 1 => k \in 0 .. m
    BY <1>1
  <2>. QED
    BY <1>1, <1>2, <2>1, <2>2
<1>. HIDE DEF next
<1>4. \A k \in 1 .. m + 1 : next[k - 1] < next[k]
  <2>1. ASSUME NEW k \in 1 .. m PROVE next[k - 1] < next[k]
    BY <1>1, <1>2, <1>3
  <2>2. next[(m + 1) - 1] < next[m + 1]
    <3>1. (m + 1) - 1 = m /\ m \in 0 .. m
      BY <1>1
    <3>2. next[m] < next[m + 1]
      BY <1>1, <1>3
    <3>. QED
      BY <3>1, <3>2
  <2>3. \A k \in 1 .. m + 1 : k = m + 1 \/ k \in 1 .. m
    BY <1>1
  <2>. QED
    BY <2>1, <2>2, <2>3
<1>5. {next[k] : k \in 1 .. m + 1} = D \cup {i + 1}
  <2>1. \A k \in 1 .. m + 1 : k = m + 1 \/ k \in 1 .. m
    BY <1>1
  <2>2. 1 .. m \subseteq 1 .. m + 1 /\ m + 1 \in 1 .. m + 1 /\ 1 .. m \subseteq 0 .. m
    BY <1>1
  <2>. QED
    BY <1>2, <1>3, <2>1, <2>2
<1>6. \A k \in 1 .. m + 1 : Reads(text, (next[k - 1] + 1 .. next[k] - 1) \ E, more[k])
  <2>1. ASSUME NEW k \in 1 .. m
        PROVE  Reads(text, (next[k - 1] + 1 .. next[k] - 1) \ E, more[k])
    <3>1. k - 1 \in 0 .. m /\ k \in 0 .. m
      BY <1>1
    <3>. QED
      BY <1>1, <1>2, <1>3, <3>1
  <2>2. Reads(text, (next[(m + 1) - 1] + 1 .. next[m + 1] - 1) \ E, more[m + 1])
    <3>1. (m + 1) - 1 = m /\ m \in 0 .. m /\ (i + 1) - 1 = i
      BY <1>1
    <3>. QED
      BY <1>1, <1>2, <1>3, <3>1
  <2>3. \A k \in 1 .. m + 1 : k = m + 1 \/ k \in 1 .. m
    BY <1>1
  <2>. QED
    BY <2>1, <2>2, <2>3
<1>7. Reads(text, (next[m + 1] + 1 .. i + 1) \ E, <<>>)
  <2>1. ((i + 1) + 1 .. i + 1) \ E = {}
    OBVIOUS
  <2>. QED
    BY <1>3, <2>1, ReadsNothing
<1>. QED
  BY <1>1, <1>3, <1>4, <1>5, <1>6, <1>7 DEF CutAt, more

-----------------------------------------------------------------------------
(* parseSegments *)

\* Whether a bracket is open hangs on the last token and on what was before.
LEMMA InsideNext ==
  ASSUME NEW text, NEW E, NEW i \in Nat
  PROVE  /\ ~Inside(text, E, 0)
         /\ Inside(text, E, i + 1) <=>
               IF i \in E THEN Inside(text, E, i)
               ELSE text[i + 1] \in Left \/ (Inside(text, E, i) /\ text[i + 1] \notin Right)
<1>1. Left \cap Right = {}
  BY DEF Left, Right
<1>2. ~Inside(text, E, 0) /\ (i + 1) - 1 = i
  BY DEF Inside
<1>3. ASSUME text[i + 1] \in Left, i \notin E PROVE Inside(text, E, i + 1)
  <2>1. i + 1 \in 1 .. i + 1 /\ (i + 1) + 1 .. i + 1 = {}
    OBVIOUS
  <2>. QED
    BY <1>2, <1>3, <2>1 DEF Inside
<1>4. ASSUME Inside(text, E, i), text[i + 1] \in Right => i \in E
      PROVE  Inside(text, E, i + 1)
  <2>1. PICK j \in 1 .. i : /\ text[j] \in Left /\ j - 1 \notin E
                            /\ \A k \in j + 1 .. i : text[k] \in Right => k - 1 \in E
    BY <1>4 DEF Inside
  <2>2. (\A k \in j + 1 .. i + 1 : k \in j + 1 .. i \/ k = i + 1) /\ j \in 1 .. i + 1
    OBVIOUS
  <2>. QED
    BY <1>2, <1>4, <2>1, <2>2 DEF Inside
<1>5. ASSUME Inside(text, E, i + 1), text[i + 1] \notin Left \/ i \in E
      PROVE  Inside(text, E, i) /\ (text[i + 1] \in Right => i \in E)
  <2>1. PICK j \in 1 .. i + 1 :
           /\ text[j] \in Left /\ j - 1 \notin E
           /\ \A k \in j + 1 .. i + 1 : text[k] \in Right => k - 1 \in E
    BY <1>5 DEF Inside
  <2>2. j \in 1 .. i
    BY <1>2, <1>5, <2>1
  <2>3. i + 1 \in j + 1 .. i + 1 /\ j + 1 .. i \subseteq j + 1 .. i + 1
    BY <2>2
  <2>. QED
    BY <1>2, <2>1, <2>2, <2>3 DEF Inside
<1>. QED
  BY <1>1, <1>2, <1>3, <1>4, <1>5

\* The next token is bare, or the bare ones stay the same.
LEMMA BareMore ==
  ASSUME NEW text, NEW E, NEW i \in Nat, NEW tok,
         text[i + 1] = tok, i \notin E, ~Inside(text, E, i)
  PROVE  Bare(text, E, i + 1, tok) = Bare(text, E, i, tok) \cup {i + 1}
<1>1. (\A j : j \in 1 .. i + 1 <=> (j \in 1 .. i \/ j = i + 1)) /\ (i + 1) - 1 = i
  OBVIOUS
<1>2. \A j : j \in Bare(text, E, i + 1, tok) <=> j \in Bare(text, E, i, tok) \cup {i + 1}
  BY <1>1 DEF Bare
<1>. QED
  BY <1>2

\* The other case.
LEMMA BareSame ==
  ASSUME NEW text, NEW E, NEW i \in Nat, NEW tok,
         ~(text[i + 1] = tok /\ i \notin E /\ ~Inside(text, E, i))
  PROVE  Bare(text, E, i + 1, tok) = Bare(text, E, i, tok)
<1>1. (\A j : j \in 1 .. i + 1 <=> (j \in 1 .. i \/ j = i + 1)) /\ (i + 1) - 1 = i
  OBVIOUS
<1>2. \A j : j \in Bare(text, E, i + 1, tok) <=> j \in Bare(text, E, i, tok)
  BY <1>1 DEF Bare
<1>. QED
  BY <1>2

\* No token is bare before the first.
LEMMA BareNone == ASSUME NEW text, NEW E, NEW tok PROVE Bare(text, E, 0, tok) = {}
BY DEF Bare

\* What the loop has after i rounds, if E are the places after which its flag
\* for an escape is set.
LoopInv(text, E, i, s) ==
  /\ s.escaped <=> i \in E
  /\ s.grouped <=> Inside(text, E, i)
  /\ CutAt(text, E, i, Commas(text, E, i), s.segs, s.buf)

\* A round cuts at a bare comma and nowhere else, and sets the flag for an escape
\* at a bare backslash and nowhere else.
LEMMA RoundCuts ==
  ASSUME NEW Tokens, NEW text \in Seq(Tokens), NEW i \in Nat, i < Len(text), NEW E,
         NEW s \in States(Tokens), LoopInv(text, E, i, s),
         Take(s, text[i + 1]).escaped <=> i + 1 \in E
  PROVE  /\ LoopInv(text, E, i + 1, Take(s, text[i + 1]))
         /\ i + 1 \in E <=> text[i + 1] = "\\" /\ i \notin E /\ ~Inside(text, E, i)
<1>. DEFINE ch == text[i + 1]
            t == Take(s, ch)
<1>0. /\ s = [segs |-> s.segs, buf |-> s.buf, escaped |-> s.escaped, grouped |-> s.grouped]
      /\ s.segs \in Seq(Seq(Tokens)) /\ s.buf \in Seq(Tokens)
      /\ s.grouped \in BOOLEAN /\ s.escaped \in BOOLEAN
  BY DEF States
<1>1. /\ s.escaped <=> i \in E
      /\ s.grouped <=> Inside(text, E, i)
      /\ CutAt(text, E, i, Commas(text, E, i), s.segs, s.buf)
      /\ t.escaped <=> i + 1 \in E
  BY DEF LoopInv
<1>2. CutAt(text, E, i + 1, Commas(text, E, i), s.segs,
            IF i + 1 \in E THEN s.buf ELSE Append(s.buf, ch))
  BY <1>0, <1>1, CutGrows
<1>3. /\ Inside(text, E, i + 1) <=>
            IF i \in E THEN Inside(text, E, i)
            ELSE ch \in Left \/ (Inside(text, E, i) /\ ch \notin Right)
      /\ (ch = "," /\ i \notin E /\ ~Inside(text, E, i)) =>
            Commas(text, E, i + 1) = Commas(text, E, i) \cup {i + 1}
      /\ ~(ch = "," /\ i \notin E /\ ~Inside(text, E, i)) =>
            Commas(text, E, i + 1) = Commas(text, E, i)
  <2>1. Inside(text, E, i + 1) <=>
            IF i \in E THEN Inside(text, E, i)
            ELSE ch \in Left \/ (Inside(text, E, i) /\ ch \notin Right)
    BY InsideNext
  <2>2. PICK tok : tok = ","
    OBVIOUS
  <2>3. ASSUME ch = tok, i \notin E, ~Inside(text, E, i)
        PROVE  Bare(text, E, i + 1, tok) = Bare(text, E, i, tok) \cup {i + 1}
    BY <2>3, BareMore
  <2>4. ASSUME ~(ch = tok /\ i \notin E /\ ~Inside(text, E, i))
        PROVE  Bare(text, E, i + 1, tok) = Bare(text, E, i, tok)
    BY <2>4, BareSame
  <2>. QED
    BY <2>1, <2>2, <2>3, <2>4 DEF Commas
<1>4. CASE s.escaped
  <2>1. /\ t.segs = s.segs /\ t.buf = Append(s.buf, ch) /\ t.escaped = FALSE
        /\ t.grouped = s.grouped
    BY <1>0, <1>4 DEF Take
  <2>. QED
    BY <1>1, <1>2, <1>3, <1>4, <2>1 DEF LoopInv
<1>5. CASE ~s.escaped /\ ch = "," /\ ~s.grouped
  <2>1. /\ t.segs = Append(s.segs, s.buf) /\ t.buf = <<>>
        /\ t.escaped = s.escaped /\ t.grouped = s.grouped
    BY <1>0, <1>5 DEF Take
  <2>2. ch \notin Left /\ ch # "\\"
    BY <1>5 DEF Left
  <2>3. CutAt(text, E, i + 1, Commas(text, E, i) \cup {i + 1}, Append(s.segs, s.buf), <<>>)
    BY <1>0, <1>1, CutSplits
  <2>. QED
    BY <1>1, <1>3, <1>5, <2>1, <2>2, <2>3 DEF LoopInv
<1>6. CASE ~s.escaped /\ ch = "\\" /\ ~s.grouped
  <2>1. /\ t.segs = s.segs /\ t.buf = s.buf /\ t.escaped = TRUE /\ t.grouped = s.grouped
    BY <1>0, <1>6 DEF Take
  <2>2. ch \notin Left /\ ch # ","
    BY <1>6 DEF Left
  <2>. QED
    BY <1>1, <1>2, <1>3, <1>6, <2>1, <2>2 DEF LoopInv
<1>7. CASE ~s.escaped /\ ~(ch \in {",", "\\"} /\ ~s.grouped)
  <2>1. /\ t.segs = s.segs /\ t.buf = Append(s.buf, ch) /\ t.escaped = s.escaped
        /\ t.grouped <=> (ch \in Left \/ (s.grouped /\ ch \notin Right))
    BY <1>0, <1>7 DEF Take
  <2>. QED
    BY <1>1, <1>2, <1>3, <1>7, <2>1 DEF LoopInv
<1>. QED
  BY <1>0, <1>4, <1>5, <1>6, <1>7

\* The backslashes that count are determined by the text.
LEMMA EscapesUnique ==
  ASSUME NEW Tokens, NEW text \in Seq(Tokens), NEW D, NEW E,
         Escapes(text, D), Escapes(text, E)
  PROVE  D = E
<1>. DEFINE n == Len(text)
            T == {i \in Nat : \A j \in 0 .. i : j \in D <=> j \in E}
<1>1. n \in Nat
  BY LenProperties
<1>2. ASSUME NEW F, Escapes(text, F)
      PROVE  /\ F \subseteq 1 .. n
             /\ \A j \in 1 .. n : j \in F <=> /\ text[j] = "\\" /\ j - 1 \notin F
                                              /\ ~Inside(text, F, j - 1)
  BY <1>2 DEF Escapes, Bare
<1>3. 0 \in T
  BY <1>2
<1>4. ASSUME NEW i \in Nat, i \in T PROVE i + 1 \in T
  <2>1. \A j \in 0 .. i : j \in D <=> j \in E
    BY <1>4
  <2>2. Inside(text, D, i) <=> Inside(text, E, i)
    <3>1. ASSUME NEW j \in 1 .. i PROVE /\ j - 1 \in D <=> j - 1 \in E
                                        /\ \A k \in j + 1 .. i : k - 1 \in D <=> k - 1 \in E
      BY <2>1
    <3>. QED
      BY <3>1 DEF Inside
  <2>3. i + 1 \in D <=> i + 1 \in E
    <3>1. CASE i + 1 \in 1 .. n
      <4>1. (i + 1) - 1 = i /\ i \in 0 .. i
        OBVIOUS
      <4>. QED
        BY <1>2, <2>1, <2>2, <3>1, <4>1
    <3>2. CASE i + 1 \notin 1 .. n
      BY <1>2, <3>2
    <3>. QED
      BY <3>1, <3>2
  <2>4. \A j \in 0 .. i + 1 : j \in 0 .. i \/ j = i + 1
    OBVIOUS
  <2>. QED
    BY <2>1, <2>3, <2>4
<1>. HIDE DEF T
<1>5. n \in T
  BY <1>1, <1>3, <1>4, NumberInduction
<1>6. \A j \in 0 .. n : j \in D <=> j \in E
  BY <1>5 DEF T
<1>. QED
  BY <1>1, <1>2, <1>6

\* parseSegments (utils.go:441) cuts the text of a tag, whatever it is, at exactly
\* the commas that no backslash precedes and no bracket encloses.  Beside them it
\* drops the backslashes that count and an empty last segment, and nothing else.
\* Which backslashes count the text determines (EscapesUnique): those that no
\* other one precedes and no bracket encloses, where brackets count likewise.
THEOREM SegmentsCut ==
  ASSUME NEW Tokens, NEW text \in Seq(Tokens)
  PROVE  \E E, segs, buf :
            /\ Escapes(text, E)
            /\ CutAt(text, E, Len(text), Commas(text, E, Len(text)), segs, buf)
            /\ ParseSegments(text) = IF buf = <<>> THEN segs ELSE Append(segs, buf)
<1>. DEFINE n == Len(text)
<1>1. n \in Nat
  BY LenProperties
<1>2. PICK r : /\ r[0] = Begin
               /\ \A i \in 1 .. n : r[i] = Take(r[i - 1], text[i])
               /\ \A i \in 0 .. n : r[i] \in States(Tokens)
               /\ ParseSegments(text) = Result(r[n])
  BY Rounds
<1>. DEFINE E == {i \in 1 .. n : r[i].escaped}
            Bares(i) == i + 1 \in E <=> text[i + 1] = "\\" /\ i \notin E /\ ~Inside(text, E, i)
            T == {i \in Nat : i <= n => LoopInv(text, E, i, r[i])}
<1>3. 0 \in T
  <2>1. 0 \notin E
    OBVIOUS
  <2>. HIDE DEF E
  <2>2. LoopInv(text, E, 0, Begin)
    <3>1. CutAt(text, E, 0, {}, <<>>, <<>>)
      BY CutNothing
    <3>2. ~Inside(text, E, 0)
      BY InsideNext
    <3>3. Commas(text, E, 0) = {}
      BY BareNone DEF Commas
    <3>. QED
      BY <2>1, <3>1, <3>2, <3>3 DEF LoopInv, Begin
  <2>. QED
    BY <1>2, <2>2
<1>4. ASSUME NEW i \in Nat, i < n, LoopInv(text, E, i, r[i])
      PROVE  LoopInv(text, E, i + 1, r[i + 1]) /\ Bares(i)
  <2>1. i + 1 \in 1 .. n /\ i \in 0 .. n /\ (i + 1) - 1 = i
    BY <1>1, <1>4
  <2>2. r[i] \in States(Tokens) /\ r[i + 1] = Take(r[i], text[i + 1])
    BY <1>2, <2>1
  <2>3. Take(r[i], text[i + 1]).escaped <=> i + 1 \in E
    BY <2>1, <2>2
  <2>. HIDE DEF E
  <2>. QED
    BY <1>4, <2>2, <2>3, RoundCuts
<1>5. Nat \subseteq T
  <2>1. ASSUME NEW i \in Nat, i \in T PROVE i + 1 \in T
    <3>1. i + 1 <= n => i < n /\ i <= n
      BY <1>1
    <3>. HIDE DEF E, Bares
    <3>. QED
      BY <1>4, <2>1, <3>1
  <2>. HIDE DEF T
  <2>. QED
    BY <1>3, <2>1, NumberInduction
<1>6. Escapes(text, E)
  <2>1. ASSUME NEW j \in 1 .. n
        PROVE  j \in E <=> text[j] = "\\" /\ j - 1 \notin E /\ ~Inside(text, E, j - 1)
    <3>1. PICK i \in Nat : i = j - 1 /\ j = i + 1 /\ i < n /\ i <= n
      BY <1>1
    <3>2. LoopInv(text, E, i, r[i])
      <4>. HIDE DEF E
      <4>. QED
        BY <1>5, <3>1
    <3>3. Bares(i)
      <4>. HIDE DEF E, Bares
      <4>. QED
        BY <1>4, <3>1, <3>2
    <3>. HIDE DEF E
    <3>. QED
      BY <3>1, <3>3
  <2>2. E \subseteq 1 .. n
    OBVIOUS
  <2>. HIDE DEF E
  <2>3. \A j : j \in E <=> j \in Bare(text, E, n, "\\")
    BY <2>1, <2>2 DEF Bare
  <2>. QED
    BY <2>3 DEF Escapes
<1>. HIDE DEF E
<1>7. CutAt(text, E, n, Commas(text, E, n), r[n].segs, r[n].buf)
  BY <1>1, <1>5 DEF LoopInv
<1>8. ParseSegments(text) = IF r[n].buf = <<>> THEN r[n].segs ELSE Append(r[n].segs, r[n].buf)
  BY <1>2 DEF Result
<1>. QED
  BY <1>6, <1>7, <1>8
=============================================================================
