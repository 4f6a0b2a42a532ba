----------------------------- MODULE FieldTags -----------------------------
(***************************************************************************)
(* The tags of struct fields that core/mapping reads: their segments, the  *)
(* options in them, and what an option means beside the other values given.*)
(* A text is a sequence of tokens, words and the characters with a meaning *)
(* of their own; blanks around segments are left out.                      *)
(***************************************************************************)
EXTENDS Integers, Sequences, SequencesExt

CONSTANT Number  \* strconv: the words that are numbers, with their values

Left  == {"(", "["}
Right == {")", "]"}

\* strings.Split at a token.
SplitOn(text, sep) ==
    FoldLeft(LAMBDA acc, ch : IF ch = sep THEN Append(acc, <<>>)
                              ELSE [acc EXCEPT ![Len(acc)] = Append(@, ch)],
             << <<>> >>, text)

\* One round of the loop of parseSegments.
Take(s, ch) ==
    IF s.escaped THEN [s EXCEPT !.buf = Append(@, ch), !.escaped = FALSE]
    ELSE IF ch = "," /\ ~s.grouped THEN [s EXCEPT !.segs = Append(@, s.buf), !.buf = <<>>]
    ELSE IF ch = "\\" /\ ~s.grouped THEN [s EXCEPT !.escaped = TRUE]
    ELSE [s EXCEPT !.buf = Append(@, ch),
                   !.grouped = ch \in Left \/ (@ /\ ch \notin Right)]

ParseSegments(text) ==
    LET end == FoldLeft(Take, [segs |-> <<>>, buf |-> <<>>, escaped |-> FALSE,
                               grouped |-> FALSE], text)
    IN IF end.buf = <<>> THEN end.segs ELSE Append(end.segs, end.buf)

\* The brackets at both ends are cut off, however many.
ParseGroupedSegments(text) ==
    LET from == SelectInSeq(text, LAMBDA ch : ch \notin Left)
        to == SelectLastInSeq(text, LAMBDA ch : ch \notin Right)
    IN ParseSegments(IF from = 0 THEN <<>> ELSE SubSeq(text, from, to))

-----------------------------------------------------------------------------
(* Options. nil is the pointer a tag without options leaves; range holds at *)
(* most one range.                                                          *)

NoOptions == [nil |-> TRUE, err |-> FALSE, inherit |-> FALSE, fromString |-> FALSE,
              optional |-> FALSE, dep |-> <<>>, options |-> <<>>, default |-> <<>>,
              env |-> <<>>, range |-> <<>>]

Wrong == [NoOptions EXCEPT !.err = TRUE]

MaxNumber == 1000000  \* stands for math.MaxFloat64

IsNumber(text) == Len(text) = 1 /\ text[1] \in DOMAIN Number

\* An end of a range: a number, or none, which is far away.
End(text, far) == IF text = <<>> THEN far ELSE Number[text[1]]

\* parseNumberRange: one range, or nothing when the text is not one.
ParseNumberRange(text) ==
    IF Len(text) < 2 \/ text[1] \notin Left \/ Last(text) \notin Right THEN <<>>
    ELSE LET ends == SplitOn(SubSeq(text, 2, Len(text) - 1), ":") IN
         IF \/ Len(ends) # 2 \/ ends = << <<>>, <<>> >>
            \/ \E i \in DOMAIN ends : ends[i] # <<>> /\ ~IsNumber(ends[i])
         THEN <<>>
         ELSE LET left == End(ends[1], -MaxNumber)
                  right == End(ends[2], MaxNumber)
                  nr == [left |-> left, leftInclude |-> text[1] = "[",
                         right |-> right, rightInclude |-> Last(text) = "]"]
              IN IF left > right \/ (left = right /\ ~(nr.leftInclude /\ nr.rightInclude))
                 THEN <<>> ELSE <<nr>>

\* validateNumberRange
InRange(n, nr) ==
    /\ IF nr.leftInclude THEN n >= nr.left ELSE n > nr.left
    /\ IF nr.rightInclude THEN n <= nr.right ELSE n < nr.right

\* parseOptions
ParseOptions(text) ==
    IF text = <<>> THEN <<>>
    ELSE IF text[1] = "[" THEN ParseGroupedSegments(text)
    ELSE SplitOn(text, "|")

WithRange(o, range) == IF range = <<>> THEN Wrong ELSE [o EXCEPT !.range = range]

\* parseOption, where segs is the option split at its equal signs; parseProperty
\* is the demand for exactly one.
ParseOption(o, option, segs) ==
    LET word == Head(option) IN
    IF o.err \/ option = <<>> THEN o
    ELSE
    CASE option = <<"inherit">> -> [o EXCEPT !.inherit = TRUE]
      [] option = <<"string">> -> [o EXCEPT !.fromString = TRUE]
      [] word = "optional" /\ Len(segs) = 1 -> [o EXCEPT !.optional = TRUE]
      [] word = "optional" /\ Len(segs) = 2 -> [o EXCEPT !.optional = TRUE, !.dep = segs[2]]
      [] word = "optional" /\ Len(segs) > 2 -> Wrong
      [] word \in {"options", "default", "env", "range"} /\ Len(segs) # 2 -> Wrong
      [] word = "options" /\ Len(segs) = 2 -> [o EXCEPT !.options = ParseOptions(segs[2])]
      [] word = "default" /\ Len(segs) = 2 -> [o EXCEPT !.default = segs[2]]
      [] word = "env" /\ Len(segs) = 2 -> [o EXCEPT !.env = segs[2]]
      [] word = "range" /\ Len(segs) = 2 -> WithRange(o, ParseNumberRange(segs[2]))
      [] OTHER -> o

\* doParseKeyAndOptions: the key, empty when the tag names none, and the options.
DoParseKeyAndOptions(text) ==
    LET segs == ParseSegments(text) IN
    [key |-> segs[1],
     opts |-> IF Len(segs) = 1 THEN NoOptions
              ELSE FoldLeft(LAMBDA o, option : ParseOption(o, option, SplitOn(option, "=")),
                            [NoOptions EXCEPT !.nil = FALSE], Tail(segs))]

\* Mutant: the range goes with every condition, the inheritance too.
InContextPlain(o, key, on) ==
    [o EXCEPT !.optional = o.optional /\ o.dep = <<>>, !.range = <<>>]

\* toOptionsWithContext, where on holds the keys that have a value: whether a
\* field is optional when that hangs on another one. Options that change lose
\* their inheritance and their range.
InContext(o, key, on) ==
    LET negated == o.dep # <<>> /\ o.dep[1] = "!"
        dep == IF negated THEN Tail(o.dep) ELSE o.dep
        baseOn == dep[1] \in on
        selfOn == key \in on
    IN
    IF ~o.optional \/ o.dep = <<>> THEN o
    ELSE IF dep = <<>> \/ negated = (baseOn = selfOn) THEN Wrong
    ELSE IF negated = baseOn THEN o
    ELSE [o EXCEPT !.optional = FALSE, !.inherit = FALSE, !.range = <<>>]
=============================================================================
