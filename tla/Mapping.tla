------------------------------ MODULE Mapping ------------------------------
(***************************************************************************)
(* core/mapping: maps are unmarshalled into structs by their tags, through *)
(* caches that the calls of a process share and maps that results, caches  *)
(* and inputs share.                                                       *)
(*                                                                         *)
(* A tree is a decoded document: [k |-> "num" or "str", t], "bool", "nil", *)
(* "list" of trees, "obj" of keys. A slice that is nil is a list too, which*)
(* is not the empty one. In memory an obj is [k |-> "map", id],  *)
(* and heap leads from ids to entries. Results add "int", "struct" of      *)
(* field names and "zero", which is also the nil pointer; in them an obj   *)
(* is a map of another element type than any, which nobody shares.         *)
(*                                                                         *)
(* Types are [k] with k "bool", "int8", "int64", "duration", "string" or   *)
(* "any", and "ptr", "slice" and "map" of e, and "struct" of the fields fs.*)
(* int8 stands for all bounded integers; pointers lead to scalars and to   *)
(* structs. A field has a name, a type t, a text for every key in tags,    *)
(* and says whether it is anonymous and whether it is exported.            *)
(***************************************************************************)
EXTENDS FieldTags

CONSTANTS Json,     \* json: texts that are documents (but null), with their trees
          Duration, \* time.ParseDuration: words that are durations
          Env,      \* proc.Env: the variables that are set
          Lower,    \* strings.ToLower: the keys it changes
          KeyPath   \* the keys with a dot in them, split there

Nil  == [k |-> "nil"]
Zero == [k |-> "zero"]
NilList == [k |-> "list", l |-> <<>>, nil |-> TRUE]
IntOf(n) == [k |-> "int", n |-> n]

Scalars == {"bool", "int8", "int64", "duration", "string", "any"}

Deref(t) == IF t.k = "ptr" THEN t.e ELSE t
\* reflect.Kind: a duration is an int64.
Kind(t) == IF t.k = "duration" THEN "int64" ELSE t.k

-----------------------------------------------------------------------------
(* Documents in memory *)

RECURSIVE Graft(_, _)
\* What stands for a tree once its maps are in the heap below the id.
Graft(tree, id) ==
    CASE tree.k = "obj" -> [k |-> "map", id |-> id]
      [] tree.k = "list" ->
            [tree EXCEPT !.l = [i \in DOMAIN @ |-> Graft(@[i], Append(id, ToString(i)))]]
      [] OTHER -> tree

RECURSIVE Nodes(_, _)
\* The maps of a tree.
Nodes(tree, id) ==
    CASE tree.k = "obj" ->
            FoldSet(LAMBDA key, acc : acc @@ Nodes(tree.f[key], Append(id, key)),
                    id :> [key \in DOMAIN tree.f |-> Graft(tree.f[key], Append(id, key))],
                    DOMAIN tree.f)
      [] tree.k = "list" ->
            FoldSet(LAMBDA i, acc : acc @@ Nodes(tree.l[i], Append(id, ToString(i))),
                    <<>>, DOMAIN tree.l)
      [] OTHER -> <<>>

RECURSIVE Deep(_, _)
\* What a value says at this moment, as a tree.
Deep(h, v) ==
    CASE v.k = "map" -> [k |-> "obj", f |-> [key \in DOMAIN h[v.id] |-> Deep(h, h[v.id][key])]]
      [] v.k = "list" -> [v EXCEPT !.l = [i \in DOMAIN v.l |-> Deep(h, v.l[i])]]
      [] v.k \in {"obj", "struct"} -> [v EXCEPT !.f = [key \in DOMAIN v.f |-> Deep(h, v.f[key])]]
      [] OTHER -> v

RECURSIVE Ids(_)
\* The maps a result shares with others.
Ids(v) ==
    CASE v.k = "map" -> {v.id}
      [] v.k = "list" -> UNION {Ids(v.l[i]) : i \in DOMAIN v.l}
      [] v.k \in {"obj", "struct"} -> UNION {Ids(v.f[key]) : key \in DOMAIN v.f}
      [] OTHER -> {}

-----------------------------------------------------------------------------
(* Valuers: where a key is looked up, and where else when it is missing *)

MapValuer(id) == [kind |-> "map", id |-> id]
SimpleValuer(current, parent) == [kind |-> "simple", current |-> current, parent |-> parent]
RecursiveValuer(current, parent) == [kind |-> "recursive", current |-> current, parent |-> parent]
NoValuer == [kind |-> "none"]

RECURSIVE Parent(_)
Parent(n) == IF n.parent = NoValuer THEN NoValuer
             ELSE RecursiveValuer(n.parent, Parent(n.parent))

\* Mutant: the parent's entries replace those of the map.
MergeOver(h, id, from) == [h EXCEPT ![id] = h[from] @@ @]

\* recursiveValuer.Value writes what only the parent's map has into the map.
Merge(h, id, from) == [h EXCEPT ![id] = @ @@ h[from]]

RECURSIVE Value(_, _, _)
Value(h, n, key) ==
    IF n.kind = "map"
    THEN IF key \in DOMAIN h[n.id] THEN [h |-> h, ok |-> TRUE, v |-> h[n.id][key]]
                                   ELSE [h |-> h, ok |-> FALSE, v |-> Nil]
    ELSE
    LET own == Value(h, n.current, key)
        inherited == Value(own.h, Parent(n), key)
    IN
    IF n.kind = "simple" \/ Parent(n) = NoValuer THEN own
    ELSE IF ~own.ok THEN inherited
    ELSE IF own.v.k = "map" /\ inherited.ok /\ inherited.v.k = "map"
    THEN [own EXCEPT !.h = Merge(inherited.h, own.v.id, inherited.v.id)]
    ELSE IF own.v.k = "map" THEN [own EXCEPT !.h = inherited.h]
    ELSE own

RECURSIVE ChainedValue(_, _, _)
\* getValueWithChainedKeys
ChainedValue(h, n, keys) ==
    LET first == Value(h, n, keys[1]) IN
    IF Len(keys) = 1 THEN first
    ELSE IF first.ok /\ first.v.k = "map"
    THEN ChainedValue(first.h, RecursiveValuer(MapValuer(first.v.id), n), Tail(keys))
    ELSE [h |-> first.h, ok |-> FALSE, v |-> Nil]

GetValue(h, n, key, opaque) ==
    ChainedValue(h, n, IF ~opaque /\ key \in DOMAIN KeyPath THEN KeyPath[key] ELSE <<key>>)

-----------------------------------------------------------------------------
(* A call works on the record m of heap and caches and ends with m, a      *)
(* result and err: "none", "error", or "panic".                            *)

Done(m, v) == [m |-> m, err |-> "none", v |-> v]
Err(m)     == [m |-> m, err |-> "error", v |-> Zero]
Boom(m)    == [m |-> m, err |-> "panic", v |-> Zero]
\* A conversion gives one value, or none when it fails.
Set(m, found) == IF found = <<>> THEN Err(m) ELSE Done(m, found[1])

LowerKey(key) == IF key \in DOMAIN Lower THEN Lower[key] ELSE key
\* The canonicalKey of an unmarshaler, of which core/conf has the only one.
Canonical(u, key) == IF u.lower THEN LowerKey(key) ELSE key

\* The text of a tag, which may be missing.
TagText(tagKey, f) == IF tagKey \in DOMAIN f.tags THEN f.tags[tagKey] ELSE <<>>

\* parseKeyAndOptions: the cache by the text of the tag, and what is read from it.
Remember(m, text) ==
    IF text = <<>> \/ text \in DOMAIN m.options THEN m
    ELSE [m EXCEPT !.options = @ @@ (text :> DoParseKeyAndOptions(text))]

KeyAndOptions(m, f, text) ==
    IF text = <<>> THEN [m |-> m, key |-> f.name, opts |-> NoOptions]
    ELSE [m |-> m,
          key |-> IF m.options[text].key = <<>> THEN f.name ELSE m.options[text].key[1],
          opts |-> m.options[text].opts]

ParseKeyAndOptions(m, tagKey, f) ==
    KeyAndOptions(Remember(m, TagText(tagKey, f)), f, TagText(tagKey, f))

\* The parsed key and options beside the keys that have a value.
InContextOf(u, p, on) ==
    LET key == Canonical(u, p.key)
        opts == [p.opts EXCEPT !.dep = [i \in DOMAIN @ |-> Canonical(u, @[i])]]
    IN
    IF p.opts.err \/ p.opts.nil THEN p
    ELSE [p EXCEPT !.key = key,
                   !.opts = IF u.fillDefault THEN opts ELSE InContext(opts, key, on)]

\* The options of a field's tag.
TagOptions(tagKey, f) ==
    IF TagText(tagKey, f) = <<>> THEN NoOptions ELSE DoParseKeyAndOptions(TagText(tagKey, f)).opts

\* Mutant: the canonical key goes into the options that the cache shares.
ParseOptionsInPlace(u, m, f, n) ==
    LET p == ParseKeyAndOptions(m, u.key, f)
        q == InContextOf(u, p, DOMAIN m.heap[n.current.id])
        opts == [p.opts EXCEPT !.dep = [i \in DOMAIN @ |-> Canonical(u, @[i])]]
    IN
    IF p.opts.err \/ p.opts.nil THEN p
    ELSE [q EXCEPT !.m.options[TagText(u.key, f)].opts = opts]

\* parseOptionsWithContext: n is always a simpleValuer of the map at hand.
ParseOptionsWithContext(u, m, f, n) ==
    InContextOf(u, ParseKeyAndOptions(m, u.key, f), DOMAIN m.heap[n.current.id])

UsingDifferentKeys(tagKey, f) == DOMAIN f.tags # {} /\ tagKey \notin DOMAIN f.tags

-----------------------------------------------------------------------------
(* Scalars *)

\* convertTypeFromString
FromText(kind, text) ==
    CASE kind = "bool" /\ text \in {<<"true">>, <<"1">>} -> <<[k |-> "bool", b |-> TRUE]>>
      [] kind = "bool" /\ text \in {<<"false">>, <<"0">>} -> <<[k |-> "bool", b |-> FALSE]>>
      [] kind = "int8" /\ IsNumber(text) /\ Number[text[1]] \in -128 .. 127 -> <<IntOf(Number[text[1]])>>
      [] kind = "int64" /\ IsNumber(text) -> <<IntOf(Number[text[1]])>>
      [] kind = "string" -> <<[k |-> "str", t |-> text]>>
      [] OTHER -> <<>>

\* fillDurationValue
DurationOf(text) ==
    IF Len(text) = 1 /\ text[1] \in DOMAIN Duration THEN <<IntOf(Duration[text[1]])>> ELSE <<>>

\* lang.Repr of a scalar.
Repr(v) == IF v.k = "bool" THEN IF v.b THEN <<"true">> ELSE <<"false">> ELSE v.t

\* validateValueInOptions
InOptions(text, opts) == opts.options = <<>> \/ text \in Range(opts.options)
\* validateJsonNumberRange
NumberInRange(text, opts) ==
    opts.range = <<>> \/ (IsNumber(text) /\ InRange(Number[text[1]], opts.range[1]))

\* processFieldPrimitiveWithJSONNumber
WithJSONNumber(m, t, text, opts) ==
    IF NumberInRange(text, opts) /\ InOptions(text, opts) /\ Kind(Deref(t)) \in {"int8", "int64"}
    THEN Set(m, FromText(Kind(Deref(t)), text)) ELSE Err(m)

\* processFieldPrimitive and fillWithSameType; a range fits no string and no bool.
WithPrimitive(m, t, v, opts) ==
    IF v.k = "num" THEN WithJSONNumber(m, t, v.t, opts)
    ELSE IF /\ \/ v.k = "str" /\ Deref(t).k = "string"
               \/ v.k = "bool" /\ Deref(t).k = "bool"
            /\ InOptions(Repr(v), opts) /\ opts.range = <<>>
    THEN Done(m, v) ELSE Err(m)

\* processNamedFieldWithValueFromString and fillPrimitive; of what a string
\* stands for only a number fits a range.
WithValueFromString(m, t, v, opts) ==
    IF /\ v.k \in {"num", "str"}
       /\ InOptions(v.t, opts) /\ NumberInRange(v.t, opts)
       /\ opts.range # <<>> => v.k = "num" \/ Kind(Deref(t)) \in {"int8", "int64"}
    THEN Set(m, FromText(Kind(Deref(t)), v.t)) ELSE Err(m)

\* processFieldWithEnvValue: an int64 is taken for a duration, which it cannot hold.
WithEnvValue(m, t, text, opts) ==
    IF ~InOptions(text, opts) THEN Err(m)
    ELSE IF t.k \in {"bool", "string"} THEN Set(m, FromText(t.k, text))
    ELSE IF t.k = "int64" /\ DurationOf(text) # <<>> THEN Boom(m)
    ELSE IF Kind(t) = "int64" THEN Set(m, DurationOf(text))
    ELSE WithJSONNumber(m, t, text, opts)

-----------------------------------------------------------------------------
(* Slices, maps and structs *)

RECURSIVE Fill(_, _, _, _), Fields(_, _, _, _)

\* The elements of l in turn, by Elem, up to the first that fails.
EachElement(Elem(_, _), m, l) ==
    FoldLeft(LAMBDA acc, x :
                IF acc.err # "none" THEN acc
                ELSE LET r == Elem(acc.m, x)
                     IN [r EXCEPT !.v = [k |-> "list", l |-> Append(acc.v.l, r.v)]],
             Done(m, [k |-> "list", l |-> <<>>]), l)

\* fillSliceValue
FillSliceValue(u, m, t, kind, v) ==
    CASE v.k \in {"num", "str"} -> Set(m, FromText(kind, v.t))
      [] v.k = "map" /\ Deref(t).k \in {"struct", "map"} -> Fill(u, m, t, v)
      [] v.k \in {"bool", "list"} /\ Deref(t).k = "any" -> Done(m, v)
      [] v.k = "bool" /\ Deref(t).k = "bool" -> Done(m, v)
      [] OTHER -> Err(m)

FillSlice(u, m, t, v) ==
    LET base == Deref(t.e)
        Elem(mm, x) ==
            CASE x.k = "nil" -> Done(mm, Zero)
              [] x.k # "nil" /\ base.k \in {"struct", "slice"} -> Fill(u, mm, t.e, x)
              [] OTHER -> FillSliceValue(u, mm, t.e, Kind(base), x)
    IN
    IF v.k = "nil" THEN Boom(m)
    ELSE IF v.k # "list" THEN Err(m)
    ELSE IF v = NilList \/ (v.l # <<>> /\ \A i \in DOMAIN v.l : v.l[i] = Nil)
    THEN Done(m, Zero)
    ELSE EachElement(Elem, m, v.l)

\* A text is decoded and its maps are put below the root.
Decode(m, text, root) ==
    [m EXCEPT !.heap = Nodes(Json[text], root \o text) @@ @]

FillSliceFromString(u, m, t, text) ==
    IF text \notin DOMAIN Json \/ Json[text].k # "list" THEN Err(m)
    ELSE EachElement(LAMBDA mm, x : FillSliceValue(u, mm, t.e, Kind(t.e), x),
                     Decode(m, text, <<"text">>), Graft(Json[text], <<"text">> \o text).l)

\* jsonx.UnmarshalFromString into the field itself: a map of its own.
FillMapFromString(m, text) ==
    IF text \in DOMAIN Json /\ Json[text].k = "obj" THEN Done(m, Json[text]) ELSE Err(m)

\* The default of a slice as it is parsed for an element kind, if it can be. No
\* strings are a slice that is nil.
ParseDefault(kind, text) ==
    IF kind = "string"
    THEN LET segs == ParseGroupedSegments(text)
         IN IF segs = <<>> THEN <<NilList>>
            ELSE <<[k |-> "list", l |-> [i \in DOMAIN segs |-> [k |-> "str", t |-> segs[i]]]]>>
    ELSE IF text \in DOMAIN Json THEN <<Graft(Json[text], <<"default">> \o text)>>
    ELSE <<>>

\* Mutant: the last element is not cached.
FillSliceWithDefaultFront(u, m, t, text) ==
    LET parsed == ParseDefault(Kind(Deref(t.e)), text)
        fresh == IF text \in DOMAIN Json THEN Decode(m, text, <<"default">>) ELSE m
    IN
    IF text \in DOMAIN m.defaults THEN FillSlice(u, m, t, m.defaults[text])
    ELSE IF parsed = <<>> THEN Err(m)
    ELSE FillSlice(u, [fresh EXCEPT !.defaults = @ @@ (text :> [parsed[1] EXCEPT !.l = IF @ = <<>> THEN @ ELSE Front(@)])],
                   t, parsed[1])

\* fillSliceWithDefault: the cache is by the text alone.
FillSliceWithDefault(u, m, t, text) ==
    LET parsed == ParseDefault(Kind(Deref(t.e)), text)
        fresh == IF text \in DOMAIN Json THEN Decode(m, text, <<"default">>) ELSE m
    IN
    IF text \in DOMAIN m.defaults THEN FillSlice(u, m, t, m.defaults[text])
    ELSE IF parsed = <<>> THEN Err(m)
    ELSE FillSlice(u, [fresh EXCEPT !.defaults = @ @@ (text :> parsed[1])], t, parsed[1])

\* generateMap: a map of any is taken over as it is. A scalar does not fit a
\* map of pointers. Of several entries that fail any may be the first.
GenerateMap(u, m, e, v) ==
    LET base == Deref(e)
        Plain(mm, found) == IF found # <<>> /\ e.k = "ptr" THEN Boom(mm) ELSE Set(mm, found)
        Entry(mm, x) ==
            CASE base.k \in {"slice", "struct"} -> Fill(u, mm, e, x)
              [] base.k = "map" /\ x.k = "map" -> Fill(u, mm, e, x)
              [] base.k \in Scalars /\ x.k = "num" -> Plain(mm, FromText(Kind(base), x.t))
              [] base.k \in Scalars /\ x.k = "str" /\ base.k = "string" -> Plain(mm, <<x>>)
              [] base.k \in Scalars /\ x.k = "bool" /\ base.k = "bool" -> Plain(mm, <<x>>)
              [] OTHER -> Err(mm)
    IN
    IF e.k = "any" THEN Done(m, v)
    ELSE FoldSet(LAMBDA key, acc :
                    IF acc.err # "none" THEN acc
                    ELSE LET r == Entry(acc.m, m.heap[v.id][key])
                         IN [r EXCEPT !.v = [k |-> "obj", f |-> acc.v.f @@ (key :> r.v)]],
                 Done(m, [k |-> "obj", f |-> <<>>]), DOMAIN m.heap[v.id])

\* A part of a list or a map that has parts itself; a struct in it has no parent.
Fill(u, m, t, v) ==
    LET d == Deref(t) IN
    CASE d.k = "struct" /\ v.k = "map" -> Fields(u, m, d.fs, SimpleValuer(MapValuer(v.id), NoValuer))
      [] d.k = "struct" /\ v.k # "map" -> Err(m)
      [] d.k = "slice" -> FillSlice(u, m, d, v)
      [] d.k = "map" -> GenerateMap(u, m, d.e, v)

\* processFieldNotFromString; a number is a string to it.
NotFromString(u, m, t, v, parent, opts) ==
    LET d == Deref(t)
        textual == v.k \in {"num", "str"}
    IN
    IF v.k = "map" /\ d.k = "struct" THEN Fields(u, m, d.fs, SimpleValuer(MapValuer(v.id), parent))
    ELSE IF v.k = "list" /\ d.k = "slice" THEN FillSlice(u, m, d, v)
    ELSE IF v.k = "map" /\ d.k = "map" THEN GenerateMap(u, m, d.e, v)
    ELSE IF textual /\ d.k = "map" THEN FillMapFromString(m, v.t)
    ELSE IF textual /\ d.k = "slice" THEN FillSliceFromString(u, m, d, v.t)
    ELSE IF v.k = "num" /\ d.k = "duration" THEN Boom(m)
    ELSE IF v.k = "str" /\ d.k = "duration" THEN Set(m, DurationOf(v.t))
    ELSE WithPrimitive(m, t, v, opts)

-----------------------------------------------------------------------------
(* Fields *)

\* The first field that decides does.
FirstVerdict(verdicts) ==
    LET first == SelectInSeq(verdicts, LAMBDA v : v # "no")
    IN IF first = 0 THEN "no" ELSE verdicts[first]

RECURSIVE ImplicitValueRequired(_, _)
\* Mutant: what hangs on the absence of another field counts as optional.
ImplicitValueRequiredPlain(tagKey, fs) ==
    LET Verdict(f, opts) ==
            IF UsingDifferentKeys(tagKey, f) THEN "yes"
            ELSE IF opts.err THEN "error"
            ELSE IF opts.nil
            THEN IF f.t.k = "struct" THEN ImplicitValueRequired(tagKey, f.t.fs) ELSE "yes"
            ELSE IF ~opts.optional /\ opts.default = <<>> THEN "yes" ELSE "no"
    IN FirstVerdict([i \in DOMAIN fs |-> Verdict(fs[i], TagOptions(tagKey, fs[i]))])

\* implicitValueRequiredStruct: "yes", "no" or "error", by the first field that decides.
ImplicitValueRequired(tagKey, fs) ==
    LET Verdict(f, opts) ==
            IF UsingDifferentKeys(tagKey, f) THEN "yes"
            ELSE IF opts.err THEN "error"
            ELSE IF opts.nil
            THEN IF f.t.k = "struct" THEN ImplicitValueRequired(tagKey, f.t.fs) ELSE "yes"
            ELSE IF \/ ~opts.optional /\ opts.default = <<>>
                    \/ opts.dep # <<>> /\ opts.dep[1] = "!"
            THEN "yes" ELSE "no"
    IN FirstVerdict([i \in DOMAIN fs |-> Verdict(fs[i], TagOptions(tagKey, fs[i]))])

EmptyMap == <<"emptyMap">>
TheEmptyMap == [k |-> "map", id |-> EmptyMap]

\* structRequiredCache: the verdict about a struct, once there is one.
Judge(tagKey, m, d) ==
    IF d \in DOMAIN m.required THEN m
    ELSE [m EXCEPT !.required = @ @@ (d :> ImplicitValueRequired(tagKey, d.fs))]

ImplicitlyRequired(m, d) == d.k = "struct" /\ m.required[d] # "no"

WithDefault(u, m, d, text) ==
    CASE d.k = "duration" -> Set(m, DurationOf(text))
      [] d.k = "slice" -> FillSliceWithDefault(u, m, d, text)
      [] OTHER -> Set(m, FromText(Kind(d), text))

\* What is required and missing is read from the package's emptyMap, if it can be.
FromEmptyMap(u, m, t, opts) ==
    IF ~u.fillDefault /\ ImplicitlyRequired(m, Deref(t)) THEN Err(m)
    ELSE NotFromString(u, m, t, TheEmptyMap, NoValuer, opts)

\* Mutant: a struct all of whose fields are required is left out like an optional one.
WithoutValueLenient(u, m, t, opts) ==
    IF opts.default # <<>> THEN WithDefault(u, m, Deref(t), opts.default)
    ELSE IF opts.optional \/ Deref(t).k = "struct" THEN Done(m, Zero)
    ELSE IF Deref(t).k \in Scalars THEN Err(m)
    ELSE NotFromString(u, m, t, TheEmptyMap, NoValuer, opts)

\* processNamedFieldWithoutValue
WithoutValue(u, m, t, opts) ==
    LET d == Deref(t) IN
    IF opts.default # <<>> THEN WithDefault(u, m, d, opts.default)
    ELSE IF u.fillDefault /\ t.k # "struct" THEN Done(m, Zero)
    ELSE IF opts.optional /\ ~u.fillDefault THEN Done(m, Zero)
    ELSE IF d.k \in Scalars THEN Err(m)
    ELSE FromEmptyMap(u, IF d.k = "struct" /\ ~u.fillDefault THEN Judge(u.key, m, d) ELSE m,
                      t, opts)

\* processNamedFieldWithValue; no type in use is an encoding.TextUnmarshaler.
WithValue(u, m, t, v, parent, opts) ==
    IF v = Nil THEN IF opts.optional THEN Done(m, Zero) ELSE Err(m)
    ELSE IF Deref(t).k \in Scalars /\ (u.fromString \/ opts.fromString)
    THEN WithValueFromString(m, t, v, opts)
    ELSE NotFromString(u, m, t, v, parent, opts)

\* processNamedField, of the key and options p.
NamedFieldOf(u, f, n, p) ==
    LET opts == p.opts
        \* createValuer
        valuer == IF opts.inherit THEN RecursiveValuer(n, Parent(n)) ELSE SimpleValuer(n, Parent(n))
        got == GetValue(p.m.heap, valuer, Canonical(u, p.key), u.opaque)
        mm == [p.m EXCEPT !.heap = got.h]
        unwraps == u.fromArray /\ f.t.k # "slice"
        v == IF unwraps /\ got.v.k = "list" /\ got.v.l # <<>> THEN got.v.l[1] ELSE got.v
    IN
    IF opts.err THEN Err(p.m)
    ELSE IF p.key = "-" THEN Done(p.m, Zero)
    ELSE IF opts.env \in DOMAIN Env THEN WithEnvValue(p.m, f.t, Env[opts.env], opts)
    ELSE IF u.fillDefault \/ ~got.ok THEN WithoutValue(u, mm, f.t, opts)
    ELSE IF unwraps /\ got.v = Nil THEN Boom(mm)
    ELSE WithValue(u, mm, f.t, v, valuer, opts)

NamedField(u, m, f, n) ==
    IF f.exported THEN NamedFieldOf(u, f, n, ParseOptionsWithContext(u, m, f, n))
                  ELSE Done(m, Zero)

\* What the fields before came to, and one more if it has a value.
AndSubField(u, all, f, n, p) ==
    LET got == GetValue(p.m.heap, n, p.key, u.opaque)
        mm == [p.m EXCEPT !.heap = got.h]
        With(r) == [m |-> r.m, err |-> r.err, f |-> all.f @@ r.v.f,
                    filled |-> all.filled \/ got.ok,
                    missing |-> all.missing \/ (~p.opts.optional /\ ~got.ok)]
    IN
    IF p.opts.err THEN [all EXCEPT !.err = "error"]
    ELSE With(IF got.ok THEN Fields(u, mm, <<f>>, n)
                        ELSE Done(mm, [k |-> "struct", f |-> f.name :> Zero]))

RECURSIVE SubFields(_, _, _, _)
SubFields(u, m, fs, n) ==
    LET And(all) == IF all.err # "none" THEN all
                    ELSE AndSubField(u, all, Last(fs), n,
                                     ParseOptionsWithContext(u, all.m, Last(fs), n))
    IN IF fs = <<>> THEN [m |-> m, err |-> "none", f |-> <<>>, filled |-> FALSE, missing |-> FALSE]
       ELSE And(SubFields(u, m, Front(fs), n))

\* processAnonymousStructFieldOptional: only the fields that have a value are
\* processed, and then no required one may be missing.
AnonymousOptional(u, m, fs, n) ==
    LET AllOrNothing(all) ==
            CASE all.err = "none" /\ all.filled /\ all.missing -> Err(all.m)
              [] all.err = "none" /\ ~all.filled -> Done(all.m, Zero)
              [] OTHER -> [m |-> all.m, err |-> all.err, v |-> [k |-> "struct", f |-> all.f]]
    IN AllOrNothing(SubFields(u, m, fs, n))

\* processAnonymousField; an anonymous struct shares the map.
AnonymousField(u, f, n, p) ==
    LET d == Deref(f.t) IN
    IF p.opts.err THEN Err(p.m)
    ELSE IF p.key = "-" THEN Done(p.m, Zero)
    ELSE IF d.k # "struct" THEN NamedField(u, p.m, f, n)
    ELSE IF p.opts.optional THEN AnonymousOptional(u, p.m, d.fs, n)
    ELSE Fields(u, p.m, d.fs, n)

\* processField
Field(u, m, f, n) ==
    IF UsingDifferentKeys(u.key, f) THEN Done(m, Zero)
    ELSE IF f.anonymous THEN AnonymousField(u, f, n, ParseOptionsWithContext(u, m, f, n))
    ELSE NamedField(u, m, f, n)

\* What the fields before came to, and one more, up to the first that fails.
AndField(u, before, f, n) ==
    LET Joined(r) == [r EXCEPT !.v = [before.v EXCEPT !.f = @ @@ (f.name :> r.v)]]
    IN IF before.err # "none" THEN before ELSE Joined(Field(u, before.m, f, n))

\* unmarshalWithFullName: the fields in turn.
Fields(u, m, fs, n) ==
    IF fs = <<>> THEN Done(m, [k |-> "struct", f |-> <<>>])
    ELSE AndField(u, Fields(u, m, Front(fs), n), Last(fs), n)

\* unmarshal
Unmarshal(u, m, t, v) ==
    CASE v.k = "map" /\ t.k = "struct" -> Fill(u, m, t, v)
      [] v.k = "list" /\ t.k = "slice" -> Fill(u, m, t, v)
      [] OTHER -> Err(m)
=============================================================================
