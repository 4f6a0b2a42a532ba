--------------------------- MODULE DocumentMeaning ---------------------------
(***************************************************************************)
(* What a document means for a type: a reference for core/mapping and      *)
(* core/conf without caches, shared maps and an order of fields.           *)
(***************************************************************************)
EXTENDS Mapping

\* For what is required and not there.
Missing == [k |-> "missing"]

\* The key and the options of a field.
OptionsOf(tagKey, f) ==
    IF TagText(tagKey, f) = <<>> THEN [key |-> f.name, opts |-> NoOptions]
    ELSE [DoParseKeyAndOptions(TagText(tagKey, f)) EXCEPT !.key = IF @ = <<>> THEN f.name ELSE @[1]]

\* The options o as they apply beside the other keys of a map.
OptionsAt(u, o, entries) ==
    IF u.fillDefault THEN o.opts
    ELSE InContext([o.opts EXCEPT !.dep = [i \in DOMAIN @ |-> Canonical(u, @[i])]],
                   Canonical(u, o.key), {Canonical(u, k) : k \in DOMAIN entries})

RECURSIVE LookUp(_, _, _), LookUpPath(_, _, _, _)
\* A key in the innermost of the maps that has it; a map found there is
\* completed by those further out. One value, or none.
LookUp(u, stack, key) ==
    IF stack = <<>> THEN <<>>
    ELSE LET from == {k \in DOMAIN stack[1] : Canonical(u, k) = Canonical(u, key)}
             own == stack[1][CHOOSE k \in from : TRUE]
             outer == LookUp(u, Tail(stack), key)
         IN IF from = {} THEN outer
            ELSE IF own.k = "obj" /\ outer # <<>> /\ outer[1].k = "obj"
            THEN <<[own EXCEPT !.f = @ @@ outer[1].f]>>
            ELSE <<own>>

\* A key with dots is followed inwards; from its second part on all maps count.
LookUpPath(u, where, stack, path) ==
    LET first == LookUp(u, where, path[1])
        inner == <<first[1].f>> \o stack
    IN
    IF Len(path) = 1 \/ first = <<>> THEN first
    ELSE IF first[1].k = "obj" THEN LookUpPath(u, inner, inner, Tail(path)) ELSE <<>>

RECURSIVE Meaning(_, _, _, _), StructMeaning(_, _, _)

\* A list of nothing but nil leaves a slice as it was.
ListMeaning(u, t, l) ==
    IF l # <<>> /\ \A i \in DOMAIN l : l[i] = Nil THEN Zero
    ELSE [k |-> "list", l |-> [i \in DOMAIN l |->
            IF l[i] = Nil THEN Zero ELSE Meaning(u, t.e, l[i], <<>>)]]

\* A value for a type, inside the maps of the stack.
Meaning(u, t, v, stack) ==
    LET d == Deref(t)
        decoded == IF v.k \in {"num", "str"} THEN Json[v.t] ELSE v
    IN
    CASE d.k = "struct" -> StructMeaning(u, d.fs, <<v.f>> \o stack)
      [] d.k = "slice" -> ListMeaning(u, d, decoded.l)
      [] d.k = "map" ->
            [k |-> "obj", f |-> [key \in DOMAIN decoded.f |-> Meaning(u, d.e, decoded.f[key], <<>>)]]
      [] d.k # "any" /\ v.k \in {"num", "str"} -> FromText(Kind(d), v.t)[1]
      [] OTHER -> v

DefaultMeaning(u, t, text) ==
    LET segs == ParseGroupedSegments(text)
        strings == [i \in DOMAIN segs |-> [k |-> "str", t |-> segs[i]]]
    IN
    CASE t.k = "duration" -> DurationOf(text)[1]
      [] t.k = "slice" /\ Deref(t.e).k = "string" /\ segs = <<>> -> Zero
      [] t.k = "slice" /\ Deref(t.e).k = "string" /\ segs # <<>> -> ListMeaning(u, t, strings)
      [] t.k = "slice" /\ Deref(t.e).k # "string" -> ListMeaning(u, t, Json[text].l)
      [] OTHER -> FromText(Kind(t), text)[1]

\* A field that no map mentions.
AbsentMeaning(u, f, opts) ==
    LET d == Deref(f.t)
        needed == ~u.fillDefault /\ ~opts.optional
    IN
    IF opts.default # <<>> THEN DefaultMeaning(u, d, opts.default)
    ELSE IF d.k = "struct" /\ (needed \/ (u.fillDefault /\ f.t.k = "struct")) THEN StructMeaning(u, d.fs, << <<>> >>)
    ELSE IF ~needed THEN Zero
    ELSE IF d.k = "map" THEN [k |-> "obj", f |-> <<>>]
    ELSE Missing

EnvMeaning(t, text) ==
    IF t.k = "duration" THEN DurationOf(text)[1] ELSE FromText(Kind(Deref(t)), text)[1]

\* A field that is given a value, which may be wrapped in a list.
GivenMeaning(u, f, opts, given, stack) ==
    LET d == Deref(f.t)
        v == IF u.fromArray /\ d.k # "slice" /\ given.k = "list" THEN given.l[1] ELSE given
    IN
    IF v = Nil THEN Zero
    ELSE IF d.k = "duration" /\ ~u.fromString /\ ~opts.fromString THEN DurationOf(v.t)[1]
    ELSE Meaning(u, f.t, v, stack)

\* A field with the key and the options that apply to it.
NamedMeaning(u, f, key, opts, stack) ==
    LET path == IF key \in DOMAIN KeyPath /\ ~u.opaque THEN KeyPath[key] ELSE <<key>>
        given == LookUpPath(u, IF opts.inherit THEN stack ELSE <<stack[1]>>, stack, path)
    IN
    IF key = "-" THEN Zero
    ELSE IF opts.env \in DOMAIN Env THEN EnvMeaning(f.t, Env[opts.env])
    ELSE IF u.fillDefault \/ given = <<>> THEN AbsentMeaning(u, f, opts)
    ELSE GivenMeaning(u, f, opts, given[1], stack)

FieldMeaning(u, f, o, stack) ==
    IF ~f.exported \/ UsingDifferentKeys(u.key, f) THEN Zero
    ELSE IF f.anonymous /\ Deref(f.t).k = "struct" /\ o.key # "-"
    THEN StructMeaning(u, Deref(f.t).fs, stack)
    ELSE NamedMeaning(u, f, o.key, OptionsAt(u, o, stack[1]), stack)

StructMeaning(u, fs, stack) ==
    [k |-> "struct",
     f |-> [name \in {fs[i].name : i \in DOMAIN fs} |->
              LET f == fs[CHOOSE i \in DOMAIN fs : fs[i].name = name]
              IN FieldMeaning(u, f, OptionsOf(u.key, f), stack)]]

-----------------------------------------------------------------------------

RECURSIVE Sparse(_)
\* A result in which an empty list is as good as none.
Sparse(v) ==
    CASE v.k = "list" /\ v.l = <<>> -> Zero
      [] v.k = "list" /\ v.l # <<>> -> [v EXCEPT !.l = [i \in DOMAIN @ |-> Sparse(@[i])]]
      [] v.k \in {"obj", "struct"} -> [v EXCEPT !.f = [key \in DOMAIN @ |-> Sparse(@[key])]]
      [] OTHER -> v

RECURSIVE EmbedsOptional(_), SliceDefaults(_, _), Unambiguous(_), Allowed(_, _, _, _)

\* Somewhere in the type a struct is embedded that may be left out.
EmbedsOptional(t) ==
    CASE t.k \in {"ptr", "slice", "map"} -> EmbedsOptional(t.e)
      [] t.k = "struct" ->
            \E i \in DOMAIN t.fs :
               \/ EmbedsOptional(t.fs[i].t)
               \/ /\ t.fs[i].anonymous
                  /\ \E tagKey \in DOMAIN t.fs[i].tags : OptionsOf(tagKey, t.fs[i]).opts.optional
      [] OTHER -> FALSE

\* The defaults of slices in a type, with the kind of their elements.
SliceDefaults(tagKey, t) ==
    CASE t.k \in {"ptr", "slice", "map"} -> SliceDefaults(tagKey, t.e)
      [] t.k = "struct" ->
            UNION {SliceDefaults(tagKey, t.fs[i].t) : i \in DOMAIN t.fs} \cup
            {[kind |-> Kind(Deref(t.fs[i].t.e)), text |-> OptionsOf(tagKey, t.fs[i]).opts.default] :
                i \in {j \in DOMAIN t.fs : t.fs[j].t.k = "slice"}}
      [] OTHER -> {}

\* No map in a document has a key in two cases.
Unambiguous(tree) ==
    CASE tree.k = "obj" ->
            /\ \A a, b \in DOMAIN tree.f : LowerKey(a) = LowerKey(b) => a = b
            /\ \A a \in DOMAIN tree.f : Unambiguous(tree.f[a])
      [] tree.k = "list" -> \A i \in DOMAIN tree.l : Unambiguous(tree.l[i])
      [] OTHER -> TRUE

\* The values of out that the document gives itself are those its type allows.
Allowed(u, t, tree, out) ==
    LET FieldAllowed(f, o, given, value) ==
            ~f.anonymous /\ given # <<>> /\ value # Zero
                /\ o.opts.env \notin DOMAIN Env /\ ~u.fillDefault =>
            /\ value.k = "int" /\ f.t.k # "duration" /\ o.opts.range # <<>> /\ o.opts.dep = <<>> =>
                  InRange(value.n, o.opts.range[1])
            /\ given[1].k \in {"num", "str", "bool"} /\ Deref(f.t).k \in Scalars =>
                  InOptions(Repr(given[1]), o.opts)
            /\ Allowed(u, f.t, given[1], value)
        FieldOf(f, o) == FieldAllowed(f, o, LookUp(u, <<tree.f>>, o.key), out.f[f.name])
    IN
    t.k = "struct" /\ tree.k = "obj" =>
        \A i \in DOMAIN t.fs : FieldOf(t.fs[i], OptionsOf(u.key, t.fs[i]))

RECURSIVE Element(_)
\* The type at the bottom of slices, maps and pointers.
Element(t) == IF t.k \in {"ptr", "slice", "map"} THEN Element(t.e) ELSE t

RECURSIVE Places(_)
\* The keys that a struct type wants of a map, those of embedded structs among
\* them, each with the keys it wants of the value there.
Places(t) ==
    LET Inside(f, d) ==
            IF d.k = "struct" \/ (d.k = "slice" /\ ~f.anonymous)
            THEN {place.key : place \in Range(Places(Element(d)))} ELSE {}
        Of(f, d) ==
            IF ~f.exported THEN <<>>
            ELSE IF f.anonymous /\ d.k = "struct" THEN Places(d)
            ELSE <<[key |-> LowerKey(OptionsOf("json", f).key), inside |-> Inside(f, d)]>>
    IN IF t.k = "struct"
       THEN FlattenSeq([i \in DOMAIN t.fs |-> Of(t.fs[i], Deref(t.fs[i].t))]) ELSE <<>>

\* Two share a value that one of them takes as a whole, or a key inside it.
Meet(places) ==
    \E i, j \in DOMAIN places :
       /\ i # j /\ places[i].key = places[j].key
       /\ places[i].inside = {} \/ places[i].inside \cap places[j].inside # {}

RECURSIVE Clashes(_)
\* Somewhere in a type two fields of one struct meet.
Clashes(t) ==
    CASE t.k \in {"ptr", "slice", "map"} -> Clashes(t.e)
      [] t.k = "struct" ->
            \/ Meet(Places(t))
            \/ \E i \in DOMAIN t.fs :
                  /\ t.fs[i].exported
                  /\ ~(t.fs[i].anonymous /\ Deref(t.fs[i].t).k = "slice")
                  /\ Clashes(t.fs[i].t)
      [] OTHER -> FALSE
=============================================================================
