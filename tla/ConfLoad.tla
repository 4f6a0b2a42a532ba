------------------------------ MODULE ConfLoad ------------------------------
(***************************************************************************)
(* core/conf on top of core/mapping, and the calls of a process: documents *)
(* are unmarshalled or loaded one after the other, with the caches and the *)
(* maps that outlive a call, while callers write into the maps they got.   *)
(***************************************************************************)
EXTENDS DocumentMeaning, FiniteSets

CONSTANTS Calls,    \* calls of an unmarshaler: [u, t, doc]
          Loads,    \* files that are loaded: [yaml, t, doc]
          MaxCalls, \* bound: calls and loads
          MaxWrites \* bound: entries written by callers

VARIABLES heap, optionsCache, defaultCache,
          structRequiredCache, \* "yes", "no" or "error" for a struct type
          last,                \* the last call, with its input and its result
          calls, writes

vars == <<heap, optionsCache, defaultCache, structRequiredCache, last, calls, writes>>

-----------------------------------------------------------------------------
(* fieldInfo: the keys a struct takes. A conflict leaves nothing. *)

Leaf == [children |-> <<>>, mapField |-> <<>>]
NoKeys(info) == DOMAIN info.children = {}

\* Mutant: equal keys of merged structs are not noticed.
MergeFieldsAnyway(prev, child) ==
    IF NoKeys(prev) \/ NoKeys(child) THEN <<>>
    ELSE <<[prev EXCEPT !.children = @ @@ child.children]>>

MergeFields(prev, child) ==
    IF NoKeys(prev) \/ NoKeys(child) \/ DOMAIN prev.children \cap DOMAIN child.children # {}
    THEN <<>>
    ELSE <<[prev EXCEPT !.children = @ @@ child.children]>>

\* addOrMergeFields to what was built so far.
AddOrMergeFields(built, key, child) ==
    IF built = <<>> THEN <<>>
    ELSE LET info == built[1]
             merged == IF key \notin DOMAIN info.children THEN <<child>>
                       ELSE IF child.mapField # <<>> THEN <<>>
                       ELSE MergeFields(info.children[key], child)
         IN IF merged = <<>> THEN <<>>
            ELSE <<[info EXCEPT !.children = (key :> merged[1]) @@ @]>>

\* getTagName
TagName(f) ==
    LET tag == IF "json" \in DOMAIN f.tags THEN SplitOn(f.tags["json"], ",")[1] ELSE <<>>
    IN IF tag = <<>> THEN f.name ELSE tag[1]

RECURSIVE BuildFieldsInfo(_)

\* buildAnonymousFieldInfo: the keys of a struct go to where it is embedded.
BuildAnonymousFieldInfo(built, key, ft) ==
    LET elem == CASE ft.k = "map" -> BuildFieldsInfo(ft.e)
                  [] ft.k = "struct" -> BuildFieldsInfo(ft)
                  [] OTHER -> <<Leaf>>
    IN
    IF built = <<>> \/ elem = <<>> THEN <<>>
    ELSE IF ft.k = "struct"
    THEN FoldSet(LAMBDA k, acc : AddOrMergeFields(acc, k, elem[1].children[k]),
                 built, DOMAIN elem[1].children)
    ELSE IF key \in DOMAIN built[1].children THEN <<>>
    ELSE <<[built[1] EXCEPT !.children =
              (key :> (IF ft.k = "map" THEN [Leaf EXCEPT !.mapField = elem] ELSE Leaf)) @@ @]>>

BuildNamedFieldInfo(built, key, ft) ==
    LET elem == BuildFieldsInfo(IF ft.k \in {"slice", "map"} THEN ft.e ELSE ft) IN
    IF elem = <<>> THEN <<>>
    ELSE AddOrMergeFields(built, key,
                          IF ft.k = "map" THEN [Leaf EXCEPT !.mapField = elem] ELSE elem[1])

\* buildFieldsInfo and buildStructFieldsInfo
BuildFieldsInfo(t) ==
    LET d == Deref(t) IN
    CASE d.k = "struct" ->
            FoldLeft(LAMBDA built, f :
                        IF ~f.exported THEN built
                        ELSE IF f.anonymous
                        THEN BuildAnonymousFieldInfo(built, LowerKey(TagName(f)), Deref(f.t))
                        ELSE BuildNamedFieldInfo(built, LowerKey(TagName(f)), Deref(f.t)),
                     <<Leaf>>, d.fs)
      [] d.k \in {"slice", "map"} -> BuildFieldsInfo(d.e)
      [] OTHER -> <<Leaf>>

-----------------------------------------------------------------------------
(* Documents on their way to Unmarshal *)

RECURSIVE ToStringKeyMap(_)
\* YAML becomes JSON: what has no value becomes the empty string.
ToStringKeyMap(tree) ==
    CASE tree.k = "obj" -> [tree EXCEPT !.f = [key \in DOMAIN @ |-> ToStringKeyMap(@[key])]]
      [] tree.k = "list" -> [tree EXCEPT !.l = [i \in DOMAIN @ |-> ToStringKeyMap(@[i])]]
      [] tree.k = "nil" -> [k |-> "str", t |-> <<>>]
      [] OTHER -> tree

RECURSIVE ToLowerCase(_, _, _)

\* toLowerCaseKeyMap. When a key comes twice, in two cases, the order of Go's
\* map decides which of the two stays.
ToLowerCaseKeyMap(f, info, exactLast) ==
    LET Target(key) == IF key \notin DOMAIN info.children /\ LowerKey(key) \in DOMAIN info.children
                       THEN LowerKey(key) ELSE key
        Source(key) == LET from == {k \in DOMAIN f : Target(k) = key}
                       IN CHOOSE k \in from : from = {k} \/ (k = key) = exactLast
        Lowered(key, v) ==
            IF key \in DOMAIN info.children THEN ToLowerCase(v, info.children[key], exactLast)
            ELSE IF info.mapField # <<>> THEN ToLowerCase(v, info.mapField[1], exactLast)
            ELSE IF v.k = "obj" THEN ToLowerCase(v, info, exactLast)
            ELSE v
    IN [key \in {Target(k) : k \in DOMAIN f} |-> Lowered(key, f[Source(key)])]

\* toLowerCaseInterface: an empty list comes out as a slice that is nil.
ToLowerCase(tree, info, exactLast) ==
    CASE tree.k = "obj" -> [tree EXCEPT !.f = ToLowerCaseKeyMap(@, info, exactLast)]
      [] tree.k = "list" ->
            IF tree.l = <<>> THEN NilList
            ELSE [tree EXCEPT !.l = [i \in DOMAIN @ |-> ToLowerCase(@[i], info, exactLast)]]
      [] OTHER -> tree

-----------------------------------------------------------------------------
(* Calls *)

Init ==
    /\ heap = EmptyMap :> <<>>
    /\ optionsCache = <<>> /\ defaultCache = <<>> /\ structRequiredCache = <<>>
    /\ last = [op |-> "none", v |-> Zero]
    /\ calls = 0 /\ writes = 0

Caches(h) == [heap |-> h, options |-> optionsCache, defaults |-> defaultCache,
              required |-> structRequiredCache]

\* A call ends with r; what a failing one wrote into the target is of no use.
Return(op, u, t, doc, input, root, r) ==
    LET v == IF r.err = "none" THEN r.v ELSE Zero IN
    /\ heap' = r.m.heap
    /\ optionsCache' = r.m.options
    /\ defaultCache' = r.m.defaults
    /\ structRequiredCache' = r.m.required
    /\ last' = [op |-> op, u |-> u, t |-> t, doc |-> doc, input |-> input, root |-> root,
                err |-> r.err, v |-> v, out |-> Deep(r.m.heap, v)]
    /\ calls' = calls + 1
    /\ UNCHANGED writes

Root == <<"call", ToString(calls)>>

\* Unmarshaler.Unmarshal of a document that was decoded for it.
CallUnmarshal(c) ==
    /\ calls < MaxCalls
    /\ Return("unmarshal", c.u, c.t, c.doc, c.doc, Root,
              Unmarshal(c.u, Caches(Nodes(c.doc, Root) @@ heap), c.t, Graft(c.doc, Root)))

\* The same map once more.
CallAgain(c) ==
    /\ calls < MaxCalls
    /\ last.op = "unmarshal" /\ last.doc = c.doc
    /\ Return("unmarshal", c.u, c.t, c.doc, Deep(heap, Graft(c.doc, last.root)), last.root,
              Unmarshal(c.u, Caches(heap), c.t, Graft(c.doc, last.root)))

ConfUnmarshaler == [key |-> "json", fillDefault |-> FALSE, fromArray |-> FALSE,
                    fromString |-> FALSE, opaque |-> FALSE, lower |-> TRUE]

\* Load of a file by LoadFromJsonBytes, a YAML file by way of JSON.
Load(l, exactLast) ==
    LET doc == IF l.yaml THEN ToStringKeyMap(l.doc) ELSE l.doc
        info == BuildFieldsInfo(l.t)
        input == IF info = <<>> THEN doc ELSE ToLowerCase(doc, info[1], exactLast)
    IN
    /\ calls < MaxCalls
    /\ Return("load", ConfUnmarshaler, l.t, doc, input, Root,
              IF info = <<>> THEN [Err(Caches(heap)) EXCEPT !.err = "conflict"]
              ELSE Unmarshal(ConfUnmarshaler, Caches(Nodes(input, Root) @@ heap), l.t,
                             Graft(input, Root)))

\* A caller writes into a map of its result.
Write(id) ==
    /\ writes < MaxWrites /\ id \in Ids(last.v)
    /\ heap' = [heap EXCEPT ![id] = ("written" :> [k |-> "num", t |-> <<"1">>]) @@ @]
    /\ writes' = writes + 1
    /\ UNCHANGED <<optionsCache, defaultCache, structRequiredCache, last, calls>>

Next ==
    \/ \E c \in Calls : CallUnmarshal(c) \/ CallAgain(c)
    \/ \E l \in Loads, exactLast \in BOOLEAN : Load(l, exactLast)
    \/ \E id \in DOMAIN heap : Write(id)

Spec == Init /\ [][Next]_vars

-----------------------------------------------------------------------------
(* Properties *)

\* Whatever refers to a map refers to one that is there, and what the cache of
\* options holds is what the text of the tag says.
TypeOK ==
    /\ \A id \in DOMAIN heap : \A key \in DOMAIN heap[id] : Ids(heap[id][key]) \subseteq DOMAIN heap
    /\ \A text \in DOMAIN defaultCache : Ids(defaultCache[text]) \subseteq DOMAIN heap
    /\ Ids(last.v) \subseteq DOMAIN heap
    /\ \A text \in DOMAIN optionsCache : optionsCache[text] = DoParseKeyAndOptions(text)
    /\ \A d \in DOMAIN structRequiredCache : structRequiredCache[d] \in {"yes", "no", "error"}
    /\ calls \in 0 .. MaxCalls /\ writes \in 0 .. MaxWrites

\* What a call can learn of earlier ones: a caller wrote into a map that the
\* package keeps; a default was cached for elements of another kind; a struct
\* was judged by the tags of another key.
Leaks ==
    \/ \E id \in DOMAIN heap : id[1] \in {"emptyMap", "default"} /\ "written" \in DOMAIN heap[id]
    \/ \E d \in SliceDefaults(last.u.key, last.t) :
          /\ d.text \in DOMAIN defaultCache
          /\ <<defaultCache[d.text]>> # ParseDefault(d.kind, d.text)
          /\ \E kind \in {"string", "any"} : <<defaultCache[d.text]>> = ParseDefault(kind, d.text)
    \/ \E d \in DOMAIN structRequiredCache :
          structRequiredCache[d] # ImplicitValueRequired(last.u.key, d.fs)

\* A call answers as it would in a process of its own, but for those leaks
\* (the caches of utils.go:37 and unmarshaler.go:33, emptyMap at :37).
CallsIndependent ==
    LET Fresh == [heap |-> EmptyMap :> <<>> @@ Nodes(last.input, Root),
                  options |-> <<>>, defaults |-> <<>>, required |-> <<>>]
        Agrees(r) == /\ last.err = r.err
                     /\ r.err = "none" => last.out = Deep(r.m.heap, r.v)
    IN last.op # "none" /\ ~Leaks /\ last.err # "conflict" =>
          Agrees(Unmarshal(last.u, Fresh, last.t, Graft(last.input, Root)))

\* A call that succeeds gives every field what the document, the environment
\* or its default says, and leaves no required one out. A load makes nil of an
\* empty list or not, depending on where in the document it is (config.go:318
\* against :342 to :347), so that to a load an empty list is as good as none.
\* Embedded structs that are optional are left out, and documents with one key
\* in two cases.
ResultFollowsInput ==
    last.op # "none" /\ last.err = "none" /\ ~Leaks /\ ~EmbedsOptional(last.t)
        /\ (last.u.lower => Unambiguous(last.doc)) =>
    IF last.op = "load"
    THEN Sparse(last.out) = Sparse(Meaning(last.u, last.t, last.doc, <<>>))
    ELSE last.out = Meaning(last.u, last.t, last.input, <<>>)

\* The maps there are when a call begins to read.
Before == IF last'.err = "conflict" \/ (calls > 0 /\ last.root = last'.root) THEN heap
          ELSE Nodes(last'.input, last'.root) @@ heap

\* No call removes or replaces an entry of a map, whoever holds it; what it adds
\* to one is in another map of the same document (valuer.go:93).
OnlyMerged ==
    [][calls' # calls =>
         \A id \in DOMAIN Before :
            /\ DOMAIN Before[id] \subseteq DOMAIN heap'[id]
            /\ \A key \in DOMAIN heap'[id] :
                  IF key \in DOMAIN Before[id] THEN heap'[id][key] = Before[id][key]
                  ELSE \E other \in DOMAIN Before :
                         /\ IsPrefix(last'.root, other)
                         /\ key \in DOMAIN Before[other] /\ Before[other][key] = heap'[id][key]]_vars

\* A number that a document gives lies in the range of its field's tag and a
\* text among its options; a range beside a condition counts for nothing
\* (fieldoptions.go:105).
ValuesAllowed ==
    last.op # "none" /\ last.err = "none" => Allowed(last.u, last.t, last.input, last.out)

\* A struct that was judged to need no value can be had from an empty map, by
\* a tag that its fields carry (utils.go:191 against processNamedFieldWithoutValue).
SkippedStructsLoad ==
    \A d \in DOMAIN structRequiredCache :
       structRequiredCache[d] = "no" =>
          \E c \in Calls :
             /\ ~c.u.fillDefault
             /\ \A i \in DOMAIN d.fs : ~UsingDifferentKeys(c.u.key, d.fs[i])
             /\ Fields(c.u, [heap |-> EmptyMap :> <<>>, options |-> <<>>, defaults |-> <<>>,
                             required |-> <<>>],
                       d.fs, SimpleValuer(MapValuer(EmptyMap), NoValuer)).err = "none"

\* A type is refused exactly when two of its fields want one key of a map in the
\* document, unless both lead to structs there that have no key in common: deeper
\* down nothing is merged (config.go:292 to :307), whatever the order of fields.
ConflictsFound ==
    last.op = "load" => (last.err = "conflict") = Clashes(last.t)
=============================================================================
