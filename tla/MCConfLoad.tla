----------------------------- MODULE MCConfLoad -----------------------------
(* An instance of ConfLoad for TLC: types as in the tests of core/mapping. *)
EXTENDS ConfLoad

MCNumber == [w \in {"0", "1", "5", "9", "200"} |->
               CASE w = "0" -> 0 [] w = "1" -> 1 [] w = "5" -> 5 [] w = "9" -> 9 [] w = "200" -> 200]
MCDuration == "5s" :> 5
MCLower == [w \in {"Host", "Port", "Sub", "HOST", "Name"} |->
              CASE w = "Host" -> "host" [] w = "HOST" -> "host" [] w = "Port" -> "port"
                [] w = "Sub" -> "sub" [] w = "Name" -> "name"]
MCKeyPath == "sub.name" :> <<"sub", "name">>
MCEnv == <<"MODE">> :> <<"5">>

N(w) == [k |-> "num", t |-> <<w>>]
S(w) == [k |-> "str", t |-> <<w>>]
B(b) == [k |-> "bool", b |-> b]
L(l) == [k |-> "list", l |-> l]
O(f) == [k |-> "obj", f |-> f]
None == O(<<>>)

Bools == <<"[", "true", ",", "false", "]">>
Objects == <<"[", "{}", "]">>
Nothing == <<"[", "]">>
MCJson == Bools :> L(<<B(TRUE), B(FALSE)>>) @@ Objects :> L(<<None>>) @@ <<"{}">> :> None @@ Nothing :> L(<<>>)

bool == [k |-> "bool"]
int8 == [k |-> "int8"]
int64 == [k |-> "int64"]
duration == [k |-> "duration"]
string == [k |-> "string"]
any == [k |-> "any"]
Ptr(t) == [k |-> "ptr", e |-> t]
Slice(t) == [k |-> "slice", e |-> t]
MapOf(t) == [k |-> "map", e |-> t]
Struct(fs) == [k |-> "struct", fs |-> fs]

Fd(name, t, tags) == [name |-> name, t |-> t, tags |-> tags, anonymous |-> FALSE, exported |-> TRUE]
Embed(name, t, tags) == [Fd(name, t, tags) EXCEPT !.anonymous = TRUE]
J(text) == "json" :> text
F(text) == "form" :> text

Json0 == [key |-> "json", fillDefault |-> FALSE, fromArray |-> FALSE, fromString |-> FALSE,
          opaque |-> FALSE, lower |-> FALSE]
Form0 == [Json0 EXCEPT !.key = "form", !.fromArray = TRUE, !.fromString = TRUE]
Fill0 == [Json0 EXCEPT !.fillDefault = TRUE]
Opaque0 == [Json0 EXCEPT !.opaque = TRUE]

-----------------------------------------------------------------------------
(* Types and their documents *)

Flat == Struct(<<Fd("Host", string, J(<<"host">>)),
                 Fd("Port", int8, J(<<"port", ",", "default", "=", "5", ",", "range", "=", "[", "1", ":", "9", ")">>)),
                 Fd("Mode", string, J(<<"mode", ",", "optional", ",", "options", "=", "[", "a", ",", "b", "]">>))>>)
FlatDocs == {O("host" :> S("a") @@ f) : f \in
               {<<>>, "port" :> N("1"), "port" :> N("9"), "port" :> N("200"), "mode" :> S("b"),
                "mode" :> S("c"), "mode" :> Nil, "port" :> S("5")}} \cup {None}

\* A condition between two fields, in keys that Load lower-cases.
Dep == Struct(<<Fd("Host", string, J(<<",", "optional">>)),
                Fd("Port", int8, J(<<",", "optional", "=", "Host", ",", "range", "=", "[", "1", ":", "5", "]">>)),
                Fd("Ttl", Ptr(duration), J(<<"ttl", ",", "optional", "=", "!", "Host">>))>>)
DepDocs == {O([key \in keys |-> CASE key = "ttl" -> S("5s") [] key = "Host" -> S("a") [] OTHER -> N("9")]) :
              keys \in SUBSET {"Host", "Port", "ttl"}}

\* The same struct, left out.
DepIn == Struct(<<Fd("In", Dep, J(<<"in">>))>>)

\* A struct in a struct that inherits, and a key with a dot.
Inner == Struct(<<Fd("Name", string, J(<<"name", ",", "inherit">>)),
                  Fd("Size", int64, J(<<"size", ",", "default", "=", "5">>))>>)
Nest == Struct(<<Fd("Sub", Inner, J(<<"sub", ",", "optional">>)),
                 Fd("Far", Struct(<<Fd("Sub", Inner, J(<<"sub", ",", "inherit">>))>>), J(<<"far", ",", "optional">>)),
                 Fd("Dot", string, J(<<"sub.name", ",", "optional">>))>>)
NestDocs == {O(f @@ g) : f \in {<<>>, "name" :> S("a")},
                         g \in {"sub" :> None, "sub" :> O("name" :> S("b")),
                                "sub" :> O("name" :> S("b") @@ "size" :> N("1")) @@ "far" :> O("sub" :> None),
                                "sub" :> O("size" :> N("9")) @@ "far" :> O("sub" :> O("size" :> N("1")))}}

\* Maps, taken over and converted, and lists.
Maps == Struct(<<Fd("Any", MapOf(any), J(<<"any">>)),
                 Fd("Typed", MapOf(Slice(int8)), J(<<"typed", ",", "optional">>)),
                 Fd("Subs", Slice(Flat), J(<<"subs", ",", "optional">>))>>)
MapsDocs == {None, O("any" :> O("Host" :> N("1"))), O("any" :> O("x" :> S("a")) @@ "typed" :> O("x" :> L(<<N("1"), Nil>>))),
             O("typed" :> O("x" :> Nil)), O("subs" :> L(<<O("host" :> S("a")), Nil, O("host" :> S("b") @@ "port" :> N("1"))>>)),
             O("subs" :> L(<<Nil>>)), O("typed" :> O("x" :> L(<<N("200")>>))),
             O("subs" :> L(<<>>)), O("typed" :> O("x" :> L(<<>>))),
             O("any" :> O("x" :> L(<<>>) @@ "y" :> O("x" :> L(<<>>))) @@ "subs" :> L(<<>>))}

\* Defaults of lists, one text for three kinds of elements.
Text(t) == <<"x", ",", "default", "=">> \o t
BoolsT == Struct(<<Fd("X", Slice(bool), J(Text(Bools)))>>)
StringsT == Struct(<<Fd("X", Slice(string), J(Text(Bools)))>>)
MapsT == Struct(<<Fd("X", Slice(MapOf(any)), J(Text(Objects)))>>)
NoBoolsT == Struct(<<Fd("X", Slice(Ptr(bool)), J(Text(Nothing)))>>)
NoStringsT == Struct(<<Fd("X", Slice(Ptr(string)), J(Text(Nothing)))>>)
ListDocs == {None, O("x" :> [k |-> "str", t |-> Bools])}
NoListDocs == {None, O("x" :> [k |-> "str", t |-> Nothing]), O("x" :> L(<<>>)), O("x" :> L(<<Nil>>))}

\* One struct under two keys, and fields without tags.
Opt == Struct(<<Fd("A", string, J(<<"a", ",", "optional">>) @@ F(<<"a">>)),
                Fd("B", bool, J(<<",", "default", "=", "true">>) @@ F(<<"b", ",", "optional", "=", "!", "a">>))>>)
Both == Struct(<<Fd("O", Opt, J(<<"o">>) @@ F(<<"o">>)),
                 Fd("M", int8, J(<<"m", ",", "env", "=", "MODE">>) @@ F(<<"m", ",", "string">>)),
                Fd("P", Ptr(Opt), J(<<"p">>) @@ F(<<"p", ",", "optional">>)),
                Fd("Once", bool, J(<<"once", ",", "optional">>) @@
                                 F(<<"once", ",", "optional", ",", "range", "=", "[", "0", ":", "5", "]">>)),
                 [Fd("hidden", string, <<>>) EXCEPT !.exported = FALSE],
                 Fd("Ignored", string, J(<<"-">>) @@ F(<<"-">>))>>)
BothDocs == {None, O("m" :> N("1")), O("o" :> O("a" :> S("a")) @@ "m" :> L(<<S("9"), S("5")>>)), O("m" :> L(<<Nil>>))} \cup
            {O("o" :> O("a" :> S("a")) @@ "m" :> L(<<>>)),
             O("o" :> O("a" :> S("a")) @@ "m" :> N("1") @@ "once" :> S("1")),
             O("o" :> O("a" :> S("a")) @@ "m" :> N("1") @@ "once" :> N("1"))}

\* Embedded structs.
Base == Struct(<<Fd("Host", string, J(<<"host">>)), Fd("Port", int8, J(<<"port", ",", "default", "=", "5">>))>>)
Embeds == Struct(<<Embed("Base", Base, <<>>), Fd("Sub", Ptr(Base), J(<<"Sub", ",", "optional">>))>>)
EmbedsOpt == Struct(<<Embed("Base", Ptr(Base), J(<<",", "optional">>)), Fd("Name", string, J(<<"name", ",", "optional">>))>>)
EmbedDocs == {O(f) : f \in {<<>>, "host" :> S("a"), "port" :> N("1"), "Host" :> S("a") @@ "PORT" :> N("1"),
                            "host" :> S("a") @@ "HOST" :> S("b"), "host" :> S("a") @@ "Sub" :> O("Host" :> S("b"))}}

MCCalls ==
    {[u |-> Json0, t |-> Flat, doc |-> d] : d \in FlatDocs} \cup
    {[u |-> Json0, t |-> Dep, doc |-> d] : d \in DepDocs} \cup
    {[u |-> Json0, t |-> DepIn, doc |-> None]} \cup
    {[u |-> Json0, t |-> Nest, doc |-> d] : d \in NestDocs} \cup
    {[u |-> Opaque0, t |-> Nest, doc |-> d] : d \in {O("sub" :> None @@ "sub.name" :> S("b") @@ "name" :> S("a"))}} \cup
    {[u |-> Json0, t |-> Maps, doc |-> d] : d \in MapsDocs} \cup
    {[u |-> u, t |-> t, doc |-> d] : u \in {Json0, Fill0}, t \in {BoolsT, StringsT, MapsT}, d \in ListDocs} \cup
    {[u |-> u, t |-> t, doc |-> d] : u \in {Json0, Fill0}, t \in {NoBoolsT, NoStringsT}, d \in NoListDocs} \cup
    {[u |-> u, t |-> Both, doc |-> d] : u \in {Json0, Form0, Fill0}, d \in BothDocs} \cup
    {[u |-> Json0, t |-> t, doc |-> d] : t \in {Embeds, EmbedsOpt}, d \in EmbedDocs} \cup
    {[u |-> Json0, t |-> Slice(Flat), doc |-> L(<<d, None>>)] : d \in FlatDocs}

-----------------------------------------------------------------------------
(* What is loaded *)

\* Fields of which two make a type, among them many with one key; the last two
\* want different keys two levels below it.
Pool == <<Fd("A", string, <<>>), Fd("Host", string, J(<<"host">>)), Fd("host", MapOf(string), J(<<"Host">>)),
          Fd("B", Base, J(<<"a">>)), Fd("C", Struct(<<Fd("D", string, <<>>)>>), J(<<"a">>)),
          Embed("Base", Base, <<>>), Embed("Host", string, <<>>), Embed("A", MapOf(Base), <<>>),
          Embed("Clash", MapOf(Struct(<<Fd("A", string, <<>>), Fd("A", int8, <<>>)>>)), J(<<"clash">>)),
          Fd("E", Slice(MapOf(Base)), J(<<"a">>)),
          Embed("G", Struct(<<Fd("A", Struct(<<Fd("port", string, <<>>)>>), J(<<"a">>))>>), <<>>),
          Embed("X", Struct(<<Fd("A", Struct(<<Fd("Sub", Base, <<>>)>>), J(<<"a">>))>>), <<>>),
          Fd("Y", Struct(<<Fd("Sub", Struct(<<Fd("D", string, <<>>)>>), <<>>)>>), J(<<"a">>))>>
\* In either order where a struct or a map is embedded first or last.
PoolTypes == {Struct(<<Pool[i], Pool[j]>>) : i \in DOMAIN Pool, j \in {6, 8, 11, 12}} \cup
             {Struct(<<Pool[ij[1]], Pool[ij[2]]>>) : ij \in {p \in (DOMAIN Pool) \X (DOMAIN Pool) : p[1] <= p[2]}}

MCLoads ==
    {[yaml |-> FALSE, t |-> t, doc |-> d] : t \in {Embeds, EmbedsOpt}, d \in EmbedDocs} \cup
    {[yaml |-> FALSE, t |-> Flat, doc |-> d] : d \in FlatDocs} \cup
    {[yaml |-> TRUE, t |-> Flat, doc |-> O("host" :> S("a") @@ "mode" :> Nil)],
     [yaml |-> TRUE, t |-> Flat, doc |-> O("HOST" :> S("a") @@ "port" :> Nil)],
     [yaml |-> TRUE, t |-> Maps, doc |-> O("any" :> O("Host" :> Nil) @@ "subs" :> L(<<O("HOST" :> S("a")), Nil>>))]} \cup
    {[yaml |-> FALSE, t |-> Dep, doc |-> d] : d \in DepDocs} \cup
    {[yaml |-> FALSE, t |-> Maps, doc |-> d] : d \in MapsDocs} \cup
    {[yaml |-> FALSE, t |-> t, doc |-> d] : t \in {NoBoolsT, NoStringsT}, d \in NoListDocs} \cup
    {[yaml |-> FALSE, t |-> t, doc |-> None] : t \in PoolTypes}
=============================================================================
