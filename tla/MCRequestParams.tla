--------------------------- MODULE MCRequestParams ---------------------------
(* Small instances of RequestParams for TLC.                                *)
EXTENDS RequestParams

MCNumerals == "0" :> 0 @@ "1" :> 1 @@ "2" :> 2 @@ "7" :> 7
MCBooleans == "true" :> TRUE @@ "false" :> FALSE

Type(t)       == [Schema EXCEPT !.type = t]
ArrayOf(s)    == [Schema EXCEPT !.type = "array", !.items = s]
Object(props) == [Schema EXCEPT !.type = "object", !.properties = props]
MapOf(s)      == [Schema EXCEPT !.type = "object", !.additional = s]
AnyOf(ss)     == [Schema EXCEPT !.anyOf = ss]
Enum          == [Schema EXCEPT !.type = "string", !.enum = <<"">>]
Emptyable(s)  == AnyOf(<<s, Enum>>)

Numbers(ns) == Arr([i \in DOMAIN ns |-> Number(ns[i])])
Field(v, s) == [value |-> v, schema |-> s]

\* Objects with any of a number x, a number y and an array z of numbers.
Item == Object("x" :> Type("integer") @@ "y" :> Type("integer")
               @@ "z" :> ArrayOf(Type("integer")))
Xs == {<<>>} \cup {"x" :> Number(n) : n \in {1, 2}}
Ys == {<<>>, "y" :> Number(1)}
Zs == {<<>>, "z" :> Numbers(<<1>>), "z" :> Numbers(<<1, 2>>)}
Objects == {Map(x @@ y @@ z) : x \in Xs, y \in Ys, z \in Zs} \ {Map(<<>>)}
FewObjects == {Map("x" :> Number(1)), Map("x" :> Number(2)),
               Map("y" :> Number(1)), Map("x" :> Number(1) @@ "y" :> Number(1))}
Arrays == {Arr(q) : q \in [1 .. 1 -> Objects] \cup [1 .. 2 -> Objects]
                          \cup [1 .. 3 -> FewObjects]}
FewArrays == {Arr(q) : q \in UNION {[1 .. n -> FewObjects] : n \in 1 .. 3}}

\* The kinds of anyOf in the request schemas of the bundled specification.
Alternatives ==
  {Field(v, Emptyable(ArrayOf(Item))) : v \in FewArrays \cup {Str("")}}
  \cup {Field(v, AnyOf(<<Enum, Type("integer")>>)) : v \in {Number(7), Str("min")}}
  \cup {Field(v, AnyOf(<<Type("integer"), Enum>>)) : v \in {Number(7), Str("min")}}
  \cup {Field(v, AnyOf(<<Item, Type("integer")>>)) : v \in {Number(7)} \cup Objects}
  \cup {Field(v, Emptyable(Item)) : v \in {Str("")} \cup Objects}
  \cup {Field(v, AnyOf(<<Item, Enum, Item>>)) : v \in {Str("")} \cup FewObjects}
  \cup {Field(v, AnyOf(<<Type("boolean"), Enum>>)) :
          v \in {Bool(TRUE), Str("one_off")}}
  \cup {Field(v, Emptyable(MapOf(Type("string")))) :
          v \in {Str(""), Map("0" :> Str("u")), Map("x" :> Str("u") @@ "0" :> Str("1"))}}
  \cup {Field(Map("w" :> a), Object("w" :> ArrayOf(Item))) : a \in FewArrays}
  \cup {Field(Arr(<<Map("w" :> a)>>), ArrayOf(Object("w" :> ArrayOf(Item)))) :
          a \in FewArrays}

Fields ==
  {"a" :> Field(a, ArrayOf(Item)) : a \in Arrays}
  \cup {"a" :> c @@ "b" :> Field(Numbers(ns), ArrayOf(Type("integer"))) :
          c \in Alternatives, ns \in {<<7>>, <<2, 1>>}}

Orders == {o \o <<"w", "0">> : o \in SetToSeqs({"x", "y", "z"})}

\* Two keys that are skipped and two that are refused.
Strays == {<< <<>> >>, << <<"[", "x">> >>, << <<"[", "x", "]">> >>,
           << <<>>, <<"a", "[", "]", "x", "[", "]">> >>}

-----------------------------------------------------------------------------
(* Routes whose response has fields of the parameters' names, in the shapes *)
(* that occur in the bundled specification.                                 *)

Only(s)       == [Schema EXCEPT !.nullable = TRUE, !.anyOf = <<s>>]
Expandable(s) == [Schema EXCEPT !.anyOf = <<Type("string"), s>>, !.expandsTo = s]
Resource(name, props) ==
  [Object(props) EXCEPT !.resource = name, !.expandable = {}]

NoIDs == [primary |-> Null, secondary |-> <<>>]

ItemResource == [Item EXCEPT !.resource = "item"]
Zeros == Map("x" :> Number(0) @@ "z" :> Numbers(<<0>>))
ResponseA ==
  "integer" :> Field(Number(0), Type("integer"))
  @@ "string" :> Field(Str("u"), Type("string"))
  @@ "boolean" :> Field(Bool(FALSE), Type("boolean"))
  @@ "object" :> Field(Zeros, Item)
  @@ "nullable" :> Field(Zeros, Only(Item))
  @@ "expandable" :> Field(Str("u"), Expandable(ItemResource))
  @@ "array" :> Field(Arr(<<Zeros>>), ArrayOf(Item))
  @@ "expandables" :> Field(Arr(<<Str("u")>>), ArrayOf(Expandable(ItemResource)))
  @@ "map" :> Field(Map("x" :> Str("v")), MapOf(Type("string")))
  @@ "nested" :> Field(Map("w" :> Numbers(<<0>>)), Object("w" :> ArrayOf(Type("integer"))))
ResponseB ==
  "array" :> Field(Numbers(<<0>>), ArrayOf(Type("integer")))
  @@ "objects" :> Field(Arr(<<Zeros>>), ArrayOf(Item))

\* The route that creates a resource with these two fields.
Reflecting(fields) ==
  [method |-> "POST", path |-> <<"v1", "echoes">>, ids |-> NoIDs, standFor |-> {},
   schema |-> [Resource("echo", Schemas(fields)) EXCEPT !.expandable = {"a"}],
   fixtures |-> "echo" :> Map(Values(fields)) @@ "item" :> Zeros]

Reflections == {<<"POST", a, b>> : a \in DOMAIN ResponseA, b \in DOMAIN ResponseB}

-----------------------------------------------------------------------------
(* Routes about things and their parts.  A thing has an owner, a detail     *)
(* without a fixture, null unless asked for, and a list of parts; a part    *)
(* may be expanded into its thing, its maker and a wreck, which needs a     *)
(* property that the specification gives by reference.                      *)

Kind(name) == [Schema EXCEPT !.type = "string", !.enum = <<name>>]
Named(name) == "id" :> Type("string") @@ "object" :> Kind(name)
ListOf(s, kind, pattern) ==
  [Object("object" :> Kind(kind) @@ "data" :> ArrayOf(s)
          @@ "has_more" :> Type("boolean")
          @@ (IF kind = "list" THEN <<>> ELSE "next_page" :> Type("string"))
          @@ "total_count" :> Type("integer")
          @@ "url" :> [Type("string") EXCEPT !.pattern = pattern])
     EXCEPT !.expandable = {"data"}]

Boss   == Resource("boss", Named("boss"))
Person == [Resource("person", Named("person") @@ "manager" :> Expandable(Boss))
             EXCEPT !.expandable = {"manager"}]
Owned  == [Resource("thing", Named("thing") @@ "owner" :> Expandable(Person))
             EXCEPT !.expandable = {"owner"}]
Detail == [Object("kind" :> Kind("plain") @@ "contact" :> Expandable(Person))
             EXCEPT !.expandable = {"contact"}, !.required = {"kind"}]
Wreck  == [Object("cause" :> [Kind("fire") EXCEPT !.ref = TRUE])
             EXCEPT !.required = {"cause"}]
Part   == [Resource("part", Named("part") @@ "thing" :> Expandable(Owned)
                            @@ "maker" :> Expandable(Person) @@ "wreck" :> Only(Wreck))
             EXCEPT !.expandable = {"maker", "thing", "wreck"}]
Thing  == [Resource("thing", Named("thing") @@ "owner" :> Expandable(Person)
                             @@ "detail" :> Only(Detail)
                             @@ "parts" :> ListOf(Part, "list", <<>>))
             EXCEPT !.expandable = {"detail", "owner", "parts"}]
Deleted == Resource("deleted_thing", Named("thing") @@ "deleted" :> Type("boolean"))

ThingFixtures ==
  "thing" :> Map("id" :> Str("th_1") @@ "object" :> Str("thing") @@ "owner" :> Str("pe_1")
                 @@ "detail" :> Nil
                 @@ "parts" :> Map("object" :> Str("list") @@ "data" :> Arr(<<>>)
                                   @@ "url" :> Url(<<"v1", "things", "th_1", "parts">>)))
  @@ "deleted_thing" :> Map("id" :> Str("th_1") @@ "object" :> Str("thing")
                            @@ "deleted" :> Bool(TRUE))
  @@ "part" :> Map("id" :> Str("pt_1") @@ "object" :> Str("part") @@ "thing" :> Str("th_1")
                   @@ "maker" :> Str("pe_1") @@ "wreck" :> Nil)
  @@ "person" :> Map("id" :> Str("pe_1") @@ "object" :> Str("person")
                     @@ "manager" :> Str("bo_1"))
  @@ "boss" :> Map("id" :> Str("bo_1") @@ "object" :> Str("boss"))

OfThing == [id |-> "th_9", name |-> "thing"]
ThingRoute(method, path, primary, secondary, standFor, schema) ==
  [method |-> method, path |-> <<"v1", "things">> \o path,
   ids |-> [primary |-> primary, secondary |-> secondary], standFor |-> standFor,
   schema |-> schema, fixtures |-> ThingFixtures]

Either == AnyOf(<<Thing, Deleted>>)
ThingRoutes ==
  <<"create">> :> ThingRoute("POST", <<>>, Null, <<>>, {"th_1"}, Thing)
  @@ <<"get">> :> ThingRoute("GET", <<"th_9">>, "th_9", <<>>, {"th_1"}, Either)
  @@ <<"delete">> :> ThingRoute("DELETE", <<"th_9">>, "th_9", <<>>, {"th_1"}, Either)
  @@ <<"list">> :> ThingRoute("GET", <<>>, Null, <<>>, {},
                              ListOf(Thing, "list", <<"v1", "things">>))
  @@ <<"search">> :> ThingRoute("GET", <<"search">>, Null, <<>>, {},
                                ListOf(Thing, "search_result", <<>>))
  @@ <<"parts">> :> ThingRoute("GET", <<"th_9", "parts">>, Null, <<OfThing>>, {"th_1"},
                               ListOf(Part, "list", <<"v1", "things", Placeholder, "parts">>))
  @@ <<"part">> :> ThingRoute("GET", <<"th_9", "parts", "pt_9">>, "pt_9", <<OfThing>>,
                              {"th_1", "pt_1"}, Part)

MCFreshID == "th_1" :> "th_new"
MCSortedNames ==
  <<"a", "data", "detail", "extra", "maker", "manager", "owner", "parts", "thing", "wreck", "zone">>

Expansions ==
  "owner.manager" :> <<"owner", "manager">> @@ "owner.*" :> <<"owner", "*">>
  @@ "owner.zone" :> <<"owner", "zone">> @@ "detail.contact" :> <<"detail", "contact">>
  @@ "parts.data.maker" :> <<"parts", "data", "maker">>
  @@ "parts.data.thing" :> <<"parts", "data", "thing">>
  @@ "data.owner" :> <<"data", "owner">> @@ "data.thing.owner" :> <<"data", "thing", "owner">>
  @@ "data.wreck" :> <<"data", "wreck">> @@ "thing.owner" :> <<"thing", "owner">>
  @@ "data.parts.data.maker" :> <<"data", "parts", "data", "maker">>
MCDotted == Expansions
Names == DOMAIN Expansions \cup {"*", "owner", "detail", "extra", "zone", "thing", "wreck"}

Asking(names) ==
  LET texts == SetToSeq(names)
  IN "expand" :> Field(Arr([i \in DOMAIN texts |-> Str(texts[i])]), ArrayOf(Type("string")))

Plain == [indexed |-> FALSE, order |-> <<"x", "y", "z", "w", "0">>, strays |-> <<>>]
ThingRequests ==
  {[fields |-> IF names = {} THEN <<>> ELSE Asking(names), route |-> r] @@ Plain :
     names \in UNION {kSubset(n, Names) : n \in 0 .. 2}, r \in DOMAIN ThingRoutes}

MCRoutes ==
  [r \in Reflections |-> Reflecting("a" :> ResponseA[r[2]] @@ "b" :> ResponseB[r[3]])]
  @@ ThingRoutes

-----------------------------------------------------------------------------
(* The messages                                                             *)

FirstOrder == <<"x", "y", "z", "w", "0">>
TwoFields == {f \in Fields : "b" \in DOMAIN f}
FewFields == {f \in TwoFields : /\ Longest(f["a"].value) <= 2
                                 /\ Longest(f["b"].value) = 1}

\* Every encoding of a query, and every kind of stray pair.
Queries ==
  [fields : Fields, indexed : BOOLEAN, order : Orders, strays : {<<>>},
   route : {<<"list">>}]
  \cup [fields : TwoFields, indexed : {FALSE}, order : {FirstOrder}, strays : Strays,
        route : {<<"list">>}]

\* Bodies for every shape of response; a few ask for the expansion of the
\* field they set.
FormBodies ==
  [fields : FewFields, indexed : BOOLEAN, order : {FirstOrder}, strays : {<<>>},
   route : Reflections]
  \cup [fields : {f @@ Asking({"a"}) : f \in FewFields}, indexed : {FALSE},
        order : {FirstOrder}, strays : {<<>>},
        route : {<<"POST", "expandable", b>> : b \in DOMAIN ResponseB}]

MCMessages == Queries \cup FormBodies \cup ThingRequests
=============================================================================
