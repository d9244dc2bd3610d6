---------------------------- MODULE RequestParams ----------------------------
(***************************************************************************)
(* From the wire to the stateless response: the pairs of a message arrive  *)
(* one by one and are assembled (ParamAssembly), coerced and validated by  *)
(* the schema of the route (ParamCoercion), the response is generated with *)
(* the expansions among them (ResponseGenerator), and those of a POST      *)
(* replace fields of it (DataReplacement).                                 *)
(*                                                                         *)
(* The reference is the value the client meant.  A message is its fields   *)
(* (each a value and its schema), the style in which arrays are encoded,   *)
(* "[]" or an index, the order in which the client writes the keys of an   *)
(* object, and the keys of stray pairs.  The pairs of different top-level  *)
(* names, and the stray ones, may mix in any order.  A message also names  *)
(* its route: the method and path, the ids in the path and those of the    *)
(* fixtures they stand for, the response's schema and the fixtures.        *)
(***************************************************************************)
EXTENDS ResponseGenerator

CONSTANTS
  Messages,  \* the messages clients send
  Routes     \* the routes they name

VARIABLES
  message,   \* the message being received
  unsent,    \* unsent[k]: pairs of top-level name k, or stray ones, to come
  params,    \* what has been assembled, and then coerced
  body,      \* the response
  stage,     \* "receive", "generate" or an end: "done", "failed" (a server
             \* error) or "died" (the handler panicked)
  err        \* the request was refused

vars == <<message, unsent, params, body, stage, err>>

Values(fields)  == [k \in DOMAIN fields |-> fields[k].value]
Schemas(fields) == [k \in DOMAIN fields |-> fields[k].schema]

-----------------------------------------------------------------------------
(* What a client sends                                                     *)

Text(v) ==
  CASE IsStr(v) -> v.str
    [] "int" \in DOMAIN v -> CHOOSE s \in DOMAIN Numerals : Numerals[s] = v.int
    [] OTHER -> CHOOSE s \in DOMAIN Booleans : Booleans[s] = v.bool

KeysInOrder(f, order) == SelectSeq(order, LAMBDA k : k \in DOMAIN f)

RECURSIVE Encode(_, _, _)
Encode(key, v, m) ==
  CASE IsArr(v) ->
         FlattenSeq([i \in DOMAIN v.arr |->
           Encode(key \o (IF m.indexed THEN <<"[", Text(Number(i - 1)), "]">>
                                       ELSE <<"[", "]">>),
                  v.arr[i], m)])
    [] IsMap(v) ->
         LET ks == KeysInOrder(v.map, m.order)
         IN  FlattenSeq([i \in DOMAIN ks |->
               Encode(key \o <<"[", ks[i], "]">>, v.map[ks[i]], m)])
    [] OTHER -> <<[key |-> key, text |-> Text(v)]>>

\* The name under which stray pairs are kept in unsent.
Stray == "stray"

Pairs(m) ==
  [k \in DOMAIN m.fields |-> Encode(<<k>>, m.fields[k].value, m)]
    @@ Stray :> [i \in DOMAIN m.strays |-> [key |-> m.strays[i], text |-> ""]]

-----------------------------------------------------------------------------
(* What the server does                                                    *)

Init ==
  /\ message \in Messages
  /\ unsent = Pairs(message)
  /\ params = [k \in {} |-> Nil]
  /\ body = [k \in {} |-> Nil]
  /\ stage = "receive"
  /\ err = FALSE

Pair(k)  == Head(unsent[k])
Parts(k) == parseKey(Pair(k).key)

Arrives(k) ==
  /\ stage = "receive"
  /\ unsent[k] # <<>>
  /\ unsent' = [unsent EXCEPT ![k] = Tail(@)]

Receive(k) ==
  /\ Arrives(k)
  /\ Parts(k) # <<>> /\ ValidKey(Parts(k))
  /\ params' = mergeMapsRecursive(params,
                 Head(Parts(k)).content :>
                   buildParamStructure(Tail(Parts(k)), Pair(k).text))
  /\ UNCHANGED <<message, body, stage, err>>

\* A key of which nothing can be read is skipped.
SkipKey(k) ==
  /\ Arrives(k)
  /\ Parts(k) = <<>>
  /\ UNCHANGED <<message, params, body, stage, err>>

RefuseKey(k) ==
  /\ Arrives(k)
  /\ Parts(k) # <<>> /\ ~ValidKey(Parts(k))
  /\ stage' = "done"
  /\ err' = TRUE
  /\ UNCHANGED <<message, params, body>>

\* What the validator of a schema accepts; what it asks of an enum's members
\* or of required fields is left out.
RECURSIVE Conforms(_, _)
Conforms(v, s) ==
  IF s.anyOf # <<>>
  THEN \/ s.nullable /\ v = Nil
       \/ \E i \in DOMAIN s.anyOf : Conforms(v, s.anyOf[i])
  ELSE \/ s.nullable /\ v = Nil
       \/ s.type = "string" /\ IsStr(v)
       \/ s.type = "boolean" /\ IsBool(v)
       \/ s.type \in {"integer", "number"} /\ IsInt(v)
       \/ /\ s.type = "array" /\ IsArr(v)
          /\ \A i \in DOMAIN v.arr : s.items = Null \/ Conforms(v.arr[i], s.items)
       \/ /\ s.type = "object" /\ IsMap(v)
          /\ \A k \in DOMAIN v.map :
               /\ k \in DOMAIN s.properties => Conforms(v.map[k], s.properties[k])
               /\ s.additional # Null => Conforms(v.map[k], s.additional)

RootSchema(fields) ==
  [Schema EXCEPT !.type = "object", !.properties = Schemas(fields)]

validateAndCoerceRequest ==
  /\ stage = "receive"
  /\ \A k \in DOMAIN unsent : unsent[k] = <<>>
  /\ LET rs == CoerceParams(Schemas(message.fields), params)
     IN  /\ params' = Results(rs)
         /\ err' = \/ AnyFailed(rs)
                   \/ ~Conforms(Map(params'), RootSchema(message.fields))
  /\ stage' = IF err' THEN "done" ELSE "generate"
  /\ UNCHANGED <<message, unsent, body>>

Route == Routes[message.route]

\* An expansion the schema does not list is a server error; a panic ends the
\* connection without a response.
Generate ==
  /\ stage = "generate"
  /\ LET made == Generated(Route, params)
     IN  /\ stage' = CASE made = Unsupported -> "failed"
                        [] made = Panic       -> "died"
                        [] OTHER              -> "done"
         /\ body' = CASE Fails(made)           -> body
                       [] Route.method = "POST" ->
                            ReplaceData(params, made.map, Route.schema)
                       [] OTHER               -> made.map
  /\ UNCHANGED <<message, unsent, params, err>>

Done == stage \in {"done", "failed", "died"} /\ UNCHANGED vars

Next == \/ \E k \in DOMAIN unsent : Receive(k) \/ SkipKey(k) \/ RefuseKey(k)
        \/ validateAndCoerceRequest \/ Generate \/ Done

Spec == Init /\ [][Next]_vars

-----------------------------------------------------------------------------
(* Properties                                                              *)

Meant == Values(message.fields)

RECURSIVE Separable(_, _)
\* Every object of an array starts with a key whose scalar the object before
\* it has, so that "[]" tells one from the next.
Separable(v, order) ==
  CASE IsArr(v) ->
         /\ \A i \in DOMAIN v.arr : Separable(v.arr[i], order)
         /\ \A i \in DOMAIN v.arr \ {1} : IsMap(v.arr[i]) =>
              LET first == Head(KeysInOrder(v.arr[i].map, order))
                  last  == v.arr[i - 1].map
              IN  /\ first \in DOMAIN last
                  /\ ~IsArr(last[first]) /\ ~IsMap(last[first])
    [] IsMap(v) -> \A k \in DOMAIN v.map : Separable(v.map[k], order)
    [] OTHER    -> TRUE

RECURSIVE Longest(_)
\* The length of the longest array in v.
Longest(v) ==
  CASE IsArr(v) -> Max({Len(v.arr)} \cup {Longest(v.arr[i]) : i \in DOMAIN v.arr})
    [] IsMap(v) -> Max({0} \cup {Longest(v.map[k]) : k \in DOMAIN v.map})
    [] OTHER    -> 0

TooLong == message.indexed /\ Longest(Map(Meant)) > MaxSliceSize + 1

Malformed(key) ==
  /\ \E i \in DOMAIN key : key[i] = "]"
  /\ \/ Head(key) = "["
     \/ \E i, j \in DOMAIN key : /\ i < j /\ key[i] = "]" /\ key[j] = "["
                                /\ key[i + 1] # "["

HasMalformed == \E i \in DOMAIN message.strays : Malformed(message.strays[i])

Understood ==
  /\ ~HasMalformed
  /\ IF message.indexed THEN ~TooLong ELSE Separable(Map(Meant), message.order)

\* The request data is what the client meant exactly when the encoding can
\* tell: whatever the order of the pairs of different names, for nested arrays
\* of objects, indexed arrays, and every anyOf of the specification.
RoundTrip ==
  stage \in {"done", "failed", "died"} => (Understood <=> (~err /\ params = Meant))

RECURSIVE Leaves(_)
Leaves(v) ==
  CASE IsArr(v) -> FoldSet(LAMBDA i, n : n + Leaves(v.arr[i]), 0, DOMAIN v.arr)
    [] IsMap(v) -> FoldSet(LAMBDA k, n : n + Leaves(v.map[k]), 0, DOMAIN v.map)
    [] OTHER    -> 1

\* Even where objects of an array run into each other, no pair overwrites
\* another: as many values are in params as pairs have arrived.
NothingIsDropped ==
  stage = "receive" =>
    Leaves(Map(params)) =
      Leaves(Map(Meant)) - FoldSet(LAMBDA k, n : n + Len(unsent[k]), 0,
                                   DOMAIN Meant)

\* A request is refused for a key with a part before its name or a name between
\* its parts, or an index above maxSliceSize,
\* and for nothing else.
RefusalsAreDeserved == err => HasMalformed \/ TooLong

\* Whatever the client sends and whatever becomes of it on the way, the
\* response to a request that is not refused has the type its schema gives it.
ResponseKeepsItsSchema ==
  stage = "done" /\ ~err => Conforms(Map(body), Route.schema)

SameScalarType(v, w) ==
  \/ IsStr(v) /\ IsStr(w)
  \/ IsInt(v) /\ IsInt(w)
  \/ IsBool(v) /\ IsBool(w)

RECURSIVE Reflects(_, _, _, _)
\* Where the generated value and the one meant are scalars of one type, at any
\* depth of objects with listed fields, the response has the one meant.
Reflects(meant, generated, s, shown) ==
  \A k \in DOMAIN s.properties \cap DOMAIN meant \cap DOMAIN generated :
    /\ SameScalarType(meant[k], generated[k]) => shown[k] = meant[k]
    /\ IsMap(meant[k]) /\ IsMap(generated[k]) =>
         Reflects(meant[k].map, generated[k].map, s.properties[k], shown[k].map)

\* "It reflects the values of valid input parameters into responses where the
\* names and types are compatible" (README), from the pairs of a POST on.
ValidInputIsReflected ==
  stage = "done" /\ Understood /\ Route.method = "POST" =>
    Reflects(Meant, Generated(Route, params).map, Route.schema, body)

Asked == IF "expand" \in DOMAIN Meant
         THEN {Split(Meant["expand"].arr[i].str) : i \in DOMAIN Meant["expand"].arr}
         ELSE {}
IsAsked(path) == \E e \in Asked : IsPrefix(path, e) \/ e = Front(path) \o <<"*">>

RECURSIVE ShowsAsked(_, _, _)
\* What is asked for is there, and a field that may be expanded is an object
\* exactly when it is asked for.  Arrays are looked into where they are the
\* data of a list: the generator does not expand what is in others, and never
\* gives a search result a next page.
ShowsAsked(s, v, path) ==
  CASE s.expandsTo # Null ->
         /\ IsMap(v) <=> IsAsked(path)
         /\ IsMap(v) => ShowsAsked(s.expandsTo, v, path)
    [] s.expandsTo = Null /\ s.anyOf # <<>> ->
         v # Nil => \E i \in DOMAIN s.anyOf : /\ Conforms(v, s.anyOf[i])
                                           /\ ShowsAsked(s.anyOf[i], v, path)
    [] s.type = "array" ->
         path # <<>> /\ Last(path) = "data" =>
           \A i \in DOMAIN v.arr : ShowsAsked(s.items, v.arr[i], path)
    [] OTHER ->
         IsMap(v) => \A k \in DOMAIN s.properties :
           /\ IsAsked(Append(path, k)) /\ k # "next_page" =>
                k \in DOMAIN v.map /\ v.map[k] # Nil
           /\ k \in DOMAIN v.map =>
                ShowsAsked(s.properties[k], v.map[k], Append(path, k))

RECURSIVE Listed(_, _)
\* Every name on the way is one that its schema says can be expanded.
Listed(s, e) ==
  CASE e = <<>> -> TRUE
    [] e # <<>> /\ s.expandsTo # Null -> Listed(s.expandsTo, e)
    [] e # <<>> /\ s.expandsTo = Null /\ s.anyOf # <<>> ->
         \A i \in DOMAIN s.anyOf : Listed(s.anyOf[i], e)
    [] e # <<>> /\ s.items # Null -> Listed(s.items, e)
    [] OTHER ->
         /\ s.expandable # Null => Head(e) \in s.expandable \cup {"*"}
         /\ Head(e) \in DOMAIN s.properties => Listed(s.properties[Head(e)], Tail(e))

\* Fields that no parameter but the expansions can have replaced.
OnlyGenerated == Route.method # "POST" \/ DOMAIN Meant \subseteq {"expand"}

\* Expansions, of any depth and with wildcards, show in the response; a server
\* error is for one that is not listed, and no request without expansions
\* fails or dies.
ExpansionsAreHonoured ==
  /\ stage = "done" /\ ~err /\ OnlyGenerated =>
       ShowsAsked(Route.schema, Map(body), <<>>)
  /\ stage = "failed" => \E e \in Asked : ~Listed(Route.schema, e)
  /\ stage = "died" => Asked # {}

RECURSIVE Mentions(_)
\* The texts of fields and the segments of URLs before another one.  Texts in
\* arrays and the ends of URLs are left out: the generator leaves them alone.
Mentions(v) ==
  CASE "url" \in DOMAIN v -> Range(Front(v.url))
    [] IsStr(v) /\ "url" \notin DOMAIN v -> {v.str}
    [] IsMap(v) -> UNION {Mentions(v.map[k]) : k \in DOMAIN v.map}
    [] IsArr(v) -> UNION {Mentions(v.arr[i]) :
                            i \in {j \in DOMAIN v.arr : ~IsStr(v.arr[j])}}
    [] OTHER    -> {}

\* A response about the objects of a path, or about a new one, does not mention
\* the fixtures they stand for: wherever their ids occur, also at depths that
\* expansions add, there are those of the path or the new one.
IDsAgree ==
  stage = "done" /\ ~err /\ OnlyGenerated =>
    /\ Mentions(Map(body)) \cap Route.standFor = {}
    /\ "id" \in DOMAIN body /\ Route.ids.primary # Null =>
         body["id"] = Str(Route.ids.primary)
=============================================================================
