------------------------- MODULE ResponseGenerator -------------------------
(***************************************************************************)
(* The generator of server/generator.go: the response to a request that    *)
(* nothing stateful answers, made from the schema of its route, the        *)
(* fixtures and the expansions asked for, and then given the ids of the    *)
(* request's path.                                                         *)
(*                                                                         *)
(* A URL is a text made of segments, an expansion a sequence of names.     *)
(* Values are TLA+ values: that the free-form parts of a response are the  *)
(* fixture's own maps, which the code writes in place, is FixtureSharing's.*)
(***************************************************************************)
EXTENDS DataReplacement

CONSTANTS
  Dotted,        \* the parts of each text that has dots in it
  SortedNames,   \* names of fields, in the order of sort.Strings
  FreshID        \* a new id for each id of a fixture, with its prefix

NoExample   == [none |-> Null]
Unsupported == [fails |-> "expansion not supported"]
Panic       == [fails |-> "panic"]
Fails(v)    == "fails" \in DOMAIN v

Url(segments) == [str |-> "url", url |-> segments]
Placeholder   == "[^/]+"

-----------------------------------------------------------------------------
(* Expansions (server/server.go)                                           *)

NoExpansions == [expansions |-> <<>>, wildcard |-> FALSE]

RECURSIVE SlipParseExpansionLevel(_)
\* A mistaken form of the next definition: a name asked for by itself forgets
\* what is asked for below it.
SlipParseExpansionLevel(raw) ==
  LET heads == {Head(e) : e \in raw \ {<<"*">>}}
  IN [wildcard   |-> <<"*">> \in raw,
      expansions |-> [k \in heads |->
        IF <<k>> \in raw THEN NoExpansions
        ELSE SlipParseExpansionLevel({Tail(e) : e \in {f \in raw : Head(f) = k}})]]

RECURSIVE parseExpansionLevel(_)
\* The tree of a set of expansions.
parseExpansionLevel(raw) ==
  LET heads    == {Head(e) : e \in raw \ {<<"*">>}}
      below(k) == {Tail(e) : e \in {f \in raw : Head(f) = k /\ Len(f) > 1}}
  IN [wildcard   |-> <<"*">> \in raw,
      expansions |-> [k \in heads |-> parseExpansionLevel(below(k))]]

Split(text) == IF text \in DOMAIN Dotted THEN Dotted[text] ELSE <<text>>

extractExpansions(data) ==
  IF "expand" \notin DOMAIN data THEN Null
  ELSE LET v == data["expand"]
       IN CASE IsStr(v) -> parseExpansionLevel({Split(v.str)})
            [] IsArr(v) -> parseExpansionLevel({Split(v.arr[i].str) : i \in DOMAIN v.arr})
            [] OTHER    -> Null

\* What is asked for below field k, Null for nothing.
Below(expansions, k) ==
  IF expansions # Null /\ k \in DOMAIN expansions.expansions
  THEN expansions.expansions[k] ELSE Null

\* SearchStrings finds a place for the key among the names of the schema, so
\* only a key after all of them counts as not supported.
Precedes(a, b) ==
  \E i, j \in DOMAIN SortedNames : i < j /\ SortedNames[i] = a /\ SortedNames[j] = b
SupportsExpansions(s, expansions) ==
  expansions # Null /\ s.expandable # Null =>
    \A k \in DOMAIN expansions.expansions :
      \E name \in s.expandable : name = k \/ Precedes(k, name)

-----------------------------------------------------------------------------
(* Generation                                                              *)

isDeletedResource(s) == "deleted" \in DOMAIN s.properties

\* "list" or "search_result", where the schema is one.
isListResource(s, kind) ==
  /\ s.type = "object" /\ {"object", "data"} \subseteq DOMAIN s.properties
  /\ s.properties["object"].enum # <<>> /\ s.properties["object"].enum[1] = kind
  /\ s.properties["data"].items # Null

\* The branch of an anyOf for a deletion, or for anything else; the first one
\* when none is.
findAnyOfBranch(s, deleted) ==
  LET fit == SelectSeq(s.anyOf, LAMBDA branch : isDeletedResource(branch) = deleted)
  IN Head(fit \o s.anyOf)

RECURSIVE generateSyntheticFixture(_, _)
\* The smallest value of a schema: what is nullable is null, what is not
\* required is left out.  A property that is a reference has no type.
generateSyntheticFixture(s, expansions) ==
  CASE s.nullable /\ expansions = Null -> Nil
    [] s.enum # <<>>  -> Str(s.enum[1])
    [] s.anyOf # <<>> ->
         generateSyntheticFixture(
           Head(SelectSeq(s.anyOf, LAMBDA branch : ~branch.ref) \o s.anyOf), expansions)
    [] s.type = "array"   -> Arr(<<>>)
    [] s.type = "boolean" -> Bool(TRUE)
    [] s.type \in {"integer", "number"} -> Number(0)
    [] s.type = "string"  -> Str("")
    [] OTHER ->
         LET made == [k \in DOMAIN s.properties \cap s.required |->
                        IF s.properties[k].ref THEN Panic
                        ELSE generateSyntheticFixture(s.properties[k], Below(expansions, k))]
         IN IF \E k \in DOMAIN made : Fails(made[k]) THEN Panic ELSE Map(made)

\* From the pattern of its schema, the fixture, or the path of the request.
generateURLForListableResource(s, example, path) ==
  LET holes == {i \in DOMAIN s.pattern : s.pattern[i] = Placeholder}
  IN IF s.pattern # <<>>
     THEN Url([i \in DOMAIN s.pattern |->
                 IF i \in holes /\ \A j \in holes : i <= j THEN "id_123" ELSE s.pattern[i]])
     ELSE IF example # NoExample THEN example.map["url"] ELSE Url(path)

\* The first failure of a map, or the map.
MapOrFailure(made) ==
  LET failed == {k \in DOMAIN made : Fails(made[k])}
  IN IF failed = {} THEN Map(made) ELSE made[CHOOSE k \in failed : TRUE]

\* The fixture of the resource, unless an example comes from further up.
exampleFor(s, given, rt) ==
  IF given \in {NoExample, Nil} /\ s.resource # Null
  THEN rt.fixtures[s.resource] ELSE given

RECURSIVE generateInternal(_, _, _, _)

\* A list or search result always has one item.
generateListResource(s, kind, expansions, example, rt) ==
  LET item  == generateInternal(s.properties["data"].items, Below(expansions, "data"),
                                NoExample, rt)
      shown == DOMAIN s.properties \ (IF kind = "list" THEN {} ELSE {"next_page"})
  IN IF Fails(item) THEN item ELSE Map([k \in shown |->
       CASE k = "data"        -> Arr(<<item>>)
         [] k = "has_more"    -> Bool(FALSE)
         [] k = "object"      -> Str(kind)
         [] k = "total_count" -> Number(1)
         [] k = "url" -> generateURLForListableResource(s.properties[k], example, rt.path)
         [] OTHER             -> Nil])

\* What is asked for below a property: by its name, or by a wildcard, which
\* asks for nothing further down.
subExpansions(expansions, k) ==
  IF expansions # Null /\ k \notin DOMAIN expansions.expansions /\ expansions.wildcard
  THEN NoExpansions ELSE Below(expansions, k)

\* The properties the example has and those that are asked for.
generateObject(s, expansions, example, rt) ==
  LET shown == {k \in DOMAIN s.properties :
                  k \in DOMAIN example.map \/ subExpansions(expansions, k) # Null}
  IN MapOrFailure([k \in shown |->
       generateInternal(s.properties[k], subExpansions(expansions, k),
                        IF k \in DOMAIN example.map THEN example.map[k] ELSE NoExample,
                        rt)])

\* A value of the schema.  Without an example it is a synthetic one, and so it
\* is where a null is to be expanded.
generateInternal(s, expansions, given, rt) ==
  LET example == exampleFor(s, given, rt)
      sample  == IF \/ example = NoExample
                    \/ expansions # Null /\ example = Nil /\ s.resource = Null
                 THEN generateSyntheticFixture(s, expansions) ELSE example
      only    == Len(s.anyOf) = 1 /\ s.nullable
  IN IF ~SupportsExpansions(s, expansions) THEN Unsupported
     ELSE IF s.expandsTo # Null
       THEN IF expansions # Null
            THEN generateInternal(s.expandsTo, expansions, NoExample, rt)
            ELSE generateInternal(s.anyOf[1], Null, example, rt)
     ELSE IF only /\ example = Nil /\ expansions = Null THEN Nil
     ELSE IF only /\ example # Nil THEN generateInternal(s.anyOf[1], expansions, example, rt)
     ELSE IF s.anyOf # <<>>
       THEN generateInternal(findAnyOfBranch(s, rt.method = "DELETE"), expansions,
                             NoExample, rt)
     ELSE IF isListResource(s, "list")
       THEN generateListResource(s, "list", expansions, example, rt)
     ELSE IF isListResource(s, "search_result")
       THEN generateListResource(s, "search_result", expansions, example, rt)
     ELSE IF Fails(sample) THEN sample
     ELSE IF sample = Nil THEN (IF expansions # Null THEN Panic ELSE Nil)
     ELSE IF s.type = "object" /\ DOMAIN s.properties # {}
       THEN generateObject(s, expansions, sample, rt)
     ELSE sample

-----------------------------------------------------------------------------
(* Ids.  The ids of a path are its own, primary, or Null, and a sequence   *)
(* secondary of the others, each with the name of its parameter.           *)

\* A path without an id of its own gets a new one for the object it makes.
maybeGeneratePrimaryID(ids, data) ==
  IF ids.primary = Null /\ "id" \in DOMAIN data /\ IsStr(data["id"])
  THEN [ids EXCEPT !.primary = FreshID[data["id"].str]] ELSE ids

FirstOf(I) == IF I = {} THEN {} ELSE {CHOOSE i \in I : \A j \in I : i <= j}

\* Which secondary ids the text in field k of an object takes: 0 stands for
\* the primary one.  The name of the object's own field outranks its type.
Takers(ids, object, k, parent, level) ==
  LET named(name) == FirstOf({i \in DOMAIN ids.secondary : ids.secondary[i].name = name})
  IN CASE k # "id" -> named(k)
       [] k = "id" /\ level = 0 -> IF ids.primary = Null THEN {} ELSE {0}
       [] OTHER ->
            named(parent) \cup IF "object" \in DOMAIN object /\ IsStr(object["object"])
                               THEN named(object["object"].str) ELSE {}

PathID(ids, i) == IF i = 0 THEN ids.primary ELSE ids.secondary[i].id

\* The id the field shows: its parent's taker is the last to write.
Taken(ids, object, k, parent, level) ==
  LET takers == Takers(ids, object, k, parent, level)
      byKey  == {i \in takers : i # 0 /\ ids.secondary[i].name = parent}
  IN PathID(ids, CHOOSE i \in IF byKey # {} THEN byKey ELSE takers : TRUE)

RECURSIVE recordIDs(_, _, _, _)
\* The pairs of a path's id and an id of a fixture that it takes the place of.
recordIDs(ids, v, parent, level) ==
  CASE IsArr(v) -> UNION {recordIDs(ids, v.arr[i], Null, level + 1) : i \in DOMAIN v.arr}
    [] IsMap(v) -> UNION {IF IsStr(v.map[k])
                          THEN {[by |-> i, id |-> v.map[k].str] :
                                  i \in Takers(ids, v.map, k, parent, level)}
                          ELSE recordIDs(ids, v.map[k], k, level + 1) : k \in DOMAIN v.map}
    [] OTHER    -> {}

RECURSIVE replaceIDs(_, _, _, _)
replaceIDs(ids, v, parent, level) ==
  CASE IsArr(v) -> Arr([i \in DOMAIN v.arr |-> replaceIDs(ids, v.arr[i], Null, level + 1)])
    [] IsMap(v) -> Map([k \in DOMAIN v.map |->
                     IF ~IsStr(v.map[k]) THEN replaceIDs(ids, v.map[k], k, level + 1)
                     ELSE IF Takers(ids, v.map, k, parent, level) = {} THEN v.map[k]
                     ELSE Str(Taken(ids, v.map, k, parent, level))])
    [] OTHER    -> v

\* Replaced ids go where else the same text is found in a field, and where it
\* is a segment of a URL, before another one.
distributeInValue(ids, replaced, v) ==
  LET by == FirstOf({r.by : r \in {q \in replaced : q.id = v.str}})
  IN IF by = {} THEN v ELSE Str(PathID(ids, CHOOSE i \in by : TRUE))

\* Leaves URLs as the generator made them.
SlipDistributeInURL(ids, replaced, v) == v

distributeInURL(ids, replaced, v) ==
  LET at(r) == {j \in 1..(Len(v.url) - 1) : v.url[j] = r.id}
      by    == FirstOf({r.by : r \in {q \in replaced : at(q) # {}}})
      r     == CHOOSE q \in replaced : q.by \in by /\ at(q) # {}
  IN IF by = {} THEN v
     ELSE Url([v.url EXCEPT ![CHOOSE j \in FirstOf(at(r)) : TRUE] = PathID(ids, r.by)])

RECURSIVE distributeReplacedIDs(_, _, _)
distributeReplacedIDs(ids, replaced, v) ==
  CASE IsArr(v) -> Arr([i \in DOMAIN v.arr |-> distributeReplacedIDs(ids, replaced, v.arr[i])])
    [] IsMap(v) -> Map([k \in DOMAIN v.map |->
                     LET w == v.map[k]
                     IN IF "url" \in DOMAIN w
                        THEN IF k = "url" THEN distributeInURL(ids, replaced, w) ELSE w
                        ELSE IF IsStr(w) THEN distributeInValue(ids, replaced, w)
                        ELSE distributeReplacedIDs(ids, replaced, w)])
    [] OTHER    -> v

-----------------------------------------------------------------------------
\* What a route answers to request data, before the data is reflected.
Generated(rt, data) ==
  LET made     == generateInternal(rt.schema, extractExpansions(data), NoExample, rt)
      ids      == maybeGeneratePrimaryID(rt.ids, made.map)
      replaced == recordIDs(ids, made, Null, 0)
  IN IF Fails(made) THEN made
     ELSE distributeReplacedIDs(ids, replaced, replaceIDs(ids, made, Null, 0))
=============================================================================
