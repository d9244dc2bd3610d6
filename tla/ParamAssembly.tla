---------------------------- MODULE ParamAssembly ----------------------------
(***************************************************************************)
(* How stripe-mock puts the pairs of a query or form together again:       *)
(* AssembleParams of param/nestedtypeassembler.                            *)
(*                                                                         *)
(* A value is [str |-> s], [arr |-> sequence], [map |-> function from      *)
(* names] or, after coercion, [int |-> n], [bool |-> b] or Nil.  A key is  *)
(* a sequence of tokens: "[", "]" and names.                               *)
(***************************************************************************)
EXTENDS Integers, SequencesExt

Str(s) == [str |-> s]
Arr(q) == [arr |-> q]
Map(f) == [map |-> f]
IsStr(v) == "str" \in DOMAIN v
IsArr(v) == "arr" \in DOMAIN v
IsMap(v) == "map" \in DOMAIN v

ArrayPart   == [type |-> "array", content |-> ""]
MapPart(n)  == [type |-> "map", content |-> n]
RawPart(n)  == [type |-> "raw", content |-> n]

\* The automaton of parseKey: state, the parts so far and the text of the next.
keyStep(acc, c) ==
  CASE acc.state = "raw" /\ c = "[" ->
         [state |-> "inMapOrArray", content |-> "",
          parts |-> IF acc.content = "" THEN acc.parts
                    ELSE Append(acc.parts, RawPart(acc.content))]
    [] acc.state = "inMapOrArray" /\ c = "]" ->
         [acc EXCEPT !.state = "raw", !.parts = Append(@, ArrayPart)]
    [] acc.state = "inMap" /\ c = "]" ->
         [state |-> "raw", content |-> "",
          parts |-> Append(acc.parts, MapPart(acc.content))]
    [] OTHER ->
         [acc EXCEPT !.content = @ \o c,
                     !.state = IF @ = "raw" THEN "raw" ELSE "inMap"]

\* What is left when the key ends counts only if it is all there is.
parseKey(key) ==
  LET end == FoldLeft(keyStep, [state |-> "raw", parts |-> <<>>, content |-> ""],
                      key)
  IN  IF end.parts = <<>> /\ end.state = "raw" /\ end.content # ""
        THEN <<RawPart(end.content)>>
        ELSE end.parts

ValidKey(parts) ==
  /\ Head(parts).type = "raw"
  /\ \A i \in DOMAIN Tail(parts) : Tail(parts)[i].type # "raw"

\* The value one pair stands for below its raw name.
buildParamStructure(parts, s) ==
  FoldRight(LAMBDA part, v : IF part = ArrayPart THEN Arr(<<v>>)
                                                 ELSE Map(part.content :> v),
            parts, Str(s))

\* Merges objects whatever they have in common.
SlipSameObject(last, new) == IsMap(last) /\ IsMap(new)

\* Whether the pair's object continues the last one of the array: it repeats
\* no key but those whose value may grow.
SameObject(last, new) ==
  /\ IsMap(last) /\ IsMap(new)
  /\ \A k \in DOMAIN new.map \cap DOMAIN last.map :
       IsArr(last.map[k]) \/ IsMap(last.map[k])

RECURSIVE mergeMapsRecursive(_, _)

maybeCollapseArrays(q, new) ==
  IF SameObject(Last(q), new)
    THEN Append(Front(q), Map(mergeMapsRecursive(Last(q).map, new.map)))
    ELSE Append(q, new)

\* Values that cannot be reconciled: the later one wins.
mergeMapsRecursive(f1, f2) ==
  [k \in DOMAIN f1 \cup DOMAIN f2 |->
     IF k \notin DOMAIN f2 THEN f1[k]
     ELSE IF k \notin DOMAIN f1 THEN f2[k]
     ELSE LET v1 == f1[k]
              v2 == f2[k]
          IN  CASE IsMap(v1) /\ IsMap(v2) ->
                     Map(mergeMapsRecursive(v1.map, v2.map))
                [] IsArr(v1) /\ IsArr(v2) ->
                     Arr(maybeCollapseArrays(v1.arr, Head(v2.arr)))
                [] OTHER -> v2]
=============================================================================
