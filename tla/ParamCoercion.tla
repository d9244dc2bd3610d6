---------------------------- MODULE ParamCoercion ----------------------------
(***************************************************************************)
(* CoerceParams of param/coercer: assembled strings become the integers,   *)
(* booleans and arrays that the schema asks for.                           *)
(*                                                                         *)
(* The code coerces maps and arrays in place, also those it then gives up  *)
(* on.  A coercion therefore returns ok and the new value val, and what it *)
(* left of the old one.  A schema is a record with the fields of Schema;   *)
(* the texts that parse as a number, a boolean or an index are tables.     *)
(***************************************************************************)
EXTENDS ParamAssembly

CONSTANTS
  Null,
  Numerals,      \* integer each numeric text stands for
  Booleans,      \* truth value of each text strconv.ParseBool knows
  MaxSliceSize   \* maxSliceSize: the largest index of an indexed array

Number(n) == [int |-> n]
Bool(b)   == [bool |-> b]
Nil       == [nil |-> Null]

\* A schema without constraints.  ref: it is given by a reference; resource:
\* its x-resourceId; expandable: its x-expandableFields; expandsTo: the first
\* of its x-expansionResources; pattern: the segments of a URL's pattern.
Schema == [type |-> "", enum |-> <<>>, properties |-> <<>>,
           additional |-> Null, anyOf |-> <<>>, items |-> Null,
           nullable |-> FALSE, required |-> {}, ref |-> FALSE,
           resource |-> Null, expandable |-> Null, expandsTo |-> Null,
           pattern |-> <<>>]

Coerced(v, new) == [ok |-> TRUE, val |-> new, left |-> v, err |-> FALSE]
InPlace(new) == Coerced(new, new)
Kept(v)    == [ok |-> FALSE, val |-> v, left |-> v, err |-> FALSE]
Failed(v)  == [ok |-> FALSE, val |-> v, left |-> v, err |-> TRUE]
Result(r)  == IF r.ok THEN r.val ELSE r.left

isSchemaPrimitiveType(s) == s.type \in {"boolean", "integer", "number", "string"}

coercePrimitiveType(v, type) ==
  CASE type = "boolean" /\ IsStr(v) /\ v.str \in DOMAIN Booleans ->
         Coerced(v, Bool(Booleans[v.str]))
    [] type \in {"integer", "number"} /\ IsStr(v) /\ v.str \in DOMAIN Numerals ->
         Coerced(v, Number(Numerals[v.str]))
    [] type = "string" /\ IsStr(v) -> InPlace(v)
    [] OTHER -> Kept(v)

\* Takes a text for a member of an enum whatever it looks like.
SlipCoerceText(v, s) == coercePrimitiveType(v, s.type)

\* A text that looks like a number is not taken for a member of an enum.
coerceText(v, s) ==
  IF s.enum # <<>> /\ IsStr(v) /\ v.str \in DOMAIN Numerals
    THEN Kept(v)
    ELSE coercePrimitiveType(v, s.type)

\* The bound on the length instead of on the index.
SlipParseIntegerIndexedMap(v) ==
  IF ~IsMap(v) \/ ~(DOMAIN v.map \subseteq DOMAIN Numerals) THEN Kept(v)
  ELSE LET index == {Numerals[k] : k \in DOMAIN v.map}
           big   == Max(index)
       IN  IF big + 1 > MaxSliceSize THEN Failed(v)
           ELSE Coerced(v, Arr([i \in 1 .. big + 1 |->
                  IF i - 1 \in index
                    THEN v.map[CHOOSE k \in DOMAIN v.map : Numerals[k] = i - 1]
                    ELSE Nil]))

\* A map with only numbers for keys is an array, with holes where none is given.
parseIntegerIndexedMap(v) ==
  IF ~IsMap(v) \/ ~(DOMAIN v.map \subseteq DOMAIN Numerals) THEN Kept(v)
  ELSE LET index == {Numerals[k] : k \in DOMAIN v.map}
           big   == Max(index)
       IN  IF big > MaxSliceSize THEN Failed(v)
           ELSE Coerced(v, Arr([i \in 1 .. big + 1 |->
                  IF i - 1 \in index
                    THEN v.map[CHOOSE k \in DOMAIN v.map : Numerals[k] = i - 1]
                    ELSE Nil]))

RECURSIVE coerceSubSchema(_, _)

\* Every item of an array or map by one schema; all must succeed or be nil.
coerceItems(items, s) == [i \in DOMAIN items |-> coerceSubSchema(items[i], s)]
AnyFailed(rs) == \E i \in DOMAIN rs : rs[i].err
AllCoerced(rs, items) == \A i \in DOMAIN rs : rs[i].ok \/ items[i] = Nil
Results(rs) == [i \in DOMAIN rs |-> Result(rs[i])]

CoerceParams(properties, f) ==
  [k \in DOMAIN f |-> IF k \in DOMAIN properties
                        THEN coerceSubSchema(f[k], properties[k])
                        ELSE Kept(f[k])]

coerceAdditional(v, s) ==
  IF s.additional = Null \/ ~IsMap(v) THEN Kept(v)
  ELSE LET rs  == coerceItems(v.map, s.additional)
           new == Map(Results(rs))
       IN  IF AnyFailed(rs) THEN Failed(new)
           ELSE IF AllCoerced(rs, v.map) THEN InPlace(new) ELSE Kept(new)

\* The first branch that succeeds, each tried on what the ones before it left;
\* the errors of the others are dropped.
coerceAnyOf(v, s) ==
  FoldLeft(LAMBDA r, branch : IF r.ok THEN r
                              ELSE LET b == coerceSubSchema(r.left, branch)
                                   IN  IF b.ok THEN b ELSE Kept(b.left),
           Kept(v), s.anyOf)

\* An array is coerced in place.  A map read as an array stays a map, with the
\* items that are maps or arrays coerced in place.
coerceArray(v, s) ==
  IF s.type # "array" THEN Kept(v)
  ELSE LET slice == parseIntegerIndexedMap(v)
           arr   == Result(slice)
       IN  IF slice.err THEN Failed(v)
           ELSE IF ~IsArr(arr) THEN Kept(v)
           ELSE IF s.items = Null THEN Coerced(v, arr)
           ELSE LET rs   == coerceItems(arr.arr, s.items)
                    new  == Arr(Results(rs))
                    left == IF IsArr(v) THEN new
                            ELSE Map([k \in DOMAIN v.map |->
                                        rs[Numerals[k] + 1].left])
                IN  IF AnyFailed(rs) THEN Failed(left)
                    ELSE IF AllCoerced(rs, arr.arr) THEN Coerced(left, new)
                    ELSE Kept(left)

coerceNonObjectSchema(v, s) ==
  IF isSchemaPrimitiveType(s) THEN coerceText(v, s)
  ELSE LET additional == coerceAdditional(v, s)
           any        == coerceAnyOf(additional.left, s)
       IN  IF additional.ok \/ additional.err THEN additional
           ELSE IF any.ok THEN any
           ELSE coerceArray(any.left, s)

\* An object with listed properties accepts any map, whatever becomes of its
\* properties.
coerceSubSchema(v, s) ==
  IF DOMAIN s.properties = {} THEN coerceNonObjectSchema(v, s)
  ELSE IF ~IsMap(v) THEN Kept(v)
  ELSE LET rs  == CoerceParams(s.properties, v.map)
           new == Map(Results(rs))
       IN  [ok |-> TRUE, val |-> new, left |-> new, err |-> AnyFailed(rs)]
=============================================================================
