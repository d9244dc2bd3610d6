--------------------------- MODULE DataReplacement ---------------------------
(***************************************************************************)
(* ReplaceData of generator/datareplacer: the parameters of a POST show in *)
(* the generated response where a field has the name of a parameter and a  *)
(* type that fits it.  Schemas hold no references: they are resolved.      *)
(***************************************************************************)
EXTENDS ParamCoercion

IsInt(v)  == "int" \in DOMAIN v
IsBool(v) == "bool" \in DOMAIN v

\* Takes any array for the field's array.
SlipIsSameType(s, v) ==
  /\ s # Null
  /\ \/ s.type = "array" /\ IsArr(v)
     \/ s.type = "boolean" /\ IsBool(v)
     \/ s.type \in {"integer", "number"} /\ IsInt(v)
     \/ s.type = "string" /\ IsStr(v)

RECURSIVE isSameType(_, _)
\* Whether the field's schema takes a value of this type; of an array only the
\* first item is looked at, and an object never fits.
isSameType(s, v) ==
  /\ s # Null
  /\ v # Nil
  /\ IF s.anyOf # <<>>
       THEN \E i \in DOMAIN s.anyOf : isSameType(s.anyOf[i], v)
       ELSE \/ /\ s.type = "array" /\ IsArr(v)
               /\ v.arr = <<>> \/ s.items = Null \/ isSameType(s.items, v.arr[1])
            \/ s.type = "boolean" /\ IsBool(v)
            \/ s.type \in {"integer", "number"} /\ IsInt(v)
            \/ s.type = "string" /\ IsStr(v)

\* The schema of a field that s lists, or Null.
fieldSchema(s, k) ==
  IF s # Null /\ k \in DOMAIN s.properties THEN s.properties[k] ELSE Null

RECURSIVE SlipReplaceData(_, _, _)
\* Looks nested fields up in the schema of the whole response.
SlipReplaceData(request, response, schema) ==
  [k \in DOMAIN response |->
     CASE k \notin DOMAIN request -> response[k]
       [] k \in DOMAIN request /\ IsMap(request[k]) /\ IsMap(response[k]) ->
            Map(SlipReplaceData(request[k].map, response[k].map, schema))
       [] OTHER -> IF isSameType(fieldSchema(schema, k), request[k])
                     THEN request[k] ELSE response[k]]

RECURSIVE ReplaceData(_, _, _)
\* Two maps are overlaid field by field; any other value is replaced whole.
ReplaceData(request, response, schema) ==
  [k \in DOMAIN response |->
     CASE k \notin DOMAIN request -> response[k]
       [] k \in DOMAIN request /\ IsMap(request[k]) /\ IsMap(response[k]) ->
            Map(ReplaceData(request[k].map, response[k].map, fieldSchema(schema, k)))
       [] OTHER -> IF isSameType(fieldSchema(schema, k), request[k])
                     THEN request[k] ELSE response[k]]
=============================================================================
