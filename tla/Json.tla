-------------------------------- MODULE Json ---------------------------------
(* Values of a parsed JSON body (glz::generic, a library's) as far as the     *)
(* code tells them apart, and the helpers of src/models/common.cpp that look  *)
(* a key up in an object.  An object is the sequence of its fields in the     *)
(* order in which the library gives them; no two have the same key.           *)
EXTENDS Sequences, SequencesExt

String(text)   == [type |-> "string", text |-> text]
Number(value)  == [type |-> "number", value |-> value]
Array(items)   == [type |-> "array", items |-> items]
Object(fields) == [type |-> "object", fields |-> fields]
Null           == [type |-> "null"]
OtherValue     == [type |-> "other"]

Field(key, value) == [key |-> key, value |-> value]

\* The field of that key, as a set of at most one.
Find(object, key) == {field \in ToSet(object.fields) : field.key = key}

\* get_string and get_double: an object's field of the type asked for, or the
\* type's default.
GetString(object, key) ==
  IF object.type # "object" THEN << >>
  ELSE LET found == {field \in Find(object, key) : field.value.type = "string"}
       IN  IF found = {} THEN << >> ELSE (CHOOSE field \in found : TRUE).value.text

GetDouble(object, key) ==
  IF object.type # "object" THEN 0
  ELSE LET found == {field \in Find(object, key) : field.value.type = "number"}
       IN  IF found = {} THEN 0 ELSE (CHOOSE field \in found : TRUE).value.value
=============================================================================
