----------------------------- MODULE DataPoints ------------------------------
(* ncei::DataPoint (src/models/data_service/data_point.cpp): one observation, *)
(* of whose columns six are known by name and the rest are kept as            *)
(* attributes; it is read from a row of a delimited text or from an object of *)
(* a JSON body.  Names of columns and cells are texts.                        *)
EXTENDS DelimitedParser, Json, TLC

\* The known columns, which are members of a DataPoint under these names.
Texts      == {<<"DATE">>, <<"STATION">>, <<"NAME">>}
Doubles    == {<<"LATITUDE">>, <<"LONGITUDE">>, <<"ELEVATION">>}
KnownFields == Texts \cup Doubles

NewDataPoint == [known |-> [f \in KnownFields |-> IF f \in Texts THEN << >> ELSE 0],
                 attributes |-> << >>]

\* One turn of populate_from_row's loop, and the loop: it ends with the
\* shorter of the header and the row.
WithCell(dp, col, val) ==
  IF col \in KnownFields
    THEN [dp EXCEPT !.known[col] = IF col \in Texts THEN val ELSE Stod(val)]
    ELSE [dp EXCEPT !.attributes = Append(@, <<col, val>>)]

FromRow(headers, values) ==
  FoldLeftDomain(LAMBDA dp, i : WithCell(dp, headers[i], values[i]),
                 NewDataPoint, SubSeq(values, 1, Lesser(Len(headers), Len(values))))

\* populate_data_point_from_object.  A number becomes a text with six decimals
\* (std::to_string), and what is no scalar is written as JSON again.
ToText(value) ==
  CASE value.type = "string" -> value.text
    [] value.type = "number" -> <<ToString(value.value) \o ".000000">>
    [] value.type = "null"   -> << >>
    [] OTHER                 -> <<"JSON">>

FromObject(object) ==
  IF object.type # "object" THEN NewDataPoint
  ELSE LET others == SelectSeq(object.fields, LAMBDA field : field.key \notin KnownFields)
       IN  [known |-> [f \in KnownFields |->
                         IF f \in Texts THEN GetString(object, f) ELSE GetDouble(object, f)],
            attributes |-> [i \in 1..Len(others) |-> <<others[i].key, ToText(others[i].value)>>]]

\* collect_columns.
Columns(object) ==
  IF object.type # "object" THEN << >>
  ELSE [i \in 1..Len(object.fields) |-> object.fields[i].key]

\* get: the first attribute of that name, as a set of at most one text; and
\* get_double: the number it is, if it is one.
Get(dp, key) ==
  LET i == SelectInSeq(dp.attributes, LAMBDA attr : attr[1] = key)
  IN  IF i = 0 THEN {} ELSE {dp.attributes[i][2]}

GetNumber(dp, key) == UNION {AsNumber(Trim(text)) : text \in Get(dp, key)}
=============================================================================
