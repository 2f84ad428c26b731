------------------------------ MODULE Readers --------------------------------
(* The readers that make an answer of a body: DelimitedParser::parse, the     *)
(* three series of the MonitoringClient (src/models/climate_index.cpp), and   *)
(* the data points of the DataServiceClient (data_point.cpp).  A text is      *)
(* first cut into rows, one turn of parse's loop a step; then the rows, or    *)
(* the values of a JSON body, are gone through one by one, and at the end the *)
(* caller's variable is assigned, or an error is returned.                    *)
(*                                                                            *)
(* Of a series only its points are followed, not its title and units.         *)
(*                                                                            *)
(* An operator Name_Flaw is Name with the flaw that its suffix tells, for the *)
(* model checker to put in Name's place.                                      *)
EXTENDS DataPoints

CONSTANTS
  Documents,   \* for each reader, the bodies it may get and what they publish
  Before,      \* what is in the caller's variable at the call
  Nothing

Series  == {"CagSeries", "GistempSeries", "SeaIceSeries monthly", "SeaIceSeries daily"}
OfJson  == {"CagSeries", "json"}
Readers == {"table", "csv", "ssv", "json"} \cup Series

ASSUME DocumentsAssumption == DOMAIN Documents = Readers

VARIABLES
  reader, body,
  start,       \* of parse: where the next record begins
  rows,        \* of parse: the rows so far
  header,      \* the columns found by their names, or Nothing
  at,          \* the next row, or value of a JSON body
  parsed,      \* what the reader has gathered
  out,         \* the caller's variable
  result       \* "ok", "error", or Nothing while it runs

\* History: what the body publishes.
VARIABLE published

vars == <<reader, body, start, rows, header, at, parsed, out, result, published>>

Delimiter == IF reader = "ssv" THEN " " ELSE ","

Init ==
  /\ reader \in Readers
  /\ \E document \in Documents[reader] :
       /\ body = document.body
       /\ published = document.published
  /\ start = 1
  /\ rows = << >>
  /\ header = Nothing
  /\ at = 1
  /\ parsed = << >>
  /\ out = Before
  /\ result = Nothing
----------------------------------------------------------------------------
\* One turn of parse's loop: a record becomes a row, unless it is empty.
ParseRecord ==
  LET record == NextRecord(body, start)
  IN  /\ result = Nothing
      /\ reader \notin OfJson
      /\ start <= Len(body)
      /\ start' = EndOfRecord(body, start) + 1
      /\ rows' = IF record = << >> THEN rows ELSE Append(rows, ParseLine(record, Delimiter))
      /\ UNCHANGED <<reader, body, header, at, parsed, out, result, published>>

\* The reader goes on to the next row; `more' is what it makes of this one.
AllParsed == reader \notin OfJson /\ start > Len(body)

Past(columns, more) ==
  /\ at' = at + 1
  /\ header' = columns
  /\ parsed' = parsed \o more
  /\ UNCHANGED <<reader, body, start, rows, out, result, published>>

Point(period, values) == [i \in 1..Cardinality(values) |->
                            [period |-> period, value |-> CHOOSE v \in values : TRUE]]

\* header_index: where that name is in a row; 0 if it is not there.
HeaderIndex(row, name) == SelectInSeq(row, LAMBDA cell : Trim(cell) = name)
----------------------------------------------------------------------------
\* deserialize_gistemp_csv: banner rows go before the header, and rows that do
\* not begin with a year may come after it.
GistempColumns(row) ==
  LET columns == [year |-> HeaderIndex(row, <<"Year">>), value |-> HeaderIndex(row, <<"J-D">>)]
  IN  IF columns.year # 0 /\ columns.value # 0 THEN columns ELSE Nothing

GistempPoint(row, columns) ==
  IF Len(row) < Greater(columns.year, columns.value) THEN << >>
  ELSE LET year == Trim(row[columns.year])
       IN  IF year = << >> \/ ~Unsigned(year[1]) THEN << >>
           ELSE Point(year, ParseValue(row[columns.value]))

ReadGistempRow ==
  /\ reader = "GistempSeries"
  /\ result = Nothing /\ AllParsed /\ at <= Len(rows)
  /\ IF header = Nothing
       THEN Past(GistempColumns(rows[at]), << >>)
       ELSE Past(header, GistempPoint(rows[at], header))

\* deserialize_nsidc_sea_ice_csv: the header is the first row.
NsidcColumns(row, monthly) ==
  [year   |-> HeaderIndex(row, IF monthly THEN <<"year">> ELSE <<"Year">>),
   extent |-> HeaderIndex(row, IF monthly THEN <<"extent">> ELSE <<"Extent">>),
   month  |-> HeaderIndex(row, IF monthly THEN <<"mo">> ELSE <<"Month">>),
   day    |-> IF monthly THEN 0 ELSE HeaderIndex(row, <<"Day">>)]

\* A part of a period, with two digits; none if the row has no such cell.
PeriodPart(row, column) ==
  LET part == IF column \in 1..Len(row) THEN Trim(row[column]) ELSE << >>
  IN  IF part = << >> THEN << >>
      ELSE (IF Len(part) = 1 THEN <<"-", "0">> ELSE <<"-">>) \o part

NsidcPoint(row, columns) ==
  IF Len(row) < Greater(columns.year, columns.extent) THEN << >>
  ELSE LET year == Trim(row[columns.year])
       IN  IF year = << >> THEN << >>
           ELSE Point(year \o PeriodPart(row, columns.month) \o PeriodPart(row, columns.day),
                      {extent \in ParseValue(row[columns.extent]) : extent > 0})

ReadNsidcRow ==
  /\ reader \in {"SeaIceSeries monthly", "SeaIceSeries daily"}
  /\ result = Nothing /\ AllParsed /\ at <= Len(rows)
  /\ IF at = 1
       THEN Past(NsidcColumns(rows[1], reader = "SeaIceSeries monthly"), << >>)
       ELSE /\ header.year # 0 /\ header.extent # 0
            /\ Past(header, NsidcPoint(rows[at], header))

\* deserialize_cag_series: a year's value is a string, a number, or an object
\* with either as its departure.
CagValue(value) ==
  CASE value.type = "string" -> ParseValue(value.text)
    [] value.type = "number" -> {value.value}
    [] OTHER                 -> {}

CagPoint(entry) ==
  Point(entry.key,
        IF entry.value.type = "object"
          THEN UNION {CagValue(field.value) : field \in Find(entry.value, <<"departure">>)}
          ELSE CagValue(entry.value))

CagData ==
  IF body.type # "object" THEN {}
  ELSE {field.value : field \in {f \in Find(body, <<"data">>) : f.value.type = "object"}}

ReadCagEntry ==
  /\ reader = "CagSeries"
  /\ result = Nothing
  /\ \E data \in CagData :
       /\ at <= Len(data.fields)
       /\ Past(header, CagPoint(data.fields[at]))

\* parse_delimited: the first row names the columns of all.
ReadPointRow ==
  /\ reader \in {"csv", "ssv"}
  /\ result = Nothing /\ AllParsed /\ at <= Len(rows)
  /\ IF at = 1 THEN Past(rows[1], << >>)
     ELSE Past(header, <<FromRow(header, rows[at])>>)

\* deserialize_data_point_collection: an object is a collection of one.
Records == IF body.type = "array" THEN body.items ELSE <<body>>

ReadPointObject ==
  /\ reader = "json"
  /\ result = Nothing
  /\ body.type \in {"array", "object"}
  /\ at <= Len(Records)
  /\ Past(IF at = 1 THEN Columns(Records[1]) ELSE header, <<FromObject(Records[at])>>)
----------------------------------------------------------------------------
\* A body that is no document of this kind: the reader returns early.
Unrecognized ==
  \/ reader = "CagSeries" /\ CagData = {}
  \/ reader = "json" /\ body.type \notin {"array", "object"}
  \/ /\ reader \in {"SeaIceSeries monthly", "SeaIceSeries daily"} /\ AllParsed
     /\ rows # << >> => header # Nothing /\ (header.year = 0 \/ header.extent = 0)

ReadAll ==
  CASE reader = "CagSeries" -> \A data \in CagData : at > Len(data.fields)
    [] reader = "json"      -> at > Len(Records)
    [] reader = "table"     -> AllParsed
    [] OTHER                -> AllParsed /\ at > Len(rows)

Return(how, value) ==
  /\ result' = how
  /\ out' = value
  /\ UNCHANGED <<reader, body, start, rows, header, at, parsed, published>>

Collection == [columns |-> IF header = Nothing THEN << >> ELSE header, records |-> parsed]

\* A series without a usable point is an error, and the caller's variable is
\* left as it was.
Assign_First == IF reader \in Series /\ parsed = << >> THEN Return("error", parsed)
                ELSE Return("ok", IF reader \in Series THEN parsed ELSE Collection)

Assign == IF reader \in Series /\ parsed = << >> THEN Return("error", out)
          ELSE Return("ok", IF reader \in Series THEN parsed ELSE Collection)

Finish ==
  /\ result = Nothing
  /\ \/ Unrecognized /\ Return("error", out)
     \/ ~Unrecognized /\ ReadAll /\ reader = "table" /\ Return("ok", rows)
     \/ ~Unrecognized /\ ReadAll /\ reader # "table" /\ Assign

Next ==
  \/ ParseRecord
  \/ ReadGistempRow \/ ReadNsidcRow \/ ReadCagEntry
  \/ ReadPointRow \/ ReadPointObject
  \/ Finish

Spec == Init /\ [][Next]_vars
----------------------------------------------------------------------------
\* A table that was written by the rules of CSV is read back cell by cell,
\* whatever the cells hold and whichever of them are quoted, and parse_header
\* gives its first row; of any other text no letter is lost or moved.  The
\* scanner for records and that for fields agree on the quotes (next_record,
\* parse_line).
Letters(text) == SelectSeq(text, LAMBDA c : c \notin {Quote, Delimiter, NL, CR})

ParsedAsWritten ==
  reader = "table" /\ result # Nothing =>
    IF published # Nothing
      THEN out = published /\ ParseHeader(body, Delimiter) = published[1]
      ELSE Letters(FlattenSeq(FlattenSeq(out))) = Letters(body)

\* A reader answers what the body publishes: of a series every point that has
\* a value, in order and no other; of data points every cell under the name of
\* its column, numbers as numbers, and nothing under any other.  A body that
\* publishes none of what is read is an error, and the caller's variable keeps
\* what was in it (the deserialize functions, parse_delimited).
PointAsPublished(dp, row) ==
  /\ \A f \in KnownFields \ DOMAIN row : dp.known[f] = NewDataPoint.known[f]
  /\ \A f \in KnownFields \cap DOMAIN row : dp.known[f] = row[f]
  /\ {attr[1] : attr \in ToSet(dp.attributes)} = DOMAIN row \ KnownFields
  /\ \A a \in DOMAIN row \ KnownFields :
       Get(dp, a) = {row[a].text} /\ GetNumber(dp, a) = row[a].number

AnswerAsPublished ==
  reader # "table" /\ result # Nothing =>
    IF published = Nothing THEN result = "error" /\ out = Before
    ELSE /\ result = "ok"
         /\ IF reader \in Series THEN out = published
            ELSE /\ out.columns = published.columns
                 /\ Len(out.records) = Len(published.records)
                 /\ \A i \in 1..Len(out.records) :
                      PointAsPublished(out.records[i], published.records[i])
=============================================================================
