------------------------------ MODULE Requests -------------------------------
(* The requests that the operations of the three clients send: the paths and  *)
(* queries that src/api builds, with detail::encode (src/url.hpp), and what a *)
(* server reads in them.                                                      *)
(*                                                                            *)
(* A text is a sequence of characters; a word of the API's own (a path's      *)
(* segment, a key, a number, a file name) counts as one.  In a URL each       *)
(* stands raw or escaped: %26 is <<"escaped", "&">>.  The fields of a struct  *)
(* of parameters are a function from the keys they are sent under; those that *)
(* are vectors hold sequences of texts, and the others a text.                *)
(*                                                                            *)
(* An operator Name_Flaw is Name with the flaw that its suffix tells, for the *)
(* model checker to put in Name's place.                                      *)
EXTENDS Integers, SequencesExt

CONSTANTS
  Characters,     \* what texts are made of
  Unreserved      \* the characters encode leaves as they are

Delimiters == {"?", "&", "=", ",", "/"}

ASSUME RequestsAssumption == Delimiters \cap Unreserved = {}

Raw(c) == <<"raw", c>>

Encode_AllButCommas(text) ==
  [k \in DOMAIN text |->
     <<IF text[k] \in Unreserved \cup {","} THEN "raw" ELSE "escaped", text[k]>>]

Encode(text) ==
  [k \in DOMAIN text |->
     <<IF text[k] \in Unreserved THEN "raw" ELSE "escaped", text[k]>>]

\* Numbers, Booleans and formats are written as they are.
Plain(text) == [k \in DOMAIN text |-> Raw(text[k])]

\* The parts, with c between any two.
Joined(parts, c) ==
  FlattenSeq([k \in DOMAIN parts |-> (IF k = 1 THEN << >> ELSE <<Raw(c)>>) \o parts[k]])

Path(segments) == <<Raw("/")>> \o Joined(segments, "/")

Pair(key, value) == <<Raw(key), Raw("=")>> \o value

\* What a field is sent as, if it is there: a pair, encoded or as it is; a pair
\* for each text of a list; one pair for all of them, of which an empty list
\* leaves no trace.
Encoded(key, params) ==
  IF key \in DOMAIN params THEN <<Pair(key, Encode(params[key]))>> ELSE << >>

AsItIs(key, params) ==
  IF key \in DOMAIN params THEN <<Pair(key, Plain(params[key]))>> ELSE << >>

EncodedEach(list) == [k \in DOMAIN list |-> Encode(list[k])]

OneByOne(key, params) ==
  IF key \in DOMAIN params
    THEN [k \in DOMAIN params[key] |-> Pair(key, EncodedEach(params[key])[k])]
    ELSE << >>

Listed(key, params) ==
  IF key \in DOMAIN params /\ params[key] # << >>
    THEN <<Pair(key, Joined(EncodedEach(params[key]), ","))>>
    ELSE << >>

Url(path, fields) ==
  LET pairs == FlattenSeq(fields)
  IN  path \o (IF pairs = << >> THEN << >> ELSE <<Raw("?")>> \o Joined(pairs, "&"))
----------------------------------------------------------------------------
(* The structs of parameters, each with its keys in the order in which they   *)
(* are sent, and the queries that are built of them.                          *)
Text      == Seq(Characters)
PlainText == Seq(Characters \ Delimiters)

\* The fields under these keys, of which some are written as they are and some
\* are lists.
IsStruct(params, keys, plain, lists) ==
  /\ DOMAIN params \subseteq ToSet(keys)
  /\ \A key \in DOMAIN params :
       params[key] \in IF key \in lists THEN Seq(Text)
                      ELSE IF key \in plain THEN PlainText ELSE Text

CDOListKeys ==
  <<"datasetid", "locationid", "stationid", "datatypeid", "datacategoryid",
    "locationcategoryid", "startdate", "enddate", "sortfield", "sortorder", "limit", "offset">>

IsCDOListParams(params) == IsStruct(params, CDOListKeys, {}, {})

\* CDOClient::build_list_query; the numbers pass through encode as well.
CdoListQuery(path, params) ==
  Url(path, [k \in DOMAIN CDOListKeys |-> Encoded(CDOListKeys[k], params)])

GetDataKeys ==
  <<"datasetid", "startdate", "enddate", "datatypeid", "locationid", "stationid",
    "sortfield", "sortorder", "limit", "offset", "units", "includemetadata">>

GetDataPlain == {"limit", "offset", "includemetadata"}

IsGetDataParams(params) == IsStruct(params, GetDataKeys, GetDataPlain, {"datatypeid"})

\* CDOClient::build_data_query: every data type is a pair of its own.
CdoDataQuery(path, params) ==
  Url(path, [k \in DOMAIN GetDataKeys |->
               LET key == GetDataKeys[k]
               IN  IF key = "datatypeid" THEN OneByOne(key, params)
                   ELSE IF key \in GetDataPlain THEN AsItIs(key, params)
                   ELSE Encoded(key, params)])

DataRequestKeys ==
  <<"dataset", "startDate", "endDate", "stations", "dataTypes", "format", "units",
    "boundingBox", "includeAttributes", "includeStationName", "includeStationLocation">>

DataRequestPlain ==
  {"format", "includeAttributes", "includeStationName", "includeStationLocation"}

DataRequestLists == {"stations", "dataTypes"}

IsDataRequestParams(params) ==
  IsStruct(params, DataRequestKeys, DataRequestPlain, DataRequestLists)

\* DataServiceClient::build_data_query.
DataServiceQuery(path, params) ==
  Url(path, [k \in DOMAIN DataRequestKeys |->
               LET key == DataRequestKeys[k]
               IN  IF key \in DataRequestLists THEN Listed(key, params)
                   ELSE IF key \in DataRequestPlain THEN AsItIs(key, params)
                   ELSE Encoded(key, params)])
----------------------------------------------------------------------------
(* What a server reads.                                                       *)
Extended(parts, token, c) ==
  IF token = Raw(c) THEN Append(parts, << >>)
  ELSE [parts EXCEPT ![Len(parts)] = Append(@, token)]

\* The parts between the delimiters c.
Split(tokens, c) ==
  LET Parts[n \in 0..Len(tokens)] ==
        IF n = 0 THEN << << >> >> ELSE Extended(Parts[n - 1], tokens[n], c)
  IN  Parts[Len(tokens)]

Decoded(tokens) == [k \in DOMAIN tokens |-> tokens[k][2]]

AllDecoded(parts) == [k \in DOMAIN parts |-> Decoded(parts[k])]

SegmentsRead(url) == Tail(AllDecoded(Split(Split(url, "?")[1], "/")))

PairsRead(url) ==
  LET parts == Split(url, "?")
  IN  IF Len(parts) = 1 THEN << >> ELSE Split(parts[2], "&")

KeyOf(pair)    == Decoded(Split(pair, "=")[1])
ValuesOf(pair) == AllDecoded(Split(Split(pair, "=")[2], ","))

KeysRead(url) == {KeyOf(PairsRead(url)[k]) : k \in DOMAIN PairsRead(url)}

\* The values of a key, of all its pairs and of the lists in them.
ValuesRead(url, key) ==
  LET pairs == PairsRead(url)
  IN  FlattenSeq([k \in DOMAIN pairs |->
                    IF KeyOf(pairs[k]) = <<key>> THEN ValuesOf(pairs[k]) ELSE << >>])
=============================================================================
