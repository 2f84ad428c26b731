------------------------------ MODULE Endpoints ------------------------------
(* The operations of CDOClient, DataServiceClient and MonitoringClient (all   *)
(* of src/api but get_data_all, which module GetDataAll follows): checking    *)
(* the arguments, building the request (module Requests), asking for it in    *)
(* the retry loop (module Retry), and making an answer of what came back      *)
(* (module Errors).  One operation at a time runs on a client of each kind;   *)
(* the clients share nothing, and may be moved from between two operations.   *)
(*                                                                            *)
(* The transport and, for CDO, the limiter are seen by their results only     *)
(* (modules HttpTransfer and CdoClient).  Of a body counts what kinds of      *)
(* answer it can be read as; what is read is the body itself.                 *)
(*                                                                            *)
(* CdoClient has do_get beside this; so that both can be extended, what is    *)
(* here of the same name there is named for the operations.                   *)
(*                                                                            *)
(* An operator Name_Flaw is Name with the flaw that its suffix tells, for the *)
(* model checker to put in Name's place.                                      *)
EXTENDS RetriedGet, Requests, Errors

CONSTANTS
  Bodies,          \* bodies of responses: [content, readable as]
  Ids, ListParams, CdoParams, ServiceParams,             \* arguments
  Years, Months,
  Nothing

\* The arguments are of the types that the operations take, and a number is
\* not written with the delimiters of a URL.
ASSUME ArgumentsAssumption ==
  /\ Ids \subseteq Text
  /\ \A params \in ListParams : IsCDOListParams(params)
  /\ \A params \in CdoParams : IsGetDataParams(params)
  /\ \A params \in ServiceParams : IsDataRequestParams(params)
  /\ \A number \in Years \cup Months : ToString(number) \notin Delimiters

Clients == {"cdo", "data service", "monitoring"}

VARIABLES
  alive,       \* the clients that have their impl_
  call,        \* the operation that runs, or Nothing
  body,        \* the body of the response the loop has got last
  answer       \* what the operation returns, or Nothing while it runs

\* History: what the server answered last in the call.
VARIABLE served

operationVars == <<looping, alive, call, body, answer, served>>

OperationsInit ==
  /\ Loop!Init
  /\ alive = Clients
  /\ call = Nothing
  /\ body = Nothing
  /\ answer = Nothing
  /\ served = Nothing
----------------------------------------------------------------------------
(* The operations: the client, the request, and the kind of answer that the   *)
(* body is read as; what was asked for is kept beside the URL.                *)
Operation(client, segments, params, url, reading) ==
  [client |-> client, segments |-> segments, params |-> params, url |-> url,
   reading |-> reading]

ListOf(reading, what, params) ==
  Operation("cdo", <<what>>, params, CdoListQuery(Path(<<Plain(what)>>), params), reading)

OneOf(kind, what, id) ==
  Operation("cdo", <<what, id>>, << >>, Path(<<Plain(what), Encode(id)>>), kind)

GetDatasets(params)           == ListOf("list of Dataset", <<"datasets">>, params)
GetDataset(id)                == OneOf("Dataset", <<"datasets">>, id)
GetDataCategories(params)     == ListOf("list of DataCategory", <<"datacategories">>, params)
GetDataCategory(id)           == OneOf("DataCategory", <<"datacategories">>, id)
GetDataTypes(params)          == ListOf("list of DataType", <<"datatypes">>, params)
GetDataType(id)               == OneOf("DataType", <<"datatypes">>, id)
GetLocationCategories(params) == ListOf("list of LocationCategory", <<"locationcategories">>, params)
GetLocationCategory(id)       == OneOf("LocationCategory", <<"locationcategories">>, id)
GetLocations(params)          == ListOf("list of Location", <<"locations">>, params)
GetLocation(id)               == OneOf("Location", <<"locations">>, id)
GetStations(params)           == ListOf("list of CDOStation", <<"stations">>, params)
GetStation(id)                == OneOf("CDOStation", <<"stations">>, id)

GetCdoData(params) ==
  Operation("cdo", <<<<"data">>>>, params, CdoDataQuery(Path(<<Plain(<<"data">>)>>), params),
            "list of DataRecord")

CdoOperations ==
  {GetCdoData(params) : params \in CdoParams}
  \cup (UNION {{GetDatasets(params), GetDataCategories(params), GetDataTypes(params),
                GetLocationCategories(params), GetLocations(params), GetStations(params)} :
                 params \in ListParams})
  \cup (UNION {{GetDataset(id), GetDataCategory(id), GetDataType(id),
                GetLocationCategory(id), GetLocation(id), GetStation(id)} : id \in Ids})

\* The reader that get_data of the DataServiceClient chooses by the format;
\* two of the formats it refuses, and only once the response is there.
ReadingOf(params) ==
  IF "format" \notin DOMAIN params THEN "csv" ELSE params["format"][1]

ServiceData(params, reading) ==
  Operation("data service", <<<<"data">>, <<"v1">>>>, params,
            DataServiceQuery(Path(<<Plain(<<"data">>), Plain(<<"v1">>)>>), params), reading)

GetServiceData(params) == ServiceData(params, ReadingOf(params))
GetDataRaw(params)     == ServiceData(params, "raw")

GetDatasetMetadata(id) ==
  LET words == <<<<"support">>, <<"v3">>, <<"datasets">>>>
  IN  Operation("data service", Append(words, Append(id, ".json")), << >>,
                Path(<<Plain(words[1]), Plain(words[2]), Plain(words[3]),
                       Append(Encode(id), Raw(".json"))>>),
                "DatasetMetadata")

ServiceOperations ==
  {GetServiceData(params) : params \in ServiceParams}
  \cup {GetDataRaw(params) : params \in ServiceParams}
  \cup {GetDatasetMetadata(id) : id \in Ids}

\* The feeds of the MonitoringClient have URLs of their own, made of words.
Feed(words, reading) ==
  Operation("monitoring", <<words>>, << >>, Path(<<Plain(words)>>), reading)

GetCagGlobalAnnual(start_year, end_year) ==
  Feed(<<"climate-at-a-glance", ToString(start_year), "-", ToString(end_year)>>, "CagSeries")

GetGistempGlobal == Feed(<<"GLB.Ts+dSST.csv">>, "GistempSeries")

GetNsidcArcticExtent(monthly, month) ==
  Feed(IF monthly THEN <<"N", IF month < 10 THEN "0" ELSE "", ToString(month)>> ELSE <<"N_daily">>,
       "SeaIceSeries")

\* An operation that refuses its arguments asks for nothing.
Refused(client) == Operation(client, << >>, << >>, << >>, "refused")

MonitoringOperations ==
  {GetCagGlobalAnnual(start_year, end_year) : start_year, end_year \in Years}
  \cup {GetGistempGlobal}
  \cup {GetNsidcArcticExtent(monthly, month) : monthly \in BOOLEAN, month \in Months}
  \cup {Refused("monitoring")}
----------------------------------------------------------------------------
InvalidRequest == [kind |-> "error", code |-> "InvalidRequest", http_status |-> 0,
                   message |-> <<"invalid">>, detail |-> << >>]

Refuse(client) ==
  /\ call = Nothing
  /\ call' = Refused(client)
  /\ answer' = InvalidRequest
  /\ served' = Nothing
  /\ UNCHANGED <<looping, alive, body>>

NotInitialized == [InvalidRequest EXCEPT !.code = "NetworkError", !.message = <<"not initialized">>]

\* Nothing is not mistaken for an operation, a response or an answer.
ASSUME NothingAssumption ==
  Nothing \notin CdoOperations \cup ServiceOperations \cup MonitoringOperations
                 \cup {InvalidRequest, NotInitialized} \cup [status : Statuses, body : Bodies]

\* do_get or fetch: a moved-from client has nothing to ask with.
Ask(operation) ==
  /\ call = Nothing
  /\ call' = operation
  /\ served' = Nothing
  /\ body' = Nothing
  /\ IF operation.client \in alive
       THEN Loop!Call /\ answer' = Nothing
       ELSE answer' = NotInitialized /\ UNCHANGED looping
  /\ UNCHANGED alive

ValidYears(start_year, end_year) == start_year >= 1 /\ end_year <= 9999 /\ start_year <= end_year
ValidMonth(monthly, month) == monthly => month \in 1..12

AskMonitoring ==
  \/ \E start_year, end_year \in Years :
        IF ValidYears(start_year, end_year)
          THEN Ask(GetCagGlobalAnnual(start_year, end_year))
          ELSE Refuse("monitoring")
  \/ Ask(GetGistempGlobal)
  \/ \E monthly \in BOOLEAN, month \in Months :
        IF ValidMonth(monthly, month)
          THEN Ask(GetNsidcArcticExtent(monthly, month))
          ELSE Refuse("monitoring")

Running == call # Nothing /\ phase = "operation"

\* A request gets its response; the loop keeps that of its last attempt.
Kept_TheFirst(response_body) == IF body = Nothing THEN response_body ELSE body
Kept(response_body) == response_body

Respond(status, response_body) ==
  /\ Running
  /\ Loop!Operated(Loop!Response(status))
  /\ body' = Kept(response_body)
  /\ served' = [status |-> status, body |-> response_body]
  /\ UNCHANGED <<alive, call, answer>>

\* The transport fails; or, for CDO, the quota is used up or no token comes.
Fail(code) ==
  /\ Running
  /\ code \in HttpErrors \/ call.client = "cdo"
  /\ Loop!Operated(Loop!Error(code))
  /\ UNCHANGED <<alive, call, body, answer, served>>

SleepEnds ==
  /\ Loop!Awake
  /\ UNCHANGED <<alive, call, body, answer, served>>

\* What an operation makes of a response that is 200.
Parsed(reading) ==
  IF reading \in {"pdf", "netcdf"} THEN InvalidRequest
  ELSE IF reading = "raw" \/ reading \in body.readable
    THEN [kind |-> "value", reading |-> reading, body |-> body]
  ELSE [InvalidRequest EXCEPT !.code = "ParseError", !.message = <<"unreadable">>]

Concluded ==
  IF returned.kind = "error"
    THEN [InvalidRequest EXCEPT !.code = returned.code, !.message = <<"failed">>]
  ELSE IF returned.status # 200 THEN FromResponse(returned.status, body.content)
  ELSE Parsed(call.reading)

Conclude ==
  /\ call # Nothing /\ answer = Nothing
  /\ phase = "idle"
  /\ answer' = Concluded
  /\ UNCHANGED <<looping, alive, call, body, served>>

\* The caller takes the answer.
Leave ==
  /\ answer # Nothing
  /\ call' = Nothing
  /\ body' = Nothing
  /\ answer' = Nothing
  /\ served' = Nothing
  /\ UNCHANGED <<looping, alive>>

\* The client is moved from, and another takes its place later; one of the
\* three at a time.
MoveFrom(client) ==
  /\ call = Nothing
  /\ alive = Clients
  /\ alive' = alive \ {client}
  /\ UNCHANGED <<looping, call, body, answer, served>>

MoveInto(client) ==
  /\ call = Nothing
  /\ client \notin alive
  /\ alive' = alive \cup {client}
  /\ UNCHANGED <<looping, call, body, answer, served>>

OperationsNext ==
  \/ \E operation \in CdoOperations \cup ServiceOperations : Ask(operation)
  \/ AskMonitoring
  \/ \E status \in Statuses, response_body \in Bodies : Respond(status, response_body)
  \/ \E code \in ErrorCodes : Fail(code)
  \/ SleepEnds
  \/ Conclude
  \/ Leave
  \/ \E client \in Clients : MoveFrom(client) \/ MoveInto(client)

OperationsSpec == OperationsInit /\ [][OperationsNext]_operationVars
----------------------------------------------------------------------------
\* The server reads in every request what the caller asked for: the path, each
\* field that was set and no other, whatever characters the texts are made of
\* and however many of them a list holds (the query builders, encode).
IsList(key) ==
  key \in DataRequestLists \/ (key = "datatypeid" /\ call.reading = "list of DataRecord")

RequestsSayWhatWasAsked ==
  outcomes = << >> /\ call # Nothing /\ call.url # << >> =>
    /\ SegmentsRead(call.url) = call.segments
    /\ KeysRead(call.url) \subseteq {<<key>> : key \in DOMAIN call.params}
    /\ \A key \in DOMAIN call.params :
         ValuesRead(call.url, key) =
           IF IsList(key) THEN call.params[key] ELSE <<call.params[key]>>

\* An answer tells what came of the last attempt and of no other.  A value is
\* the body of a 200, read as the kind asked for; any other status ends in an
\* error with this status, the code that belongs to it and a message that the
\* same response has in it or, for want of one, names the status; and an error
\* from anywhere else carries no status (the operations, from_response).
Texts(content) ==
  CASE content.json = "none"   -> {content.text}
    [] content.json = "object" -> {content.fields[f].text :
                                     f \in {g \in DOMAIN content.fields :
                                              content.fields[g].type = "string"}}
    [] OTHER                   -> {}

AnswerTellsWhatHappened ==
  answer # Nothing =>
    LET answered == served # Nothing /\ Last(outcomes).kind = "response"
    IN  IF answer.kind = "value"
          THEN /\ answered
               /\ served = [status |-> 200, body |-> answer.body]
               /\ call.reading \in answer.body.readable \cup {"raw"}
        ELSE IF answered /\ served.status # 200
          THEN /\ answer.http_status = served.status
               /\ answer.code = "NotFound" <=> served.status = 404
               /\ answer.code = "InvalidRequest" <=> served.status = 400
               /\ answer.code = "RateLimited" <=> served.status = 429
               /\ answer.code = "ServerError" <=> served.status >= 500
               /\ answer.message # << >>
               /\ answer.message \in Texts(served.body.content)
                                       \cup {<<"HTTP", ToString(served.status)>>}
          ELSE /\ answer.http_status = 0
               /\ answer.code = "ParseError" =>
                    answered /\ call.reading \notin served.body.readable
=============================================================================
