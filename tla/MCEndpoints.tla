----------------------------- MODULE MCEndpoints -----------------------------
(* Endpoints for TLC: every operation of the three clients, with a few        *)
(* arguments each; texts hold a plain character and the delimiters of a URL,  *)
(* and lists none, one or two texts.  Two attempts of a call may get any of   *)
(* six statuses, with bodies in every format of errors and in none; or there  *)
(* is none.                                                                   *)
EXTENDS Endpoints

MCPolicies ==
  {[initial_delay |-> 0, max_delay |-> 0, backoff_multiplier |-> 100, jitter_factor |-> 0,
    max_attempts |-> n, retry_on_network_error |-> TRUE, retry_on_rate_limit |-> TRUE,
    retry_on_server_error |-> TRUE] : n \in {0, 2}}

MCCharacters ==
  {"a", "25", "-1", "true", "false", "json", "ssv", "netcdf"} \cup Delimiters

Awkward == <<"a", "&", "=", ",", "/", "?">>

MCIds == {<<"a">>, Awkward}

MCListParams ==
  {<< >>,
   [datasetid |-> Awkward, startdate |-> <<"a">>, limit |-> <<"25">>, offset |-> <<"-1">>],
   [locationid |-> <<"a">>, stationid |-> << >>, datatypeid |-> Awkward, sortfield |-> <<"a">>]}

Required == [datasetid |-> <<"a">>, startdate |-> <<"a">>, enddate |-> Awkward]

MCCdoParams ==
  {Required,
   [datatypeid |-> <<Awkward, <<"a">> >>, units |-> Awkward] @@ Required,
   [datatypeid |-> << >>, stationid |-> Awkward, limit |-> <<"25">>,
    includemetadata |-> <<"false">>] @@ Required}

MCServiceParams ==
  {[dataset |-> <<"a">>],
   [dataset |-> Awkward, stations |-> <<Awkward, <<"a">> >>, dataTypes |-> << >>,
    format |-> <<"json">>],
   [dataset |-> <<"a">>, stations |-> <<<<"a">>, << >> >>, dataTypes |-> <<Awkward>>,
    format |-> <<"ssv">>, boundingBox |-> <<"a", ",", "a">>],
   [dataset |-> <<"a">>, format |-> <<"netcdf">>, includeAttributes |-> <<"true">>]}

Body(content, readable) == [content |-> content, readable |-> readable]

\* Bodies that can be read as what is asked for, and bodies that tell of an
\* error, in full or in part.
MCBodies ==
  {Body(OtherJson, {"csv", "ssv", "json", "list of DataRecord"}),
   Body(ErrorJson(<< >>), {"Dataset", "list of Dataset", "DatasetMetadata", "CagSeries"}),
   Body(NotJson(<<"page">>), {"GistempSeries", "SeaIceSeries"}),
   Body(NotJson(<< >>), {}),
   Body(ErrorJson([status |-> OtherValue, message |-> String(<<"cdo">>)]), {}),
   Body(ErrorJson([status |-> String(<<"400">>), message |-> String(<< >>)]), {}),
   Body(ErrorJson([message |-> String(<<"cdo">>), title |-> String(<<"problem">>)]), {}),
   Body(ErrorJson([errorMessage |-> String(<<"service">>),
                errors |-> Array(<<String(<<"e1">>), OtherValue, String(<<"e2">>)>>)]), {}),
   Body(ErrorJson([errorMessage |-> OtherValue, detail |-> String(<<"detail">>)]), {})}
=============================================================================
