----------------------------- MODULE RetriedGet ------------------------------
(* What do_get of CDOClient, do_get of DataServiceClient and fetch of         *)
(* MonitoringClient have in common: with_retry (module Retry) around          *)
(* HttpClient::get.  CdoClient and Endpoints extend this module, the one with *)
(* what do_get of CDOClient does in each attempt, the other with what all of  *)
(* them are asked for and answer.                                             *)
EXTENDS IntegerBounds, Sequences

CONSTANTS Policies, Statuses, NotFinite, UInt8Max   \* of module Retry

\* What HttpClient::get may end with, and the two errors that do_get of
\* CDOClient adds.
HttpErrors  == {"NetworkError", "InvalidRequest"}
LimitErrors == {"QuotaExceeded", "RateLimited"}
ErrorCodes  == HttpErrors \cup LimitErrors

VARIABLES policy, phase, attempt, delay, returned, outcomes, slept   \* of module Retry

looping == <<policy, phase, attempt, delay, returned, outcomes, slept>>

Loop == INSTANCE Retry

ASSUME LoopAssumption == Loop!RetryAssumption
=============================================================================
