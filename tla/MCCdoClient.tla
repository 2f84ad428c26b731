----------------------------- MODULE MCCdoClient -----------------------------
(* CdoClient for TLC: bursts of one and two, a quota that two calls use up, a *)
(* limiter that gives up and one that does not, and policies of up to three   *)
(* attempts.                                                                  *)
EXTENDS CdoClient

Raw(cap, interval, wait, limit) ==
  [max_tokens |-> cap, initial_tokens |-> cap, refill_interval |-> interval,
   max_wait |-> wait, daily_limit |-> limit]

MCRawConfigs ==
  {Raw(2, 2, NoWait, 3), Raw(1, 3, 2, 0), Raw(1, 2, NoWait, 2)}

Attempts(n, initial, retryServerErrors) ==
  [initial_delay |-> initial, max_delay |-> 2, backoff_multiplier |-> 200,
   jitter_factor |-> 0, max_attempts |-> n,
   retry_on_network_error |-> TRUE, retry_on_rate_limit |-> TRUE,
   retry_on_server_error |-> retryServerErrors]

MCPolicies == {Attempts(3, 0, FALSE), Attempts(2, 1, TRUE), Attempts(0, 0, TRUE)}

MCStatuses == {200, 429, 503}
=============================================================================
