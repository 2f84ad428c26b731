------------------------------- MODULE MCRetry -------------------------------
(* Retry for TLC: a counter two bits wide, so that the longest policy reaches *)
(* its end, and policies with every odd setting that the code guards against. *)
EXTENDS Retry

Times(initial, max, multiplier, jitter) ==
  [initial_delay |-> initial, max_delay |-> max,
   backoff_multiplier |-> multiplier, jitter_factor |-> jitter]

With(times, attempts, network, limit, server) ==
  [initial_delay |-> times.initial_delay, max_delay |-> times.max_delay,
   backoff_multiplier |-> times.backoff_multiplier,
   jitter_factor |-> times.jitter_factor, max_attempts |-> attempts,
   retry_on_network_error |-> network, retry_on_rate_limit |-> limit,
   retry_on_server_error |-> server]

MCPolicies ==
  { With(Times(2, 5, 200, 0), 3, TRUE, TRUE, TRUE),           \* doubling, capped
    With(Times(2, 5, 200, 50), 3, TRUE, TRUE, TRUE),          \* the same, with jitter
    With(Times(4, 9, 50, -10), 3, TRUE, FALSE, TRUE),         \* shrinking
    With(Times(7, 3, 150, NotFinite), 2, FALSE, TRUE, TRUE),  \* starts above the cap
    With(Times(-1, 4, NotFinite, 300), 3, TRUE, TRUE, FALSE), \* never waits
    With(Times(2, 4, -100, 0), 3, TRUE, TRUE, TRUE),          \* then no wait
    With(Times(2, -5, 100, 20), 1, TRUE, TRUE, TRUE),         \* one attempt
    With(Times(1, 1, 100, 0), 0, TRUE, TRUE, TRUE) }          \* none

MCStatuses == {200, 429, 503, 600}
MCErrorCodes == {"NetworkError", "QuotaExceeded"}
=============================================================================
