---------------------------- MODULE MCRateLimiter ----------------------------
(* RateLimiter for TLC: a nap is two units of the clocks, tokens             *)
(* come every two or three units, and every configuration class of sanitized  *)
(* is there: zero capacity, too many initial tokens, no interval, no limit.   *)
EXTENDS RateLimiter

Raw(cap, initial, interval, wait, limit) ==
  [max_tokens |-> cap, initial_tokens |-> initial, refill_interval |-> interval,
   max_wait |-> wait, daily_limit |-> limit]

MCRawConfigs ==
  { Raw(2, 2, 2, NoWait, 2),  \* a burst of two, two requests a day
    Raw(0, 5, 0, 1, 0),       \* sanitized to 1, 1 and the default; no limit
    Raw(2, 0, 3, 4, -1) }     \* starts empty; a negative limit is no limit

\* The defaults of struct Config in units of 200 ms, without a daily limit.
MCDefaults == { Raw(5, 5, 1, NoWait, 0) }

MCWaits == {-1, 3}
=============================================================================
