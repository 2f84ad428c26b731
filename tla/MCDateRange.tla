----------------------------- MODULE MCDateRange -----------------------------
(* DateRange for TLC: a calendar of eight days, every pair of dates in it and *)
(* every size of chunk from a negative one to one longer than the calendar.   *)
EXTENDS DateRange

MCDates == Days \cup {Malformed}
MCChunkSizes == -1..8
=============================================================================
