----------------------------- MODULE MCLruCache ------------------------------
(* LruCache for TLC: three keys compete for two places or one, entries live   *)
(* for one or two units of a clock that shows four instants, and the two ways *)
(* to switch a cache off are there.                                           *)
EXTENDS LruCache

MCConfig(entries, seconds) == [max_entries |-> entries, ttl |-> seconds]

MCConfigs == {MCConfig(2, 1), MCConfig(1, 2), MCConfig(0, 1), MCConfig(2, 0)}

Interchangeable == Permutations(Key) \cup Permutations(Value)
=============================================================================
