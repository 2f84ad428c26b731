---------------------------- MODULE MCGetDataAll ----------------------------
(* GetDataAll for TLC: chunks of two days out of four, up to two records a    *)
(* day, and limits of nothing, and below, at and above what a chunk holds and *)
(* the server sends.                                                          *)
EXTENDS GetDataAll, SequencesExt

MCDates == FirstDay..LastDay \cup {Malformed}
MCLimits == {0, 1, 2, 4}
MCWildNumbers == {-1, 0, 1, 3, 5, Int32Max}

MCArchives ==
  { FlattenSeq([d \in 1..LastDay |-> [k \in 1..count[d] |-> [day |-> d, id |-> k]]]) :
      count \in [1..LastDay -> 0..2] }
=============================================================================
