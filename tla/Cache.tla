-------------------------------- MODULE Cache --------------------------------
(* What ncei::LruCache promises about single values: a lookup finds nothing,  *)
(* or what was last put under the key, if that was neither taken out since    *)
(* nor put there longer ago than ttl.  A cache may forget anything at any     *)
(* time, so this says nothing of capacity or of which entries go first:       *)
(* module LruCache has invariants for those, and implements this.             *)
EXTENDS Integers

CONSTANTS
  Key, Value,
  Nothing       \* std::nullopt, and no entry

VARIABLES
  ttl,
  now,          \* the steady clock
  latest,       \* for each key what was last put there, and when
  result        \* what the last lookup found

vars == <<ttl, now, latest, result>>

Fresh(k) == latest[k] # Nothing /\ now - latest[k].inserted_at <= ttl

Init ==
  /\ ttl \in Int
  /\ now \in Nat
  /\ latest = [k \in Key |-> Nothing]
  /\ result = Nothing

Elapse ==
  /\ now' \in Nat
  /\ now' > now
  /\ UNCHANGED <<ttl, latest, result>>

Lookup(k) ==
  /\ result' \in {Nothing} \cup IF Fresh(k) THEN {latest[k].value} ELSE {}
  /\ UNCHANGED <<ttl, now, latest>>

Store(k, v) ==
  /\ latest' = [latest EXCEPT ![k] = [value |-> v, inserted_at |-> now]]
  /\ UNCHANGED <<ttl, now, result>>

Drop(k) ==
  /\ latest' = [latest EXCEPT ![k] = Nothing]
  /\ UNCHANGED <<ttl, now, result>>

DropAll ==
  /\ latest' = [k \in Key |-> Nothing]
  /\ UNCHANGED <<ttl, now, result>>

Next ==
  \/ Elapse
  \/ \E k \in Key : Lookup(k) \/ Drop(k) \/ \E v \in Value : Store(k, v)
  \/ DropAll

Spec == Init /\ [][Next]_vars
=============================================================================
