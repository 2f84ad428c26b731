------------------------------ MODULE LruCache -------------------------------
(* ncei::LruCache (include/ncei/cache.hpp).  Every operation holds the mutex  *)
(* from its first look at the cache to its return, so that each is one step,  *)
(* whichever thread calls it; the clock runs between them.                    *)
(*                                                                            *)
(* order_ is a sequence of keys, the most recently used one first, and the    *)
(* iterator list_it of an entry is the place of its key in it.  Values and    *)
(* keys are assumed to move without throwing; what may throw is memory.       *)
(*                                                                            *)
(* An operator Name_Flaw is Name with the flaw that its suffix tells, for the *)
(* model checker to put in Name's place.                                      *)
EXTENDS Integers, SequencesExt

CONSTANTS
  Key, Value, Nothing,
  Configs,      \* the Config values that caches are made with
  MaxNow        \* bound: the last instant that the clock shows

Config == [max_entries : Nat, ttl : Int]

ASSUME CacheAssumption ==
  /\ Configs \subseteq Config
  /\ Nothing \notin Value
  /\ Nothing \notin [value : Value, inserted_at : Nat]
  /\ MaxNow \in Nat

VARIABLES
  config,       \* config_
  order,        \* order_
  map,          \* map_
  now,          \* steady_clock::now()
  result        \* what the last get returned

\* History: for each key the last value put there and not taken out since, and
\* the keys used since its own last use.
VARIABLES latest, since

vars == <<config, order, map, now, result, latest, since>>

Init ==
  /\ config \in Configs
  /\ order = << >>
  /\ map = << >>
  /\ now = 0
  /\ result = Nothing
  /\ latest = [k \in Key |-> Nothing]
  /\ since = [k \in Key |-> {}]
----------------------------------------------------------------------------
Entry(v) == [value |-> v, inserted_at |-> now]

Place(k) == CHOOSE i \in DOMAIN order : order[i] = k

Unlinked(k) == RemoveAt(order, Place(k))

ToFront_ByGetOnly(k) == order
ToFront(k) == <<k>> \o Unlinked(k)

Without(k) == Restrict(map, DOMAIN map \ {k})

\* The history of a key that becomes the most recently used one.
Used(k) == since' = [j \in Key |-> IF j = k THEN {} ELSE since[j] \cup {k}]

Expired_Later(entry) == now - entry.inserted_at > config.ttl + 1
Expired(entry) == now - entry.inserted_at > config.ttl
----------------------------------------------------------------------------
Miss(k) ==
  /\ k \notin DOMAIN map
  /\ result' = Nothing
  /\ UNCHANGED <<order, map, since>>

GetExpired(k) ==
  /\ k \in DOMAIN map
  /\ Expired(map[k])
  /\ order' = Unlinked(k)
  /\ map' = Without(k)
  /\ result' = Nothing
  /\ UNCHANGED since

Hit(k) ==
  /\ k \in DOMAIN map
  /\ ~Expired(map[k])
  /\ order' = ToFront(k)
  /\ result' = map[k].value
  /\ Used(k)
  /\ UNCHANGED map

\* The value cannot be copied for the caller: its entry has moved all the same.
HitThrows(k) ==
  /\ k \in DOMAIN map
  /\ ~Expired(map[k])
  /\ order' = ToFront(k)
  /\ Used(k)
  /\ UNCHANGED <<map, result>>

Get(k) ==
  /\ Miss(k) \/ GetExpired(k) \/ Hit(k) \/ HitThrows(k)
  /\ UNCHANGED <<config, now, latest>>

Enabled == config.max_entries > 0 /\ config.ttl > 0

Update(k, v) ==
  /\ k \in DOMAIN map
  /\ map' = [map EXCEPT ![k] = Entry(v)]
  /\ order' = ToFront(k)

\* One entry more, and the least recently used one out if that is one too many:
\* the loop of put runs once at most, since it starts within the capacity.
TooMany_OffByOne(entries) == entries > config.max_entries + 1
TooMany(entries) == entries > config.max_entries

Insert(k, v) ==
  /\ k \notin DOMAIN map
  /\ LET longer == <<k>> \o order
         larger == [j \in DOMAIN map \cup {k} |-> IF j = k THEN Entry(v) ELSE map[j]]
     IN  IF TooMany(Cardinality(DOMAIN larger))
           THEN /\ map' = Restrict(larger, DOMAIN larger \ {Last(longer)})
                /\ order' = Front(longer)
           ELSE map' = larger /\ order' = longer

Put(k, v) ==
  /\ Enabled
  /\ Update(k, v) \/ Insert(k, v)
  /\ Used(k)
  /\ latest' = [latest EXCEPT ![k] = Entry(v)]
  /\ UNCHANGED <<config, now, result>>

\* The entry cannot be allocated: the key that was just linked is unlinked.
RolledBack_Not(linked) == linked
RolledBack(linked) == Tail(linked)

PutThrows(k) ==
  /\ Enabled
  /\ k \notin DOMAIN map
  /\ order' = RolledBack(<<k>> \o order)
  /\ UNCHANGED <<config, map, now, result, latest, since>>

Invalidate(k) ==
  /\ k \in DOMAIN map
  /\ order' = Unlinked(k)
  /\ map' = Without(k)
  /\ latest' = [latest EXCEPT ![k] = Nothing]
  /\ UNCHANGED <<config, now, result, since>>

\* invalidate, of a key that is not there: what was once put is out all the same.
InvalidateMissing(k) ==
  /\ k \notin DOMAIN map
  /\ latest' = [latest EXCEPT ![k] = Nothing]
  /\ UNCHANGED <<config, order, map, now, result, since>>

Clear ==
  /\ order' = << >>
  /\ map' = << >>
  /\ latest' = [k \in Key |-> Nothing]
  /\ UNCHANGED <<config, now, result, since>>

Tick ==
  /\ now < MaxNow
  /\ now' = now + 1
  /\ UNCHANGED <<config, order, map, result, latest, since>>

Next ==
  \/ \E k \in Key : \/ Get(k)
                    \/ \E v \in Value : Put(k, v)
                    \/ PutThrows(k)
                    \/ Invalidate(k) \/ InvalidateMissing(k)
  \/ Clear
  \/ Tick

Spec == Init /\ [][Next]_vars
----------------------------------------------------------------------------
TypeOK ==
  /\ config \in Config
  /\ order \in Seq(Key)
  /\ DOMAIN map \subseteq Key
  /\ \A k \in DOMAIN map : map[k] \in [value : Value, inserted_at : 0..now]
  /\ now \in 0..MaxNow
  /\ result \in Value \cup {Nothing}
  /\ latest \in [Key -> [value : Value, inserted_at : 0..now] \cup {Nothing}]
  /\ since \in [Key -> SUBSET Key]
  /\ Cardinality(DOMAIN map) <= config.max_entries

\* List and map hold the same keys, each once, whatever was put, found expired,
\* evicted, invalidated or rolled back: every list_it is valid and size() is
\* the length of the list (get, put, invalidate, clear).
ListMatchesMap ==
  /\ IsInjective(order)
  /\ ToSet(order) = DOMAIN map

\* The least recently used entry goes first and none goes early: an entry that
\* has not expired is still there as long as fewer than max_entries other keys
\* were used since its own last use (put, the eviction loop).
RecentlyUsedStays ==
  \A k \in Key :
     /\ latest[k] # Nothing
     /\ now - latest[k].inserted_at <= config.ttl
     /\ Cardinality(since[k]) < config.max_entries
     => k \in DOMAIN map

\* A lookup never finds a value that has expired, was invalidated or was put
\* over (module Cache).
Plain == INSTANCE Cache WITH ttl <- config.ttl

ImplementsCache == Plain!Spec
=============================================================================
