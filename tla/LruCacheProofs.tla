--------------------------- MODULE LruCacheProofs ----------------------------
(* Proofs about LruCache, for any keys, values, configurations and clock.     *)
(*                                                                            *)
(* What is the case in every state (IInv): the list is in step with the map,  *)
(* a key nearer the front was used since the last use of each key behind it,  *)
(* and what the map holds is what was last put.  The list is dealt with one   *)
(* unlinking and one linking at a time: what ToFront, get, put and invalidate *)
(* do to it is a composition of the three.                                    *)
EXTENDS LruCache, FiniteSetTheorems, TLAPS

\* A list s of the keys D, each once, the later used in front.
Ordered(s, D, h) ==
  /\ s \in Seq(Key)
  /\ IsInjective(s)
  /\ ToSet(s) = D
  /\ \A i, j \in 1..Len(s) : i < j => s[i] \in h[s[j]]

\* The history after a use of key k.
UsedIn(h, k) == [j \in Key |-> IF j = k THEN {} ELSE h[j] \cup {k}]

Typed ==
  /\ config \in Config
  /\ DOMAIN map \subseteq Key
  /\ map \in [DOMAIN map -> [value : Value, inserted_at : 0..now]]
  /\ now \in 0..MaxNow
  /\ result \in Value \cup {Nothing}
  /\ latest \in [Key -> [value : Value, inserted_at : 0..now] \cup {Nothing}]
  /\ since \in [Key -> SUBSET Key]

Sized ==
  /\ IsFiniteSet(DOMAIN map)
  /\ Cardinality(DOMAIN map) <= config.max_entries
  /\ \A k \in Key : IsFiniteSet(since[k])

Current == \A k \in DOMAIN map : latest[k] = map[k]

IInv ==
  /\ Typed
  /\ Ordered(order, DOMAIN map, since)
  /\ Sized
  /\ Current
  /\ RecentlyUsedStays

\* Elements of a list after one of them is unlinked.
LEMMA RemoveAtElements ==
  ASSUME NEW S, NEW s \in Seq(S), NEW p \in 1..Len(s)
  PROVE  /\ RemoveAt(s, p) \in Seq(S)
         /\ Len(RemoveAt(s, p)) = Len(s) - 1
         /\ \A i \in 1..(Len(s) - 1) :
              RemoveAt(s, p)[i] = s[IF i < p THEN i ELSE i + 1]
<1>1. /\ SubSeq(s, 1, p - 1) \in Seq(S)
      /\ Len(SubSeq(s, 1, p - 1)) = p - 1
      /\ \A i \in 1..(p - 1) : SubSeq(s, 1, p - 1)[i] = s[i]
  OBVIOUS
<1>2. /\ SubSeq(s, p + 1, Len(s)) \in Seq(S)
      /\ Len(SubSeq(s, p + 1, Len(s))) = Len(s) - p
      /\ \A i \in 1..(Len(s) - p) : SubSeq(s, p + 1, Len(s))[i] = s[p + i]
  OBVIOUS
<1> DEFINE a == SubSeq(s, 1, p - 1)
           b == SubSeq(s, p + 1, Len(s))
<1> HIDE DEF a, b
<1>0. a \in Seq(S) /\ b \in Seq(S) /\ Len(a) = p - 1 /\ Len(b) = Len(s) - p /\ Len(s) \in Nat
  BY <1>1, <1>2 DEF a, b
<1>3. /\ a \o b \in Seq(S)
      /\ Len(a \o b) = Len(s) - 1
      /\ \A i \in 1..(Len(s) - 1) : (a \o b)[i] = IF i < p THEN a[i] ELSE b[i - p + 1]
  BY <1>0
<1>4. \A i \in 1..(Len(s) - 1) : (a \o b)[i] = s[IF i < p THEN i ELSE i + 1]
  <2>1. TAKE i \in 1..(Len(s) - 1)
  <2>2. CASE i < p
    BY <1>1, <1>3, <2>2 DEF a
  <2>3. CASE ~(i < p)
    <3>1. i - p + 1 \in 1..(Len(s) - p) /\ p + (i - p + 1) = i + 1
      BY <2>3
    <3>2. b[i - p + 1] = s[p + (i - p + 1)]
      BY <1>2, <3>1 DEF b
    <3>3. QED
      BY <1>3, <2>3, <3>1, <3>2
  <2>4. QED
    BY <2>2, <2>3
<1>5. QED
  BY <1>3, <1>4 DEF RemoveAt, a, b

\* Unlinking one key leaves the others in their order.
LEMMA UnlinkingKeepsOrder ==
  ASSUME NEW s, NEW D, NEW h, Ordered(s, D, h), NEW p \in 1..Len(s)
  PROVE  Ordered(RemoveAt(s, p), D \ {s[p]}, h)
<1> DEFINE r == RemoveAt(s, p)
           at(i) == IF i < p THEN i ELSE i + 1
<1>1. s \in Seq(Key) /\ IsInjective(s) /\ ToSet(s) = D /\ DOMAIN s = 1..Len(s)
  BY DEF Ordered
<1>2. r \in Seq(Key) /\ Len(r) = Len(s) - 1 /\ \A i \in 1..(Len(s) - 1) : r[i] = s[at(i)]
  BY <1>1, RemoveAtElements
<1>3. Len(s) \in Nat /\ DOMAIN r = 1..(Len(s) - 1)
  BY <1>1, <1>2
<1> HIDE DEF r
<1>4. \A i \in 1..(Len(s) - 1) : at(i) \in 1..Len(s) /\ at(i) # p
  BY <1>3
<1>5. \A i, j \in 1..(Len(s) - 1) : i < j => at(i) < at(j)
  BY <1>3
<1>6. \A i, j \in 1..(Len(s) - 1) : at(i) = at(j) => i = j
  BY <1>3
<1>7. \A q \in 1..Len(s) : q # p => \E i \in 1..(Len(s) - 1) : at(i) = q
  <2>1. TAKE q \in 1..Len(s)
  <2>2. HAVE q # p
  <2>3. CASE q < p
    <3>1. q \in 1..(Len(s) - 1) /\ at(q) = q
      BY <1>3, <2>3
    <3>2. QED
      BY <3>1
  <2>4. CASE q > p
    <3>1. q - 1 \in 1..(Len(s) - 1) /\ at(q - 1) = q
      BY <1>3, <2>4
    <3>2. QED
      BY <3>1
  <2>5. QED
    BY <1>3, <2>2, <2>3, <2>4
<1> HIDE DEF at
<1>8. IsInjective(r)
  BY <1>1, <1>2, <1>3, <1>4, <1>6 DEF IsInjective
<1>9. ToSet(r) = D \ {s[p]}
  <2>1. \A i \in 1..(Len(s) - 1) : r[i] \in D \ {s[p]}
    BY <1>1, <1>2, <1>4 DEF IsInjective, ToSet
  <2>2. ASSUME NEW x \in D \ {s[p]}
        PROVE  \E i \in 1..(Len(s) - 1) : r[i] = x
    <3>1. PICK q \in 1..Len(s) : s[q] = x /\ q # p
      BY <1>1 DEF ToSet
    <3>2. PICK i \in 1..(Len(s) - 1) : at(i) = q
      BY <1>7, <3>1
    <3>3. QED
      BY <1>2, <3>1, <3>2
  <2>3. QED
    BY <1>3, <2>1, <2>2 DEF ToSet
<1>10. \A i, j \in 1..Len(r) : i < j => r[i] \in h[r[j]]
  <2>1. SUFFICES ASSUME NEW i \in 1..(Len(s) - 1), NEW j \in 1..(Len(s) - 1), i < j
                 PROVE  r[i] \in h[r[j]]
    BY <1>2
  <2>2. at(i) \in 1..Len(s) /\ at(j) \in 1..Len(s) /\ at(i) < at(j)
    BY <1>4, <1>5, <2>1
  <2>3. s[at(i)] \in h[s[at(j)]]
    BY <2>2 DEF Ordered
  <2>4. QED
    BY <1>2, <2>3
<1>11. QED
  BY <1>2, <1>8, <1>9, <1>10 DEF Ordered, r

\* A key linked in front is used: every other key saw its use.
LEMMA LinkingKeepsOrder ==
  ASSUME NEW s, NEW D, NEW h, Ordered(s, D, h), NEW k \in Key, k \notin D
  PROVE  Ordered(<<k>> \o s, D \cup {k}, UsedIn(h, k))
<1> DEFINE r == <<k>> \o s
<1>1. s \in Seq(Key) /\ IsInjective(s) /\ ToSet(s) = D /\ DOMAIN s = 1..Len(s) /\ Len(s) \in Nat
  BY DEF Ordered
<1>2. /\ r \in Seq(Key) /\ Len(r) = Len(s) + 1 /\ DOMAIN r = 1..(Len(s) + 1)
      /\ r[1] = k
      /\ \A i \in 2..(Len(s) + 1) : r[i] = s[i - 1]
  BY <1>1
<1>3. \A i \in 2..(Len(s) + 1) : i - 1 \in 1..Len(s)
  BY <1>1
<1>4. \A i \in 1..Len(s) : i + 1 \in 2..(Len(s) + 1) /\ (i + 1) - 1 = i
  BY <1>1
<1> HIDE DEF r
<1>5. \A i \in 1..Len(s) : s[i] \in Key /\ s[i] \in D /\ s[i] # k
  BY <1>1 DEF ToSet
<1>6. \A i \in 2..(Len(s) + 1) : r[i] # k
  BY <1>2, <1>3, <1>5
<1>7. \A i \in 1..(Len(s) + 1) : i # 1 => i \in 2..(Len(s) + 1)
  BY <1>1
<1>8. IsInjective(r)
  <2>1. SUFFICES ASSUME NEW i \in 1..(Len(s) + 1), NEW j \in 1..(Len(s) + 1), r[i] = r[j]
                 PROVE  i = j
    BY <1>2 DEF IsInjective
  <2>2. CASE i = 1 \/ j = 1
    BY <1>2, <1>6, <1>7, <2>1, <2>2
  <2>3. CASE i # 1 /\ j # 1
    <3>1. i - 1 = j - 1
      BY <1>1, <1>2, <1>3, <1>7, <2>1, <2>3, SMTT(30) DEF IsInjective
    <3>2. QED
      BY <3>1, <1>1
  <2>4. QED
    BY <2>2, <2>3
<1>9. ToSet(r) = D \cup {k}
  <2>1. \A i \in 1..(Len(s) + 1) : r[i] \in D \cup {k}
    BY <1>2, <1>3, <1>5, <1>7
  <2>2. \A x \in D : \E i \in 1..(Len(s) + 1) : r[i] = x
    <3>1. TAKE x \in D
    <3>2. PICK q \in 1..Len(s) : s[q] = x
      BY <1>1 DEF ToSet
    <3>3. q + 1 \in 1..(Len(s) + 1) /\ r[q + 1] = x
      BY <1>1, <1>2, <1>4, <3>2
    <3>4. QED
      BY <3>3
  <2>3. 1 \in 1..(Len(s) + 1)
    BY <1>1
  <2>4. QED
    BY <1>2, <2>1, <2>2, <2>3 DEF ToSet
<1>10. \A i, j \in 1..Len(r) : i < j => r[i] \in UsedIn(h, k)[r[j]]
  <2>1. SUFFICES ASSUME NEW i \in 1..(Len(s) + 1), NEW j \in 1..(Len(s) + 1), i < j
                 PROVE  r[i] \in UsedIn(h, k)[r[j]]
    BY <1>2
  <2>2. j \in 2..(Len(s) + 1) /\ r[j] = s[j - 1] /\ j - 1 \in 1..Len(s)
    BY <1>1, <1>2, <1>3, <2>1
  <2>3. r[j] \in Key /\ r[j] # k /\ UsedIn(h, k)[r[j]] = h[r[j]] \cup {k}
    BY <1>5, <2>2 DEF UsedIn
  <2>4. CASE i = 1
    BY <1>2, <2>3, <2>4
  <2>5. CASE i # 1
    <3>1. r[i] = s[i - 1] /\ i - 1 \in 1..Len(s) /\ i - 1 < j - 1
      BY <1>1, <1>2, <1>3, <1>7, <2>1, <2>5
    <3>2. s[i - 1] \in h[s[j - 1]]
      BY <2>2, <3>1 DEF Ordered
    <3>3. QED
      BY <2>2, <2>3, <3>1, <3>2
  <2>6. QED
    BY <2>4, <2>5
<1>11. QED
  BY <1>2, <1>8, <1>9, <1>10 DEF Ordered, r

\* The last key of a list can be dropped as well.
LEMMA DroppingLastKeepsOrder ==
  ASSUME NEW s, NEW D, NEW h, Ordered(s, D, h), Len(s) > 0
  PROVE  Ordered(Front(s), D \ {Last(s)}, h)
<1> DEFINE r == Front(s)
           n == Len(s)
<1>1. s \in Seq(Key) /\ IsInjective(s) /\ ToSet(s) = D /\ DOMAIN s = 1..n /\ n \in Nat /\ n > 0
  BY DEF Ordered
<1>2. r \in Seq(Key) /\ Len(r) = n - 1 /\ DOMAIN r = 1..(n - 1) /\ \A i \in 1..(n - 1) : r[i] = s[i]
  BY <1>1 DEF Front
<1> HIDE DEF r, n
<1>3. \A i \in 1..(n - 1) : i \in 1..n /\ i # n
  BY <1>1
<1>4. n \in 1..n /\ \A i \in 1..n : i # n => i \in 1..(n - 1)
  BY <1>1
<1>5. IsInjective(r)
  BY <1>1, <1>2, <1>3 DEF IsInjective
<1>6. ToSet(r) = D \ {s[n]}
  BY <1>1, <1>2, <1>3, <1>4 DEF IsInjective, ToSet
<1>7. \A i, j \in 1..Len(r) : i < j => r[i] \in h[r[j]]
  BY <1>2, <1>3 DEF Ordered, n
<1>8. QED
  BY <1>2, <1>5, <1>6, <1>7 DEF Ordered, Last, r, n

\* The history grows by the key used, and is finite.
LEMMA HistoryGrows ==
  ASSUME Typed, Sized, NEW k \in Key
  PROVE  /\ UsedIn(since, k) \in [Key -> SUBSET Key]
         /\ \A j \in Key : IsFiniteSet(UsedIn(since, k)[j])
         /\ \A j \in Key : j # k => Cardinality(since[j]) <= Cardinality(UsedIn(since, k)[j])
<1>1. since \in [Key -> SUBSET Key]
  BY DEF Typed
<1>2. UsedIn(since, k) \in [Key -> SUBSET Key]
  BY <1>1 DEF UsedIn
<1>3. ASSUME NEW j \in Key
      PROVE  /\ IsFiniteSet(UsedIn(since, k)[j])
             /\ j # k => Cardinality(since[j]) <= Cardinality(UsedIn(since, k)[j])
  <2>1. IsFiniteSet(since[j])
    BY DEF Sized
  <2>2. IsFiniteSet(since[j] \cup {k})
    BY <2>1, FS_AddElement
  <2>3. Cardinality(since[j]) <= Cardinality(since[j] \cup {k})
    BY <2>2, FS_Subset
  <2>4. CASE j = k
    BY <2>4, FS_EmptySet DEF UsedIn
  <2>5. CASE j # k
    BY <2>2, <2>3, <2>5 DEF UsedIn
  <2>6. QED
    BY <2>4, <2>5
<1>4. QED
  BY <1>2, <1>3

\* get, put and invalidate find the key they unlink where the iterator says.
LEMMA ListOperations ==
  ASSUME Ordered(order, DOMAIN map, since), NEW k \in Key, k \in DOMAIN map
  PROVE  /\ Ordered(Unlinked(k), DOMAIN map \ {k}, since)
         /\ Ordered(ToFront(k), DOMAIN map, UsedIn(since, k))
<1>1. order \in Seq(Key) /\ DOMAIN order = 1..Len(order) /\ ToSet(order) = DOMAIN map
  BY DEF Ordered
<1>2. \E i \in DOMAIN order : order[i] = k
  BY <1>1 DEF ToSet
<1>3. Place(k) \in 1..Len(order) /\ order[Place(k)] = k
  BY <1>1, <1>2 DEF Place
<1>4. Ordered(Unlinked(k), DOMAIN map \ {k}, since)
  BY <1>3, UnlinkingKeepsOrder DEF Unlinked
<1>5. Ordered(ToFront(k), (DOMAIN map \ {k}) \cup {k}, UsedIn(since, k))
  BY <1>4, LinkingKeepsOrder DEF ToFront
<1>6. (DOMAIN map \ {k}) \cup {k} = DOMAIN map
  OBVIOUS
<1>7. QED
  BY <1>4, <1>5, <1>6

\* After the use of a key that is then in the map, every other key is there
\* still or was not used for long enough.
LEMMA StaysWhileOthersAreUsed ==
  ASSUME Typed, Sized, RecentlyUsedStays, NEW k \in Key,
         UNCHANGED <<config, now>>,
         since' = UsedIn(since, k),
         k \in DOMAIN map',
         \A j \in Key : j # k => latest'[j] = latest[j],
         \A j \in DOMAIN map \ DOMAIN map' :
            Cardinality(UsedIn(since, k)[j]) >= config.max_entries
  PROVE  RecentlyUsedStays'
<1>1. SUFFICES ASSUME NEW j \in Key, j \notin DOMAIN map', latest[j] # Nothing,
                      now - latest[j].inserted_at <= config.ttl,
                      Cardinality(UsedIn(since, k)[j]) < config.max_entries, j # k
               PROVE  FALSE
  BY DEF RecentlyUsedStays
<1>2. Cardinality(since[j]) <= Cardinality(UsedIn(since, k)[j])
  BY <1>1, HistoryGrows
<1>3. /\ Cardinality(since[j]) \in Nat
      /\ Cardinality(UsedIn(since, k)[j]) \in Nat
      /\ config.max_entries \in Nat
  BY HistoryGrows, FS_CardinalityType DEF Sized, Typed, Config
<1>4. Cardinality(since[j]) < config.max_entries
  BY <1>1, <1>2, <1>3
<1>5. j \in DOMAIN map
  BY <1>1, <1>4 DEF RecentlyUsedStays
<1>6. QED
  BY <1>1, <1>3, <1>5

\* A cache that has just been made.
LEMMA InitIInv == Init => IInv
<1> SUFFICES ASSUME Init PROVE IInv
  OBVIOUS
<1>1. DOMAIN map = {} /\ order = << >>
  BY DEF Init
<1>2. config \in Config /\ config.max_entries \in Nat
  BY CacheAssumption DEF Init, Config
<1>3. Typed
  BY <1>1, <1>2, CacheAssumption DEF Init, Typed
<1>4. Ordered(order, DOMAIN map, since)
  <2>1. order \in Seq(Key) /\ Len(order) = 0 /\ DOMAIN order = {}
    BY <1>1
  <2>2. QED
    BY <1>1, <2>1 DEF Ordered, IsInjective, ToSet
<1>5. Sized
  BY <1>1, <1>2, FS_EmptySet DEF Init, Sized
<1>6. Current /\ RecentlyUsedStays
  BY <1>1 DEF Init, Current, RecentlyUsedStays
<1>7. QED
  BY <1>3, <1>4, <1>5, <1>6 DEF IInv

\* A lookup that finds nothing, finds the entry expired, or finds it.
LEMMA GetKeepsIInv ==
  ASSUME IInv, NEW k \in Key, Get(k)
  PROVE  IInv'
<1>1. Typed /\ Ordered(order, DOMAIN map, since) /\ Sized /\ Current /\ RecentlyUsedStays
  BY DEF IInv
<1>2. UNCHANGED <<config, now, latest>>
  BY DEF Get
<1>3. CASE Miss(k)
  BY <1>1, <1>2, <1>3
     DEF Miss, IInv, Typed, Sized, Current, RecentlyUsedStays
<1>4. CASE GetExpired(k)
  <2>1. k \in DOMAIN map /\ map' = [j \in DOMAIN map \ {k} |-> map[j]] /\ since' = since
    BY <1>4 DEF GetExpired, Without, Restrict
  <2>2. DOMAIN map' = DOMAIN map \ {k}
    BY <2>1
  <2>3. Typed'
    BY <1>1, <1>2, <1>4, <2>1 DEF Typed, GetExpired
  <2>4. Ordered(order, DOMAIN map, since)'
    BY <1>1, <1>4, <2>1, <2>2, ListOperations DEF GetExpired
  <2>5. Sized'
    <3>1. /\ IsFiniteSet(DOMAIN map')
          /\ Cardinality(DOMAIN map') <= Cardinality(DOMAIN map)
      BY <1>1, <2>2, FS_Subset DEF Sized
    <3>2. Cardinality(DOMAIN map') \in Nat /\ Cardinality(DOMAIN map) \in Nat
      BY <1>1, <3>1, FS_CardinalityType DEF Sized
    <3>3. QED
      BY <1>1, <1>2, <2>1, <3>1, <3>2 DEF Sized, Typed, Config
  <2>6. Current'
    BY <1>1, <1>2, <2>1 DEF Current
  <2>7. RecentlyUsedStays'
    <3>1. now - latest[k].inserted_at > config.ttl
      BY <1>1, <1>4, <2>1 DEF GetExpired, Expired, Current
    <3>2. latest[k] = map[k] /\ map[k].inserted_at \in 0..now /\ now \in Nat /\ config.ttl \in Int
      BY <1>1, <2>1, CacheAssumption DEF Current, Typed, Config
    <3>3. ~(now - latest[k].inserted_at <= config.ttl)
      BY <3>1, <3>2
    <3>4. QED
      BY <1>1, <1>2, <2>1, <2>2, <3>3 DEF RecentlyUsedStays
  <2>8. QED
    BY <2>3, <2>4, <2>5, <2>6, <2>7 DEF IInv
<1>5. CASE Hit(k) \/ HitThrows(k)
  <2>1. /\ k \in DOMAIN map /\ map' = map
        /\ order' = ToFront(k)
        /\ since' = UsedIn(since, k)
        /\ result' \in {result, map[k].value}
    BY <1>5 DEF Hit, HitThrows, Used, UsedIn
  <2>2. Typed'
    BY <1>1, <1>2, <2>1, HistoryGrows DEF Typed
  <2>3. Ordered(order, DOMAIN map, since)'
    BY <1>1, <2>1, ListOperations
  <2>4. Sized'
    BY <1>1, <1>2, <2>1, HistoryGrows DEF Sized
  <2>5. Current'
    BY <1>1, <1>2, <2>1 DEF Current
  <2>6. RecentlyUsedStays'
    BY <1>1, <1>2, <2>1, StaysWhileOthersAreUsed
  <2>7. QED
    BY <2>2, <2>3, <2>4, <2>5, <2>6 DEF IInv
<1>6. QED
  BY <1>3, <1>4, <1>5 DEF Get

\* The function that Insert makes before it looks at the capacity.
Larger(k, v) == [j \in DOMAIN map \cup {k} |-> IF j = k THEN Entry(v) ELSE map[j]]

\* put, of a key that is there: its entry is renewed and moves to the front.
LEMMA UpdateKeepsIInv ==
  ASSUME IInv, NEW k \in Key, NEW v \in Value, Put(k, v), Update(k, v)
  PROVE  IInv'
<1>1. Typed /\ Ordered(order, DOMAIN map, since) /\ Sized /\ Current /\ RecentlyUsedStays
  BY DEF IInv
<1>2. /\ k \in DOMAIN map
      /\ map' = [map EXCEPT ![k] = Entry(v)]
      /\ order' = ToFront(k)
      /\ since' = UsedIn(since, k)
      /\ latest' = [latest EXCEPT ![k] = Entry(v)]
      /\ UNCHANGED <<config, now, result>>
  BY DEF Put, Update, Used, UsedIn
<1>3. Entry(v) \in [value : Value, inserted_at : 0..now]
  BY <1>1, CacheAssumption DEF Entry, Typed
<1>4. DOMAIN map' = DOMAIN map
  BY <1>2
<1>5. Typed'
  BY <1>1, <1>2, <1>3, <1>4, HistoryGrows DEF Typed
<1>6. Ordered(order, DOMAIN map, since)'
  BY <1>1, <1>2, <1>4, ListOperations
<1>7. Sized'
  BY <1>1, <1>2, <1>4, HistoryGrows DEF Sized
<1>8. Current'
  BY <1>1, <1>2, <1>4 DEF Current, Typed
<1>9. RecentlyUsedStays'
  BY <1>1, <1>2, <1>4, StaysWhileOthersAreUsed DEF Typed
<1>10. QED
  BY <1>5, <1>6, <1>7, <1>8, <1>9 DEF IInv

\* put, of a new key for which there is room.
LEMMA InsertKeepsIInv ==
  ASSUME IInv, NEW k \in Key, NEW v \in Value, Put(k, v), k \notin DOMAIN map,
         map' = Larger(k, v), order' = <<k>> \o order,
         Cardinality(DOMAIN Larger(k, v)) <= config.max_entries
  PROVE  IInv'
<1>1. Typed /\ Ordered(order, DOMAIN map, since) /\ Sized /\ Current /\ RecentlyUsedStays
  BY DEF IInv
<1>2. /\ since' = UsedIn(since, k)
      /\ latest' = [latest EXCEPT ![k] = Entry(v)]
      /\ UNCHANGED <<config, now, result>>
  BY DEF Put, Used, UsedIn
<1>3. Entry(v) \in [value : Value, inserted_at : 0..now]
  BY <1>1, CacheAssumption DEF Entry, Typed
<1>4. DOMAIN map' = DOMAIN map \cup {k}
  BY DEF Larger
<1>5. Typed'
  BY <1>1, <1>2, <1>3, <1>4, HistoryGrows DEF Typed, Larger
<1>6. Ordered(order, DOMAIN map, since)'
  BY <1>1, <1>2, <1>4, LinkingKeepsOrder
<1>7. Sized'
  BY <1>1, <1>2, <1>4, HistoryGrows, FS_AddElement DEF Sized, Larger
<1>8. Current'
  BY <1>1, <1>2, <1>4 DEF Current, Typed, Larger
<1>9. RecentlyUsedStays'
  BY <1>1, <1>2, <1>4, StaysWhileOthersAreUsed DEF Typed
<1>10. QED
  BY <1>5, <1>6, <1>7, <1>8, <1>9 DEF IInv

\* put, of a new key for which the least recently used one has to go.  As many
\* others as the cache holds were used since that one was.
LEMMA EvictionKeepsIInv ==
  ASSUME IInv, NEW k \in Key, NEW v \in Value, Put(k, v), k \notin DOMAIN map,
         Cardinality(DOMAIN Larger(k, v)) > config.max_entries,
         map' = Restrict(Larger(k, v), DOMAIN Larger(k, v) \ {Last(<<k>> \o order)}),
         order' = Front(<<k>> \o order)
  PROVE  IInv'
<1> DEFINE longer == <<k>> \o order
           e == Last(longer)
           all == DOMAIN map \cup {k}
<1>1. Typed /\ Ordered(order, DOMAIN map, since) /\ Sized /\ Current /\ RecentlyUsedStays
  BY DEF IInv
<1>2. /\ since' = UsedIn(since, k)
      /\ latest' = [latest EXCEPT ![k] = Entry(v)]
      /\ UNCHANGED <<config, now, result>>
      /\ config.max_entries > 0
  BY DEF Put, Used, UsedIn, Enabled
<1>3. Entry(v) \in [value : Value, inserted_at : 0..now]
  BY <1>1, CacheAssumption DEF Entry, Typed
<1>4. /\ DOMAIN map' = all \ {e}
      /\ \A j \in all \ {e} : map'[j] = IF j = k THEN Entry(v) ELSE map[j]
      /\ map' \in [DOMAIN map' -> [value : Value, inserted_at : 0..now]]
  BY <1>1, <1>3 DEF Larger, Restrict, Typed
<1>5. config.max_entries \in Nat
  BY <1>1 DEF Typed, Config
<1>6. Ordered(longer, all, UsedIn(since, k))
  BY <1>1, LinkingKeepsOrder
<1>7. /\ IsFiniteSet(all)
      /\ Cardinality(all) = Cardinality(DOMAIN map) + 1
      /\ Cardinality(all) > config.max_entries
  BY <1>1, FS_AddElement DEF Sized, Larger
<1>8. order \in Seq(Key) /\ Len(order) \in Nat /\ DOMAIN order = 1..Len(order) /\ ToSet(order) = DOMAIN map
  BY <1>1 DEF Ordered
<1>9. Len(order) > 0
  <2>1. SUFFICES ASSUME Len(order) = 0 PROVE FALSE
    BY <1>8
  <2>0. DOMAIN order = {}
    BY <1>8, <2>1
  <2>2. DOMAIN map = {}
    BY <1>8, <2>0 DEF ToSet
  <2>3. Cardinality(all) = 1
    BY <1>7, <2>2, FS_EmptySet
  <2>4. QED
    BY <1>2, <1>5, <1>7, <2>3
<1>10. /\ Len(longer) = Len(order) + 1
       /\ longer[Len(longer)] = order[Len(order)]
       /\ Len(order) \in DOMAIN order
  BY <1>8, <1>9
<1>11. e \in DOMAIN map /\ e # k /\ e \in Key
  BY <1>1, <1>8, <1>10 DEF Last, ToSet, Typed
<1>12. Typed'
  BY <1>1, <1>2, <1>3, <1>4, HistoryGrows DEF Typed
<1>13. Ordered(order, DOMAIN map, since)'
  <2>1. Len(longer) > 0
    BY <1>9, <1>10
  <2>2. Ordered(Front(longer), all \ {Last(longer)}, UsedIn(since, k))
    BY <1>6, <2>1, DroppingLastKeepsOrder
  <2>3. order' = Front(longer) /\ DOMAIN map' = all \ {Last(longer)} /\ since' = UsedIn(since, k)
    BY <1>2, <1>4
  <2>4. QED
    BY <2>2, <2>3
<1>14. /\ IsFiniteSet(all \ {e})
       /\ Cardinality(all \ {e}) = Cardinality(all) - 1
  BY <1>7, <1>11, FS_RemoveElement
<1>15. Sized'
  <2>1. Cardinality(all \ {e}) = Cardinality(DOMAIN map)
    BY <1>1, <1>7, <1>14, FS_CardinalityType DEF Sized
  <2>2. QED
    BY <1>1, <1>2, <1>4, <1>14, <2>1, HistoryGrows DEF Sized
<1>16. Current'
  BY <1>1, <1>2, <1>4 DEF Current, Typed
<1>17. Cardinality(UsedIn(since, k)[e]) >= config.max_entries
  <2>0. \A i, j \in 1..Len(longer) : i < j => longer[i] \in UsedIn(since, k)[longer[j]]
    BY <1>6 DEF Ordered
  <2>1. all \ {e} \subseteq UsedIn(since, k)[e]
    <3>1. SUFFICES ASSUME NEW x \in all \ {e} PROVE x \in UsedIn(since, k)[e]
      OBVIOUS
    <3>2. PICK i \in DOMAIN longer : longer[i] = x
      BY <1>6, <3>1 DEF Ordered, ToSet
    <3>3. i \in 1..Len(longer) /\ i < Len(longer) /\ Len(longer) \in 1..Len(longer)
      BY <1>8, <1>10, <3>1, <3>2 DEF Last
    <3>4. longer[i] \in UsedIn(since, k)[longer[Len(longer)]]
      BY <2>0, <3>3
    <3>5. QED
      BY <3>2, <3>4 DEF Last
  <2>2. IsFiniteSet(UsedIn(since, k)[e])
    BY <1>1, <1>11, HistoryGrows
  <2>3. Cardinality(all \ {e}) <= Cardinality(UsedIn(since, k)[e])
    BY <2>1, <2>2, FS_Subset
  <2>4. Cardinality(UsedIn(since, k)[e]) \in Nat /\ Cardinality(all) \in Nat
    BY <1>7, <2>2, FS_CardinalityType
  <2>5. QED
    BY <1>5, <1>7, <1>14, <2>3, <2>4
<1>18. RecentlyUsedStays'
  <2>1. k \in DOMAIN map'
    BY <1>4, <1>11
  <2>2. \A j \in DOMAIN map \ DOMAIN map' : j = e
    BY <1>4
  <2>3. \A j \in Key : j # k => latest'[j] = latest[j]
    BY <1>1, <1>2 DEF Typed
  <2>4. QED
    BY <1>1, <1>2, <1>17, <2>1, <2>2, <2>3, StaysWhileOthersAreUsed
<1>19. QED
  BY <1>12, <1>13, <1>15, <1>16, <1>18 DEF IInv

\* invalidate forgets what was put under the key, whether it is there or not.
LEMMA RemovalKeepsIInv ==
  ASSUME IInv, NEW k \in Key, Invalidate(k) \/ InvalidateMissing(k)
  PROVE  IInv'
<1>1. Typed /\ Ordered(order, DOMAIN map, since) /\ Sized /\ Current /\ RecentlyUsedStays
  BY DEF IInv
<1>2. UNCHANGED <<config, now, result, since>>
  BY DEF Invalidate, InvalidateMissing
<1>3. CASE Invalidate(k)
  <2>1. /\ k \in DOMAIN map
        /\ map' = [j \in DOMAIN map \ {k} |-> map[j]]
        /\ order' = Unlinked(k)
        /\ latest' = [latest EXCEPT ![k] = Nothing]
    BY <1>3 DEF Invalidate, Without, Restrict
  <2>2. DOMAIN map' = DOMAIN map \ {k}
    BY <2>1
  <2>3. Typed'
    BY <1>1, <1>2, <2>1 DEF Typed
  <2>4. Ordered(order, DOMAIN map, since)'
    BY <1>1, <1>2, <2>1, <2>2, ListOperations
  <2>5. Sized'
    <3>1. /\ IsFiniteSet(DOMAIN map')
          /\ Cardinality(DOMAIN map') <= Cardinality(DOMAIN map)
      BY <1>1, <2>2, FS_Subset DEF Sized
    <3>2. Cardinality(DOMAIN map') \in Nat /\ Cardinality(DOMAIN map) \in Nat
      BY <1>1, <3>1, FS_CardinalityType DEF Sized
    <3>3. QED
      BY <1>1, <1>2, <3>1, <3>2 DEF Sized, Typed, Config
  <2>6. Current' /\ RecentlyUsedStays'
    BY <1>1, <1>2, <2>1, <2>2 DEF Current, RecentlyUsedStays, Typed
  <2>7. QED
    BY <2>3, <2>4, <2>5, <2>6 DEF IInv
<1>4. CASE InvalidateMissing(k)
  <2>1. /\ k \notin DOMAIN map
        /\ UNCHANGED <<order, map>>
        /\ latest' = [latest EXCEPT ![k] = Nothing]
    BY <1>4 DEF InvalidateMissing
  <2>2. Typed'
    BY <1>1, <1>2, <2>1 DEF Typed
  <2>3. Ordered(order, DOMAIN map, since)' /\ Sized'
    BY <1>1, <1>2, <2>1 DEF Sized
  <2>4. Current' /\ RecentlyUsedStays'
    BY <1>1, <1>2, <2>1 DEF Current, RecentlyUsedStays, Typed
  <2>5. QED
    BY <2>2, <2>3, <2>4 DEF IInv
<1>5. QED
  BY <1>3, <1>4

\* clear takes out everything.
LEMMA ClearKeepsIInv ==
  ASSUME IInv, Clear
  PROVE  IInv'
<1>1. Typed /\ Sized
  BY DEF IInv
<1>2. /\ UNCHANGED <<config, now, result, since>>
      /\ DOMAIN map' = {} /\ map' = << >> /\ order' = << >>
      /\ latest' = [j \in Key |-> Nothing]
  BY DEF Clear
<1>3. Typed'
  BY <1>1, <1>2 DEF Typed
<1>4. Ordered(order, DOMAIN map, since)'
  <2>1. order' \in Seq(Key) /\ Len(order') = 0 /\ DOMAIN order' = {}
    BY <1>2
  <2>2. QED
    BY <1>2, <2>1 DEF Ordered, IsInjective, ToSet
<1>5. Sized'
  BY <1>1, <1>2, FS_EmptySet DEF Sized, Typed, Config
<1>6. Current' /\ RecentlyUsedStays'
  BY <1>2 DEF Current, RecentlyUsedStays
<1>7. QED
  BY <1>3, <1>4, <1>5, <1>6 DEF IInv

\* A put that runs out of memory leaves the cache as it was.
LEMMA PutThrowsKeepsIInv ==
  ASSUME IInv, NEW k \in Key, PutThrows(k)
  PROVE  IInv' /\ UNCHANGED vars
<1>1. order \in Seq(Key)
  BY DEF IInv, Ordered
<1>2. Tail(<<k>> \o order) = order
  BY <1>1
<1>3. UNCHANGED vars
  BY <1>2 DEF PutThrows, RolledBack, vars
<1>4. QED
  BY <1>3 DEF vars, IInv, Typed, Sized, Current, RecentlyUsedStays

\* Time only makes entries expire.
LEMMA TickKeepsIInv ==
  ASSUME IInv, Tick
  PROVE  IInv'
<1>1. Typed /\ Ordered(order, DOMAIN map, since) /\ Sized /\ Current /\ RecentlyUsedStays
  BY DEF IInv
<1>2. /\ UNCHANGED <<config, order, map, result, latest, since>>
      /\ now < MaxNow /\ now' = now + 1
  BY DEF Tick
<1>3. now \in Nat /\ now' \in 0..MaxNow /\ 0..now \subseteq 0..now'
  BY <1>1, <1>2, CacheAssumption DEF Typed
<1>4. Typed'
  BY <1>1, <1>2, <1>3 DEF Typed
<1>5. Ordered(order, DOMAIN map, since)' /\ Sized' /\ Current'
  BY <1>1, <1>2 DEF Sized, Current
<1>6. ASSUME NEW j \in Key, latest[j] # Nothing, now' - latest[j].inserted_at <= config.ttl
      PROVE  now - latest[j].inserted_at <= config.ttl
  <2>1. latest[j].inserted_at \in Int /\ config.ttl \in Int
    BY <1>1, <1>6 DEF Typed, Config
  <2>2. QED
    BY <1>2, <1>3, <1>6, <2>1
<1>7. RecentlyUsedStays'
  BY <1>1, <1>2, <1>6 DEF RecentlyUsedStays
<1>8. QED
  BY <1>4, <1>5, <1>7 DEF IInv

LEMMA PutKeepsIInv ==
  ASSUME IInv, NEW k \in Key, NEW v \in Value, Put(k, v)
  PROVE  IInv'
<1>1. CASE Update(k, v)
  BY <1>1, UpdateKeepsIInv
<1>2. CASE Insert(k, v)
  <2>1. k \notin DOMAIN map
    BY <1>2 DEF Insert
  <2>2. CASE TooMany(Cardinality(DOMAIN Larger(k, v)))
    <3>1. /\ map' = Restrict(Larger(k, v), DOMAIN Larger(k, v) \ {Last(<<k>> \o order)})
          /\ order' = Front(<<k>> \o order)
      BY <1>2, <2>2 DEF Insert, Larger
    <3>2. QED
      BY <2>1, <2>2, <3>1, EvictionKeepsIInv DEF TooMany
  <2>3. CASE ~TooMany(Cardinality(DOMAIN Larger(k, v)))
    <3>1. map' = Larger(k, v) /\ order' = <<k>> \o order
      BY <1>2, <2>3 DEF Insert, Larger
    <3>2. Cardinality(DOMAIN Larger(k, v)) <= config.max_entries
      <4>1. IsFiniteSet(DOMAIN map \cup {k}) /\ config.max_entries \in Nat
        BY FS_AddElement DEF IInv, Sized, Typed, Config
      <4>2. Cardinality(DOMAIN Larger(k, v)) \in Nat
        BY <4>1, FS_CardinalityType DEF Larger
      <4>3. QED
        BY <2>3, <4>1, <4>2 DEF TooMany
    <3>3. QED
      BY <2>1, <3>1, <3>2, InsertKeepsIInv
  <2>4. QED
    BY <2>2, <2>3
<1>3. QED
  BY <1>1, <1>2 DEF Put

LEMMA NextKeepsIInv == IInv /\ [Next]_vars => IInv'
<1> SUFFICES ASSUME IInv, [Next]_vars PROVE IInv'
  OBVIOUS
<1>1. ASSUME NEW k \in Key, Get(k) PROVE IInv'
  BY <1>1, GetKeepsIInv
<1>2. ASSUME NEW k \in Key, NEW v \in Value, Put(k, v) PROVE IInv'
  BY <1>2, PutKeepsIInv
<1>3. ASSUME NEW k \in Key, PutThrows(k) PROVE IInv'
  BY <1>3, PutThrowsKeepsIInv
<1>4. ASSUME NEW k \in Key, Invalidate(k) \/ InvalidateMissing(k) PROVE IInv'
  BY <1>4, RemovalKeepsIInv
<1>5. CASE Clear
  BY <1>5, ClearKeepsIInv
<1>6. CASE Tick
  BY <1>6, TickKeepsIInv
<1>7. CASE UNCHANGED vars
  BY <1>7 DEF vars, IInv, Typed, Sized, Current, RecentlyUsedStays
<1>8. QED
  BY <1>1, <1>2, <1>3, <1>4, <1>5, <1>6, <1>7 DEF Next

LEMMA AlwaysIInv == Spec => []IInv
<1>1. Init => IInv
  BY InitIInv
<1>2. IInv /\ [Next]_vars => IInv'
  BY NextKeepsIInv
<1>3. QED
  BY <1>1, <1>2, PTL DEF Spec

\* Every value has its type and the cache never holds more than max_entries,
\* whatever was put, renewed, evicted or rolled back (put, get).
THEOREM TypeCorrect == Spec => []TypeOK
<1>1. IInv => TypeOK
  BY DEF IInv, Typed, Sized, Ordered, TypeOK
<1>2. QED
  BY <1>1, AlwaysIInv, PTL

\* List and map hold the same keys, each once, so that no iterator dangles and
\* no entry is out of the eviction loop's reach (get, put, invalidate, clear).
THEOREM ListAndMapAgree == Spec => []ListMatchesMap
<1>1. IInv => ListMatchesMap
  BY DEF IInv, Ordered, ListMatchesMap
<1>2. QED
  BY <1>1, AlwaysIInv, PTL

\* Only the least recently used entry is evicted, and only for max_entries
\* others that were used since (put, the eviction loop).
THEOREM LeastRecentlyUsedGoes == Spec => []RecentlyUsedStays
<1>1. IInv => RecentlyUsedStays
  BY DEF IInv
<1>2. QED
  BY <1>1, AlwaysIInv, PTL

\* What a lookup finds is what was last put, neither expired nor taken out.
LEMMA GetIsALookup ==
  ASSUME IInv, NEW k \in Key, Get(k)
  PROVE  Plain!Lookup(k) \/ UNCHANGED Plain!vars
<1>1. UNCHANGED <<config, now, latest>>
  BY DEF Get
<1>2. CASE Miss(k) \/ GetExpired(k)
  BY <1>1, <1>2 DEF Miss, GetExpired, Plain!Lookup
<1>3. CASE Hit(k)
  <2>1. k \in DOMAIN map /\ ~(now - map[k].inserted_at > config.ttl) /\ result' = map[k].value
    BY <1>3 DEF Hit, Expired
  <2>2. /\ latest[k] = map[k]
        /\ map[k] \in [value : Value, inserted_at : 0..now]
        /\ now \in Nat /\ config.ttl \in Int
    BY <2>1, CacheAssumption DEF IInv, Current, Typed, Config
  <2>3. map[k] # Nothing
    <3>1. map[k] \in [value : Value, inserted_at : Nat]
      BY <2>2
    <3>2. QED
      BY <3>1, CacheAssumption
  <2>4. Plain!Fresh(k)
    BY <2>1, <2>2, <2>3 DEF Plain!Fresh
  <2>5. QED
    BY <1>1, <2>1, <2>2, <2>4 DEF Plain!Lookup
<1>4. CASE HitThrows(k)
  BY <1>1, <1>4 DEF HitThrows, Plain!vars
<1>5. QED
  BY <1>2, <1>3, <1>4 DEF Get

\* Whatever goes on in list and map, the cache looks from outside like module
\* Cache: no lookup returns what has expired, was put over or was invalidated.
THEOREM LruCacheIsACache == Spec => ImplementsCache
<1>1. Init => Plain!Init
  BY CacheAssumption DEF Init, Plain!Init, Config
<1>2. IInv /\ [Next]_vars => [Plain!Next]_(Plain!vars)
  <2> SUFFICES ASSUME IInv, [Next]_vars PROVE Plain!Next \/ UNCHANGED Plain!vars
    OBVIOUS
  <2>1. ASSUME NEW k \in Key, Get(k)
        PROVE  Plain!Next \/ UNCHANGED Plain!vars
    BY <2>1, GetIsALookup DEF Plain!Next
  <2>2. ASSUME NEW k \in Key, NEW v \in Value, Put(k, v)
        PROVE  Plain!Next \/ UNCHANGED Plain!vars
    <3>1. Plain!Store(k, v)
      BY <2>2 DEF Put, Entry, Plain!Store
    <3>2. QED
      BY <3>1 DEF Plain!Next
  <2>3. ASSUME NEW k \in Key, PutThrows(k)
        PROVE  Plain!Next \/ UNCHANGED Plain!vars
    BY <2>3 DEF PutThrows, Plain!vars
  <2>4. ASSUME NEW k \in Key, Invalidate(k) \/ InvalidateMissing(k)
        PROVE  Plain!Next \/ UNCHANGED Plain!vars
    <3>1. Plain!Drop(k)
      BY <2>4 DEF Invalidate, InvalidateMissing, Plain!Drop
    <3>2. QED
      BY <3>1 DEF Plain!Next
  <2>5. CASE Clear
    BY <2>5 DEF Clear, Plain!DropAll, Plain!Next
  <2>6. CASE Tick
    <3>1. now \in Nat /\ now' = now + 1 /\ UNCHANGED <<config, latest, result>>
      BY <2>6, CacheAssumption DEF Tick, IInv, Typed
    <3>2. now' \in Nat /\ now' > now
      BY <3>1
    <3>3. Plain!Elapse
      BY <3>1, <3>2 DEF Plain!Elapse
    <3>4. QED
      BY <3>3 DEF Plain!Next
  <2>7. CASE UNCHANGED vars
    BY <2>7 DEF vars, Plain!vars
  <2>8. QED
    BY <2>1, <2>2, <2>3, <2>4, <2>5, <2>6, <2>7 DEF Next
<1>3. QED
  BY <1>1, <1>2, AlwaysIInv, PTL DEF Spec, ImplementsCache, Plain!Spec
=============================================================================
