------------------------------ MODULE MemoryProofs ------------------------------
(***************************************************************************)
(* Theorems about what an engine remembers from one execution to the next: *)
(* responses (HttpCache) and idempotency keys (Admission), for any number  *)
(* of executions, of versions, keys and limits and however long they run.  *)
(*                                                                         *)
(* While a request is out, what it has seen the origin serve includes what *)
(* the origin serves now; a 304 names the version of the clone that made   *)
(* the condition, so that the version of the clone is the one served when  *)
(* the origin answered (Witnessed).                                        *)
(*                                                                         *)
(* The account of the store is exact because what is evicted, what stays   *)
(* and what is replaced are disjoint sets of bytes (BytesAdd), and within  *)
(* the limits because the oldest entry that stays was kept together with   *)
(* all that are younger (KeptFits).                                        *)
(*                                                                         *)
(* The queue of keys is the end of the list of all that were registered,   *)
(* and the map has the prints of these and no others (QueueHoldsTheLast,   *)
(* MapHoldsTheLast); a key that comes back is not among them.              *)
(***************************************************************************)
EXTENDS HttpCache, Admission, FiniteSetTheorems, WellFoundedInduction, TLAPS

-----------------------------------------------------------------------------
(* What is stored was current                                              *)

\* The states of an execution.
Sent(get) ==
  get = [pc |-> "sent", key |-> get.key, clone |-> get.clone, seen |-> get.seen]
Answered(get) ==
  get = [pc |-> "answered", key |-> get.key, clone |-> get.clone, seen |-> get.seen,
         version |-> get.version, headers |-> get.headers, notModified |-> get.notModified]
Storing(get) ==
  get = [pc |-> "store", key |-> get.key, seen |-> get.seen, entry |-> get.entry]

\* Nothing the caller adds stands between the entry and the origin.
Plain(get) == OwnCondition[get.key] = NoCondition

Witnessed(get) ==
  \/ get = Free
  \/ Sent(get) /\ get.key \in CacheKeys /\ origin[get.key] \in get.seen
  \/ /\ Answered(get) /\ get.version \in get.seen
     /\ get.notModified /\ Plain(get) /\ get.clone # NoEntry => get.clone.version = get.version
  \/ Storing(get) /\ (Plain(get) => get.entry.version \in get.seen)

CacheInv ==
  /\ origin \in [CacheKeys -> Versions]
  /\ DOMAIN gets = Gets
  /\ \A g \in Gets : Witnessed(gets[g])

-----------------------------------------------------------------------------

\* No execution has begun.
LEMMA CacheStarts == CacheInit => CacheInv
BY NoConditionAssumption DEF CacheInit, CacheInv, Witnessed

\* A step by which one execution goes on, and the origin does not change.
LEMMA OneGoesOn ==
  ASSUME CacheInv, NEW g \in Gets, NEW get, gets' = [gets EXCEPT ![g] = get],
         Witnessed(get), origin' = origin
  PROVE  CacheInv'
<1>1. \A h \in Gets : gets'[h] = IF h = g THEN get ELSE gets[h]
  BY DEF CacheInv
<1>2. ASSUME NEW x, Witnessed(x)
      PROVE  Witnessed(x)'
  BY <1>2 DEF Witnessed, Sent, Answered, Storing, Plain
<1>3. ASSUME NEW h \in Gets
      PROVE  Witnessed(gets[h])'
  <2>1. Witnessed(gets'[h])
    BY <1>1 DEF CacheInv
  <2> QED BY <2>1 DEF Witnessed, Sent, Answered, Storing, Plain
<1> QED BY <1>3 DEF CacheInv

\* Every step keeps the invariant: one case for each action.
LEMMA CacheStep == CacheInv /\ [CacheNext]_cacheVars => CacheInv'
<1> SUFFICES ASSUME CacheInv, [CacheNext]_cacheVars PROVE CacheInv'
  OBVIOUS
<1>1. CASE UNCHANGED <<gets, origin>>
  BY <1>1 DEF CacheInv, Witnessed, Sent, Answered, Storing, Plain
<1>2. ASSUME NEW g \in Gets, NEW key \in CacheKeys, NEW wish \in FreshFor, Ask(g, key, wish)
      PROVE  CacheInv'
  <2> DEFINE get == [pc |-> "sent", key |-> key, clone |-> Clone(entries[key]),
                     seen |-> {origin[key]}]
  <2>1. gets' = [gets EXCEPT ![g] = get] /\ origin' = origin
    BY <1>2 DEF Ask
  <2>2. Witnessed(get)
    BY DEF Witnessed, Sent
  <2> QED BY <2>1, <2>2, OneGoesOn
<1>3. ASSUME NEW g \in Gets, Answer(g)
      PROVE  CacheInv'
  <2>1. Sent(gets[g]) /\ gets[g].key \in CacheKeys /\ origin[gets[g].key] \in gets[g].seen
    BY <1>3 DEF Answer, CacheInv, Witnessed, Free, Answered, Storing
  <2>2. PICK h \in Headers : gets' = [gets EXCEPT ![g] =
             [pc |-> "answered", key |-> gets[g].key, clone |-> gets[g].clone,
              seen |-> gets[g].seen, version |-> origin[gets[g].key], headers |-> h,
              notModified |-> Condition(gets[g].key, gets[g].clone) = origin[gets[g].key]]]
    BY <1>3 DEF Answer
  <2> DEFINE get == [pc |-> "answered", key |-> gets[g].key, clone |-> gets[g].clone,
              seen |-> gets[g].seen, version |-> origin[gets[g].key], headers |-> h,
              notModified |-> Condition(gets[g].key, gets[g].clone) = origin[gets[g].key]]
  <2>3. origin[gets[g].key] # NoCondition
    BY <2>1, NoConditionAssumption DEF CacheInv
  <2>4. Plain(get) /\ get.notModified => get.clone.version = get.version
    BY <2>3 DEF Plain, Condition
  <2>5. Witnessed(get)
    BY <2>1, <2>4 DEF Witnessed, Answered
  <2>6. gets' = [gets EXCEPT ![g] = get] /\ origin' = origin
    BY <1>3, <2>2 DEF Answer
  <2> HIDE DEF get
  <2> QED BY <2>5, <2>6, OneGoesOn
<1>4. ASSUME NEW g \in Gets, ReceiveNotModified(g)
      PROVE  CacheInv'
  <2>1. /\ gets[g].version \in gets[g].seen /\ gets[g].notModified
        /\ Plain(gets[g]) /\ gets[g].clone # NoEntry => gets[g].clone.version = gets[g].version
    BY <1>4 DEF ReceiveNotModified, CacheInv, Witnessed, Free, Sent, Storing
  <2>2. CASE gets[g].clone = NoEntry
    <3>1. gets' = [gets EXCEPT ![g] = Free] /\ origin' = origin
      BY <1>4, <2>2 DEF ReceiveNotModified
    <3> QED BY <3>1, OneGoesOn DEF Witnessed
  <2>3. CASE gets[g].clone # NoEntry
    <3> DEFINE entry == MakeEntry(gets[g].clone.version,
                             gets[g].clone.etag \/ gets[g].headers.etag,
                             MergedControl(gets[g].clone.control, gets[g].headers.control),
                             gets[g].clone.number)
               get == [pc |-> "store", key |-> gets[g].key, seen |-> gets[g].seen,
                       entry |-> entry]
    <3>1. gets' = [gets EXCEPT ![g] = get] /\ origin' = origin
      BY <1>4, <2>3 DEF ReceiveNotModified
    <3>2. entry.version = gets[g].clone.version
      BY DEF MakeEntry
    <3> HIDE DEF entry
    <3>3. Witnessed(get)
      BY <2>1, <2>3, <3>2 DEF Witnessed, Storing, Plain
    <3> HIDE DEF get
    <3> QED BY <3>1, <3>3, OneGoesOn
  <2> QED BY <2>2, <2>3
<1>5. ASSUME NEW g \in Gets, ReceiveFetched(g)
      PROVE  CacheInv'
  <2>1. gets[g].version \in gets[g].seen
    BY <1>5 DEF ReceiveFetched, CacheInv, Witnessed, Free, Sent, Storing
  <2>2. CASE ~Storable(gets[g])
    <3>1. gets' = [gets EXCEPT ![g] = Free] /\ origin' = origin
      BY <1>5, <2>2 DEF ReceiveFetched
    <3> QED BY <3>1, OneGoesOn DEF Witnessed
  <2>3. CASE Storable(gets[g])
    <3> DEFINE entry == MakeEntry(gets[g].version, gets[g].headers.etag,
                                  gets[g].headers.control, cacheClock)
               get == [pc |-> "store", key |-> gets[g].key, seen |-> gets[g].seen,
                       entry |-> entry]
    <3>1. gets' = [gets EXCEPT ![g] = get] /\ origin' = origin
      BY <1>5, <2>3 DEF ReceiveFetched
    <3>2. entry.version = gets[g].version
      BY DEF MakeEntry
    <3> HIDE DEF entry
    <3>3. Witnessed(get)
      BY <2>1, <3>2 DEF Witnessed, Storing
    <3> HIDE DEF get
    <3> QED BY <3>1, <3>3, OneGoesOn
  <2> QED BY <2>2, <2>3
<1>6. ASSUME NEW g \in Gets, Store(g) \/ DropGet(g)
      PROVE  CacheInv'
  <2>1. gets' = [gets EXCEPT ![g] = Free] /\ origin' = origin
    BY <1>6 DEF Store, DropGet
  <2> QED BY <2>1, OneGoesOn DEF Witnessed
<1>7. ASSUME NEW k \in CacheKeys, ChangeResource(k)
      PROVE  CacheInv'
  <2>1. origin' \in [CacheKeys -> Versions] /\ origin'[k] = origin[k] + 1
        /\ \A j \in CacheKeys \ {k} : origin'[j] = origin[j]
    BY <1>7 DEF ChangeResource, CacheInv
  <2>2. DOMAIN gets' = Gets
    BY <1>7 DEF ChangeResource
  <2>3. ASSUME NEW g \in Gets
        PROVE  Witnessed(gets[g])'
    <3>1. gets'[g] = IF gets[g] # Free /\ gets[g].key = k /\ gets[g].pc = "sent"
                     THEN [gets[g] EXCEPT !.seen = @ \cup {origin[k] + 1}] ELSE gets[g]
      BY <1>7 DEF ChangeResource
    <3>2. CASE gets[g] # Free /\ gets[g].key = k /\ gets[g].pc = "sent"
      <4>1. Sent(gets[g])
        BY <3>2 DEF CacheInv, Witnessed, Answered, Storing
      <4>2. gets'[g] = [pc |-> "sent", key |-> k, clone |-> gets[g].clone,
                        seen |-> gets[g].seen \cup {origin[k] + 1}]
        BY <3>1, <3>2, <4>1 DEF Sent
      <4> QED BY <2>1, <4>2 DEF Witnessed, Sent
    <3>3. CASE ~(gets[g] # Free /\ gets[g].key = k /\ gets[g].pc = "sent")
      <4>1. gets'[g] = gets[g]
        BY <3>1, <3>3
      <4>2. CASE Sent(gets[g]) /\ gets[g].key \in CacheKeys /\ origin[gets[g].key] \in gets[g].seen
        <5>1. gets[g].pc = "sent" /\ gets[g] # Free
          BY <4>2 DEF Sent, Free
        <5> QED BY <2>1, <3>3, <4>1, <4>2, <5>1 DEF Witnessed, Sent
      <4> QED BY <4>1, <4>2 DEF CacheInv, Witnessed, Answered, Storing, Plain
    <3> QED BY <3>2, <3>3
  <2> QED BY <2>1, <2>2, <2>3 DEF CacheInv
<1> QED BY <1>1, <1>2, <1>3, <1>4, <1>5, <1>6, <1>7 DEF CacheNext, Hit, CacheTick, cacheVars

\* What is stored, or refreshed by a 304, was being served at some moment of the
\* request that answered (execute_cached).
THEOREM StoredEntriesWereCurrent == CacheSpec => []StoredWasCurrent
<1>1. CacheInv => StoredWasCurrent
  BY DEF CacheInv, StoredWasCurrent, Witnessed, Free, Sent, Answered, Storing, Plain
<1> QED BY <1>1, CacheStarts, CacheStep, PTL DEF CacheSpec

-----------------------------------------------------------------------------
(* The store                                                               *)

\* Sets of naturals have a least member.
LEMMA LeastOf ==
  ASSUME NEW T \in SUBSET Nat, T # {}
  PROVE  \E m \in T : \A k \in T : m <= k
<1> DEFINE R == OpToRel(<, Nat)
<1>1. IsWellFoundedOn(R, Nat)
  BY NatLessThanWellFounded
<1>2. ASSUME NEW x \in Nat, NEW y \in Nat, x < y PROVE <<x, y>> \in R
  BY <1>2 DEF OpToRel
<1> HIDE DEF R
<1>3. PICK m \in T : \A k \in T : ~(<<k, m>> \in R)
  BY <1>1, WFMin
<1>4. ASSUME NEW k \in T PROVE m <= k
  <2>1. m \in Nat /\ k \in Nat
    OBVIOUS
  <2>2. ~ (k < m)
    BY <1>2, <1>3, <2>1
  <2> QED BY <2>1, <2>2
<1> QED BY <1>4

\* What the bytes of two disjoint sets of keys add up to.
LEMMA BytesAdd ==
  ASSUME NEW store, NEW A, NEW B, A \cap B = {},
         IsFiniteSet(Bytes(store, A)), IsFiniteSet(Bytes(store, B))
  PROVE  /\ IsFiniteSet(Bytes(store, A \cup B))
         /\ BytesOf(store, A \cup B) = BytesOf(store, A) + BytesOf(store, B)
<1>1. Bytes(store, A \cup B) = Bytes(store, A) \cup Bytes(store, B)
  BY DEF Bytes
<1>2. Bytes(store, A) \cap Bytes(store, B) = {}
  BY DEF Bytes
<1>3. Cardinality(Bytes(store, A)) \in Nat /\ Cardinality(Bytes(store, B)) \in Nat
  BY FS_CardinalityType
<1>4. Cardinality(Bytes(store, A) \cap Bytes(store, B)) = 0
  BY <1>2, FS_EmptySet
<1> DEFINE a == Bytes(store, A)
           b == Bytes(store, B)
<1>5. /\ IsFiniteSet(a \cup b)
      /\ Cardinality(a \cup b) = Cardinality(a) + Cardinality(b) - Cardinality(a \cap b)
  BY FS_Union
<1> HIDE DEF a, b
<1>6. Cardinality(a \cup b) = Cardinality(a) + Cardinality(b)
  BY <1>3, <1>4, <1>5 DEF a, b
<1> QED BY <1>1, <1>5, <1>6 DEF BytesOf, a, b

\* The bytes of one entry.
LEMMA BytesOfOne ==
  ASSUME NEW store, NEW key, SizeOf(store[key]) \in Nat
  PROVE  /\ IsFiniteSet(Bytes(store, {key}))
         /\ BytesOf(store, {key}) = SizeOf(store[key])
<1> DEFINE n == SizeOf(store[key])
<1>1. Bytes(store, {key}) = {key} \X (1..n)
  BY DEF Bytes
<1>2. IsFiniteSet({key}) /\ Cardinality({key}) = 1
  BY FS_Singleton
<1>3. IsFiniteSet(1..n) /\ Cardinality(1..n) = n
  BY FS_Interval
<1> HIDE DEF n
<1>4. n \in Nat
  BY DEF n
<1>5. IsFiniteSet({key} \X (1..n)) /\ Cardinality({key} \X (1..n)) = 1 * n
  <2> DEFINE one  == {key}
             many == 1..n
  <2>1. IsFiniteSet(one) /\ Cardinality(one) = 1 /\ IsFiniteSet(many) /\ Cardinality(many) = n
    BY <1>2, <1>3
  <2> HIDE DEF one, many
  <2>2. IsFiniteSet(one \X many) /\ Cardinality(one \X many) = Cardinality(one) * Cardinality(many)
    BY <2>1, FS_Product, Zenon
  <2>3. Cardinality(one) * Cardinality(many) = 1 * n
    BY <2>1
  <2> QED BY <2>2, <2>3 DEF one, many
<1>6. 1 * n = n
  BY <1>4
<1> QED BY <1>1, <1>5, <1>6 DEF BytesOf, n

\* Bytes are those of the entries, whatever else the store holds.
LEMMA BytesAreOfEntries ==
  ASSUME NEW s, NEW t, NEW keys, \A k \in keys : SizeOf(s[k]) = SizeOf(t[k])
  PROVE  Bytes(s, keys) = Bytes(t, keys)
BY DEF Bytes

\* Fewer keys have fewer bytes.
LEMMA FewerBytes ==
  ASSUME NEW store, NEW A, NEW B \in SUBSET A, IsFiniteSet(Bytes(store, A))
  PROVE  /\ IsFiniteSet(Bytes(store, B))
         /\ BytesOf(store, B) \in Nat /\ BytesOf(store, A) \in Nat
         /\ BytesOf(store, B) <= BytesOf(store, A)
<1>1. Bytes(store, B) \subseteq Bytes(store, A)
  BY DEF Bytes
<1> QED BY <1>1, FS_Subset, FS_CardinalityType DEF BytesOf

\* The entries that stay, and the new one, are within both limits: the oldest of
\* those that stay was kept together with all of the others.
LEMMA KeptFits ==
  ASSUME limits \in [entries: Nat \ {0}, bytes: Nat \ {0}],
         NEW store, NEW size \in Nat, size <= limits.bytes,
         IsFiniteSet(StoredKeys(store)), IsFiniteSet(Bytes(store, StoredKeys(store))),
         \A k \in StoredKeys(store) : store[k].lastAccess \in Nat /\ store[k].number \in Nat
  PROVE  /\ Kept(store, size) \subseteq StoredKeys(store)
         /\ IsFiniteSet(Kept(store, size))
         /\ Cardinality(Kept(store, size)) < limits.entries
         /\ BytesOf(store, Kept(store, size)) + size <= limits.bytes
<1> DEFINE kept == Kept(store, size)
<1>1. kept \subseteq StoredKeys(store)
  BY DEF Kept
<1>2. IsFiniteSet(kept) /\ Cardinality(kept) \in Nat
  BY <1>1, FS_Subset, FS_CardinalityType
<1>3. CASE kept = {}
  <2>1. Cardinality(kept) = 0
    BY <1>3, FS_EmptySet
  <2>2. Bytes(store, kept) = {}
    BY <1>3 DEF Bytes
  <2>3. BytesOf(store, kept) = 0
    BY <2>2, FS_EmptySet DEF BytesOf
  <2> HIDE DEF kept
  <2>4. Cardinality(kept) < limits.entries /\ BytesOf(store, kept) + size <= limits.bytes
    BY <2>1, <2>3
  <2> QED BY <1>1, <1>2, <2>4 DEF kept
<1>4. CASE kept # {}
  <2> DEFINE times == {store[k].lastAccess : k \in kept}
  <2>1. times \in SUBSET Nat /\ times # {}
    BY <1>1, <1>4
  <2>2. PICK a \in times : \A b \in times : a <= b
    BY <2>1, LeastOf
  <2> DEFINE numbers == {store[k].number : k \in {j \in kept : store[j].lastAccess = a}}
  <2>3. numbers \in SUBSET Nat /\ numbers # {}
    BY <1>1, <2>2
  <2>4. PICK n \in numbers : \A m \in numbers : n <= m
    BY <2>3, LeastOf
  <2>5. PICK k \in kept : store[k].lastAccess = a /\ store[k].number = n
    BY <2>4
  <2>6. ASSUME NEW j \in kept PROVE j \in NotOlder(store, k)
    <3>1. store[j].lastAccess \in times /\ store[j].lastAccess \in Nat /\ store[k].lastAccess \in Nat
      BY <1>1
    <3>2. a <= store[j].lastAccess
      BY <2>2, <3>1
    <3>3. store[j].lastAccess = a => store[j].number \in numbers
      OBVIOUS
    <3>4. store[j].lastAccess = a => n <= store[j].number
      BY <2>4, <3>3
    <3>5. store[j].number \in Nat /\ store[k].number \in Nat
      BY <1>1
    <3>6. ~ Older(store[j], store[k])
      BY <2>5, <3>1, <3>2, <3>4, <3>5 DEF Older
    <3> QED BY <1>1, <3>6 DEF NotOlder
  <2> DEFINE all == NotOlder(store, k)
  <2>7. kept \subseteq all /\ all \subseteq StoredKeys(store)
    BY <2>6 DEF NotOlder
  <2>8. Cardinality(all) < limits.entries /\ BytesOf(store, all) + size <= limits.bytes
    BY <2>5 DEF Kept
  <2>9. /\ IsFiniteSet(all) /\ Cardinality(all) \in Nat /\ Cardinality(kept) <= Cardinality(all)
    BY <2>7, FS_Subset, FS_CardinalityType
  <2>10. IsFiniteSet(Bytes(store, all))
    BY <2>7, FewerBytes
  <2>11. /\ BytesOf(store, kept) \in Nat /\ BytesOf(store, all) \in Nat
         /\ BytesOf(store, kept) <= BytesOf(store, all)
    BY <2>7, <2>10, FewerBytes
  <2> HIDE DEF kept, all
  <2>12. limits.entries \in Nat /\ limits.bytes \in Nat
    OBVIOUS
  <2>13. Cardinality(kept) < limits.entries /\ BytesOf(store, kept) + size <= limits.bytes
    BY <1>2, <2>8, <2>9, <2>11, <2>12
  <2> QED BY <1>1, <1>2, <2>13 DEF kept
<1> QED BY <1>3, <1>4

\* The types of the store and of what the executions carry to it.
Clones == [version: Versions, etag: BOOLEAN, control: {h.control : h \in Headers}, number: Nat]

Typed(get) ==
  /\ get.pc \in {"sent", "answered", "store"} => get.key \in CacheKeys
  /\ get.pc \in {"sent", "answered"} => get.clone = NoEntry \/ get.clone \in Clones
  /\ get.pc = "answered" => get.version \in Versions /\ get.headers \in Headers
  /\ get.pc = "store" => get.entry \in CachedResponse

StoreTypes ==
  /\ CacheTypeOK
  /\ limits \in [entries: Nat \ {0}, bytes: Nat \ {0}]
  /\ DOMAIN entries = CacheKeys
  /\ cacheNow \in Nat
  /\ \A g \in Gets : Typed(gets[g])

StoreIsExact ==
  /\ IsFiniteSet(StoredKeys(entries))
  /\ IsFiniteSet(Bytes(entries, StoredKeys(entries)))
  /\ CacheIsBounded

StoreInv == CacheInv /\ StoreTypes /\ StoreIsExact

\* What is stored has a size.
LEMMA SizesAreNatural ==
  ASSUME NEW entry \in CachedResponse
  PROVE  SizeOf(entry) \in Nat /\ entry # NoEntry
BY BodyBytesAssumption, NoEntryAssumption DEF SizeOf, EntryBytes, CachedResponse

\* store_cache_entry: room is made, the entry is stored, and the size is exact.
LEMMA StoringKeepsTheAccount ==
  ASSUME StoreTypes, StoreIsExact, NEW key \in CacheKeys, NEW entry \in CachedResponse,
         StoreEntry(key, entry), limits' = limits
  PROVE  /\ StoreIsExact'
         /\ DOMAIN entries' = CacheKeys /\ storedBytes' \in Nat
         /\ \A k \in CacheKeys : entries'[k] = NoEntry \/ entries'[k] \in CachedResponse
<1>1. CASE SizeOf(entry) > limits.bytes
  BY <1>1 DEF StoreEntry, StoreTypes, StoreIsExact, CacheTypeOK, CacheIsBounded
<1>2. CASE ~(SizeOf(entry) > limits.bytes)
  <2> DEFINE size   == SizeOf(entry)
             others == [entries EXCEPT ![key] = NoEntry]
             old    == StoredKeys(entries)
             rest   == StoredKeys(others)
             kept   == Kept(others, size)
             back   == IF entries[key] = NoEntry THEN 0 ELSE SizeOf(entries[key])
             gone   == BytesOf(others, rest \ kept)
  <2>1. size \in Nat /\ entry # NoEntry /\ limits.bytes \in Nat /\ limits.entries \in Nat
        /\ limits.entries > 0 /\ size <= limits.bytes
    BY <1>2, SizesAreNatural DEF StoreTypes
  <2>2. /\ entries' = [k \in CacheKeys |->
             IF k = key THEN entry ELSE IF k \in kept THEN entries[k] ELSE NoEntry]
        /\ storedBytes' = storedBytes - back - gone + size
    BY <1>2 DEF StoreEntry
  <2>3. /\ key \notin rest /\ rest = old \ {key}
        /\ \A k \in rest : others[k] = entries[k]
    BY DEF StoreTypes, StoredKeys
  <2>4. IsFiniteSet(old) /\ IsFiniteSet(Bytes(entries, old))
    BY DEF StoreIsExact
  <2>5. IsFiniteSet(rest) /\ rest \subseteq old
    BY <2>3, <2>4, FS_Subset
  <2>6. Bytes(others, rest) = Bytes(entries, rest)
    <3>1. \A k \in rest : SizeOf(others[k]) = SizeOf(entries[k])
      BY <2>3
    <3> HIDE DEF others, rest
    <3> QED BY <3>1, BytesAreOfEntries
  <2>7. IsFiniteSet(Bytes(others, rest))
    BY <2>4, <2>5, <2>6, FewerBytes
  <2>8. \A k \in rest : others[k].lastAccess \in Nat /\ others[k].number \in Nat
    BY <2>3 DEF StoreTypes, CacheTypeOK, CachedResponse, StoredKeys
  <2>9. /\ kept \subseteq rest /\ IsFiniteSet(kept) /\ Cardinality(kept) < limits.entries
        /\ BytesOf(others, kept) + size <= limits.bytes
    <3>1. limits \in [entries: Nat \ {0}, bytes: Nat \ {0}]
      BY DEF StoreTypes
    <3> HIDE DEF others, size
    <3> QED BY <2>1, <2>5, <2>7, <2>8, <3>1, KeptFits
  <2> HIDE DEF size, others, old, rest, kept, gone
  <2>10. BytesOf(entries, old) = BytesOf(others, rest) + back /\ back \in Nat
    <3>1. BytesOf(entries, rest) = BytesOf(others, rest) /\ BytesOf(others, rest) \in Nat
      BY <2>6, <2>7, FS_CardinalityType DEF BytesOf
    <3>2. CASE entries[key] = NoEntry
      <4>1. rest = old
        BY <2>3, <3>2 DEF old, StoredKeys
      <4> QED BY <3>1, <3>2, <4>1
    <3>3. CASE entries[key] # NoEntry
      <4>1. old = rest \cup {key} /\ rest \cap {key} = {}
        BY <2>3, <3>3 DEF old, StoredKeys
      <4>2. SizeOf(entries[key]) \in Nat
        BY <3>3, SizesAreNatural DEF StoreTypes, CacheTypeOK
      <4>3. IsFiniteSet(Bytes(entries, {key})) /\ BytesOf(entries, {key}) = SizeOf(entries[key])
        BY <4>2, BytesOfOne
      <4>4. IsFiniteSet(Bytes(entries, rest))
        BY <2>6, <2>7
      <4>5. BytesOf(entries, old) = BytesOf(entries, rest) + BytesOf(entries, {key})
        BY <4>1, <4>3, <4>4, BytesAdd
      <4> QED BY <3>1, <3>3, <4>2, <4>3, <4>5
    <3> QED BY <3>2, <3>3
  <2>11. /\ IsFiniteSet(Bytes(others, kept)) /\ BytesOf(others, kept) \in Nat
         /\ BytesOf(others, rest) = BytesOf(others, kept) + gone /\ gone \in Nat
    <3> DEFINE left == rest \ kept
    <3>1. /\ kept \cap left = {} /\ kept \cup left = rest
          /\ gone = BytesOf(others, left)
      BY <2>9 DEF gone
    <3> HIDE DEF left
    <3>2. /\ IsFiniteSet(Bytes(others, kept)) /\ IsFiniteSet(Bytes(others, left))
          /\ BytesOf(others, kept) \in Nat /\ BytesOf(others, left) \in Nat
      BY <2>7, <3>1, FewerBytes
    <3>3. BytesOf(others, kept \cup left) = BytesOf(others, kept) + BytesOf(others, left)
      BY <3>1, <3>2, BytesAdd
    <3> QED BY <3>1, <3>2, <3>3
  <2>12. /\ StoredKeys(entries') = kept \cup {key} /\ kept \cap {key} = {}
         /\ \A k \in kept : entries'[k] = others[k]
         /\ entries'[key] = entry
    <3>1. rest \subseteq CacheKeys /\ \A k \in rest : entries[k] # NoEntry
      BY <2>3 DEF old, StoredKeys
    <3> QED BY <2>1, <2>2, <2>3, <2>9, <3>1 DEF StoredKeys
  <2>13. Bytes(entries', kept) = Bytes(others, kept)
    BY <2>12, BytesAreOfEntries
  <2>14. IsFiniteSet(Bytes(entries', {key})) /\ BytesOf(entries', {key}) = size
    BY <2>1, <2>12, BytesOfOne DEF size
  <2>15. /\ IsFiniteSet(Bytes(entries', kept \cup {key}))
         /\ BytesOf(entries', kept \cup {key}) = BytesOf(others, kept) + size
    <3>1. IsFiniteSet(Bytes(entries', kept))
      BY <2>11, <2>13
    <3>2. /\ IsFiniteSet(Bytes(entries', kept \cup {key}))
          /\ BytesOf(entries', kept \cup {key}) = BytesOf(entries', kept) + BytesOf(entries', {key})
      BY <2>12, <2>14, <3>1, BytesAdd
    <3> QED BY <2>13, <2>14, <3>2 DEF BytesOf
  <2>16. storedBytes = BytesOf(entries, old)
    BY DEF StoreIsExact, CacheIsBounded, old
  <2>17. storedBytes' = BytesOf(entries', StoredKeys(entries')) /\ storedBytes' <= limits.bytes
         /\ storedBytes' \in Nat
    <3> HIDE DEF back
    <3>1. storedBytes' = BytesOf(others, kept) + size
      BY <2>1, <2>2, <2>10, <2>11, <2>16
    <3>2. BytesOf(entries', StoredKeys(entries')) = BytesOf(others, kept) + size
      BY <2>12, <2>15
    <3> QED BY <2>1, <2>9, <2>11, <3>1, <3>2
  <2>18. IsFiniteSet(kept \cup {key}) /\ Cardinality(kept \cup {key}) <= limits.entries
    <3>1. Cardinality(kept) \in Nat
      BY <2>9, FS_CardinalityType
    <3>2. IsFiniteSet(kept \cup {key}) /\ Cardinality(kept \cup {key}) <= Cardinality(kept) + 1
      BY <2>9, <3>1, FS_AddElement
    <3>3. Cardinality(kept \cup {key}) \in Nat
      BY <3>2, FS_CardinalityType
    <3> QED BY <2>1, <2>9, <3>1, <3>2, <3>3
  <2>19. StoreIsExact'
    BY <2>12, <2>15, <2>17, <2>18 DEF StoreIsExact, CacheIsBounded
  <2>20. DOMAIN entries' = CacheKeys
         /\ \A k \in CacheKeys : entries'[k] = NoEntry \/ entries'[k] \in CachedResponse
    BY <2>2 DEF StoreTypes, CacheTypeOK
  <2> QED BY <2>17, <2>19, <2>20
<1> QED BY <1>1, <1>2

\* The types of the store, and that nothing but the store's own steps changes them.
EntryTypes(store) ==
  DOMAIN store = CacheKeys /\ \A k \in CacheKeys : store[k] = NoEntry \/ store[k] \in CachedResponse

\* An entry that is touched has the size it had.
LEMMA TouchingKeepsTheAccount ==
  ASSUME StoreTypes, StoreIsExact, NEW key \in CacheKeys, entries[key] # NoEntry,
         entries' = [entries EXCEPT ![key].lastAccess = cacheNow],
         UNCHANGED <<limits, storedBytes>>
  PROVE  StoreIsExact' /\ EntryTypes(entries')
<1>1. entries[key] \in CachedResponse /\ cacheNow \in Nat /\ DOMAIN entries = CacheKeys
  BY DEF StoreTypes, CacheTypeOK
<1> DEFINE entry == [entries[key] EXCEPT !.lastAccess = cacheNow]
<1>2. entry \in CachedResponse /\ entry.version = entries[key].version
      /\ entry.control = entries[key].control
  BY <1>1 DEF CachedResponse
<1>3. \A k \in CacheKeys : entries'[k] = IF k = key THEN entry ELSE entries[k]
  BY <1>1
<1> HIDE DEF entry
<1>4. StoredKeys(entries') = StoredKeys(entries)
  BY <1>2, <1>3, SizesAreNatural DEF StoredKeys
<1>5. \A k \in StoredKeys(entries) : SizeOf(entries'[k]) = SizeOf(entries[k])
  BY <1>2, <1>3 DEF StoredKeys, SizeOf
<1>6. Bytes(entries', StoredKeys(entries)) = Bytes(entries, StoredKeys(entries))
  <2> DEFINE before == entries
             after  == entries'
             keys   == StoredKeys(entries)
  <2>1. \A k \in keys : SizeOf(after[k]) = SizeOf(before[k])
    BY <1>5
  <2> HIDE DEF before, after, keys
  <2>2. Bytes(after, keys) = Bytes(before, keys)
    BY <2>1, BytesAreOfEntries
  <2> QED BY <2>2 DEF before, after, keys
<1>7. EntryTypes(entries')
  BY <1>1, <1>2, <1>3 DEF EntryTypes, StoreTypes, CacheTypeOK
<1> QED BY <1>4, <1>6, <1>7 DEF StoreIsExact, CacheIsBounded, BytesOf

\* A step of one execution that leaves a typed state of it.
LEMMA OneStaysTyped ==
  ASSUME CacheInv, StoreTypes, NEW g \in Gets, NEW get, Typed(get),
         gets' = [gets EXCEPT ![g] = get]
  PROVE  \A h \in Gets : Typed(gets'[h])
BY DEF CacheInv, StoreTypes

\* The parts of StoreTypes that do not depend on the store.
LEMMA TypesOfTheRest ==
  ASSUME StoreTypes, CacheInv', UNCHANGED limits, EntryTypes(entries'), storedBytes' \in Nat,
         cacheClock' \in Nat, cacheNow' \in Nat, \A h \in Gets : Typed(gets'[h])
  PROVE  StoreTypes'
<1>1. \A k \in CacheKeys : origin'[k] \in Versions
  BY DEF CacheInv
<1> QED BY <1>1 DEF StoreTypes, CacheTypeOK, EntryTypes

\* No execution has begun, and nothing is stored.
LEMMA StoreStarts == CacheInit => StoreInv
<1> SUFFICES ASSUME CacheInit PROVE StoreInv
  OBVIOUS
<1>1. StoreTypes
  BY CacheCapacity, NoConditionAssumption DEF CacheInit, StoreTypes, CacheTypeOK, Typed, Free
<1>2. StoredKeys(entries) = {}
  BY DEF CacheInit, StoredKeys
<1>3. Bytes(entries, StoredKeys(entries)) = {}
  BY <1>2 DEF Bytes
<1>4. limits.bytes \in Nat /\ limits.entries \in Nat
  BY <1>1 DEF StoreTypes
<1>5. StoreIsExact
  BY <1>2, <1>3, <1>4, FS_EmptySet DEF StoreIsExact, CacheIsBounded, BytesOf, CacheInit
<1> QED BY <1>1, <1>5, CacheStarts DEF StoreInv

\* Every step keeps the account: one case for each action.
LEMMA StoreStep == StoreInv /\ [CacheNext]_cacheVars => StoreInv'
<1> SUFFICES ASSUME StoreInv, [CacheNext]_cacheVars PROVE StoreInv'
  OBVIOUS
<1>1. CacheInv /\ StoreTypes /\ StoreIsExact /\ CacheInv'
  BY CacheStep DEF StoreInv
<1>2. EntryTypes(entries) /\ storedBytes \in Nat /\ cacheClock \in Nat /\ cacheNow \in Nat
      /\ cacheClock + 1 \in Nat /\ cacheNow + 1 \in Nat
  BY <1>1 DEF StoreTypes, CacheTypeOK, EntryTypes
<1>3. ASSUME UNCHANGED <<limits, entries, storedBytes>>
      PROVE  StoreIsExact' /\ EntryTypes(entries') /\ storedBytes' \in Nat
  BY <1>1, <1>2, <1>3 DEF StoreIsExact, CacheIsBounded
<1>4. \A g \in Gets : Typed(gets[g])
  BY <1>1 DEF StoreTypes
<1>5. ASSUME NEW g \in Gets, NEW key \in CacheKeys, NEW wish \in FreshFor, Hit(g, key, wish)
      PROVE  StoreInv'
  <2>1. StoreIsExact' /\ EntryTypes(entries')
    BY <1>1, <1>5, TouchingKeepsTheAccount DEF Hit
  <2> QED BY <1>1, <1>2, <1>4, <1>5, <2>1, TypesOfTheRest DEF Hit, StoreInv
<1>6. ASSUME NEW g \in Gets, NEW key \in CacheKeys, NEW wish \in FreshFor, Ask(g, key, wish)
      PROVE  StoreInv'
  <2>1. StoreIsExact' /\ EntryTypes(entries')
    <3>1. CASE entries[key] = NoEntry
      BY <1>3, <1>6, <3>1 DEF Ask
    <3>2. CASE entries[key] # NoEntry
      BY <1>1, <1>6, <3>2, TouchingKeepsTheAccount DEF Ask
    <3> QED BY <3>1, <3>2
  <2> DEFINE get == [pc |-> "sent", key |-> key, clone |-> Clone(entries[key]),
                     seen |-> {origin[key]}]
  <2>2. Clone(entries[key]) = NoEntry \/ Clone(entries[key]) \in Clones
    BY <1>2 DEF EntryTypes, Clone, Clones, CachedResponse
  <2>3. Typed(get)
    BY <2>2 DEF Typed
  <2>4. gets' = [gets EXCEPT ![g] = get]
    BY <1>6 DEF Ask
  <2> HIDE DEF get
  <2>5. \A h \in Gets : Typed(gets'[h])
    BY <1>1, <2>3, <2>4, OneStaysTyped
  <2> QED BY <1>1, <1>2, <1>6, <2>1, <2>5, TypesOfTheRest DEF Ask, StoreInv
<1>7. ASSUME NEW g \in Gets, Answer(g)
      PROVE  StoreInv'
  <2>1. PICK h \in Headers : gets' = [gets EXCEPT ![g] =
             [pc |-> "answered", key |-> gets[g].key, clone |-> gets[g].clone,
              seen |-> gets[g].seen, version |-> origin[gets[g].key], headers |-> h,
              notModified |-> Condition(gets[g].key, gets[g].clone) = origin[gets[g].key]]]
    BY <1>7 DEF Answer
  <2> DEFINE get == [pc |-> "answered", key |-> gets[g].key, clone |-> gets[g].clone,
              seen |-> gets[g].seen, version |-> origin[gets[g].key], headers |-> h,
              notModified |-> Condition(gets[g].key, gets[g].clone) = origin[gets[g].key]]
  <2>2. Typed(get)
    BY <1>1, <1>4, <1>7 DEF Typed, Answer, CacheInv
  <2>3. gets' = [gets EXCEPT ![g] = get]
    BY <2>1
  <2> HIDE DEF get
  <2>4. \A j \in Gets : Typed(gets'[j])
    BY <1>1, <2>2, <2>3, OneStaysTyped
  <2> QED BY <1>1, <1>2, <1>3, <1>7, <2>4, TypesOfTheRest DEF Answer, StoreInv
<1>8. ASSUME NEW g \in Gets, ReceiveNotModified(g)
      PROVE  StoreInv'
  <2>1. PICK get : gets' = [gets EXCEPT ![g] = get] /\ Typed(get)
    <3>1. CASE gets[g].clone = NoEntry
      <4>1. gets' = [gets EXCEPT ![g] = Free]
        BY <1>8, <3>1 DEF ReceiveNotModified
      <4>2. Typed(Free)
        BY DEF Typed, Free
      <4> QED BY <4>1, <4>2
    <3>2. CASE gets[g].clone # NoEntry
      <4>1. gets[g].clone \in Clones /\ gets[g].headers \in Headers /\ gets[g].key \in CacheKeys
        BY <1>4, <1>8, <3>2 DEF ReceiveNotModified, Typed
      <4> DEFINE entry == MakeEntry(gets[g].clone.version,
                             gets[g].clone.etag \/ gets[g].headers.etag,
                             MergedControl(gets[g].clone.control, gets[g].headers.control),
                             gets[g].clone.number)
                 get == [pc |-> "store", key |-> gets[g].key, seen |-> gets[g].seen,
                         entry |-> entry]
      <4>2. (gets[g].clone.etag \/ gets[g].headers.etag) \in BOOLEAN
        OBVIOUS
      <4>3. MergedControl(gets[g].clone.control, gets[g].headers.control)
              \in {h.control : h \in Headers}
        BY <4>1 DEF MergedControl, Clones
      <4>4. entry \in CachedResponse
        BY <1>2, <4>1, <4>2, <4>3 DEF MakeEntry, CachedResponse, Clones
      <4>5. gets' = [gets EXCEPT ![g] = get]
        BY <1>8, <3>2 DEF ReceiveNotModified
      <4> HIDE DEF entry
      <4>6. Typed(get)
        BY <4>1, <4>4 DEF Typed
      <4> QED BY <4>5, <4>6
    <3> QED BY <3>1, <3>2
  <2>2. \A h \in Gets : Typed(gets'[h])
    BY <1>1, <2>1, OneStaysTyped
  <2> QED BY <1>1, <1>2, <1>3, <1>8, <2>2, TypesOfTheRest DEF ReceiveNotModified, StoreInv
<1>9. ASSUME NEW g \in Gets, ReceiveFetched(g)
      PROVE  StoreInv'
  <2>1. PICK get : gets' = [gets EXCEPT ![g] = get] /\ Typed(get)
    <3>1. CASE ~Storable(gets[g])
      <4>1. gets' = [gets EXCEPT ![g] = Free]
        BY <1>9, <3>1 DEF ReceiveFetched
      <4>2. Typed(Free)
        BY DEF Typed, Free
      <4> QED BY <4>1, <4>2
    <3>2. CASE Storable(gets[g])
      <4>1. gets[g].version \in Versions /\ gets[g].headers \in Headers /\ gets[g].key \in CacheKeys
        BY <1>4, <1>9 DEF ReceiveFetched, Typed
      <4> DEFINE entry == MakeEntry(gets[g].version, gets[g].headers.etag,
                                    gets[g].headers.control, cacheClock)
                 get == [pc |-> "store", key |-> gets[g].key, seen |-> gets[g].seen,
                         entry |-> entry]
      <4>2. entry \in CachedResponse
        BY <1>2, <4>1, HeadersAssumption DEF MakeEntry, CachedResponse
      <4>3. gets' = [gets EXCEPT ![g] = get]
        BY <1>9, <3>2 DEF ReceiveFetched
      <4> HIDE DEF entry
      <4>4. Typed(get)
        BY <4>1, <4>2 DEF Typed
      <4> QED BY <4>3, <4>4
    <3> QED BY <3>1, <3>2
  <2>2. \A h \in Gets : Typed(gets'[h])
    BY <1>1, <2>1, OneStaysTyped
  <2> QED BY <1>1, <1>2, <1>3, <1>9, <2>2, TypesOfTheRest DEF ReceiveFetched, StoreInv
<1>10. ASSUME NEW g \in Gets, Store(g)
       PROVE  StoreInv'
  <2>1. gets[g].key \in CacheKeys /\ gets[g].entry \in CachedResponse
    BY <1>4, <1>10 DEF Store, Typed
  <2>2. StoreIsExact' /\ EntryTypes(entries') /\ storedBytes' \in Nat
    BY <1>1, <1>10, <2>1, StoringKeepsTheAccount DEF Store, EntryTypes
  <2>3. gets' = [gets EXCEPT ![g] = Free] /\ Typed(Free)
    BY <1>10 DEF Store, Typed, Free
  <2>4. \A h \in Gets : Typed(gets'[h])
    BY <1>1, <2>3, OneStaysTyped
  <2> QED BY <1>1, <1>2, <1>10, <2>2, <2>4, TypesOfTheRest DEF Store, StoreInv
<1>11. ASSUME NEW g \in Gets, DropGet(g)
       PROVE  StoreInv'
  <2>1. gets' = [gets EXCEPT ![g] = Free] /\ Typed(Free)
    BY <1>11 DEF DropGet, Typed, Free
  <2>2. \A h \in Gets : Typed(gets'[h])
    BY <1>1, <2>1, OneStaysTyped
  <2> QED BY <1>1, <1>2, <1>3, <1>11, <2>2, TypesOfTheRest DEF DropGet, StoreInv
<1>12. ASSUME NEW k \in CacheKeys, ChangeResource(k)
       PROVE  StoreInv'
  <2>1. ASSUME NEW g \in Gets PROVE Typed(gets'[g])
    <3>1. gets'[g] = IF gets[g] # Free /\ gets[g].key = k /\ gets[g].pc = "sent"
                     THEN [gets[g] EXCEPT !.seen = @ \cup {origin[k] + 1}] ELSE gets[g]
      BY <1>12 DEF ChangeResource
    <3>2. CASE gets[g] # Free /\ gets[g].key = k /\ gets[g].pc = "sent"
      <4>1. Sent(gets[g])
        BY <1>1, <3>2 DEF CacheInv, Witnessed, Answered, Storing
      <4>2. gets'[g] = [pc |-> "sent", key |-> k, clone |-> gets[g].clone,
                        seen |-> gets[g].seen \cup {origin[k] + 1}]
        BY <3>1, <3>2, <4>1 DEF Sent
      <4> QED BY <1>4, <3>2, <4>2 DEF Typed
    <3> QED BY <1>4, <3>1, <3>2
  <2> QED BY <1>1, <1>2, <1>3, <1>12, <2>1, TypesOfTheRest DEF ChangeResource, StoreInv
<1>13. CASE CacheTick
  BY <1>1, <1>2, <1>3, <1>4, <1>13, TypesOfTheRest DEF CacheTick, StoreInv
<1>14. CASE UNCHANGED cacheVars
  BY <1>1, <1>2, <1>3, <1>4, <1>14, TypesOfTheRest DEF cacheVars, StoreInv
<1> QED BY <1>5, <1>6, <1>7, <1>8, <1>9, <1>10, <1>11, <1>12, <1>13, <1>14 DEF CacheNext

\* The running size is the size of what is stored, and neither limit is ever passed,
\* over any insertions, replacements, refusals and evictions (store_cache_entry).
THEOREM CacheStaysBounded == CacheSpec => []CacheIsBounded
<1>1. StoreInv => CacheIsBounded
  BY DEF StoreInv, StoreIsExact
<1> QED BY <1>1, StoreStarts, StoreStep, PTL DEF CacheSpec

-----------------------------------------------------------------------------
(* Idempotency keys                                                        *)

\* The number of keys registered, and whether the i-th of them is among the last.
Count     == Len(registered)
Recent(i) == i > Count - keyLimit

KeyTypes ==
  /\ keyLimit \in Nat
  /\ fingerprints \in [IdempotencyKeys -> Prints \cup {NoPrint}]
  /\ registered \in Seq([key: IdempotencyKeys, print: Prints])
  /\ insertionOrder \in Seq(IdempotencyKeys)
  /\ DOMAIN calls = Calls
  /\ \A c \in Calls : calls[c].pc = "session" =>
       calls[c].key \in IdempotencyKeys \cup {NoKey} /\ calls[c].print \in Prints

\* The queue holds the last keys, the map their prints and no others, and a key
\* comes again only after it left them.
QueueHoldsTheLast ==
  /\ Len(insertionOrder) = IF Count < keyLimit THEN Count ELSE keyLimit
  /\ \A i \in 1..Len(insertionOrder) :
       insertionOrder[i] = registered[Count - Len(insertionOrder) + i].key

MapHoldsTheLast ==
  /\ \A i \in 1..Count : Recent(i) => fingerprints[registered[i].key] = registered[i].print
  /\ \A k \in IdempotencyKeys : fingerprints[k] # NoPrint =>
       \E i \in 1..Count : Recent(i) /\ registered[i].key = k

KeysComeBackLate ==
  \A i, j \in 1..Count :
    i < j /\ registered[i].key = registered[j].key => j - i > keyLimit

AdmissionInv == KeyTypes /\ QueueHoldsTheLast /\ MapHoldsTheLast /\ KeysComeBackLate

\* What is registered has a key and a print.
LEMMA EntriesAreTyped ==
  ASSUME NEW s \in Seq([key: IdempotencyKeys, print: Prints]), NEW i \in 1..Len(s)
  PROVE  s[i].key \in IdempotencyKeys /\ s[i].print \in Prints
<1> DEFINE S == [key: IdempotencyKeys, print: Prints]
<1>1. s \in Seq(S)
  OBVIOUS
<1> HIDE DEF S
<1>2. s[i] \in S
  BY <1>1
<1> QED BY <1>2 DEF S

\* Nothing is registered.
LEMMA AdmissionStarts == AdmissionInit => AdmissionInv
<1> SUFFICES ASSUME AdmissionInit PROVE AdmissionInv
  OBVIOUS
<1>1. keyLimit \in Nat /\ Count = 0 /\ Len(insertionOrder) = 0
  BY KeyLimitsAssumption DEF AdmissionInit, Count
<1>2. KeyTypes
  BY <1>1 DEF KeyTypes, AdmissionInit
<1>3. QueueHoldsTheLast /\ MapHoldsTheLast /\ KeysComeBackLate
  BY <1>1 DEF QueueHoldsTheLast, MapHoldsTheLast, KeysComeBackLate, AdmissionInit
<1> QED BY <1>2, <1>3 DEF AdmissionInv

\* A key that is not remembered is registered.
LEMMA RememberStep ==
  ASSUME AdmissionInv, keyLimit > 0, UNCHANGED keyLimit,
         NEW key \in IdempotencyKeys, NEW print \in Prints, fingerprints[key] = NoPrint,
         Remember(key, print)
  PROVE  /\ QueueHoldsTheLast' /\ MapHoldsTheLast' /\ KeysComeBackLate'
         /\ fingerprints' \in [IdempotencyKeys -> Prints \cup {NoPrint}]
         /\ registered' \in Seq([key: IdempotencyKeys, print: Prints])
         /\ insertionOrder' \in Seq(IdempotencyKeys)
<1> DEFINE n == Count
           m == Len(insertionOrder)
           p == Pops
           one == [key |-> key, print |-> print]
<1>1. /\ n \in Nat /\ m \in Nat /\ keyLimit \in Nat
      /\ registered \in Seq([key: IdempotencyKeys, print: Prints])
      /\ insertionOrder \in Seq(IdempotencyKeys)
  BY DEF AdmissionInv, KeyTypes, Count
<1>2. /\ m = IF n < keyLimit THEN n ELSE keyLimit
      /\ \A i \in 1..m : insertionOrder[i] = registered[n - m + i].key
  BY DEF AdmissionInv, QueueHoldsTheLast
<1>3. p = IF n < keyLimit THEN 0 ELSE 1
  BY <1>1, <1>2 DEF Pops
<1>4. one \in [key: IdempotencyKeys, print: Prints]
  OBVIOUS
<1>5. /\ registered' \in Seq([key: IdempotencyKeys, print: Prints])
      /\ Count' = n + 1 /\ registered'[n + 1] = one
      /\ \A i \in 1..n : registered'[i] = registered[i]
  <2>1. registered' = Append(registered, one)
    BY DEF Remember
  <2> QED BY <1>1, <1>4, <2>1 DEF Count
<1>6. /\ insertionOrder' \in Seq(IdempotencyKeys)
      /\ Len(insertionOrder') = m - p + 1
      /\ insertionOrder'[m - p + 1] = key
      /\ \A i \in 1..(m - p) : insertionOrder'[i] = insertionOrder[i + p]
  <2> DEFINE rest == SubSeq(insertionOrder, p + 1, m)
  <2>1. p \in Nat /\ p <= m
    BY <1>1, <1>2, <1>3
  <2>2. /\ rest \in Seq(IdempotencyKeys) /\ Len(rest) = m - p
        /\ \A i \in 1..(m - p) : rest[i] = insertionOrder[i + p]
    BY <1>1, <2>1
  <2>3. insertionOrder' = Append(rest, key)
    BY DEF Remember
  <2> HIDE DEF rest, p, m
  <2> QED BY <1>1, <2>1, <2>2, <2>3
<1>7. fingerprints' = [k \in IdempotencyKeys |->
        IF k = key THEN print ELSE IF k \in Forgotten THEN NoPrint ELSE fingerprints[k]]
  BY DEF Remember
<1>8. fingerprints' \in [IdempotencyKeys -> Prints \cup {NoPrint}]
  BY <1>7 DEF AdmissionInv, KeyTypes
<1>16. \A i \in 1..n : registered[i].key \in IdempotencyKeys /\ registered[i].print \in Prints
  BY <1>1, EntriesAreTyped DEF Count
<1>9. \A i \in Nat : Recent(i)' <=> i > n + 1 - keyLimit
  BY <1>1, <1>5 DEF Recent
<1> HIDE DEF n, m, p, one
<1>10. \A i \in 1..n : i > n - keyLimit => registered[i].key # key
  <2> SUFFICES ASSUME NEW i \in 1..n, i > n - keyLimit PROVE registered[i].key # key
    OBVIOUS
  <2>1. fingerprints[registered[i].key] = registered[i].print
    BY DEF AdmissionInv, MapHoldsTheLast, Recent, n
  <2>2. registered[i].print \in Prints
    BY <1>16
  <2> QED BY <2>1, <2>2, NoPrintAssumption
<1>11. \A i \in 1..n : i > n + 1 - keyLimit => registered[i].key \notin Forgotten
  <2> SUFFICES ASSUME NEW i \in 1..n, i > n + 1 - keyLimit, registered[i].key \in Forgotten
               PROVE  FALSE
    OBVIOUS
  <2>1. PICK j \in 1..p : registered[i].key = insertionOrder[j]
    BY DEF Forgotten, p
  <2>2. j = 1 /\ m = keyLimit /\ n >= keyLimit /\ 1 \in 1..m
    BY <1>1, <1>2, <1>3, <2>1
  <2>3. insertionOrder[1] = registered[n - keyLimit + 1].key
    BY <1>2, <2>2
  <2>4. n - keyLimit + 1 \in 1..n /\ n - keyLimit + 1 < i
    BY <1>1, <2>2
  <2>5. i - (n - keyLimit + 1) > keyLimit
    BY <2>1, <2>2, <2>3, <2>4 DEF AdmissionInv, KeysComeBackLate, n
  <2> QED BY <1>1, <2>2, <2>5
<1>12. Forgotten = IF n < keyLimit THEN {} ELSE {registered[n - keyLimit + 1].key}
  <2>1. Forgotten = {insertionOrder[i] : i \in 1..p}
    BY DEF Forgotten, p
  <2>2. CASE n < keyLimit
    BY <1>3, <2>1, <2>2
  <2>3. CASE ~(n < keyLimit)
    <3>1. p = 1 /\ m = keyLimit /\ 1 \in 1..m /\ 1..p = {1}
      BY <1>1, <1>2, <1>3, <2>3
    <3>2. insertionOrder[1] = registered[n - keyLimit + 1].key
      BY <1>2, <3>1
    <3> QED BY <2>1, <2>3, <3>1, <3>2
  <2> QED BY <2>2, <2>3
<1>13. QueueHoldsTheLast'
  <2>1. Len(insertionOrder') = IF n + 1 < keyLimit THEN n + 1 ELSE keyLimit
    BY <1>1, <1>2, <1>3, <1>6
  <2>2. ASSUME NEW i \in 1..Len(insertionOrder')
        PROVE  insertionOrder'[i] = registered'[Count' - Len(insertionOrder') + i].key
    <3>0. Count' = n + 1
      BY <1>5
    <3>1. CASE i = m - p + 1
      <4>1. Count' - Len(insertionOrder') + i = n + 1
        BY <1>1, <1>3, <1>6, <3>0, <3>1
      <4> QED BY <1>5, <1>6, <3>0, <3>1, <4>1 DEF one
    <3>2. CASE i \in 1..(m - p)
      <4>1. /\ Count' - Len(insertionOrder') + i = n - m + (i + p)
            /\ i + p \in 1..m /\ n - m + (i + p) \in 1..n
        <5>1. m - p \in Nat /\ p \in Nat /\ m <= n /\ Len(insertionOrder') = m - p + 1
          BY <1>1, <1>2, <1>3, <1>6
        <5>2. i \in Nat /\ 1 <= i /\ i <= m - p
          BY <3>2, <5>1
        <5>3. i + p \in 1..m /\ n - m + (i + p) \in 1..n
          BY <1>1, <5>1, <5>2
        <5>4. Count' - Len(insertionOrder') + i = n - m + (i + p)
          BY <1>1, <3>0, <5>1, <5>2
        <5> QED BY <5>3, <5>4
      <4>2. insertionOrder'[i] = registered[n - m + (i + p)].key
        BY <1>2, <1>6, <3>2, <4>1
      <4>3. registered'[n - m + (i + p)] = registered[n - m + (i + p)]
        BY <1>5, <4>1
      <4> QED BY <4>1, <4>2, <4>3
    <3>3. Len(insertionOrder') = m - p + 1 /\ m - p \in Nat
      BY <1>1, <1>2, <1>3, <1>6
    <3>4. i \in 1..(m - p) \/ i = m - p + 1
      BY <3>3
    <3> QED BY <3>1, <3>2, <3>4
  <2>3. Count' = n + 1
    BY <1>5
  <2>4. \A i \in 1..Len(insertionOrder') :
          insertionOrder'[i] = registered'[Count' - Len(insertionOrder') + i].key
    BY <2>2
  <2>5. Len(insertionOrder') = IF Count' < keyLimit' THEN Count' ELSE keyLimit'
    BY <2>1, <2>3
  <2> QED BY <2>4, <2>5 DEF QueueHoldsTheLast
<1>14. MapHoldsTheLast'
  <2>1. ASSUME NEW i \in 1..(n + 1), Recent(i)'
        PROVE  fingerprints'[registered'[i].key] = registered'[i].print
    <3>1. CASE i = n + 1
      BY <1>5, <1>7, <3>1 DEF one
    <3>2. CASE i \in 1..n
      <4>1. i > n + 1 - keyLimit /\ i > n - keyLimit
        BY <1>1, <1>9, <2>1, <3>2
      <4>2. registered[i].key # key /\ registered[i].key \notin Forgotten
            /\ registered[i].key \in IdempotencyKeys
        BY <1>10, <1>11, <1>16, <3>2, <4>1
      <4>3. fingerprints[registered[i].key] = registered[i].print
        BY <3>2, <4>1 DEF AdmissionInv, MapHoldsTheLast, Recent, n
      <4> QED BY <1>5, <1>7, <3>2, <4>2, <4>3
    <3> QED BY <1>1, <3>1, <3>2
  <2>2. ASSUME NEW k \in IdempotencyKeys, fingerprints'[k] # NoPrint
        PROVE  \E i \in 1..(n + 1) : Recent(i)' /\ registered'[i].key = k
    <3>1. CASE k = key
      <4>1. n + 1 \in Nat /\ n + 1 \in 1..(n + 1) /\ n + 1 > n + 1 - keyLimit
        BY <1>1
      <4>2. registered'[n + 1].key = k
        BY <1>5, <3>1 DEF one
      <4>3. \E i \in 1..(n + 1) : i \in Nat /\ i > n + 1 - keyLimit /\ registered'[i].key = k
        BY <4>1, <4>2
      <4> QED BY <1>9, <4>3
    <3>2. CASE k # key
      <4>1. k \notin Forgotten /\ fingerprints[k] # NoPrint
        BY <1>7, <2>2, <3>2
      <4>2. PICK i \in 1..n : i > n - keyLimit /\ registered[i].key = k
        BY <4>1 DEF AdmissionInv, MapHoldsTheLast, Recent, n
      <4>3. i > n + 1 - keyLimit
        <5>1. n >= keyLimit => i # n - keyLimit + 1
          BY <1>1, <1>12, <4>1, <4>2
        <5> QED BY <1>1, <4>2, <5>1
      <4>4. i \in 1..(n + 1) /\ Recent(i)' /\ registered'[i].key = k
        BY <1>1, <1>5, <1>9, <4>2, <4>3
      <4> QED BY <4>4
    <3> QED BY <3>1, <3>2
  <2> QED BY <1>5, <2>1, <2>2 DEF MapHoldsTheLast
<1>15. KeysComeBackLate'
  <2> SUFFICES ASSUME NEW i \in 1..(n + 1), NEW j \in 1..(n + 1),
                      i < j, registered'[i].key = registered'[j].key
               PROVE  j - i > keyLimit
    BY <1>5 DEF KeysComeBackLate
  <2>1. i \in 1..n
    BY <1>1
  <2>2. CASE j = n + 1
    <3>1. registered[i].key = key
      BY <1>5, <2>1, <2>2 DEF one
    <3>2. ~(i > n - keyLimit)
      BY <1>10, <2>1, <3>1
    <3> QED BY <1>1, <2>2, <3>2
  <2>3. CASE j \in 1..n
    BY <1>5, <2>1, <2>3 DEF AdmissionInv, KeysComeBackLate, n
  <2> QED BY <1>1, <2>2, <2>3
<1> QED BY <1>5, <1>6, <1>8, <1>13, <1>14, <1>15

\* The registry is left as it is.
LEMMA RegistryUntouched ==
  ASSUME AdmissionInv, UNCHANGED <<keyLimit, fingerprints, insertionOrder, registered>>
  PROVE  /\ QueueHoldsTheLast' /\ MapHoldsTheLast' /\ KeysComeBackLate'
         /\ fingerprints' \in [IdempotencyKeys -> Prints \cup {NoPrint}]
         /\ registered' \in Seq([key: IdempotencyKeys, print: Prints])
         /\ insertionOrder' \in Seq(IdempotencyKeys)
BY DEF AdmissionInv, KeyTypes, QueueHoldsTheLast, MapHoldsTheLast, KeysComeBackLate, Count, Recent

\* Every step of the way in keeps the invariant.
LEMMA AdmissionStep == AdmissionInv /\ [AdmissionNext]_admissionVars => AdmissionInv'
<1> SUFFICES ASSUME AdmissionInv, [AdmissionNext]_admissionVars PROVE AdmissionInv'
  OBVIOUS
<1>1. keyLimit \in Nat /\ DOMAIN calls = Calls
      /\ \A c \in Calls : calls[c].pc = "session" =>
           calls[c].key \in IdempotencyKeys \cup {NoKey} /\ calls[c].print \in Prints
  BY DEF AdmissionInv, KeyTypes
<1>2. ASSUME NEW c \in Calls, NEW key \in IdempotencyKeys \cup {NoKey}, NEW print \in Prints,
             Enter(c, key, print)
      PROVE  AdmissionInv'
  <2>1. UNCHANGED <<keyLimit, fingerprints, insertionOrder, registered>>
    BY <1>2 DEF Enter
  <2>2. DOMAIN calls' = Calls
        /\ \A d \in Calls : calls'[d].pc = "session" =>
             calls'[d].key \in IdempotencyKeys \cup {NoKey} /\ calls'[d].print \in Prints
    BY <1>1, <1>2 DEF Enter
  <2> QED BY <1>1, <2>1, <2>2, RegistryUntouched DEF AdmissionInv, KeyTypes
<1>3. ASSUME NEW c \in Calls, NEW pc \in {"refused", "running", "expired", "conflict"}, Goes(c, pc)
      PROVE  DOMAIN calls' = Calls
        /\ \A d \in Calls : calls'[d].pc = "session" =>
             calls'[d].key \in IdempotencyKeys \cup {NoKey} /\ calls'[d].print \in Prints
  BY <1>1, <1>3 DEF Goes
<1>4. ASSUME NEW c \in Calls, AdmitNew(c)
      PROVE  AdmissionInv'
  <2>1. /\ calls[c].key \in IdempotencyKeys /\ calls[c].print \in Prints
        /\ fingerprints[calls[c].key] = NoPrint /\ keyLimit > 0 /\ UNCHANGED keyLimit
        /\ Remember(calls[c].key, calls[c].print)
    BY <1>1, <1>4 DEF AdmitNew, KeyUnknown
  <2> DEFINE key == calls[c].key
             print == calls[c].print
  <2> HIDE DEF key, print
  <2>2. /\ key \in IdempotencyKeys /\ print \in Prints
        /\ fingerprints[key] = NoPrint /\ Remember(key, print)
    BY <2>1 DEF key, print
  <2>3. /\ QueueHoldsTheLast' /\ MapHoldsTheLast' /\ KeysComeBackLate'
        /\ fingerprints' \in [IdempotencyKeys -> Prints \cup {NoPrint}]
        /\ registered' \in Seq([key: IdempotencyKeys, print: Prints])
        /\ insertionOrder' \in Seq(IdempotencyKeys)
    BY <2>1, <2>2, RememberStep
  <2>4. Goes(c, "running") \/ Goes(c, "expired")
    BY <1>4 DEF AdmitNew, Proceeds
  <2> QED BY <1>1, <1>3, <2>1, <2>3, <2>4 DEF AdmissionInv, KeyTypes
<1>5. ASSUME NEW c \in Calls, RefuseEarly(c) \/ AdmitKnown(c) \/ RefuseKey(c)
      PROVE  AdmissionInv'
  <2>1. UNCHANGED <<keyLimit, fingerprints, insertionOrder, registered>>
        /\ (Goes(c, "refused") \/ Goes(c, "running") \/ Goes(c, "expired") \/ Goes(c, "conflict"))
    BY <1>5 DEF RefuseEarly, AdmitKnown, RefuseKey, Proceeds
  <2> QED BY <1>1, <1>3, <2>1, RegistryUntouched DEF AdmissionInv, KeyTypes
<1>6. CASE CloseEngine \/ UNCHANGED admissionVars
  <2>1. UNCHANGED <<keyLimit, fingerprints, insertionOrder, registered, calls>>
    BY <1>6 DEF CloseEngine, admissionVars
  <2> QED BY <1>1, <2>1, RegistryUntouched DEF AdmissionInv, KeyTypes
<1> QED BY <1>2, <1>4, <1>5, <1>6 DEF AdmissionNext

\* The keys remembered are the last registered, each with its input, in the map and in
\* the queue (admit_idempotency).
THEOREM KeysAreRemembered == AdmissionSpec => []LastKeysAreRemembered
<1>1. AdmissionInv => LastKeysAreRemembered
  <2> SUFFICES ASSUME AdmissionInv PROVE LastKeysAreRemembered
    OBVIOUS
  <2> DEFINE n      == Count
             m      == Len(insertionOrder)
             recent == {i \in 1..n : i > n - keyLimit}
  <2>10. /\ keyLimit \in Nat /\ insertionOrder \in Seq(IdempotencyKeys)
         /\ registered \in Seq([key: IdempotencyKeys, print: Prints])
    BY DEF AdmissionInv, KeyTypes
  <2>11. n \in Nat /\ m \in Nat
    BY <2>10 DEF Count
  <2>12. m = IF n < keyLimit THEN n ELSE keyLimit
    BY DEF AdmissionInv, QueueHoldsTheLast
  <2>1. /\ n \in Nat /\ m \in Nat /\ keyLimit \in Nat
        /\ m = IF n < keyLimit THEN n ELSE keyLimit
        /\ registered \in Seq([key: IdempotencyKeys, print: Prints])
    BY <2>10, <2>11, <2>12
  <2>2. recent = (n - m + 1)..n
    <3> HIDE DEF n, m
    <3> QED BY <2>1
  <2>3. Cardinality(recent) = m
    <3> HIDE DEF n, m
    <3>1. n - m + 1 \in Int /\ n \in Int /\ m = IF n - m + 1 > n THEN 0 ELSE n - (n - m + 1) + 1
      BY <2>1
    <3> QED BY <2>2, <3>1, FS_Interval
  <2>4. \A i \in recent : registered[i].key \in IdempotencyKeys /\ registered[i].print # NoPrint
    BY <2>1, EntriesAreTyped, NoPrintAssumption DEF Count
  <2>5. \A i \in recent : fingerprints[registered[i].key] = registered[i].print
    BY DEF AdmissionInv, MapHoldsTheLast, Recent
  <2>6. Remembered = {registered[i].key : i \in recent}
    <3>1. ASSUME NEW k \in Remembered PROVE k \in {registered[i].key : i \in recent}
      BY DEF Remembered, AdmissionInv, MapHoldsTheLast, Recent
    <3>2. ASSUME NEW i \in recent PROVE registered[i].key \in Remembered
      BY <2>4, <2>5 DEF Remembered
    <3> QED BY <3>1, <3>2
  <2>7. ToSet(insertionOrder) = {registered[i].key : i \in recent}
    <3>1. insertionOrder \in Seq(IdempotencyKeys)
      BY DEF AdmissionInv, KeyTypes
    <3>2. ToSet(insertionOrder) = {insertionOrder[i] : i \in 1..m}
      BY <3>1 DEF ToSet
    <3>3. \A i \in 1..m : n - m + i \in recent /\ insertionOrder[i] = registered[n - m + i].key
      BY <2>1, <2>2 DEF AdmissionInv, QueueHoldsTheLast
    <3>4. ASSUME NEW i \in recent
          PROVE  i - n + m \in 1..m /\ insertionOrder[i - n + m] = registered[i].key
      <4>1. i - n + m \in 1..m /\ n - m + (i - n + m) = i
        <5> HIDE DEF n, m
        <5>1. i \in (n - m + 1)..n
          BY <2>2
        <5> QED BY <2>1, <5>1
      <4> QED BY <3>3, <4>1
    <3>5. ASSUME NEW i \in 1..m PROVE insertionOrder[i] \in {registered[j].key : j \in recent}
      BY <3>3
    <3>6. ASSUME NEW i \in recent PROVE registered[i].key \in {insertionOrder[j] : j \in 1..m}
      BY <3>4
    <3> QED BY <3>2, <3>5, <3>6
  <2>8. \A i, j \in 1..n : i < j /\ registered[i].key = registered[j].key => j - i > keyLimit
    BY DEF AdmissionInv, KeysComeBackLate
  <2> HIDE DEF m
  <2>9. /\ \A i \in recent : fingerprints[registered[i].key] = registered[i].print
        /\ Remembered = {registered[i].key : i \in recent}
        /\ Remembered = ToSet(insertionOrder)
        /\ Cardinality(recent) = Len(insertionOrder)
    BY <2>3, <2>5, <2>6, <2>7 DEF m
  <2> QED BY <2>8, <2>9 DEF LastKeysAreRemembered, Count
<1> QED BY <1>1, AdmissionStarts, AdmissionStep, PTL DEF AdmissionSpec
=============================================================================
