------------------------------ MODULE HttpCache ------------------------------
(* The HTTP response cache of the transport: lookup, conditional request,  *)
(* the origin's answer, the merge of a 304 and the bounded LRU store.      *)
(*                                                                         *)
(* An execution suspends while its request is out and again on the cache   *)
(* lock, so the entry it looked up is a clone that others may outdate. The *)
(* origin changes what it serves at any time and answers at any time.      *)
EXTENDS Integers, FiniteSets

CONSTANTS
  Gets,            \* executions of a cached GET
  CacheKeys,       \* values of cache_key
  NoEntry,         \* no entry, no clone
  NoAge,           \* no max-age directive
  NoCondition,     \* no conditional header
  CacheLimits,     \* max_cache_entries and max_cache_bytes of an engine
  FreshFor,        \* values of CachePolicy::fresh_for_ms
  NoControl,       \* no Cache-Control header
  Headers,         \* what an origin may say: [etag, control]
  BodyBytes,       \* body size of each version of a resource
  OwnCondition,    \* If-None-Match among the caller's own headers, by key
  MaxAnswers,      \* bound on the numbers drawn
  MaxNow           \* bound on the clock

(* execute_cached refuses to run with either bound at zero.                *)
ASSUME CacheCapacity ==
  CacheLimits \subseteq [entries: Nat \ {0}, bytes: Nat \ {0}]

VARIABLES
  limits,      \* the engine's limits
  entries,     \* CacheStore.entries
  storedBytes, \* CacheStore.size_bytes
  cacheClock,  \* numbers drawn by next_sequence
  gets,        \* the executions; "seen" is what the origin served while the
               \* request was out
  origin,      \* version each resource has now
  cacheNow     \* Instant::now

cacheVars == <<limits, entries, storedBytes, cacheClock, gets, origin, cacheNow>>

Versions == DOMAIN BodyBytes

ASSUME NoConditionAssumption == NoCondition \notin Versions /\ 1 \in Versions
ASSUME BodyBytesAssumption == \A v \in Versions : BodyBytes[v] \in Nat
ASSUME HeadersAssumption == \A h \in Headers : h.etag \in BOOLEAN

-----------------------------------------------------------------------------
(* Headers. A Cache-Control value is its directives and its max-age.       *)

Forbids(control)    == control # NoControl /\ "no-store" \in control.directives
Revalidates(control) == control # NoControl /\ "no-cache" \in control.directives
MaxAge(control)     == IF control = NoControl THEN NoAge ELSE control.maxAge

EntryBytes(version, control) ==
  BodyBytes[version] + (IF control = NoControl THEN 0 ELSE 1)

(* A header of the 304 replaces the cached one; the others are kept.       *)
MergedControl(cached, revalidated) ==
  IF revalidated = NoControl THEN cached ELSE revalidated

CachedResponse ==
  [version: Versions, etag: BOOLEAN, control: {h.control : h \in Headers},
   validatedAt: Nat, lastAccess: Nat, number: Nat]

ASSUME NoEntryAssumption == NoEntry \notin CachedResponse

MakeEntry(version, etag, control, number) ==
  [version |-> version, etag |-> etag, control |-> control,
   validatedAt |-> cacheNow, lastAccess |-> cacheNow, number |-> number]

SizeOf(entry) == EntryBytes(entry.version, entry.control)

(* Time an entry may be served without asking: the request's wish, capped  *)
(* by the response's max-age; none when it requires revalidation.          *)
FreshFor_ms(entry, wish) ==
  LET age == MaxAge(entry.control)
  IN  IF age = NoAge \/ wish < age THEN wish ELSE age

IsFresh(entry, wish) ==
  /\ ~Revalidates(entry.control)
  /\ FreshFor_ms(entry, wish) > 0
  /\ cacheNow - entry.validatedAt <= FreshFor_ms(entry, wish)

\* Faulty variant: the condition of the entry as it is when the answer comes.
ConditionOfEntry(key, clone) ==
  IF OwnCondition[key] # NoCondition THEN OwnCondition[key]
  ELSE IF entries[key] # NoEntry /\ entries[key].etag THEN entries[key].version
  ELSE NoCondition

(* The validator the origin sees: the caller's own header is never         *)
(* replaced by the entry's.                                                *)
Condition(key, clone) ==
  IF OwnCondition[key] # NoCondition THEN OwnCondition[key]
  ELSE IF clone # NoEntry /\ clone.etag THEN clone.version ELSE NoCondition

-----------------------------------------------------------------------------
(* The store.                                                              *)

StoredKeys(store) == {k \in CacheKeys : store[k] # NoEntry}

(* The bytes of entries, each named by its key and its place.              *)
Bytes(store, keys)   == UNION {{k} \X (1..SizeOf(store[k])) : k \in keys}
BytesOf(store, keys) == Cardinality(Bytes(store, keys))

(* The order of eviction: last access, then the number drawn when stored.  *)
Older(e, f) == \/ e.lastAccess < f.lastAccess
               \/ e.lastAccess = f.lastAccess /\ e.number < f.number

NotOlder(store, k) ==
  {other \in StoredKeys(store) : ~Older(store[other], store[k])}

(* store_cache_entry's loop removes the least recently used entry as long  *)
(* as the new one does not fit: an entry stays if it, those used after it  *)
(* and the new one fit together.                                           *)
Kept(store, size) ==
  {k \in StoredKeys(store) :
     /\ Cardinality(NotOlder(store, k)) < limits.entries
     /\ BytesOf(store, NotOlder(store, k)) + size <= limits.bytes}

\* Faulty variant: the size of the entry that is replaced is not given back.
StoreEntryOnTop(key, entry) ==
  LET others == [entries EXCEPT ![key] = NoEntry]
      kept   == Kept(others, SizeOf(entry))
  IN  /\ entries' = [k \in CacheKeys |->
                       IF k = key THEN entry ELSE IF k \in kept THEN entries[k] ELSE NoEntry]
      /\ storedBytes' = storedBytes + SizeOf(entry)
                          - BytesOf(others, StoredKeys(others) \ kept)

(* A too large entry is refused and whatever was there stays; otherwise    *)
(* the previous entry of the key gives its size back before room is made.  *)
StoreEntry(key, entry) ==
  IF SizeOf(entry) > limits.bytes
  THEN UNCHANGED <<entries, storedBytes>>
  ELSE LET others == [entries EXCEPT ![key] = NoEntry]
           kept   == Kept(others, SizeOf(entry))
           back   == IF entries[key] = NoEntry THEN 0 ELSE SizeOf(entries[key])
           gone   == BytesOf(others, StoredKeys(others) \ kept)
       IN  /\ entries' = [k \in CacheKeys |->
                            IF k = key THEN entry
                            ELSE IF k \in kept THEN entries[k] ELSE NoEntry]
           /\ storedBytes' = storedBytes - back - gone + SizeOf(entry)

-----------------------------------------------------------------------------
Free == [pc |-> "idle"]

(* What an execution keeps of the entry it looked up.                      *)
Clone(entry) ==
  IF entry = NoEntry THEN NoEntry
  ELSE [version |-> entry.version, etag |-> entry.etag,
        control |-> entry.control, number |-> entry.number]

Pending == {g \in Gets : gets[g].pc \in {"sent", "answered"}}

CacheInit ==
  /\ limits \in CacheLimits
  /\ entries = [k \in CacheKeys |-> NoEntry]
  /\ storedBytes = 0
  /\ cacheClock = 0
  /\ gets = [g \in Gets |-> Free]
  /\ origin = [k \in CacheKeys |-> 1]
  /\ cacheNow = 0

(* execute_cached up to the request: the entry is touched and cloned under *)
(* the lock, and a fresh clone is the answer.                              *)
Hit(g, key, wish) ==
  /\ gets[g] = Free
  /\ entries[key] # NoEntry
  /\ IsFresh(entries[key], wish)
  /\ entries' = [entries EXCEPT ![key].lastAccess = cacheNow]
  /\ UNCHANGED <<limits, storedBytes, cacheClock, gets, origin, cacheNow>>

Ask(g, key, wish) ==
  /\ gets[g] = Free
  /\ cacheClock + Cardinality(Pending) < MaxAnswers
  /\ entries[key] # NoEntry => ~IsFresh(entries[key], wish)
  /\ entries' = IF entries[key] = NoEntry THEN entries
                ELSE [entries EXCEPT ![key].lastAccess = cacheNow]
  /\ gets' = [gets EXCEPT ![g] =
       [pc |-> "sent", key |-> key, clone |-> Clone(entries[key]),
        seen |-> {origin[key]}]]
  /\ UNCHANGED <<limits, storedBytes, cacheClock, origin, cacheNow>>

(* The origin answers with what it has: 304 when the condition names the   *)
(* current version, otherwise the version itself.                          *)
Answer(g) ==
  LET get == gets[g]
  IN  /\ get.pc = "sent"
      /\ \E h \in Headers :
           gets' = [gets EXCEPT ![g] =
             [pc |-> "answered", key |-> get.key, clone |-> get.clone,
              seen |-> get.seen, version |-> origin[get.key], headers |-> h,
              notModified |-> Condition(get.key, get.clone) = origin[get.key]]]
      /\ UNCHANGED <<limits, entries, storedBytes, cacheClock, origin, cacheNow>>

(* A 304 refreshes the clone, whatever the store holds by now; without a   *)
(* clone it is returned as it is.                                          *)
ReceiveNotModified(g) ==
  LET get == gets[g]
  IN  /\ get.pc = "answered"
      /\ get.notModified
      /\ gets' = [gets EXCEPT ![g] =
           IF get.clone = NoEntry THEN Free
           ELSE [pc |-> "store", key |-> get.key,
                 seen |-> get.seen,
                 entry |-> MakeEntry(get.clone.version,
                             get.clone.etag \/ get.headers.etag,
                             MergedControl(get.clone.control, get.headers.control),
                             get.clone.number)]]
      /\ UNCHANGED <<limits, entries, storedBytes, cacheClock, origin, cacheNow>>

(* A 2xx is stored unless it forbids it or its body alone is too large.    *)
Storable(get) ==
  /\ ~Forbids(get.headers.control)
  /\ BodyBytes[get.version] <= limits.bytes

ReceiveFetched(g) ==
  LET get == gets[g]
  IN  /\ get.pc = "answered"
      /\ ~get.notModified
      /\ cacheClock' = IF Storable(get) THEN cacheClock + 1 ELSE cacheClock
      /\ gets' = [gets EXCEPT ![g] =
           IF Storable(get)
           THEN [pc |-> "store", key |-> get.key,
                 seen |-> get.seen,
                 entry |-> MakeEntry(get.version, get.headers.etag,
                                     get.headers.control, cacheClock)]
           ELSE Free]
      /\ UNCHANGED <<limits, entries, storedBytes, origin, cacheNow>>

Store(g) ==
  /\ gets[g].pc = "store"
  /\ StoreEntry(gets[g].key, gets[g].entry)
  /\ gets' = [gets EXCEPT ![g] = Free]
  /\ UNCHANGED <<limits, cacheClock, origin, cacheNow>>

(* The request fails, or a deadline or a cancellation drops the future     *)
(* where it is suspended: nothing is stored.                               *)
DropGet(g) ==
  /\ gets[g].pc \in {"sent", "store"}
  /\ gets' = [gets EXCEPT ![g] = Free]
  /\ UNCHANGED <<limits, entries, storedBytes, cacheClock, origin, cacheNow>>

ChangeResource(k) ==
  /\ origin[k] + 1 \in Versions
  /\ origin' = [origin EXCEPT ![k] = @ + 1]
  /\ gets' = [g \in Gets |->
       IF gets[g] # Free /\ gets[g].key = k /\ gets[g].pc = "sent"
       THEN [gets[g] EXCEPT !.seen = @ \cup {origin[k] + 1}]
       ELSE gets[g]]
  /\ UNCHANGED <<limits, entries, storedBytes, cacheClock, cacheNow>>

CacheTick ==
  /\ cacheNow < MaxNow
  /\ cacheNow' = cacheNow + 1
  /\ UNCHANGED <<limits, entries, storedBytes, cacheClock, gets, origin>>

CacheNext ==
  \/ \E g \in Gets, k \in CacheKeys, wish \in FreshFor :
       Hit(g, k, wish) \/ Ask(g, k, wish)
  \/ \E g \in Gets :
       \/ Answer(g)
       \/ ReceiveNotModified(g)
       \/ ReceiveFetched(g)
       \/ Store(g)
       \/ DropGet(g)
  \/ \E k \in CacheKeys : ChangeResource(k)
  \/ CacheTick

CacheSpec == CacheInit /\ [][CacheNext]_cacheVars

-----------------------------------------------------------------------------
(* Shape of the cache and of what is stored in it.                         *)
CacheTypeOK ==
  /\ \A k \in CacheKeys : entries[k] = NoEntry \/ entries[k] \in CachedResponse
  /\ storedBytes \in Nat
  /\ cacheClock \in Nat
  /\ \A k \in CacheKeys : origin[k] \in Versions

(* store_cache_entry: the running size is the size of what is stored, and  *)
(* neither bound is ever passed, over any mix of insertions, replacements, *)
(* refusals and evictions.                                                 *)
CacheIsBounded ==
  /\ storedBytes = BytesOf(entries, StoredKeys(entries))
  /\ storedBytes <= limits.bytes
  /\ Cardinality(StoredKeys(entries)) <= limits.entries

(* execute_cached: what is stored, or refreshed by a 304, was being served *)
(* by the origin at some moment of the request that answered, however      *)
(* stale the clone was and whatever was stored meanwhile. A request with a *)
(* condition of its own is exempt: the 304 then confirms the caller's      *)
(* version and the clone is refreshed all the same.                        *)
StoredWasCurrent ==
  \A g \in Gets :
    gets[g].pc = "store" /\ OwnCondition[gets[g].key] = NoCondition =>
      gets[g].entry.version \in gets[g].seen
=============================================================================
