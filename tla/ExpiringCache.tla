---------------------------- MODULE ExpiringCache ----------------------------
(***************************************************************************)
(* The expiring cache of pkg/util/cache/cache.go: callers, the janitor and *)
(* the eviction callback, which runs after the lock is released. Set reads *)
(* the clock before it takes the lock and DeleteExpired does, so both are  *)
(* a step before the lock and one under it; every other operation is one   *)
(* step under the lock. An operation that returns an error changes nothing *)
(* and is no step.                                                         *)
(***************************************************************************)
EXTENDS Integers, Sequences, FiniteSets, CacheItems

CONSTANTS
    CacheKeys,
    Callers,            \* goroutines that call Set and Delete
    Signed, Unsigned, Floats,   \* the numeric types of the values in the cache
    Width,              \* bits of every integer type
    Steps,              \* what is added or subtracted
    Durations,          \* durations Set is called with
    CacheDefault,       \* defaultExpiration of New
    MaxFloat,           \* bound on the values of floats
    MaxObjects,         \* bound on objects stored
    MaxCacheClock       \* bound on the clock

Types == Signed \cup Unsigned \cup Floats

ASSUME ExpiringCacheAssumption ==
    /\ Width \in [Signed \cup Unsigned -> Nat \ {0}]
    /\ Steps \subseteq Nat /\ Durations \subseteq Int /\ CacheDefault \in Nat
    /\ MaxFloat \in Nat /\ MaxObjects \in Nat /\ MaxCacheClock \in Nat

VARIABLES
    items,          \* the map; NoItem for a missing key
    now,            \* the clock
    set,            \* what every caller is about to store or to hand to the callback
    janitor,        \* the janitor's DeleteExpired
    evicted,        \* how often the callback got each object
    onEvicted,      \* OnEvicted has set a callback
    saved,          \* the file of SaveFile: "none", "empty" after os.Create, or
                    \* items; loaded: it was loaded (only for the properties)
    objects         \* objects stored so far

cacheVars == <<items, now, set, janitor, evicted, onEvicted, saved, objects>>

NoItem == [Object |-> [id |-> 0, type |-> "none", val |-> 0], Expiration |-> 0]

\* An object is a value of a type; id tells objects apart.
Object(t, v) == [id |-> objects + 1, type |-> t, val |-> v]

Found(k) == items[k] # NoItem
Live(k) == Found(k) /\ ~Expired(items[k], now)

IdleCall == [pc |-> "idle", key |-> CHOOSE k \in CacheKeys : TRUE, item |-> NoItem]

CacheInit ==
    /\ items = [k \in CacheKeys |-> NoItem]
    /\ now = 1
    /\ set = [c \in Callers |-> IdleCall]
    /\ janitor = [pc |-> "idle", at |-> 0, todo |-> {}]
    /\ evicted = [i \in 1..MaxObjects |-> 0]
    /\ onEvicted = FALSE
    /\ saved = [state |-> "none", loaded |-> FALSE, items |-> [k \in CacheKeys |-> NoItem]]
    /\ objects = 0

-----------------------------------------------------------------------------
(* Storing *)

\* Set and SetDefault read the clock ...
SetBegin(c, k, t, d) ==
    /\ set[c].pc = "idle" /\ objects < MaxObjects
    /\ set' = [set EXCEPT ![c] =
                 [pc |-> "set", key |-> k,
                  item |-> NewItem(Object(t, 0), d, now, newCacheDefault(CacheDefault))]]
    /\ objects' = objects + 1
    /\ UNCHANGED <<items, now, janitor, evicted, onEvicted, saved>>

\* ... and store the item under the lock.
SetStore(c) ==
    /\ set[c].pc = "set"
    /\ items' = [items EXCEPT ![set[c].key] = set[c].item]
    /\ set' = [set EXCEPT ![c] = IdleCall]
    /\ UNCHANGED <<now, janitor, evicted, onEvicted, saved, objects>>

\* Add needs that the key is not live, Replace that it is.
Store(k, t, d) ==
    /\ objects < MaxObjects
    /\ items' = [items EXCEPT ![k] =
                   NewItem(Object(t, 0), d, now, newCacheDefault(CacheDefault))]
    /\ objects' = objects + 1
    /\ UNCHANGED <<now, set, janitor, evicted, onEvicted, saved>>

Add(k, t, d) == ~Live(k) /\ Store(k, t, d)

Replace(k, t, d) == Live(k) /\ Store(k, t, d)

-----------------------------------------------------------------------------
(* Counters *)

\* Two's complement arithmetic of the integer types; floats do not wrap.
Wrap(t, v) ==
    CASE t \in Signed -> ((v + 2^(Width[t] - 1)) % 2^Width[t]) - 2^(Width[t] - 1)
      [] t \in Unsigned -> v % 2^Width[t]
      [] t \in Floats -> v

\* A live item of one of the types is changed in place: it keeps its expiration.
Count(k, types, n) ==
    /\ Live(k) /\ items[k].Object.type \in types
    /\ items[k].Object.type \in Floats => items[k].Object.val + n \in -MaxFloat..MaxFloat
    /\ items' = [items EXCEPT ![k].Object.val = Wrap(items[k].Object.type, @ + n)]
    /\ UNCHANGED <<now, set, janitor, evicted, onEvicted, saved, objects>>

\* Increment and Decrement take any numeric type, the others the types they name.
Increment(k, n) == Count(k, Types, n)
IncrementFloat(k, n) == Count(k, Floats, n)
IncrementSigned(k, n) == Count(k, Signed, n)
IncrementUnsigned(k, n) == Count(k, Unsigned, n)
IncrementFloats(k, n) == Count(k, Floats, n)
Decrement(k, n) == Count(k, Types, -n)
DecrementFloat(k, n) == Count(k, Floats, -n)
DecrementSigned(k, n) == Count(k, Signed, -n)
DecrementUnsigned(k, n) == Count(k, Unsigned, -n)
DecrementFloats(k, n) == Count(k, Floats, -n)

-----------------------------------------------------------------------------
(* Removing *)

SetOnEvicted ==
    /\ ~onEvicted
    /\ onEvicted' = TRUE
    /\ UNCHANGED <<items, now, set, janitor, evicted, saved, objects>>

\* Mutant: the item is handed out but stays in the map.
DeleteHandsOut(c, k) ==
    /\ set[c].pc = "idle" /\ Found(k)
    /\ set' = IF onEvicted THEN [set EXCEPT ![c] = [pc |-> "evict", key |-> k,
                                                     item |-> items[k]]]
              ELSE set
    /\ items' = IF onEvicted THEN items ELSE [items EXCEPT ![k] = NoItem]
    /\ UNCHANGED <<now, janitor, evicted, onEvicted, saved, objects>>

\* Delete under the lock; delete hands out the object when there is a callback.
Delete(c, k) ==
    /\ set[c].pc = "idle" /\ Found(k)
    /\ set' = IF onEvicted THEN [set EXCEPT ![c] = [pc |-> "evict", key |-> k,
                                                     item |-> items[k]]]
              ELSE set
    /\ items' = [items EXCEPT ![k] = NoItem]
    /\ UNCHANGED <<now, janitor, evicted, onEvicted, saved, objects>>

\* The callback after the lock.
DeleteCalls(c) ==
    /\ set[c].pc = "evict"
    /\ evicted' = [evicted EXCEPT ![set[c].item.Object.id] = @ + 1]
    /\ set' = [set EXCEPT ![c] = IdleCall]
    /\ UNCHANGED <<items, now, janitor, onEvicted, saved, objects>>

\* The janitor's ticker: DeleteExpired reads the clock, deletes under the lock what
\* had expired by then, and calls back for each.
DeleteExpiredBegin ==
    /\ janitor.pc = "idle"
    /\ janitor' = [janitor EXCEPT !.pc = "lock", !.at = now]
    /\ UNCHANGED <<items, now, set, evicted, onEvicted, saved, objects>>

DeleteExpired ==
    LET gone == {k \in CacheKeys : Found(k) /\ Expired(items[k], janitor.at)}
    IN  /\ janitor.pc = "lock"
        /\ items' = [k \in CacheKeys |-> IF k \in gone THEN NoItem ELSE items[k]]
        /\ janitor' = [pc |-> "call", at |-> 0,
                       todo |-> IF onEvicted THEN {items[k].Object.id : k \in gone} ELSE {}]
        /\ UNCHANGED <<now, set, evicted, onEvicted, saved, objects>>

DeleteExpiredCalls ==
    /\ janitor.pc = "call"
    /\ IF janitor.todo = {}
       THEN janitor' = [janitor EXCEPT !.pc = "idle"] /\ UNCHANGED evicted
       ELSE \E i \in janitor.todo :
              /\ evicted' = [evicted EXCEPT ![i] = @ + 1]
              /\ janitor' = [janitor EXCEPT !.todo = @ \ {i}]
    /\ UNCHANGED <<items, now, set, onEvicted, saved, objects>>

\* Flush drops everything; the callback hears nothing.
Flush ==
    /\ \E k \in CacheKeys : Found(k)
    /\ items' = [k \in CacheKeys |-> NoItem]
    /\ UNCHANGED <<now, set, janitor, evicted, onEvicted, saved, objects>>

-----------------------------------------------------------------------------
(* Files *)

\* SaveFile, once: truncates the file, then encodes the whole map, expired items
\* included.
SaveFileCreate ==
    /\ saved.state = "none"
    /\ saved' = [saved EXCEPT !.state = "empty"]
    /\ UNCHANGED <<items, now, set, janitor, evicted, onEvicted, objects>>

Save ==
    /\ saved.state = "empty"
    /\ saved' = [saved EXCEPT !.state = "full", !.items = items]
    /\ UNCHANGED <<items, now, set, janitor, evicted, onEvicted, objects>>

\* Mutant: Load replaces what is there.
LoadOverwrites ==
    /\ saved.state = "full" /\ ~saved.loaded
    /\ items' = [k \in CacheKeys |-> IF saved.items[k] # NoItem THEN saved.items[k] ELSE items[k]]
    /\ saved' = [saved EXCEPT !.loaded = TRUE]
    /\ UNCHANGED <<now, set, janitor, evicted, onEvicted, objects>>

\* LoadFile, once: of a file that decodes, adds the items whose key is missing or expired.
Load ==
    /\ saved.state = "full" /\ ~saved.loaded
    /\ items' = [k \in CacheKeys |->
                   IF saved.items[k] # NoItem /\ ~Live(k) THEN saved.items[k] ELSE items[k]]
    /\ saved' = [saved EXCEPT !.loaded = TRUE]
    /\ UNCHANGED <<now, set, janitor, evicted, onEvicted, objects>>

-----------------------------------------------------------------------------

CacheTick ==
    /\ now < MaxCacheClock
    /\ now' = now + 1
    /\ UNCHANGED <<items, set, janitor, evicted, onEvicted, saved, objects>>

Storing ==
    \E k \in CacheKeys, t \in Types, d \in Durations :
        \/ \E c \in Callers : SetBegin(c, k, t, d)
        \/ Add(k, t, d)
        \/ Replace(k, t, d)

Counting ==
    \E k \in CacheKeys, n \in Steps :
        \/ Increment(k, n) \/ IncrementFloat(k, n) \/ IncrementSigned(k, n)
        \/ IncrementUnsigned(k, n) \/ IncrementFloats(k, n)
        \/ Decrement(k, n) \/ DecrementFloat(k, n) \/ DecrementSigned(k, n)
        \/ DecrementUnsigned(k, n) \/ DecrementFloats(k, n)

Removing ==
    \/ SetOnEvicted \/ DeleteExpiredBegin \/ DeleteExpired \/ DeleteExpiredCalls \/ Flush
    \/ \E c \in Callers : DeleteCalls(c) \/ \E k \in CacheKeys : Delete(c, k)

CacheNext ==
    \/ Storing \/ Counting \/ Removing \/ CacheTick
    \/ SaveFileCreate \/ Save \/ Load
    \/ \E c \in Callers : SetStore(c)

-----------------------------------------------------------------------------
(* Properties *)

\* Objects the callback is still to be called with.
Pending(i) ==
    \/ i \in janitor.todo
    \/ \E c \in Callers : set[c].pc = "evict" /\ set[c].item.Object.id = i

\* An object is handed to the callback once for every time it is evicted: as long as
\* no file is loaded, an object that is still in the map was never evicted, and no
\* object is evicted twice, whoever races the janitor.
EvictedOnce ==
    \A i \in 1..MaxObjects :
        ~saved.loaded =>
            /\ evicted[i] + (IF Pending(i) THEN 1 ELSE 0) <= 1
            /\ \A k \in CacheKeys : items[k].Object.id = i => evicted[i] = 0 /\ ~Pending(i)

\* Only storing an object sets its expiration: a counter that Increment changes all the
\* time still expires when it was to expire. And what Get would return is removed only by
\* Delete, Flush and new values: neither the janitor, though it works with an old clock,
\* nor Load takes a live item away.
ItemsKept ==
    [][\A k \in CacheKeys :
         /\ items'[k].Object.id = items[k].Object.id => items'[k].Expiration = items[k].Expiration
         /\ (DeleteExpired \/ Load) /\ Live(k) => items'[k] = items[k]]_cacheVars
=============================================================================
