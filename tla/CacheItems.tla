----------------------------- MODULE CacheItems -----------------------------
(* Items of the expiring cache (pkg/util/cache/cache.go): an object and the time  *)
(* it expires, 0 for never. Times are ticks, later than 0.                        *)
EXTENDS Integers

\* NoExpiration and DefaultExpiration as durations.
NoExpiration == -1
DefaultExpiration == 0

\* Item.Expired, and what get, Get, Items and Load inline of it.
Expired(item, now) == item.Expiration > 0 /\ now > item.Expiration

\* newCache: a default of 0 means that items never expire.
newCacheDefault(de) == IF de = 0 THEN NoExpiration ELSE de

\* The item that Set and set make at a time.
NewItem(x, d, now, defaultExpiration) ==
    LET e == IF d = DefaultExpiration THEN defaultExpiration ELSE d
    IN  [Object |-> x, Expiration |-> IF e > 0 THEN now + e ELSE 0]
=============================================================================
