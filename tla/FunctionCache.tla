---------------------------- MODULE FunctionCache ----------------------------
(***************************************************************************)
(* What the controller knows of a function: getFunction with its aliases,  *)
(* getRuntimeConfiguration (controller/invoke.go), the cache in front of   *)
(* the registry (controller/function) and the registry client              *)
(* (controller/registry). The registry's metadata change at any time; a    *)
(* metadatum is its revision, so that its age can be told.                 *)
(***************************************************************************)
EXTENDS Integers, Sequences, FiniteSets, CacheItems

CONSTANTS
    Lookups,        \* requests that look a function up
    Versions,       \* the function's published versions
    Expiration,     \* CacheExpiration of every type, in ticks
    RpcTimeout,     \* ClientTimeout of the registry client, in ticks
    MaxRevisions,   \* bound on changes of the registry
    MaxLookupClock  \* bound on the clock

ASSUME FunctionCacheAssumption ==
    /\ Expiration \in Nat \ {0} /\ RpcTimeout \in Nat
    /\ MaxRevisions \in Nat /\ MaxLookupClock \in Nat

\* A function with versions and an alias; the keys are the brn for a qualifier, the
\* alias and the runtime.
Qualifiers == {"$LATEST", "alias"} \cup Versions
MetaKeys == {<<"function", q>> : q \in Qualifiers} \cup {<<"alias", "alias">>, <<"runtime", "go">>}

VARIABLES
    registry,       \* the revisions of every key: the times at which they were replaced
    entries,        \* the cache
    lookup,         \* the requests
    lclock

lookupVars == <<registry, entries, lookup, lclock>>

NoEntry == [Object |-> 0, Expiration |-> 0]
Revision(k) == Len(registry[k]) + 1

\* pc: what is looked up next; at: when the registry was asked, or the function known;
\* waiting: for the registry, which answered with the revision got; function, hit: the
\* function that was found, and in the cache.
NewLookup == [pc |-> "new", qualifier |-> "$LATEST", at |-> 0, waiting |-> FALSE,
              got |-> 0, function |-> 0, hit |-> FALSE, byName |-> FALSE]

LookupInit ==
    /\ registry = [k \in MetaKeys |-> << >>]
    /\ entries = [k \in MetaKeys |-> NoEntry]
    /\ lookup = [r \in Lookups |-> NewLookup]
    /\ lclock = 1

LookupSet(r, f) == lookup' = [lookup EXCEPT ![r] = f]

\* getFunctionByFunctionName takes no alias, and does with $LATEST what is done for a brn.
ByName(q) == q \in Versions

\* getFunction: by brn, with the qualifier it names, or by function name. An alias
\* without EnableCanary is an error, and so is a brn that does not parse.
getFunction(r, q, byName) ==
    /\ lookup[r].pc = "new"
    /\ byName => ByName(q)
    /\ LookupSet(r, [NewLookup EXCEPT !.pc = IF q = "alias" THEN "alias" ELSE "function",
                                      !.qualifier = q, !.byName = byName])
    /\ UNCHANGED <<registry, entries, lclock>>

KeyOf(l) ==
    CASE l.pc = "alias" -> <<"alias", "alias">>
      [] l.pc = "function" -> <<"function", l.qualifier>>
      [] l.pc = "runtime" -> <<"runtime", "go">>

\* WithCache: not by function name and not for $LATEST.
WithCache(l) == l.pc # "function" \/ (~l.byName /\ l.qualifier # "$LATEST")

Cached(l) == entries[KeyOf(l)] # NoEntry /\ ~Expired(entries[KeyOf(l)], lclock)

\* getCanaryFunctionBrn: an alias whose revision is even has an additional version,
\* and the dice decide; otherwise the alias itself is the qualifier.
Canary(rev) == IF rev % 2 = 0 THEN Versions ELSE {"alias"}

\* The step after the metadatum is known. getFunction fails when SimpleAuth is set and
\* the owner is not the caller's account, after the cache was filled.
Proceed(r, rev, hit) ==
    LET l == [lookup[r] EXCEPT !.waiting = FALSE, !.got = 0, !.at = 0]
    IN  CASE l.pc = "alias" ->
               \E q \in Canary(rev) : LookupSet(r, [l EXCEPT !.pc = "function", !.qualifier = q])
          [] l.pc = "function" ->
               \/ LookupSet(r, [l EXCEPT !.pc = "runtime", !.at = lclock, !.function = rev, !.hit = hit])
               \/ LookupSet(r, [NewLookup EXCEPT !.pc = "done"])
          [] l.pc = "runtime" -> LookupSet(r, [NewLookup EXCEPT !.pc = "done"])

\* GetFunction, GetAlias and GetRuntimeConfiguration find the key in the cache ...
HitCache(r) ==
    LET l == lookup[r] IN
    /\ l.pc \in {"alias", "function", "runtime"} /\ ~l.waiting
    /\ WithCache(l) /\ Cached(l)
    /\ Proceed(r, entries[KeyOf(l)].Object, TRUE)
    /\ UNCHANGED <<registry, entries, lclock>>

\* ... or ask the registry. (The function itself is only looked at before the runtime is.)
MissCache(r) ==
    LET l == lookup[r] IN
    /\ l.pc \in {"alias", "function", "runtime"} /\ ~l.waiting
    /\ ~(WithCache(l) /\ Cached(l))
    /\ LookupSet(r, [NewLookup EXCEPT !.pc = l.pc, !.qualifier = l.qualifier, !.byName = l.byName,
                                      !.waiting = TRUE, !.at = lclock])
    /\ UNCHANGED <<registry, entries, lclock>>

\* The registry answers with what it has now; the answer travels.
RegistryAnswers(r) ==
    /\ lookup[r].waiting /\ lookup[r].got = 0
    /\ LookupSet(r, [lookup[r] EXCEPT !.got = Revision(KeyOf(lookup[r]))])
    /\ UNCHANGED <<registry, entries, lclock>>

\* Mutant: the entry is stored without an expiration.
StoreForever(l, rev) == [Object |-> rev, Expiration |-> 0]

\* The item that is stored, with the expiration of its type.
StoreItem(l, rev) == NewItem(rev, Expiration, lclock, Expiration)

\* The answer arrives and is stored.
RpcReturns(r) ==
    LET l == lookup[r] IN
    /\ l.waiting /\ l.got # 0
    /\ entries' = IF WithCache(l) THEN [entries EXCEPT ![KeyOf(l)] = StoreItem(l, l.got)]
                  ELSE entries
    /\ Proceed(r, l.got, FALSE)
    /\ UNCHANGED <<registry, lclock>>

\* Not found, refused or out of time: nothing is stored.
RpcFails(r) ==
    /\ lookup[r].waiting
    /\ LookupSet(r, [NewLookup EXCEPT !.pc = "done"])
    /\ UNCHANGED <<registry, entries, lclock>>

\* The registry changes (external).
Publish(k) ==
    /\ Cardinality({v \in MetaKeys \X (1..MaxRevisions) : v[2] <= Len(registry[v[1]])})
         < MaxRevisions
    /\ registry' = [registry EXCEPT ![k] = Append(@, lclock)]
    /\ UNCHANGED <<entries, lookup, lclock>>

\* Time passes, but not while a call is over its timeout.
LookupTick ==
    /\ lclock < MaxLookupClock
    /\ \A r \in Lookups : lookup[r].waiting => lclock - lookup[r].at < RpcTimeout
    /\ lclock' = lclock + 1
    /\ UNCHANGED <<registry, entries, lookup>>

LookupNext ==
    \/ \E r \in Lookups :
         \/ \E q \in Qualifiers, n \in BOOLEAN : getFunction(r, q, n)
         \/ HitCache(r) \/ MissCache(r) \/ RegistryAnswers(r) \/ RpcReturns(r) \/ RpcFails(r)
    \/ \E k \in MetaKeys : Publish(k)
    \/ LookupTick

-----------------------------------------------------------------------------
(* Properties *)

\* The revision was the registry's at some time since t.
CurrentSince(k, rev, t) == rev <= Len(registry[k]) => registry[k][rev] >= t

\* No entry the cache would serve is older than its expiration and the time one call
\* of the registry may take, although a slow answer may replace a newer entry.
BoundedStaleness ==
    \A k \in MetaKeys :
        entries[k] # NoEntry /\ ~Expired(entries[k], lclock)
            => CurrentSince(k, entries[k].Object, lclock - Expiration - RpcTimeout)

\* $LATEST, and a function invoked by name, is never answered from the cache: it was
\* the registry's while the request looked it up.
LatestIsCurrent ==
    \A r \in Lookups :
        lookup[r].pc = "runtime" /\ ~lookup[r].waiting
            /\ (lookup[r].byName \/ lookup[r].qualifier = "$LATEST")
            => ~lookup[r].hit /\
               CurrentSince(<<"function", lookup[r].qualifier>>, lookup[r].function,
                            lookup[r].at - RpcTimeout)

\* What a request gets of the cache is not older than the code means it to be: $LATEST
\* and functions by name are current, everything else has a bounded age.
AgeBounded == BoundedStaleness /\ LatestIsCurrent
=============================================================================
