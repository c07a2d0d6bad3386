------------------------------ MODULE MCService ------------------------------
(***************************************************************************)
(* The parts of the services that share no state with each other, for TLC: *)
(* the expiring cache, the controller's function cache, the rest client    *)
(* with the generic server, the server's mux, the stub api server and the  *)
(* http doors. One part moves in a behaviour, the others stay at an        *)
(* initial state.                                                          *)
(***************************************************************************)
EXTENDS ExpiringCache, FunctionCache, RestCall, PathMux, FunctionStore, HttpTrigger, TLC

VARIABLE part

MCWidth == "int8" :> 2 @@ "uint8" :> 1
MCDurations == {0}
MCPaths == {<<"a">>, <<"a", "">>, <<"a", "b">>, <<"a", "b", "">>}

Parts == {"cache", "lookup", "rest", "mux", "store", "trigger"}

Init ==
    /\ part \in Parts
    /\ CacheInit /\ LookupInit /\ RestInit /\ MuxInit /\ StoreInit /\ TriggerInit
    /\ part = "trigger" \/ client = "call"

Others(p) ==
    /\ part = p /\ UNCHANGED part
    /\ p # "cache" => UNCHANGED cacheVars
    /\ p # "lookup" => UNCHANGED lookupVars
    /\ p # "rest" => UNCHANGED restVars
    /\ p # "mux" => UNCHANGED muxVars
    /\ p # "store" => UNCHANGED storeVars
    /\ p # "trigger" => UNCHANGED triggerVars

Next ==
    \/ Others("cache") /\ CacheNext
    \/ Others("lookup") /\ LookupNext
    \/ Others("rest") /\ RestNext
    \/ Others("mux") /\ MuxNext
    \/ Others("store") /\ StoreNext
    \/ Others("trigger") /\ TriggerNext

-----------------------------------------------------------------------------
(* Property of the component that two modules model *)

\* The generic server: Run returns after the last handler, handlers are limited even when
\* their requests are timed out, healthz waits for the hooks, and the mux serves the best
\* match of what is registered.
HttpServerSafe ==
    RunWaitsForHandlers /\ HandlersLimited /\ HealthyMeansHooked /\ RoutesBest /\ ListedServed
=============================================================================
