-------------------------- MODULE MCRouterProgress ---------------------------
(***************************************************************************)
(* The router, for TLC: with handlers that leave the proxy alone, and with  *)
(* ones that call it, which may make the router wait for itself.            *)
(***************************************************************************)
EXTENDS Router

CONSTANT Callers   \* bound: the clients that call the proxy when handlers do

VARIABLE part   \* "clients", or "handlers" when these call the proxy

Reentrant == INSTANCE Router WITH HandlersCall <- TRUE

MCInit == part \in {"clients", "handlers"} /\ Init

MCNext ==
  \/ part = "clients" /\ Next /\ UNCHANGED part
  \/ part = "handlers" /\ Reentrant!Next /\ UNCHANGED part
     /\ \A c \in Clients \ Callers : pc'[c] = "idle"

MCFairSpec == MCInit /\ [][MCNext]_<<part, vars>> /\ Fairness

----------------------------------------------------------------------------
\* Properties

\* While handlers leave the proxy alone, an accepted route gets registered unless the router
\* ends first (add_route, run), and shutdown() returns, if only by a panic when the router
\* thread is gone.
ClientCallsReturn == part = "clients" => RoutesRegistered /\ ShutdownReturns
==============================================================================
