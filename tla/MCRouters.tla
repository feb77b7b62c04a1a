------------------------------ MODULE MCRouters ------------------------------
(***************************************************************************)
(* The two routers, for TLC: the one behind to_stream() is extended, the    *)
(* other is an instance.  Each is a program of its own: `part` is chosen at *)
(* the beginning, and the other stays as it is.                             *)
(***************************************************************************)
EXTENDS AsyncRouter, TLC

VARIABLES
  part,        \* the component that runs
  \* Router:
  r_lock, r_poisoned, r_shutdown, r_pc, r_arg, r_given, r_dropped, r_msgs, r_wakeups,
  r_acks, r_fate, r_phase, r_members, r_handlers, r_results, r_sent, r_queue, r_closed,
  r_called, r_accepted, r_registered

rVars ==
  <<r_lock, r_poisoned, r_shutdown, r_pc, r_arg, r_given, r_dropped, r_msgs, r_wakeups,
    r_acks, r_fate, r_phase, r_members, r_handlers, r_results, r_sent, r_queue, r_closed,
    r_called, r_accepted, r_registered>>

\* Room for two wakeups: one may be under way while another is handled.
R == INSTANCE Router WITH
  WakeupCapacity <- 2, HandlersCall <- FALSE, lock <- r_lock, poisoned <- r_poisoned,
  shutdown <- r_shutdown, pc <- r_pc, arg <- r_arg, given <- r_given, dropped <- r_dropped,
  msgs <- r_msgs, wakeups <- r_wakeups, acks <- r_acks, fate <- r_fate, phase <- r_phase,
  members <- r_members, handlers <- r_handlers, results <- r_results, sent <- r_sent,
  queue <- r_queue, closed <- r_closed, called <- r_called, accepted <- r_accepted,
  registered <- r_registered

MCInit == part \in {"async", "router"} /\ Init /\ R!Init

MCNext ==
  \/ part = "async" /\ Next /\ UNCHANGED <<part, rVars>>
  \/ part = "router" /\ R!Next /\ UNCHANGED <<part, vars>>

MCSpec == MCInit /\ [][MCNext]_<<part, vars, rVars>>

Symmetry == Permutations(Clients) \cup Permutations(Routes)

----------------------------------------------------------------------------
\* Properties

\* Handlers get the messages of their channel in order, and until a shutdown every one of
\* them (Router::run).
HandlersInOrder == part = "router" => R!TypeOK /\ R!HandlersInOrder
==============================================================================
