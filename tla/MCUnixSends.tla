----------------------------- MODULE MCUnixSends -----------------------------
(***************************************************************************)
(* The Unix channel, for TLC: each sender sends one message of any size, or  *)
(* two short ones, which ENOBUFS may split.                                 *)
(***************************************************************************)
EXTENDS MCUnixChannel

VARIABLE part   \* "sizes" or "sequences"

MCInit == part \in {"sizes", "sequences"} /\ Init

MCNext ==
  /\ Next /\ UNCHANGED part
  /\ part = "sizes" => \A s \in Senders : msg'[s].id[2] <= 1
  /\ part = "sequences" => \A s \in Senders : msg'[s].len <= 2200

MCSpec == MCInit /\ [][MCNext]_<<part, vars>>
=============================================================================
