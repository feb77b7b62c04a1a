---------------------------- MODULE MCUnixHandles ----------------------------
(* Small instances of UnixHandles for TLC. *)
EXTENDS UnixHandles, TLC

CONSTANT MaxOpen   \* bound: open descriptors of all processes

MCNext ==
  /\ Next
  /\ Cardinality({k \in Processes \X Fds : table'[k[1]][k[2]] # NoEnd}) <= MaxOpen

MCSpec == Init /\ [][MCNext]_vars

\* Processes, socket pairs, values and descriptor numbers are interchangeable.
Symmetry == Permutations(Processes) \cup Permutations(Pipes) \cup Permutations(Values) \cup Permutations(Fds)
=============================================================================
