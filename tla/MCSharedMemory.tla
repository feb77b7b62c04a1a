--------------------------- MODULE MCSharedMemory ---------------------------
(***************************************************************************)
(* Shared memory of the four back-ends, for TLC.  Each is a program of its  *)
(* own: `part` is chosen at the beginning, and the other variables are the  *)
(* ones of that part, None where it has no such variable.                   *)
(***************************************************************************)
EXTENDS Naturals, TLC

CONSTANTS
  Processes,   \* processes or tasks
  Receiver,    \* the one that holds the channel's receiver
  Handles,     \* names of OsIpcSharedMemory values
  Numbers,     \* descriptors or handle numbers of a process
  Addresses,   \* where a process can map
  Objects,     \* memory objects, sections or vectors
  Data,        \* contents of a region
  BadFd, None

VARIABLES
  part, handle, alive, queue,
  table,       \* descriptors or handles of each process
  vm,          \* mappings of each process
  size, data,  \* of each object; in one process: the count of its Arc, and its bytes
  open,        \* the receiver exists
  lost         \* Windows: handles that nobody knows of

Unix == INSTANCE UnixSharedMemory WITH
  Fds <- Numbers, Stores <- Objects, Lengths <- {0, 1, 2}, MaxQueue <- 2, fdTable <- table

Windows == INSTANCE WindowsSharedMemory WITH
  Sections <- Objects, Lengths <- {1, 2}, MaxQueue <- 1, views <- vm, pipe <- queue

\* Lengths below 2^32, in the unit of Lengths.
Mac == INSTANCE MacSharedMemory WITH
  Tasks <- Processes, Lengths <- {0, 1, 3}, Limit32 <- 4, MaxQueue <- 2

InProcess == INSTANCE InProcessSharedMemory WITH
  Vectors <- Objects, Lengths <- {0, 1, 2}, MaxQueue <- 2,
  heap <- data, strong <- size, receiver <- open

ASSUME Instances ==
  /\ Unix!UnixSharedMemoryAssumption /\ Windows!WindowsSharedMemoryAssumption
  /\ Mac!MacSharedMemoryAssumption /\ InProcess!InProcessSharedMemoryAssumption

MCInit ==
  \/ part = "unix" /\ Unix!Init /\ open = None /\ lost = None
  \/ part = "windows" /\ Windows!Init
  \/ part = "macos" /\ Mac!Init
     /\ table = None /\ size = None /\ data = None /\ open = None /\ lost = None
  \/ part = "inprocess" /\ InProcess!Init
     /\ alive = None /\ table = None /\ vm = None /\ lost = None

MCNext ==
  \/ part = "unix" /\ Unix!Next /\ UNCHANGED <<part, open, lost>>
  \/ part = "windows" /\ Windows!Next /\ UNCHANGED part
  \/ part = "macos" /\ Mac!Next /\ UNCHANGED <<part, table, size, data, open, lost>>
  \/ part = "inprocess" /\ InProcess!Next /\ UNCHANGED <<part, alive, table, vm, lost>>

MCSpec == MCInit /\ [][MCNext]_<<part, handle, alive, queue, table, vm, size, data, open, lost>>

Symmetry ==
  Permutations(Handles) \cup Permutations(Numbers) \cup Permutations(Addresses)
    \cup Permutations(Objects) \cup Permutations(Data)

----------------------------------------------------------------------------
\* Properties

\* Every descriptor, handle, view, mapping and page belongs to exactly one value, made or
\* being made, or to one message: none leaks, and none is released under another value.  The
\* handle and the mapping of a value are of one object, and the length is the object's; in
\* one process the Arc counts the values and messages (map_file, from_handle, the forget in
\* send, clone and the drops of the four back-ends).
RegionsOwnedOnce ==
  /\ part = "unix" => Unix!TypeOK /\ Unix!OwnedOnce /\ Unix!OneObject
  /\ part = "windows" => Windows!TypeOK /\ Windows!OwnedOnce /\ Windows!OneObject
  /\ part = "macos" => Mac!TypeOK /\ Mac!OwnedOnce
  /\ part = "inprocess" => InProcess!Counted

\* On every back-end clones and received values show the bytes that the first one was created
\* with, until they are dropped, whichever of the others are dropped, sent on or remade
\* meanwhile and though its process may have ended (IpcSharedMemory).
RegionsArrive ==
  /\ part = "unix" => Unix!Arrives
  /\ part = "windows" => Windows!Arrives
  /\ part = "macos" => Mac!Arrives
  /\ part = "inprocess" => InProcess!Arrives
=============================================================================
