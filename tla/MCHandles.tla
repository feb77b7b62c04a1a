----------------------------- MODULE MCHandles -----------------------------
(***************************************************************************)
(* Senders and receivers that travel in messages on Windows and macOS, for  *)
(* TLC.  Each is a program of its own: `part` is chosen at the beginning,   *)
(* and the other variables are the ones of that part.  MCUnixHandles has    *)
(* the same for Unix.                                                       *)
(***************************************************************************)
EXTENDS Naturals, TLC

CONSTANTS
  Processes,   \* processes or tasks
  Pipes,       \* pipes or ports
  Values,      \* macOS: names of senders, receivers and opaque channels
  Names,       \* macOS: names of a task
  Numbers,     \* Windows: handle numbers of a process, Names among them
  MaxQueue, Null, Dead, None

VARIABLES part, alive, table, value, op, queue, lost

Windows == INSTANCE WindowsHandles WITH own <- value, pipe <- queue

Mac == INSTANCE MacHandles WITH Tasks <- Processes, Ports <- Pipes, MaxLost <- 1

ASSUME Instances == Windows!WindowsHandlesAssumption /\ Mac!MacHandlesAssumption

MCInit ==
  \/ part = "windows" /\ Windows!Init
  \/ part = "macos" /\ Mac!Init /\ op = None

MCNext ==
  \/ part = "windows" /\ Windows!Next /\ UNCHANGED part
  \/ part = "macos" /\ Mac!Next /\ UNCHANGED <<part, op>>

MCSpec == MCInit /\ [][MCNext]_<<part, alive, table, value, op, queue, lost>>

Symmetry ==
  Permutations(Processes) \cup Permutations(Pipes) \cup Permutations(Values) \cup Permutations(Names)

----------------------------------------------------------------------------
\* Properties

\* Every handle of a running process, and every right under a name of a task, belongs to
\* exactly one value or message: no drop closes what another one uses, nothing leaks but
\* opaque channels that nobody decodes, a channel has at most one receiver, and the kernel
\* finds a port without senders exactly when none is left (DUPLICATE_CLOSE_SOURCE in
\* move_handle_to_process, get_message and the drops on Windows; clone, consume, send and
\* the drops on macOS).
HandlesOwnedOnce ==
  /\ part = "windows" => Windows!TypeOK /\ Windows!OwnedOnce /\ Windows!OneReceiver
  /\ part = "macos" => Mac!TypeOK /\ Mac!RightsOwned /\ Mac!OneReceiver /\ Mac!EndExact

\* A number in a message that is accepted, and the name that a value has, stand for what was
\* sent or made, although numbers and names are closed and used again meanwhile; oob_data()
\* panics only for a message that was on its way when its receiver was moved
\* (move_handle_to_process and oob_data on Windows, Message and to_sender on macOS).
HandlesDesignate ==
  /\ part = "windows" => Windows!Designates /\ Windows!OnlyMovedRefused
  /\ part = "macos" => Mac!RightPort
=============================================================================
