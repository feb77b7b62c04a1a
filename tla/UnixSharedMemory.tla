-------------------------- MODULE UnixSharedMemory --------------------------
(***************************************************************************)
(* Shared memory of the Unix back-end (BackingStore and OsIpcSharedMemory  *)
(* in platform/unix/mod.rs).  A value is a descriptor and a mapping of one *)
(* memory object; a clone has a descriptor and a mapping of its own, a     *)
(* message carries a descriptor, and the receiver maps what arrives with   *)
(* the length that the object has.                                         *)
(*                                                                         *)
(* A process has few descriptor numbers and they are used again: threads   *)
(* of a process that create, clone and drop values interleave between the  *)
(* system calls, and a process may end at any time.                        *)
(***************************************************************************)
EXTENDS Naturals, Sequences, FiniteSets

CONSTANTS
  Processes,
  Receiver,    \* the process that holds the channel's receiver
  Handles,     \* names of OsIpcSharedMemory values, in all processes
  Fds,         \* bound: descriptor numbers of a process
  Addresses,   \* bound: where a process can map
  Stores,      \* bound: memory objects of the kernel
  Data,        \* contents of a region
  Lengths,     \* lengths of a region
  MaxQueue,    \* bound: messages in the channel
  BadFd,       \* the descriptor -1
  None

UnixSharedMemoryAssumption ==
  /\ Receiver \in Processes /\ Lengths \subseteq Nat /\ MaxQueue \in Nat
  /\ BadFd \notin Fds /\ None \notin Fds \cup Addresses \cup Stores \cup Handles \cup Data \cup {BadFd}

VARIABLES
  handle,    \* the values, and how far their construction and drop have got
  alive,     \* the processes that run
  fdTable,   \* of each process and descriptor: the object, or None
  vm,        \* of each process and address: the object, or None
  size,      \* of each object: its length (ftruncate)
  data,      \* of each object: its contents
  queue      \* the objects whose descriptors are in messages, oldest first, and what the value
             \* was made with

vars == <<handle, alive, fdTable, vm, size, data, queue>>

\* No value: what drop leaves behind, and a panic while one is made.
NoHandle ==
  [stage |-> "none", proc |-> Receiver, fd |-> None, ptr |-> None, length |-> 0, from |-> None,
   made |-> None]

Init ==
  /\ handle = [h \in Handles |-> NoHandle] /\ alive = Processes
  /\ fdTable = [p \in Processes |-> [f \in Fds |-> None]]
  /\ vm = [p \in Processes |-> [a \in Addresses |-> None]]
  /\ size = [s \in Stores |-> 0] /\ data = [s \in Stores |-> None] /\ queue = <<>>

----------------------------------------------------------------------------
\* The kernel keeps an object while a descriptor, a mapping or a message refers to it.
Live(s) ==
  \/ \E p \in Processes : (\E f \in Fds : fdTable[p][f] = s) \/ (\E a \in Addresses : vm[p][a] = s)
  \/ \E i \in DOMAIN queue : queue[i].store = s

FreeFds(p) == {f \in Fds : fdTable[p][f] = None}

Set(h, p, f, stage, length, from, made) ==
  handle' = [handle EXCEPT ![h] =
    [stage |-> stage, proc |-> p, fd |-> f, ptr |-> None, length |-> length, from |-> from,
     made |-> made]]

\* create_shmem: a new object, without a name from then on, of the given length.
CreateShmem(p, f, s, length) ==
  /\ ~Live(s)
  /\ fdTable' = [fdTable EXCEPT ![p][f] = s]
  /\ size' = [size EXCEPT ![s] = length] /\ data' = [data EXCEPT ![s] = None]

\* BackingStore::new: without a free descriptor it panics.
Open(h, p, length) ==
  /\ handle[h].stage = "none" /\ p \in alive
  /\ \E f \in FreeFds(p), s \in Stores :
       CreateShmem(p, f, s, length) /\ Set(h, p, f, "opened", length, None, None)
  /\ UNCHANGED <<alive, vm, queue>>

\* clone(): dup, whose result is not looked at; its failure is noticed by mmap, which
\* panics, unless there is nothing to map.
Clone(h, g) ==
  /\ handle[h].stage = "ready" /\ handle[g].stage = "none"
  /\ LET p == handle[h].proc
         dup == IF handle[h].fd = BadFd THEN {} ELSE FreeFds(p)
     IN  \/ /\ dup = {} /\ handle[h].length = 0
            /\ Set(g, p, BadFd, "duped", 0, h, handle[h].made)
            /\ UNCHANGED fdTable
         \/ \E f \in dup :
              /\ fdTable' = [fdTable EXCEPT ![p][f] = fdTable[p][handle[h].fd]]
              /\ Set(g, p, f, "duped", handle[h].length, h, handle[h].made)
  /\ UNCHANGED <<alive, vm, size, data, queue>>

\* A recvmsg that puts the descriptor of a message into the table; one thread receives.
Recv(h) ==
  /\ queue # <<>> /\ Receiver \in alive /\ handle[h].stage = "none"
  /\ \A g \in Handles : handle[g].stage # "received"
  /\ \E f \in FreeFds(Receiver) :
       /\ fdTable' = [fdTable EXCEPT ![Receiver][f] = Head(queue).store]
       /\ Set(h, Receiver, f, "received", 0, None, Head(queue).made)
  /\ queue' = Tail(queue)
  /\ UNCHANGED <<alive, vm, size, data>>

\* Without room in the table the kernel drops the descriptor of the message.
RecvNoRoom ==
  /\ queue # <<>> /\ Receiver \in alive /\ FreeFds(Receiver) = {}
  /\ \A g \in Handles : handle[g].stage # "received"
  /\ queue' = Tail(queue)
  /\ UNCHANGED <<handle, alive, fdTable, vm, size, data>>

\* map_file: the length it is given, or that of the object (fstat).
Length(h) ==
  IF handle[h].stage = "received"
    THEN size[fdTable[handle[h].proc][handle[h].fd]]
    ELSE handle[h].length

\* A new value remembers what it is made with.
Ready(h, ptr, bytes) ==
  handle' = [handle EXCEPT ![h].stage = "ready", ![h].ptr = ptr, ![h].length = Length(h), ![h].from = None,
                           ![h].made = IF handle[h].stage = "opened" THEN bytes ELSE @]

\* Nothing to map: the pointer is null.
MapNothing(h) ==
  /\ handle[h].stage \in {"opened", "duped", "received"} /\ Length(h) = 0
  /\ Ready(h, None, <<>>)
  /\ UNCHANGED <<alive, fdTable, vm, size, data, queue>>

\* Mutant: the bytes are written whenever a region is mapped.
FillAlways(h, s, d) == data' = [data EXCEPT ![s] = d]

\* from_byte, from_bytes: the bytes are written to a new object.
Fill(h, s, d) == data' = IF handle[h].stage = "opened" THEN [data EXCEPT ![s] = d] ELSE data

\* map_file: mmap
Map(h) ==
  /\ handle[h].stage \in {"opened", "duped", "received"} /\ Length(h) # 0
  /\ LET p == handle[h].proc
         s == fdTable[p][handle[h].fd]
     IN  \E a \in Addresses, d \in Data :
           /\ vm[p][a] = None
           /\ vm' = [vm EXCEPT ![p][a] = s]
           /\ Ready(h, a, <<d, Length(h)>>)
           /\ Fill(h, s, d)
  /\ UNCHANGED <<alive, fdTable, size, queue>>
----------------------------------------------------------------------------
\* clone() borrows its original, which nobody can drop or send meanwhile.
Borrowed(h) == \E g \in Handles : handle[g].from = h

\* OsIpcSender::send puts the descriptor into a message; the value is then dropped.
Send(h) ==
  /\ handle[h].stage = "ready" /\ ~Borrowed(h) /\ handle[h].fd # BadFd
  /\ Receiver \in alive /\ Len(queue) < MaxQueue
  /\ queue' = Append(queue, [store |-> fdTable[handle[h].proc][handle[h].fd], made |-> handle[h].made])
  /\ handle' = [handle EXCEPT ![h].stage = "sent"]
  /\ UNCHANGED <<alive, fdTable, vm, size, data>>

\* sendmsg fails: EBADF, or nobody can receive.
SendFails(h) ==
  /\ handle[h].stage = "ready" /\ ~Borrowed(h)
  /\ handle[h].fd = BadFd \/ Receiver \notin alive
  /\ handle' = [handle EXCEPT ![h].stage = "sent"]
  /\ UNCHANGED <<alive, fdTable, vm, size, data, queue>>

\* Drop for OsIpcSharedMemory: munmap ...
Unmap(h) ==
  /\ handle[h].stage \in {"ready", "sent"} /\ ~Borrowed(h)
  /\ vm' = IF handle[h].ptr = None THEN vm
            ELSE [vm EXCEPT ![handle[h].proc][handle[h].ptr] = None]
  /\ handle' = [handle EXCEPT ![h].stage = "unmapped", ![h].ptr = None]
  /\ UNCHANGED <<alive, fdTable, size, data, queue>>

\* ... and Drop for BackingStore: close, which must succeed.
Close(h) ==
  /\ handle[h].stage = "unmapped"
  /\ IF handle[h].fd = BadFd
       THEN handle' = [handle EXCEPT ![h].stage = "panicked"] /\ UNCHANGED fdTable
       ELSE /\ handle' = [handle EXCEPT ![h] = NoHandle]
            /\ fdTable' = [fdTable EXCEPT ![handle[h].proc][handle[h].fd] = None]
  /\ UNCHANGED <<alive, vm, size, data, queue>>

\* The end of a process, at any point.
Exit(p) ==
  /\ p \in alive /\ alive' = alive \ {p}
  /\ handle' = [h \in Handles |-> IF handle[h].proc = p THEN NoHandle ELSE handle[h]]
  /\ fdTable' = [fdTable EXCEPT ![p] = [f \in Fds |-> None]]
  /\ vm' = [vm EXCEPT ![p] = [a \in Addresses |-> None]]
  /\ queue' = IF p = Receiver THEN <<>> ELSE queue
  /\ UNCHANGED <<size, data>>

----------------------------------------------------------------------------
Next ==
  \/ \E h \in Handles, p \in Processes, l \in Lengths : Open(h, p, l)
  \/ \E h, g \in Handles : Clone(h, g)
  \/ \E h \in Handles :
       Recv(h) \/ MapNothing(h) \/ Map(h) \/ Send(h) \/ SendFails(h) \/ Unmap(h) \/ Close(h)
  \/ RecvNoRoom
  \/ \E p \in Processes : Exit(p)

Spec == Init /\ [][Next]_vars

----------------------------------------------------------------------------
\* Properties

Regions == {<<>>} \cup (Data \X Lengths)

HandleSet ==
  [stage : {"none", "opened", "duped", "received", "ready", "sent", "unmapped", "panicked"},
   proc : Processes, fd : Fds \cup {BadFd, None}, ptr : Addresses \cup {None},
   length : Lengths \cup {0}, from : Handles \cup {None}, made : Regions \cup {None}]

\* Every variable has its type.
TypeOK ==
  /\ handle \in [Handles -> HandleSet] /\ alive \subseteq Processes
  /\ fdTable \in [Processes -> [Fds -> Stores \cup {None}]]
  /\ vm \in [Processes -> [Addresses -> Stores \cup {None}]]
  /\ size \in [Stores -> Lengths \cup {0}] /\ data \in [Stores -> Data \cup {None}]
  /\ queue \in Seq([store : Stores, made : Regions])

\* Every descriptor and every mapping of a process belongs to exactly one value, made
\* or being made: none leaks, and none is closed under another value (clone and the
\* two drops).
OwnedOnce ==
  \A p \in Processes :
    /\ \A f \in Fds :
         Cardinality({h \in Handles : handle[h].proc = p /\ handle[h].fd = f})
           = (IF fdTable[p][f] = None THEN 0 ELSE 1)
    /\ \A a \in Addresses :
         Cardinality({h \in Handles : handle[h].proc = p /\ handle[h].ptr = a})
           = (IF vm[p][a] = None THEN 0 ELSE 1)

\* The descriptor and the mapping of a value are of the same object, and the length
\* is the object's: what a message will carry is what the value shows (map_file).
OneObject ==
  \A h \in Handles : (handle[h].stage = "ready" /\ handle[h].fd # BadFd) =>
    LET s == fdTable[handle[h].proc][handle[h].fd]
    IN  /\ s # None /\ handle[h].length = size[s]
        /\ IF size[s] = 0 THEN handle[h].ptr = None ELSE vm[handle[h].proc][handle[h].ptr] = s

\* A close in drop succeeds (the assertion at unix/mod.rs:730).
CloseSucceeds == \A h \in Handles : handle[h].stage # "panicked"

\* What a value dereferences to.
Shows(h) ==
  IF handle[h].ptr = None THEN <<>>
  ELSE <<data[vm[handle[h].proc][handle[h].ptr]], handle[h].length>>

\* A value shows what the first of its clones was made with.
Arrives == \A h \in Handles : handle[h].stage = "ready" => Shows(h) = handle[h].made
=============================================================================
