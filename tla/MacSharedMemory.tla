-------------------------- MODULE MacSharedMemory ---------------------------
(***************************************************************************)
(* Shared memory of the macOS back-end (OsIpcSharedMemory in               *)
(* platform/macos/mod.rs).  A value is a stretch of pages of its task; a   *)
(* clone maps the same pages once more.  A send hands the pages to the     *)
(* kernel, which takes them out of the task (deallocate), and the value is *)
(* forgotten; the kernel maps them into the task that receives.            *)
(*                                                                         *)
(* Nobody writes to the pages after the value is made, so that pages the   *)
(* kernel shares and pages it copies are told apart by nothing here.       *)
(***************************************************************************)
EXTENDS Naturals, Sequences, FiniteSets

CONSTANTS
  Tasks,
  Receiver,    \* the task that holds the channel's receive right
  Handles,     \* names of OsIpcSharedMemory values, in all tasks
  Addresses,   \* bound: where a task can have pages
  Data,        \* contents of a region
  Lengths,     \* lengths of a region
  Limit32,     \* 2^32, in the unit of Lengths
  MaxQueue,    \* bound: messages of the port
  None

MacSharedMemoryAssumption ==
  /\ Receiver \in Tasks /\ Lengths \subseteq Nat /\ Limit32 \in Nat \ {0} /\ MaxQueue \in Nat
  /\ None \notin Addresses \cup Data \cup Nat

VARIABLES
  handle,    \* of each name: the task, the pointer, the length and what it was made with, or None
  alive,     \* the tasks that run
  vm,        \* of each task and address: the contents and the length of the pages, or None
  queue      \* the pages in messages, oldest first, and what their value was made with

vars == <<handle, alive, vm, queue>>

Region(d, l) == IF l = 0 THEN <<>> ELSE <<d, l>>

Init ==
  /\ handle = [h \in Handles |-> None] /\ alive = Tasks
  /\ vm = [t \in Tasks |-> [a \in Addresses |-> None]] /\ queue = <<>>

----------------------------------------------------------------------------
\* Pages appear in a task: an empty stretch is at the null address.
Place(h, t, d, l, made) ==
  IF l = 0
    THEN /\ handle' = [handle EXCEPT ![h] = [task |-> t, ptr |-> None, length |-> l, made |-> made]]
         /\ UNCHANGED vm
    ELSE \E a \in Addresses :
           /\ vm[t][a] = None
           /\ vm' = [vm EXCEPT ![t][a] = [data |-> d, length |-> l]]
           /\ handle' = [handle EXCEPT ![h] = [task |-> t, ptr |-> a, length |-> l, made |-> made]]

\* from_byte, from_bytes: allocate_vm_pages, then the bytes are written.
Create(h, t, d, l) ==
  /\ handle[h] = None /\ t \in alive
  /\ Place(h, t, d, l, Region(d, l))
  /\ UNCHANGED <<alive, queue>>

Pages(h) == vm[handle[h].task][handle[h].ptr]

\* clone(): vm_remap
Clone(h, g) ==
  /\ handle[h] # None /\ handle[g] = None
  /\ Place(g, handle[h].task, IF handle[h].ptr = None THEN None ELSE Pages(h).data,
           handle[h].length, handle[h].made)
  /\ UNCHANGED <<alive, queue>>

\* The kernel takes the first n of the pages that a pointer points to.
Taken(h, n) ==
  IF handle[h].ptr = None THEN vm
  ELSE LET left == Pages(h).length - n
       IN  [vm EXCEPT ![handle[h].task][handle[h].ptr] =
              IF left = 0 THEN None ELSE [data |-> Pages(h).data, length |-> left]]

\* Mutant: the pages are not taken from the sender, and the value is forgotten.
SendKeepsPages(h) ==
  /\ handle[h] # None /\ Receiver \in alive /\ Len(queue) < MaxQueue
  /\ queue' = Append(queue, [data |-> IF handle[h].ptr = None THEN None ELSE Pages(h).data,
                             length |-> handle[h].length, made |-> handle[h].made])
  /\ handle' = [handle EXCEPT ![h] = None]
  /\ UNCHANGED <<alive, vm>>

\* OsIpcSender::send: a descriptor has 32 bits for the size.  The value is forgotten.
Send(h) ==
  /\ handle[h] # None /\ Receiver \in alive /\ Len(queue) < MaxQueue
  /\ LET sent == handle[h].length % Limit32
     IN  /\ queue' = Append(queue, [data |-> IF handle[h].ptr = None THEN None ELSE Pages(h).data,
                                    length |-> sent, made |-> handle[h].made])
         /\ vm' = Taken(h, sent)
  /\ handle' = [handle EXCEPT ![h] = None]
  /\ UNCHANGED alive

\* select(): the kernel has mapped the pages of the message.
Receive(h) ==
  /\ queue # <<>> /\ Receiver \in alive /\ handle[h] = None
  /\ Place(h, Receiver, Head(queue).data, Head(queue).length, Head(queue).made)
  /\ queue' = Tail(queue)
  /\ UNCHANGED alive

\* drop: vm_deallocate; also of a value whose send fails, MACH_SEND_INVALID_DEST.
Drop(h) ==
  /\ handle[h] # None
  /\ vm' = Taken(h, handle[h].length)
  /\ handle' = [handle EXCEPT ![h] = None]
  /\ UNCHANGED <<alive, queue>>

\* The end of a task, at any point.
Exit(t) ==
  /\ t \in alive /\ alive' = alive \ {t}
  /\ handle' = [h \in Handles |->
       IF handle[h] # None /\ handle[h].task = t THEN None ELSE handle[h]]
  /\ vm' = [vm EXCEPT ![t] = [a \in Addresses |-> None]]
  /\ queue' = IF t = Receiver THEN <<>> ELSE queue

----------------------------------------------------------------------------
Next ==
  \/ \E h \in Handles, t \in Tasks, d \in Data, l \in Lengths : Create(h, t, d, l)
  \/ \E h, g \in Handles : Clone(h, g)
  \/ \E h \in Handles : Send(h) \/ Receive(h) \/ Drop(h)
  \/ \E t \in Tasks : Exit(t)

Spec == Init /\ [][Next]_vars

----------------------------------------------------------------------------
\* Properties

\* What a value dereferences to.
Shows(h) ==
  IF handle[h] = None THEN None
  ELSE IF handle[h].ptr = None THEN Region(None, handle[h].length)
  ELSE Region(Pages(h).data, handle[h].length)

RegionSet == {<<>>} \cup (Data \X (Lengths \ {0}))

\* Every variable has its type.
TypeOK ==
  /\ alive \subseteq Tasks
  /\ handle \in [Handles -> {None} \cup
       [task : Tasks, ptr : Addresses \cup {None}, length : Nat, made : RegionSet]]
  /\ vm \in [Tasks -> [Addresses -> {None} \cup [data : Data, length : Nat]]]
  /\ queue \in Seq([data : Data \cup {None}, length : 0 .. Limit32 - 1, made : RegionSet])

\* The pages of a task belong to exactly one value, and to the whole of it: a send leaves
\* none behind, and none is released under another value (the forget in send, drop).
OwnedOnce ==
  \A t \in Tasks, a \in Addresses :
    LET owners == {h \in Handles : handle[h] # None /\ handle[h].task = t /\ handle[h].ptr = a}
    IN  /\ Cardinality(owners) = (IF vm[t][a] = None THEN 0 ELSE 1)
        /\ \A h \in owners : vm[t][a].length = handle[h].length

\* A value shows what the first of its clones was made with, in the task that received
\* it too (ipc.rs:514).
Arrives == \A h \in Handles : handle[h] # None => Shows(h) = handle[h].made
=============================================================================
