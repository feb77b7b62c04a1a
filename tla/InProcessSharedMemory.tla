------------------------ MODULE InProcessSharedMemory ------------------------
(***************************************************************************)
(* Shared memory of the in-process back-end (OsIpcSharedMemory in          *)
(* platform/inprocess/mod.rs).  A value is a pointer into a vector that is *)
(* kept by a counted reference, an Arc, in each value and each message.    *)
(* The pointer is not counted: it is good as long as the value's own Arc   *)
(* is.                                                                     *)
(***************************************************************************)
EXTENDS Naturals, Sequences, FiniteSetsExt

CONSTANTS
  Handles,    \* names of OsIpcSharedMemory values, in all threads
  Vectors,    \* bound: allocations; an address is used again
  Data,       \* contents of a region
  Lengths,    \* lengths of a region
  MaxQueue,   \* bound: messages in the channel
  None

InProcessSharedMemoryAssumption ==
  /\ Lengths \subseteq Nat /\ MaxQueue \in Nat
  /\ None \notin Handles \cup Vectors \cup Data

VARIABLES
  handle,     \* of each name: ptr, length, data (the Arc), how far it is, and what it was made with
  heap,       \* of each vector: its bytes, or None when it is not allocated
  strong,     \* of each vector: the count of its Arc
  queue,      \* the values in messages, oldest first
  receiver    \* the channel's receiver exists

vars == <<handle, heap, strong, queue, receiver>>

NoHandle == [stage |-> "none", ptr |-> None, length |-> 0, data |-> None, made |-> None]

Init ==
  /\ handle = [h \in Handles |-> NoHandle]
  /\ heap = [v \in Vectors |-> None] /\ strong = [v \in Vectors |-> 0]
  /\ queue = <<>> /\ receiver = TRUE

Region(d, length) == IF length = 0 THEN <<>> ELSE <<d, length>>

Value(v, length, made) == [stage |-> "ready", ptr |-> v, length |-> length, data |-> v, made |-> made]

\* from_byte, from_bytes
Create(h, d, length) ==
  /\ handle[h].stage = "none"
  /\ \E v \in Vectors :
       /\ heap[v] = None
       /\ heap' = [heap EXCEPT ![v] = <<d, length>>]
       /\ strong' = [strong EXCEPT ![v] = 1]
       /\ handle' = [handle EXCEPT ![h] = Value(v, length, Region(d, length))]
  /\ UNCHANGED <<queue, receiver>>

\* clone()
Clone(h, g) ==
  /\ handle[h].stage = "ready" /\ handle[g].stage = "none"
  /\ handle' = [handle EXCEPT ![g] = handle[h]]
  /\ strong' = [strong EXCEPT ![handle[h].data] = @ + 1]
  /\ UNCHANGED <<heap, queue, receiver>>

\* A send of the value: serialize() puts a clone into the message, and then the
\* value is dropped.
Send(h) ==
  /\ handle[h].stage = "ready" /\ receiver /\ Len(queue) < MaxQueue
  /\ queue' = Append(queue, handle[h])
  /\ strong' = [strong EXCEPT ![handle[h].data] = @ + 1]
  /\ handle' = [handle EXCEPT ![h].stage = "sent"]
  /\ UNCHANGED <<heap, receiver>>

\* Without a receiver the send fails, and the clone is dropped with the message.
SendFails(h) ==
  /\ handle[h].stage = "ready" /\ ~receiver
  /\ handle' = [handle EXCEPT ![h].stage = "sent"]
  /\ UNCHANGED <<heap, strong, queue, receiver>>

\* The value moves out of the message.
Receive(h) ==
  /\ receiver /\ queue # <<>> /\ handle[h].stage = "none"
  /\ handle' = [handle EXCEPT ![h] = Head(queue)]
  /\ queue' = Tail(queue)
  /\ UNCHANGED <<heap, strong, receiver>>

\* The drop of an Arc: the last one frees the vector.
Release(v) ==
  /\ strong' = [strong EXCEPT ![v] = @ - 1]
  /\ heap' = IF strong[v] = 1 THEN [heap EXCEPT ![v] = None] ELSE heap

Drop(h) ==
  /\ handle[h].stage \in {"ready", "sent"}
  /\ Release(handle[h].data)
  /\ handle' = [handle EXCEPT ![h] = NoHandle]
  /\ UNCHANGED <<queue, receiver>>

DropReceiver ==
  /\ receiver /\ receiver' = FALSE
  /\ UNCHANGED <<handle, heap, strong, queue>>

\* The channel drops the messages that nobody can receive any more.
Discard ==
  /\ ~receiver /\ queue # <<>>
  /\ Release(Head(queue).data)
  /\ queue' = Tail(queue)
  /\ UNCHANGED <<handle, receiver>>

Next ==
  \/ \E h \in Handles :
       \/ \E d \in Data, l \in Lengths : Create(h, d, l)
       \/ Send(h) \/ SendFails(h) \/ Receive(h) \/ Drop(h)
  \/ \E h, g \in Handles : Clone(h, g)
  \/ DropReceiver \/ Discard

Spec == Init /\ [][Next]_vars

----------------------------------------------------------------------------
\* Properties

\* An allocation lives exactly as long as some value or message has it, and the count
\* is the number of those: no value dereferences freed memory, and none leaks.
Counted ==
  \A v \in Vectors :
    /\ strong[v] = Cardinality({h \in Handles : handle[h].data = v})
                     + Cardinality({i \in DOMAIN queue : queue[i].data = v})
    /\ heap[v] # None <=> strong[v] > 0

\* What a value dereferences to.
Shows(h) ==
  IF handle[h].stage # "ready" THEN None
  ELSE IF handle[h].length = 0 THEN <<>> ELSE heap[handle[h].ptr]

\* A value shows what the first of its clones was made with.
Arrives == \A h \in Handles : handle[h].stage = "ready" => Shows(h) = handle[h].made
=============================================================================
