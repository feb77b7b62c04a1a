--------------------------- MODULE Serialization ---------------------------
(***************************************************************************)
(* How channel ends and shared memory travel inside serialized values      *)
(* (ipc.rs).  Serializing an IpcSender, an IpcReceiver or an                *)
(* IpcSharedMemory pushes it on a list of the thread and writes its index;  *)
(* IpcSender::send puts fresh lists in place, runs the value's Serialize,   *)
(* takes the lists out and gives them to the OS channel with the bytes.     *)
(* OpaqueIpcMessage::to does the reverse.  A value's own Serialize or       *)
(* Deserialize may call send() or recv() again, so calls nest.              *)
(*                                                                         *)
(* The lists are thread-local: one thread is modelled, which sends and      *)
(* receives.  Its messages may be received in any order, as they go over    *)
(* several channels.  A message is decoded to the type it was sent as.      *)
(***************************************************************************)
EXTENDS Integers, Sequences, SequencesExt

CONSTANTS
  Txs,          \* senders
  Rxs,          \* receivers
  Regions,      \* regions of shared memory
  MaxDepth,     \* bound: nested calls
  MaxItems,     \* bound: ends and regions in one value
  MaxMessages,  \* bound: messages on their way
  IgnoresErrors,  \* a Serialize or Deserialize goes on when a nested call fails
  None

Disjoint == Txs \cap Rxs = {} /\ Regions \cap (Txs \cup Rxs) = {} /\ None \notin Txs \cup Rxs \cup Regions

VARIABLES
  serChannels,   \* OS_IPC_CHANNELS_FOR_SERIALIZATION
  serRegions,    \* OS_IPC_SHARED_MEMORY_REGIONS_FOR_SERIALIZATION
  deChannels,    \* OS_IPC_CHANNELS_FOR_DESERIALIZATION; None where taken
  deRegions,     \* OS_IPC_SHARED_MEMORY_REGIONS_FOR_DESERIALIZATION
  stack,         \* the calls of send() and to() that are running
  wire,          \* the messages that were sent and not yet received
  mine,          \* receivers the program holds
  unwinding      \* an error is on its way to the outermost call

serVars == <<serChannels, serRegions>>
deVars == <<deChannels, deRegions>>
vars == <<serVars, deVars, stack, wire, mine, unwinding>>

Channels == Txs \cup Rxs

\* What is written for an end or a region: its index in one of the two lists.
Ref == [list : {"channels", "regions"}, index : Nat]

\* The call that is running.  oldChannels and oldRegions are what the lists held
\* when it began; `bytes` is what is written so far (send) or left to read (to);
\* `value` lists what the value holds, as far as it is serialized (send) or as it
\* was sent (to); `got` is what to() has read.
Frame == [op : {"send", "to"},
          oldChannels : Seq(Channels \cup {None}), oldRegions : Seq(Regions \cup {None}),
          bytes : Seq(Ref), value : Seq(Channels \cup Regions), got : Seq(Channels \cup Regions)]

Message == [bytes : Seq(Ref), channels : Seq(Channels), regions : Seq(Regions),
            value : Seq(Channels \cup Regions)]

Init ==
  /\ serChannels = <<>> /\ serRegions = <<>>
  /\ deChannels = <<>> /\ deRegions = <<>>
  /\ stack = <<>>
  /\ wire = <<>>
  /\ mine = Rxs
  /\ unwinding = FALSE

Top == stack[Len(stack)]
Caller == SubSeq(stack, 1, Len(stack) - 1)
Running(op) == stack # <<>> /\ Top.op = op /\ ~unwinding

\* The error of the call that ends: its caller fails too, or ignores it.
Unwind == unwinding' = (~IgnoresErrors /\ Len(stack) > 1)

----------------------------------------------------------------------------
\* IpcSender::send

\* Mutant: the nested call goes on with the lists of its caller.
SendBeginShared ==
  /\ ~unwinding /\ Len(stack) < MaxDepth
  /\ stack' = Append(stack, [op |-> "send", oldChannels |-> serChannels, oldRegions |-> serRegions,
                             bytes |-> <<>>, value |-> <<>>, got |-> <<>>])
  /\ UNCHANGED <<serVars, deVars, wire, mine, unwinding>>

SendBegin ==
  /\ ~unwinding /\ Len(stack) < MaxDepth
  /\ stack' = Append(stack, [op |-> "send", oldChannels |-> serChannels, oldRegions |-> serRegions,
                             bytes |-> <<>>, value |-> <<>>, got |-> <<>>])
  /\ serChannels' = <<>> /\ serRegions' = <<>>
  /\ UNCHANGED <<deVars, wire, mine, unwinding>>

\* The running Serialize writes the index that x got in its list.
Write(list, index, x) ==
  stack' = [stack EXCEPT ![Len(stack)].bytes = Append(@, [list |-> list, index |-> index]),
                         ![Len(stack)].value = Append(@, x)]

\* A sender is cloned, a receiver is taken out of the value.
SerializeChannel(x) ==
  /\ Running("send") /\ Len(Top.value) < MaxItems
  /\ x \in Rxs => x \in mine
  /\ serChannels' = Append(serChannels, x)
  /\ mine' = mine \ {x}
  /\ Write("channels", Len(serChannels), x)
  /\ UNCHANGED <<serRegions, deVars, wire, unwinding>>

SerializeRegion(x) ==
  /\ Running("send") /\ Len(Top.value) < MaxItems
  /\ serRegions' = Append(serRegions, x)
  /\ Write("regions", Len(serRegions), x)
  /\ UNCHANGED <<serChannels, deVars, wire, mine, unwinding>>

RestoreSer == serChannels' = Top.oldChannels /\ serRegions' = Top.oldRegions

\* The value is serialized: the lists of the caller come back, and the OS channel
\* gets the ones of this call.
SendEnd ==
  /\ Running("send") /\ Len(wire) < MaxMessages
  /\ wire' = Append(wire, [bytes |-> Top.bytes, channels |-> serChannels,
                           regions |-> serRegions, value |-> Top.value])
  /\ RestoreSer
  /\ stack' = Caller
  /\ UNCHANGED <<deVars, mine, unwinding>>

\* os_sender.send() fails: what it was given is dropped.
SendBroken ==
  /\ Running("send")
  /\ RestoreSer
  /\ stack' = Caller
  /\ Unwind
  /\ UNCHANGED <<deVars, wire, mine>>

\* The value's Serialize fails: the lists stay as they are and those of the caller
\* are dropped.
SerializeFails ==
  /\ stack # <<>> /\ Top.op = "send"
  /\ stack' = Caller
  /\ Unwind
  /\ UNCHANGED <<serVars, deVars, wire, mine>>

----------------------------------------------------------------------------
\* OpaqueIpcMessage::to, on a message just received

ToBegin(i) ==
  /\ ~unwinding /\ Len(stack) < MaxDepth
  /\ wire' = RemoveAt(wire, i)
  /\ stack' = Append(stack, [op |-> "to", oldChannels |-> deChannels, oldRegions |-> deRegions,
                             bytes |-> wire[i].bytes, value |-> wire[i].value, got |-> <<>>])
  /\ deChannels' = wire[i].channels /\ deRegions' = wire[i].regions
  /\ UNCHANGED <<serVars, mine, unwinding>>

\* The list that a reference points into, and what it points to.
ListOf(ref) == IF ref.list = "channels" THEN deChannels ELSE deRegions

\* Indexing past the end, and taking out what is gone.
Panics ==
  /\ Running("to") /\ Top.bytes # <<>>
  /\ LET ref == Head(Top.bytes)
     IN  ref.index + 1 \notin DOMAIN ListOf(ref) \/ ListOf(ref)[ref.index + 1] = None

Deserialize ==
  /\ Running("to") /\ Top.bytes # <<>> /\ ~Panics
  /\ LET ref == Head(Top.bytes)
         at == ref.index + 1
     IN  /\ stack' = [stack EXCEPT ![Len(stack)].bytes = Tail(@),
                                   ![Len(stack)].got = Append(@, ListOf(ref)[at])]
         /\ IF ref.list = "channels"
            THEN deChannels' = [deChannels EXCEPT ![at] = None] /\ UNCHANGED deRegions
            ELSE deRegions' = [deRegions EXCEPT ![at] = None] /\ UNCHANGED deChannels
  /\ UNCHANGED <<serVars, wire, mine, unwinding>>

RestoreDe == deChannels' = Top.oldChannels /\ deRegions' = Top.oldRegions

\* The value is complete; its receivers are the program's.
ToEnd ==
  /\ Running("to") /\ Top.bytes = <<>>
  /\ mine' = mine \cup (Rxs \cap ToSet(Top.got))
  /\ RestoreDe
  /\ stack' = Caller
  /\ UNCHANGED <<serVars, wire, unwinding>>

\* Deserialize fails: the cleanup is the same, what was read is dropped.
ToFails ==
  /\ stack # <<>> /\ Top.op = "to"
  /\ RestoreDe
  /\ stack' = Caller
  /\ Unwind
  /\ UNCHANGED <<serVars, wire, mine>>

----------------------------------------------------------------------------
Next ==
  \/ SendBegin \/ SendEnd \/ SendBroken \/ SerializeFails
  \/ \E x \in Channels : SerializeChannel(x)
  \/ \E x \in Regions : SerializeRegion(x)
  \/ \E i \in DOMAIN wire : ToBegin(i)
  \/ Deserialize \/ ToEnd \/ ToFails

Spec == Init /\ [][Next]_vars

----------------------------------------------------------------------------
\* Properties

\* Every variable has its type.
TypeOK ==
  /\ serChannels \in Seq(Channels) /\ serRegions \in Seq(Regions)
  /\ deChannels \in Seq(Channels \cup {None}) /\ deRegions \in Seq(Regions \cup {None})
  /\ stack \in Seq(Frame) /\ wire \in Seq(Message)
  /\ mine \subseteq Rxs /\ unwinding \in BOOLEAN

Refers(bytes, channels, regions, value) ==
  /\ Len(bytes) = Len(value) /\ Len(channels) + Len(regions) = Len(value)
  /\ \A k \in DOMAIN bytes :
       LET list == IF bytes[k].list = "channels" THEN channels ELSE regions
           at == bytes[k].index + 1
       IN  at \in DOMAIN list /\ list[at] = value[k]

\* In every message, whatever calls were nested in the one that sent it, the
\* written indices lead to the ends and regions that the value held, in its order,
\* and nothing else goes along (send, serialize_os_ipc_sender,
\* serialize_os_ipc_receiver).
HandlesArrive ==
  \A i \in DOMAIN wire :
    Refers(wire[i].bytes, wire[i].channels, wire[i].regions, wire[i].value)

\* to() reads the ends and regions of the message it was called on, in the order
\* in which the value holds them, whatever is received meanwhile.
DecodedAsSent ==
  \A f \in DOMAIN stack : stack[f].op = "to" => IsPrefix(stack[f].got, stack[f].value)

\* No index is out of bounds and nothing is taken twice: the panics of
\* deserialize_os_ipc_sender, deserialize_os_ipc_receiver and IpcSharedMemory's
\* deserialize do not happen for a message that send() has built.
NoPanic == ~Panics

\* Where a receiver is: with the program, in a list, in the saved list of a call,
\* in a message, or in a value that is not yet complete.
Places(r) ==
  LET In(name, list) == {<<name, 0, i>> : i \in {j \in DOMAIN list : list[j] = r}}
  IN  {<<"mine", 0, 0>> : x \in mine \cap {r}}
        \cup In("serialization", serChannels) \cup In("deserialization", deChannels)
        \cup UNION {{<<"wire", m, i>> : i \in {j \in DOMAIN wire[m].channels : wire[m].channels[j] = r}}
                    : m \in DOMAIN wire}
        \cup UNION {{<<"old", f, i>> : i \in {j \in DOMAIN stack[f].oldChannels : stack[f].oldChannels[j] = r}}
                    : f \in DOMAIN stack}
        \cup UNION {{<<"got", f, i>> : i \in {j \in DOMAIN stack[f].got : stack[f].got[j] = r}}
                    : f \in DOMAIN stack}

\* A receiver is in at most one place: no two receivers compete for the messages
\* of a channel, whatever fails (consume, to_receiver).
OneReceiver == \A r \in Rxs : \A p, q \in Places(r) : p = q

\* When no to() is running, the lists for deserialization are empty: to() puts them
\* back in the success and in the error case (ipc.rs:667).
DeserializationCleanedUp ==
  (\A f \in DOMAIN stack : stack[f].op = "send") => deChannels = <<>> /\ deRegions = <<>>

\* The same of the lists for serialization, as the comment on ipc.rs:667 would have
\* it: "we need the cleanup both in the success and the error cases".  send()
\* returns the error of serialize_into before its cleanup (ipc.rs:370), so what the
\* failed value has pushed stays in the lists of the thread, and is open, for ever.
SerializationCleanedUp ==
  (\A f \in DOMAIN stack : stack[f].op = "to") => serChannels = <<>> /\ serRegions = <<>>
=============================================================================
