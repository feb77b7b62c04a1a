--------------------------- MODULE MacReceiverSet ---------------------------
(***************************************************************************)
(* The receiver set of the macOS back-end (platform/macos/mod.rs): a port   *)
(* set, the names of its receivers, and select() with its two buffers.      *)
(*                                                                         *)
(* The id of a receiver is the name of its port, a small number that the    *)
(* kernel gives to another port when it is released.  A port's last message *)
(* is the kernel's no-senders notification.                                 *)
(***************************************************************************)
EXTENDS Naturals, Sequences, FiniteSets

CONSTANTS
  Ports,         \* channels
  Names,         \* names of the port name space: numbers from 1
  Sizes,         \* sizes of messages
  SmallSize,     \* SMALL_MESSAGE_SIZE
  MaxMessages    \* bound: messages sent on each channel

MacSetAssumption ==
  /\ Names \subseteq Nat \ {0} /\ Sizes \subseteq Nat
  /\ SmallSize \in Nat /\ MaxMessages \in Nat

VARIABLES
  \* The kernel:
  name,       \* of each port: its name in the process; 0 when there is none
  member,     \* ports in the port set
  queue,      \* of each port: messages <<number, size>>
  senders,    \* ports with a send right
  \* The process:
  created,    \* channels that were made
  sent,       \* of each channel: messages sent
  receivers,  \* names held by OsIpcReceivers
  ports,      \* the set's vector of names
  pc,         \* "idle", "small" and "large" (the calls of mach_msg), "dropped", "panicked"
  buffer,     \* size of the buffer
  ids,        \* of each port: the id that add() returned; 0 when it was not added
  events      \* results of select(): <<id, port, number>>, number 0 for ChannelClosed

vars == <<name, member, queue, senders, created, sent, receivers, ports, pc, buffer, ids, events>>

Notice == <<0, 0>>

Init ==
  /\ name = [p \in Ports |-> 0] /\ member = {} /\ queue = [p \in Ports |-> <<>>] /\ senders = {}
  /\ created = {} /\ sent = [p \in Ports |-> 0] /\ receivers = {} /\ ports = <<>>
  /\ pc = "idle" /\ buffer = 0 /\ ids = [p \in Ports |-> 0] /\ events = <<>>

Running == pc # "panicked"
PortsOf(ns) == {p \in Ports : name[p] \in ns}

\* mach_port_mod_release of receive rights, which are unwrapped: ports go with
\* their messages.  A name without a right panics.
Release(ns) ==
  /\ name' = [p \in Ports |-> IF name[p] \in ns THEN 0 ELSE name[p]]
  /\ queue' = [p \in Ports |-> IF name[p] \in ns THEN <<>> ELSE queue[p]]
  /\ member' = member \ PortsOf(ns)

Missing(ns) == \E nm \in ns : PortsOf({nm}) = {}

----------------------------------------------------------------------------
\* Channels

\* channel(), with any name that is free.
Channel(p, nm) ==
  /\ Running /\ p \notin created /\ PortsOf({nm}) = {}
  /\ created' = created \cup {p}
  /\ name' = [name EXCEPT ![p] = nm]
  /\ senders' = senders \cup {p}
  /\ receivers' = receivers \cup {nm}
  /\ UNCHANGED <<member, queue, sent, ports, pc, buffer, ids, events>>

\* send(), by any process.
Send(p, size) ==
  /\ p \in senders /\ sent[p] < MaxMessages
  /\ sent' = [sent EXCEPT ![p] = @ + 1]
  /\ queue' = [queue EXCEPT ![p] = IF name[p] = 0 THEN @ ELSE Append(@, <<sent[p] + 1, size>>)]
  /\ UNCHANGED <<name, member, senders, created, receivers, ports, pc, buffer, ids, events>>

\* The last send right goes.
DropSender(p) ==
  /\ p \in senders
  /\ senders' = senders \ {p}
  /\ queue' = [queue EXCEPT ![p] = IF name[p] = 0 THEN @ ELSE Append(@, Notice)]
  /\ UNCHANGED <<name, member, created, sent, receivers, ports, pc, buffer, ids, events>>

\* Drop for OsIpcReceiver
DropReceiver(nm) ==
  /\ Running /\ nm \in receivers
  /\ receivers' = receivers \ {nm}
  /\ Release({nm})
  /\ pc' = IF Missing({nm}) THEN "panicked" ELSE pc
  /\ UNCHANGED <<senders, created, sent, ports, buffer, ids, events>>

----------------------------------------------------------------------------
\* The set

\* add(): mach_port_move_member, consume_port, push.
Add(nm) ==
  /\ pc = "idle" /\ nm \in receivers /\ ~Missing({nm})
  /\ member' = member \cup PortsOf({nm})
  /\ receivers' = receivers \ {nm}
  /\ ports' = Append(ports, nm)
  /\ ids' = [p \in Ports |-> IF name[p] = nm THEN nm ELSE ids[p]]
  /\ UNCHANGED <<name, queue, senders, created, sent, pc, buffer, events>>

\* select(), with the buffer on the stack.
Select ==
  /\ pc = "idle"
  /\ pc' = "small" /\ buffer' = SmallSize
  /\ UNCHANGED <<name, member, queue, senders, created, sent, receivers, ports, ids, events>>

\* The kernel looks at a member with a message, any of them.
Offers(p) == pc \in {"small", "large"} /\ p \in member /\ queue[p] # <<>>

\* Mutant: without MACH_RCV_LARGE, a message that does not fit is destroyed.
TooLargeDestroys(p) ==
  /\ Offers(p) /\ Head(queue[p])[2] > buffer
  /\ pc' = "large" /\ buffer' = Head(queue[p])[2]
  /\ queue' = [queue EXCEPT ![p] = Tail(@)]
  /\ UNCHANGED <<name, member, senders, created, sent, receivers, ports, ids, events>>

\* MACH_RCV_TOO_LARGE: a buffer of the size of this message, for a receive that may
\* meet another one.
TooLarge(p) ==
  /\ Offers(p) /\ Head(queue[p])[2] > buffer
  /\ pc' = "large" /\ buffer' = Head(queue[p])[2]
  /\ UNCHANGED <<name, member, queue, senders, created, sent, receivers, ports, ids, events>>

\* DataReceived or ChannelClosed, under the local port of the message.
Receive(p) ==
  /\ Offers(p) /\ Head(queue[p])[2] <= buffer
  /\ events' = Append(events, <<name[p], p, Head(queue[p])[1]>>)
  /\ queue' = [queue EXCEPT ![p] = Tail(@)]
  /\ pc' = "idle" /\ buffer' = 0
  /\ UNCHANGED <<name, member, senders, created, sent, receivers, ports, ids>>

\* Any other result of mach_msg: select() returns the error, and nothing was received.
SelectFails ==
  /\ pc \in {"small", "large"}
  /\ pc' = "idle" /\ buffer' = 0
  /\ UNCHANGED <<name, member, queue, senders, created, sent, receivers, ports, ids, events>>

\* Drop for OsIpcReceiverSet
DropSet ==
  /\ pc = "idle"
  /\ Release({ports[i] : i \in DOMAIN ports})
  /\ pc' = IF Missing({ports[i] : i \in DOMAIN ports}) THEN "panicked" ELSE "dropped"
  /\ ports' = <<>>
  /\ UNCHANGED <<senders, created, sent, receivers, buffer, ids, events>>

----------------------------------------------------------------------------
SelectStep == \E p \in Ports : TooLarge(p) \/ Receive(p)

Next ==
  \/ \E p \in Ports : DropSender(p) \/ (\E nm \in Names : Channel(p, nm)) \/ (\E z \in Sizes : Send(p, z))
  \/ \E nm \in Names : DropReceiver(nm) \/ Add(nm)
  \/ Select \/ SelectStep \/ SelectFails \/ DropSet

Spec == Init /\ [][Next]_vars

\* The owner of the set keeps calling select(), and mach_msg neither fails for ever nor
\* overlooks a port for ever.
FairSpec ==
  /\ Spec /\ WF_vars(Select)
  /\ \A p \in Ports : SF_vars(TooLarge(p)) /\ SF_vars(Receive(p))

----------------------------------------------------------------------------
\* Properties

\* Every variable has its type.
TypeOK ==
  /\ name \in [Ports -> Names \cup {0}] /\ ids \in [Ports -> Names \cup {0}]
  /\ member \subseteq Ports /\ senders \subseteq created /\ created \subseteq Ports
  /\ queue \in [Ports -> Seq(Nat \X Nat)] /\ sent \in [Ports -> 0 .. MaxMessages]
  /\ receivers \subseteq Names /\ ports \in Seq(Names)
  /\ pc \in {"idle", "small", "large", "dropped", "panicked"} /\ buffer \in Nat
  /\ events \in Seq(Names \X Ports \X Nat)

\* Every name in use denotes one receive right with one owner, a receiver or the set:
\* nobody releases a right twice, or that of a stranger under a name used again
\* (consume_port in add, drop).
OwnedOnce ==
  /\ \A nm \in receivers : Cardinality(PortsOf({nm})) = 1
  /\ \A i \in DOMAIN ports :
       /\ Cardinality(PortsOf({ports[i]})) = 1
       /\ ports[i] \notin receivers
       /\ \A j \in DOMAIN ports : ports[i] = ports[j] => i = j
  /\ Running

\* What happens to a receiver is reported under the id that add() returned for it,
\* and that id means no other receiver (add, select).
ReportsUnderId ==
  \A i \in DOMAIN events :
    /\ events[i][1] = ids[events[i][2]]
    /\ \A p \in Ports \ {events[i][2]} : p \in member => name[p] # events[i][1]

\* The events of a channel are its messages in order, then ChannelClosed, once.
InOrder ==
  \A p \in Ports :
    LET own == SelectSeq(events, LAMBDA e : e[2] = p) IN
    \A i \in DOMAIN own :
      own[i][3] = IF i = sent[p] + 1 /\ p \notin senders THEN 0 ELSE i

\* The events of a channel so far, and those there must be: its messages, then its end.
Reported(p) == Len(SelectSeq(events, LAMBDA e : e[2] = p))

Owed(p) == sent[p] + (IF p \in senders THEN 0 ELSE 1)

\* Every message sent to a receiver in the set, and then its end, is reported, unless the
\* set goes away, though each call of mach_msg may meet another message than the last one;
\* sends are bounded (the loop in select).
AllReported ==
  []<>(pc \in {"dropped", "panicked"} \/ \A p \in member : Reported(p) = Owed(p))
=============================================================================
