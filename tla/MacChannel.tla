----------------------------- MODULE MacChannel -----------------------------
(***************************************************************************)
(* One channel of the macOS back-end (platform/macos/mod.rs): a Mach port   *)
(* whose receive right the OsIpcReceiver has, with the sender handles of    *)
(* one process (clones, one per thread), all under one name of its port     *)
(* name space.                                                              *)
(*                                                                         *)
(* What is modelled: how send() learns, together with the other threads,    *)
(* which messages the kernel takes inline; the payload that travels as a    *)
(* region of shared memory; send rights that are cloned, dropped and moved  *)
(* over the channel; the receive in two calls when the buffer is too small; *)
(* and the end of the channel, which is a message of the kernel, sent once. *)
(*                                                                         *)
(* Message n of sender s is <<s, n>>.  Its data is a length; its regions    *)
(* are numbered from 1, and region 0 is the data when it is out of line.    *)
(***************************************************************************)
EXTENDS Naturals, Sequences, FiniteSets

CONSTANTS
  Senders,       \* sender handles
  First,         \* the one that channel() returns
  None,          \* not a handle
  MaxSends,      \* bound: calls of send() on each handle
  Lens,          \* lengths of data
  RegionCounts,  \* numbers of regions of a message
  Unlimited,     \* usize::MAX
  MessageSize, OolSize, WordSize,   \* sizes of Message, a descriptor, usize
  KernelLimit,   \* the kernel refuses larger messages
  SmallSize,     \* SMALL_MESSAGE_SIZE
  QLimit,        \* MACH_PORT_QLIMIT_MAX
  Modes          \* calls made: "Blocking" recv(), "Timeout" try_recv*()

MacAssumption ==
  /\ First \in Senders /\ None \notin Senders
  /\ MaxSends \in Nat /\ QLimit \in Nat \ {0} /\ Unlimited \in Nat
  /\ Lens \subseteq 0 .. Unlimited - 1 /\ RegionCounts \subseteq Nat
  /\ {MessageSize, OolSize, WordSize, KernelLimit, SmallSize} \subseteq Nat
  /\ Modes \subseteq {"Blocking", "Timeout"}

VARIABLES
  \* The process:
  max_inline,  \* MAX_INLINE_SIZE
  port,        \* of each handle: "name", "null" (MACH_PORT_NULL), "none" (no handle), "moved"
  pc,          \* of each handle: where its send() is
  cur,         \* of each handle: the message that is sent
  n,           \* of each handle: calls of send()
  acked,       \* messages whose send() returned Ok
  \* The kernel:
  urefs,       \* send rights under the port's name
  queue,       \* the port's messages
  armed,       \* whether the no-senders notification is requested
  \* The receiver:
  rx,          \* "idle", "small" and "large" (the calls of select), "dropped"
  mode,        \* blocking_mode
  received,    \* the messages returned
  closed       \* ChannelClosed was returned

senderVars == <<max_inline, port, pc, cur, n, acked>>
kernelVars == <<urefs, queue, armed>>
receiverVars == <<rx, mode, received, closed>>
vars == <<senderVars, kernelVars, receiverVars>>

NoMessage == [len |-> 0, regions |-> 0, inline |-> TRUE, cargo |-> None, right |-> FALSE, tries |-> 0]

\* channel(): receive right, one send right, and the request for a notification.
Init ==
  /\ max_inline = Unlimited
  /\ port = [s \in Senders |-> IF s = First THEN "name" ELSE "none"]
  /\ pc = [s \in Senders |-> "idle"] /\ cur = [s \in Senders |-> NoMessage]
  /\ n = [s \in Senders |-> 0] /\ acked = {}
  /\ urefs = 1 /\ queue = <<>> /\ armed = TRUE
  /\ rx = "idle" /\ mode = "Blocking" /\ received = <<>> /\ closed = FALSE

----------------------------------------------------------------------------
\* The port

Alive == rx # "dropped"

\* Message::size_of, rounded up to 4 bytes.
SizeOf(inline, len, regions) ==
  LET size == MessageSize + OolSize * regions + 1 + (IF inline THEN WordSize + len ELSE 0)
  IN  ((size + 3) \div 4) * 4

\* The no-senders notification is a message like others, without descriptors.
NoSenders == [id |-> <<>>, size |-> MessageSize, inline |-> TRUE, regions |-> <<>>,
              cargo |-> None, right |-> FALSE]

Carried(q) == {i \in DOMAIN q : q[i].right}

\* When the last send right is gone, in the process or in a message, the kernel
\* sends the notification and forgets the request.
Settle(q, u) ==
  /\ urefs' = u
  /\ IF armed /\ Alive /\ u = 0 /\ Carried(q) = {}
     THEN queue' = Append(q, NoSenders) /\ armed' = FALSE
     ELSE queue' = q /\ UNCHANGED armed

----------------------------------------------------------------------------
\* Sender handles

Idle(s) == pc[s] = "idle" /\ port[s] \in {"name", "null"}

\* Clone: without a receiver the name has no send right, and the clone is null.
Clone(s, t) ==
  /\ Idle(s) /\ port[t] = "none"
  /\ port' = [port EXCEPT ![t] = IF Alive THEN port[s] ELSE "null"]
  /\ urefs' = IF port'[t] = "name" THEN urefs + 1 ELSE urefs
  /\ UNCHANGED <<max_inline, pc, cur, n, acked, queue, armed, receiverVars>>

\* Drop: mach_port_deallocate, unless null.
DropSender(s) ==
  /\ Idle(s)
  /\ port' = [port EXCEPT ![s] = "none"]
  /\ Settle(queue, IF port[s] = "name" THEN urefs - 1 ELSE urefs)
  /\ UNCHANGED <<max_inline, pc, cur, n, acked, receiverVars>>

----------------------------------------------------------------------------
\* OsIpcSender::send

\* The call, with a handle among the ports (the handle t) or without (t = None).
Send(s, len, regions, t) ==
  /\ Idle(s) /\ n[s] < MaxSends
  /\ t # None => t # s /\ Idle(t)
  /\ n' = [n EXCEPT ![s] = @ + 1]
  /\ pc' = [pc EXCEPT ![s] = "convert"]
  /\ cur' = [cur EXCEPT ![s] = [len |-> len, regions |-> regions, inline |-> TRUE, cargo |-> t,
                                right |-> t # None /\ port[t] = "name", tries |-> 0]]
  /\ port' = [u \in Senders |-> IF u = t THEN "moved" ELSE port[u]]
  /\ UNCHANGED <<max_inline, acked, kernelVars, receiverVars>>

\* Mutant: the data may be as long as one that was refused.
ConvertOffByOne(s) ==
  /\ pc[s] = "convert"
  /\ cur' = [cur EXCEPT ![s].inline = cur[s].len <= max_inline]
  /\ pc' = [pc EXCEPT ![s] = "attempt"]
  /\ UNCHANGED <<max_inline, port, n, acked, kernelVars, receiverVars>>

\* SendData::from: long data goes to a region.
Convert(s) ==
  /\ pc[s] = "convert"
  /\ cur' = [cur EXCEPT ![s].inline = cur[s].len < max_inline]
  /\ pc' = [pc EXCEPT ![s] = "attempt"]
  /\ UNCHANGED <<max_inline, port, n, acked, kernelVars, receiverVars>>

\* The regions to send: the message's own and, after them, the data.
Regions(s) ==
  [i \in 1 .. cur[s].regions |-> i] \o (IF cur[s].inline THEN <<>> ELSE <<0>>)

Size(s) == SizeOf(cur[s].inline, cur[s].len, Len(Regions(s)))

\* mach_msg succeeds: the rights go into the message, and the handles are forgotten.
\* It waits while the queue is full.
SendOk(s) ==
  /\ pc[s] = "attempt" /\ Size(s) <= KernelLimit
  /\ Alive /\ port[s] = "name" /\ Len(queue) < QLimit
  /\ urefs' = IF cur[s].right THEN urefs - 1 ELSE urefs
  /\ queue' = Append(queue, [id |-> <<s, n[s]>>, size |-> Size(s), inline |-> cur[s].inline,
                             regions |-> Regions(s), cargo |-> cur[s].cargo, right |-> cur[s].right])
  /\ acked' = acked \cup {<<s, n[s]>>}
  /\ pc' = [pc EXCEPT ![s] = "idle"] /\ cur' = [cur EXCEPT ![s] = NoMessage]
  /\ UNCHANGED <<max_inline, port, n, armed, receiverVars>>

\* It fails, and the handle among the ports is dropped.
SendFails(s) ==
  /\ pc[s] = "attempt"
  /\ IF Size(s) > KernelLimit THEN ~cur[s].inline ELSE ~Alive \/ port[s] = "null"
  /\ port' = [u \in Senders |-> IF u = cur[s].cargo THEN "none" ELSE port[u]]
  /\ Settle(queue, IF cur[s].right THEN urefs - 1 ELSE urefs)
  /\ pc' = [pc EXCEPT ![s] = "idle"] /\ cur' = [cur EXCEPT ![s] = NoMessage]
  /\ UNCHANGED <<max_inline, n, acked, receiverVars>>

\* MACH_SEND_TOO_LARGE
SendTooLarge(s) ==
  /\ pc[s] = "attempt" /\ Size(s) > KernelLimit /\ cur[s].inline
  /\ pc' = [pc EXCEPT ![s] = "learn"]
  /\ cur' = [cur EXCEPT ![s].tries = IF @ < 2 THEN @ + 1 ELSE 2]
  /\ UNCHANGED <<max_inline, port, n, acked, kernelVars, receiverVars>>

\* Under the write lock, and then send() again.
Learn(s) ==
  /\ pc[s] = "learn"
  /\ max_inline' = IF cur[s].len < max_inline THEN cur[s].len ELSE max_inline
  /\ pc' = [pc EXCEPT ![s] = "convert"]
  /\ UNCHANGED <<port, cur, n, acked, kernelVars, receiverVars>>

----------------------------------------------------------------------------
\* OsIpcReceiver and select

Recv(m) ==
  /\ rx = "idle" /\ m \in Modes
  /\ rx' = "small" /\ mode' = m
  /\ UNCHANGED <<senderVars, kernelVars, received, closed>>

\* MACH_RCV_TIMED_OUT
RecvTimedOut ==
  /\ rx = "small" /\ mode = "Timeout" /\ queue = <<>>
  /\ rx' = "idle"
  /\ UNCHANGED <<senderVars, kernelVars, mode, received, closed>>

\* Mutant: without MACH_RCV_LARGE the kernel discards the message.
RecvTooLargeDiscards ==
  /\ rx = "small" /\ queue # <<>> /\ Head(queue).size > SmallSize
  /\ queue' = Tail(queue)
  /\ rx' = "large"
  /\ UNCHANGED <<senderVars, urefs, armed, mode, received, closed>>

\* MACH_RCV_TOO_LARGE: the message stays, its size is known.
RecvTooLarge ==
  /\ rx = "small" /\ queue # <<>> /\ Head(queue).size > SmallSize
  /\ rx' = "large"
  /\ UNCHANGED <<senderVars, kernelVars, mode, received, closed>>

\* The data is in the message, or is its last region.
Payload(m) ==
  IF m.inline
  THEN [id |-> m.id, data |-> 0, regions |-> m.regions]
  ELSE [id |-> m.id, data |-> m.regions[Len(m.regions)],
        regions |-> SubSeq(m.regions, 1, Len(m.regions) - 1)]

Fits == \/ rx = "small" /\ Head(queue).size <= SmallSize
        \/ rx = "large"

\* A message is returned.  A right in it becomes a handle again (to_sender).
Receive ==
  LET m == Head(queue) IN
  /\ rx \in {"small", "large"} /\ queue # <<>> /\ m.id # <<>> /\ Fits
  /\ queue' = Tail(queue)
  /\ urefs' = IF m.right THEN urefs + 1 ELSE urefs
  /\ port' = [u \in Senders |-> IF u # m.cargo THEN port[u] ELSE IF m.right THEN "name" ELSE "null"]
  /\ received' = Append(received, Payload(m))
  /\ rx' = "idle"
  /\ UNCHANGED <<max_inline, pc, cur, n, acked, armed, mode, closed>>

\* ChannelClosed
ReceiveNoSenders ==
  /\ rx \in {"small", "large"} /\ queue # <<>> /\ Head(queue).id = <<>>
  /\ queue' = Tail(queue)
  /\ closed' = TRUE
  /\ rx' = "idle"
  /\ UNCHANGED <<senderVars, urefs, armed, mode, received>>

\* Drop: with the receive right the kernel destroys the messages and the rights in
\* them; the send rights of the process become dead names.
DropReceiver ==
  /\ rx = "idle"
  /\ rx' = "dropped"
  /\ queue' = <<>>
  /\ port' = [u \in Senders |-> IF \E i \in DOMAIN queue : queue[i].cargo = u THEN "none" ELSE port[u]]
  /\ UNCHANGED <<max_inline, pc, cur, n, acked, urefs, armed, mode, received, closed>>

----------------------------------------------------------------------------
SendStep(s) == Convert(s) \/ SendOk(s) \/ SendFails(s) \/ SendTooLarge(s) \/ Learn(s)
SelectStep == RecvTimedOut \/ RecvTooLarge \/ Receive \/ ReceiveNoSenders

Next ==
  \/ \E s, t \in Senders : Clone(s, t)
  \/ \E s \in Senders : DropSender(s) \/ SendStep(s)
  \/ \E s \in Senders, len \in Lens, k \in RegionCounts, t \in Senders \cup {None} : Send(s, len, k, t)
  \/ \E m \in Modes : Recv(m)
  \/ SelectStep
  \/ DropReceiver

Spec == Init /\ [][Next]_vars

\* Threads go on with a send() that has begun, and the receiver keeps calling recv()
\* (Modes is {"Blocking"}) until it is told that the channel is closed.
FairSpec ==
  /\ Spec
  /\ \A s \in Senders : WF_vars(SendStep(s))
  /\ WF_vars(SelectStep) /\ WF_vars(~closed /\ Recv("Blocking"))

----------------------------------------------------------------------------
\* Properties

Ids == Senders \X (1 .. MaxSends)
Cargo == Senders \cup {None}

\* Every variable has its type.
TypeOK ==
  /\ max_inline \in Lens \cup {Unlimited}
  /\ port \in [Senders -> {"name", "null", "none", "moved"}]
  /\ pc \in [Senders -> {"idle", "convert", "attempt", "learn"}]
  /\ cur \in [Senders -> [len : Nat, regions : Nat, inline : BOOLEAN, cargo : Cargo,
                          right : BOOLEAN, tries : 0 .. 2]]
  /\ n \in [Senders -> 0 .. MaxSends] /\ acked \subseteq Ids
  /\ urefs \in Nat /\ armed \in BOOLEAN
  /\ queue \in Seq([id : Ids \cup {<<>>}, size : Nat, inline : BOOLEAN, regions : Seq(Nat),
                    cargo : Cargo, right : BOOLEAN])
  /\ rx \in {"idle", "small", "large", "dropped"} /\ mode \in Modes \cup {"Blocking"}
  /\ received \in Seq([id : Ids, data : Nat, regions : Seq(Nat)]) /\ closed \in BOOLEAN

\* A send() is refused as too large at most once, and then goes out of line, whatever
\* other threads learn meanwhile (the comparison under the write lock in send).
RefusedOnce == \A s \in Senders : cur[s].tries <= 1

\* The name has one send right for each handle, those on their way into a message
\* included: deallocating never panics, and nothing keeps a channel open for ever
\* (clone, drop, the forgetting at the end of send).
RightsMatchHandles ==
  urefs = Cardinality({s \in Senders : port[s] = "name"})
            + Cardinality({s \in Senders : pc[s] # "idle" /\ cur[s].right})

\* Data that travels as a region is told from the message's own regions (send, select).
DataApart ==
  \A i \in DOMAIN received :
    /\ received[i].data = 0
    /\ \A j \in DOMAIN received[i].regions : received[i].regions[j] = j

\* ChannelClosed comes when no sender is left and every message was returned.
ClosedAtEnd ==
  closed => /\ \A s \in Senders : port[s] \notin {"name", "moved"}
            /\ queue = <<>>

\* Every send() returns, though the queue may be full (send).
SendReturns == \A s \in Senders : []<>(pc[s] = "idle")

\* Every message that is sent is returned and, when no handle is left, in the process or in
\* a message, the end is reported; sends are bounded (recv).
AllReceived ==
  []<>(Alive => /\ acked \subseteq {received[i].id : i \in DOMAIN received}
                /\ (\A s \in Senders : port[s] \notin {"name", "moved"}) => closed)

\* The channel as a queue of messages.
Unread == SelectSeq(queue, LAMBDA m : m.id # <<>>)

Abstract == INSTANCE IpcChannel WITH
  queue <- [i \in DOMAIN Unread |-> Unread[i].id],
  received <- [i \in DOMAIN received |-> received[i].id],
  broken <- {},
  failed <- {},
  open <- Alive

\* A port is a queue of whole messages.
ImplementsIpcChannel == Abstract!Spec
=============================================================================
