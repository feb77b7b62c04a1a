----------------------------- MODULE UnixHandles -----------------------------
(***************************************************************************)
(* The descriptors behind senders and receivers on Unix (OsIpcReceiver,    *)
(* SharedFileDescriptor, OsIpcSender, OsIpcChannel and OsOpaqueIpcChannel  *)
(* in platform/unix/mod.rs).  A receiver has a descriptor of its own,      *)
(* clones of a sender share one and the last of them closes it, a message  *)
(* carries the sockets themselves, and what is received is an opaque       *)
(* channel until it is decoded as a sender or a receiver.                  *)
(*                                                                         *)
(* Descriptor numbers are used again.  Several threads of several          *)
(* processes make, clone, send and drop values; a process may end at any   *)
(* time.  The contents of messages are in UnixChannel.                     *)
(***************************************************************************)
EXTENDS Naturals, Sequences, FiniteSets

CONSTANTS
  Processes,
  Pipes,       \* socket pairs
  Values,      \* names of senders, receivers and opaque channels, in all processes
  Fds,         \* bound: descriptor numbers of a process
  MaxQueue,    \* bound: messages in a socket
  BadFd,       \* the descriptor -1
  None

ASSUME UnixHandlesAssumption ==
  MaxQueue \in Nat /\ BadFd \notin Fds /\ None \notin Fds \cup Processes \cup Values \cup {BadFd}

VARIABLES
  value,     \* senders, receivers and opaque channels
  alive,     \* the processes that run
  table,     \* of each process and descriptor: the end of a socket pair, or NoEnd
  queue,     \* of each socket pair: the ends that its messages carry, oldest first
  lost       \* of each process: descriptors that nothing will close

vars == <<value, alive, table, queue, lost>>

End(c, side) == [pipe |-> c, side |-> side]

Ends == {End(c, side) : c \in Pipes, side \in {"send", "recv"}}

NoEnd == [pipe |-> None, side |-> "none"]

\* arc: of a sender, the Arc<SharedFileDescriptor> it shares with its clones, named after
\* the first of them.
\* use: "held" by the program, "listed" as an OsIpcChannel of a message to be sent, or
\* "sent" and about to be dropped.  end is history: the end the value was made for.
NoValue ==
  [kind |-> "none", proc |-> None, fd |-> BadFd, arc |-> None, use |-> "held", end |-> NoEnd]

Value(kind, p, f, a, e) ==
  [kind |-> kind, proc |-> p, fd |-> f, arc |-> a, use |-> "held", end |-> e]

\* Some process is the accepted client of another one's one-shot server.
Init ==
  /\ alive = Processes /\ lost = [p \in Processes |-> {}]
  /\ queue = [c \in Pipes |-> <<>>]
  /\ \E p, q \in Processes, c \in Pipes, f \in Fds, v, w \in Values :
       /\ p # q /\ v # w
       /\ table = [[x \in Processes |-> [g \in Fds |-> NoEnd]]
                    EXCEPT ![p][f] = End(c, "recv"), ![q][f] = End(c, "send")]
       /\ value = [[x \in Values |-> NoValue] EXCEPT
                     ![v] = Value("receiver", p, f, None, End(c, "recv")),
                     ![w] = Value("sender", q, f, w, End(c, "send"))]

----------------------------------------------------------------------------
FreeFds(p) == {f \in Fds : table[p][f] = NoEnd}

\* The kernel keeps the ends that descriptors refer to, and those that are in messages of
\* a socket whose receiving end it keeps.
Kept(S) ==
  /\ \A p \in Processes, f \in Fds : table[p][f] \in Ends => table[p][f] \in S
  /\ \A c \in Pipes : End(c, "recv") \in S => \A i \in DOMAIN queue[c] : queue[c][i] \in S

\* It keeps no others.
Live(e) == \A S \in SUBSET Ends : Kept(S) => e \in S

\* A name for a new value, and for a new Arc.
Unused(v) == value[v].kind = "none" /\ \A w \in Values : value[w].arc # v

\* channel(): socketpair
Channel(p, c, v, w) ==
  /\ p \in alive /\ v # w /\ Unused(v) /\ Unused(w)
  /\ ~Live(End(c, "send")) /\ ~Live(End(c, "recv"))
  /\ \E f, g \in FreeFds(p) :
       /\ f # g
       /\ table' = [table EXCEPT ![p][f] = End(c, "send"), ![p][g] = End(c, "recv")]
       /\ value' = [value EXCEPT ![v] = Value("sender", p, f, v, End(c, "send")),
                                 ![w] = Value("receiver", p, g, None, End(c, "recv"))]
  /\ queue' = [queue EXCEPT ![c] = <<>>]
  /\ UNCHANGED <<alive, lost>>

\* OsIpcSender::clone: another reference to the Arc, for the program or for a message.
Clone(v, w) ==
  /\ value[v].kind = "sender" /\ value[v].use = "held" /\ Unused(w)
  /\ \E use \in {"held", "listed"} : value' = [value EXCEPT ![w] = [value[v] EXCEPT !.use = use]]
  /\ UNCHANGED <<alive, table, queue, lost>>

Usable(v) == value[v].kind = "receiver" /\ value[v].fd # BadFd /\ value[v].use = "held"

\* Mutant: the old receiver keeps the descriptor.
ConsumeCopies(v, w) ==
  /\ Usable(v) /\ Unused(w)
  /\ \E use \in {"held", "listed"} : value' = [value EXCEPT ![w] = [value[v] EXCEPT !.use = use]]
  /\ UNCHANGED <<alive, table, queue, lost>>

\* OsIpcReceiver::consume: the descriptor moves to a new value.
Consume(v, w) ==
  /\ Usable(v) /\ Unused(w)
  /\ \E use \in {"held", "listed"} :
       value' = [value EXCEPT ![w] = [value[v] EXCEPT !.use = use], ![v].fd = BadFd]
  /\ UNCHANGED <<alive, table, queue, lost>>

----------------------------------------------------------------------------
CloseFd(v) == table' = [table EXCEPT ![value[v].proc][value[v].fd] = NoEnd]

Forget(v) == value' = [value EXCEPT ![v] = NoValue]

\* Drop for OsIpcReceiver
DropReceiver(v) ==
  /\ value[v].kind = "receiver" /\ Forget(v)
  /\ IF value[v].fd = BadFd THEN UNCHANGED table ELSE CloseFd(v)
  /\ UNCHANGED <<alive, queue, lost>>

\* Mutant: every clone closes the descriptor.
DropSenderAlways(v) ==
  /\ value[v].kind = "sender" /\ Forget(v) /\ CloseFd(v)
  /\ UNCHANGED <<alive, queue, lost>>

\* Mutant: the last sender leaves the descriptor open.
DropSenderLeaks(v) ==
  /\ value[v].kind = "sender" /\ Forget(v)
  /\ UNCHANGED <<alive, table, queue, lost>>

\* The drop of an OsIpcSender, and for the last one of its Arc Drop for
\* SharedFileDescriptor.
DropSender(v) ==
  /\ value[v].kind = "sender" /\ Forget(v)
  /\ IF \E w \in Values \ {v} : value[w].arc = value[v].arc THEN UNCHANGED table ELSE CloseFd(v)
  /\ UNCHANGED <<alive, queue, lost>>

\* Drop for OsOpaqueIpcChannel, of one that was never decoded: nothing is closed.
DropOpaque(v) ==
  /\ value[v].kind = "opaque" /\ Forget(v)
  /\ lost' = [lost EXCEPT ![value[v].proc] = @ \cup {value[v].fd}]
  /\ UNCHANGED <<alive, table, queue>>

\* Mutant: the opaque channel keeps its descriptor.
ToReceiverCopies(v, w) ==
  /\ value[v].kind = "opaque" /\ Unused(w) /\ value[v].end.side = "recv"
  /\ value' = [value EXCEPT ![w] = [value[v] EXCEPT !.kind = "receiver"]]
  /\ UNCHANGED <<alive, table, queue, lost>>

\* OsOpaqueIpcChannel::to_receiver and to_sender, as the data of the message says; the
\* opaque channel is left without descriptor.
ToReceiver(v, w) ==
  /\ value[v].kind = "opaque" /\ Unused(w) /\ value[v].end.side = "recv"
  /\ value' = [value EXCEPT ![w] = [value[v] EXCEPT !.kind = "receiver"], ![v] = NoValue]
  /\ UNCHANGED <<alive, table, queue, lost>>

ToSender(v, w) ==
  /\ value[v].kind = "opaque" /\ Unused(w) /\ value[v].end.side = "send"
  /\ value' = [value EXCEPT ![w] = [value[v] EXCEPT !.kind = "sender", !.arc = w], ![v] = NoValue]
  /\ UNCHANGED <<alive, table, queue, lost>>

----------------------------------------------------------------------------
CanSend(v, w) ==
  /\ value[v].kind = "sender" /\ value[v].use = "held"
  /\ value[w].use = "listed" /\ value[w].proc = value[v].proc

SocketOf(v) == table[value[v].proc][value[v].fd].pipe

\* OsIpcSender::send of a message with the channel w, which OsIpcChannel::fd lends to
\* sendmsg; w is dropped afterwards, by DropSender or DropReceiver.  When sendmsg fails,
\* or serialization does, w is dropped without having been sent.
Send(v, w) ==
  /\ CanSend(v, w) /\ Live(End(SocketOf(v), "recv")) /\ Len(queue[SocketOf(v)]) < MaxQueue
  /\ queue' = [queue EXCEPT ![SocketOf(v)] = Append(@, table[value[w].proc][value[w].fd])]
  /\ value' = [value EXCEPT ![w].use = "sent"]
  /\ UNCHANGED <<alive, table, lost>>

\* recv(): recvmsg puts the socket of the message into the table.
Recv(v, w) ==
  /\ Usable(v) /\ Unused(w)
  /\ LET p == value[v].proc
     IN  /\ queue[SocketOf(v)] # <<>>
         /\ \E f \in FreeFds(p) :
              /\ table' = [table EXCEPT ![p][f] = Head(queue[SocketOf(v)])]
              /\ value' = [value EXCEPT ![w] = Value("opaque", p, f, None, Head(queue[SocketOf(v)]))]
         /\ queue' = [queue EXCEPT ![SocketOf(v)] = Tail(@)]
  /\ UNCHANGED <<alive, lost>>

\* Without room in the table the kernel drops the socket of the message.
RecvNoRoom(v) ==
  /\ Usable(v) /\ FreeFds(value[v].proc) = {} /\ queue[SocketOf(v)] # <<>>
  /\ queue' = [queue EXCEPT ![SocketOf(v)] = Tail(@)]
  /\ UNCHANGED <<value, alive, table, lost>>

\* The end of a process, at any point.
Exit(p) ==
  /\ p \in alive /\ alive' = alive \ {p}
  /\ value' = [v \in Values |-> IF value[v].proc = p THEN NoValue ELSE value[v]]
  /\ table' = [table EXCEPT ![p] = [f \in Fds |-> NoEnd]]
  /\ lost' = [lost EXCEPT ![p] = {}]
  /\ UNCHANGED queue

----------------------------------------------------------------------------
Next ==
  \/ \E p \in Processes : (\E c \in Pipes, v, w \in Values : Channel(p, c, v, w)) \/ Exit(p)
  \/ \E v, w \in Values :
       Clone(v, w) \/ Consume(v, w) \/ ToReceiver(v, w) \/ ToSender(v, w) \/ Send(v, w) \/ Recv(v, w)
  \/ \E v \in Values : DropReceiver(v) \/ DropSender(v) \/ DropOpaque(v) \/ RecvNoRoom(v)

Spec == Init /\ [][Next]_vars

----------------------------------------------------------------------------
\* Properties

ValueSet ==
  [kind : {"none", "sender", "receiver", "opaque"}, proc : Processes \cup {None},
   fd : Fds \cup {BadFd}, arc : Values \cup {None},
   use : {"held", "listed", "sent"}, end : Ends \cup {NoEnd}]

\* Every variable has its type.
TypeOK ==
  /\ value \in [Values -> ValueSet] /\ alive \subseteq Processes
  /\ table \in [Processes -> [Fds -> Ends \cup {NoEnd}]]
  /\ queue \in [Pipes -> Seq(Ends)] /\ lost \in [Processes -> SUBSET Fds]

\* Who will close descriptor f of process p: receivers, opaque channels that become one
\* or a sender, Arcs of senders, or nobody.
Owners(p, f) ==
  LET users == {v \in Values : value[v].proc = p /\ value[v].fd = f}
  IN  Cardinality({v \in users : value[v].kind # "sender"})
      + Cardinality({value[v].arc : v \in {u \in users : value[u].kind = "sender"}})
      + Cardinality({f} \cap lost[p])

\* Every descriptor has exactly one owner: none is closed under another value, and none
\* leaks but those of opaque channels that nobody decodes.
OwnedOnce ==
  \A p \in Processes, f \in Fds : Owners(p, f) = (IF table[p][f] = NoEnd THEN 0 ELSE 1)

\* A value stands for the end of the channel it was made for as long as it exists,
\* although other threads open and close descriptors.
RightEnd ==
  \A v \in Values : (value[v].kind # "none" /\ value[v].fd # BadFd) =>
    table[value[v].proc][value[v].fd] = value[v].end

\* recv() reports the end of a channel exactly when there is no sender of it any more: no
\* value of a process, no message that can still be received, and no channel that was
\* received and never decoded.
EndExact ==
  \A c \in Pipes :
    LET e == End(c, "send")
    IN  Live(e) <=> \/ \E v \in Values : value[v].kind \in {"sender", "opaque"} /\ value[v].end = e
                    \/ \E d \in Pipes : Live(End(d, "recv")) /\ \E i \in DOMAIN queue[d] : queue[d][i] = e
                    \/ \E p \in Processes : \E f \in lost[p] : table[p][f] = e

\* Where a receiving end can still be used from: values that hold it, and messages of
\* sockets that some process can still read.
Holders(c) ==
  {v \in Values : /\ value[v].kind \in {"receiver", "opaque"} /\ value[v].fd # BadFd
                  /\ value[v].use # "sent" /\ value[v].end = End(c, "recv")}

Carriers(c) ==
  {k \in Pipes \X (1..MaxQueue) :
     /\ k[2] \in DOMAIN queue[k[1]] /\ queue[k[1]][k[2]] = End(c, "recv")
     /\ Live(End(k[1], "recv"))}

\* The messages of a channel are never divided between two receivers: however often the
\* receiver is consumed, sent and decoded, one value or one message has it.
OneReceiver == \A c \in Pipes : Cardinality(Holders(c)) + Cardinality(Carriers(c)) <= 1
=============================================================================
