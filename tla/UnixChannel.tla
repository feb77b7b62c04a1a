----------------------------- MODULE UnixChannel -----------------------------
(***************************************************************************)
(* One channel of the Unix transport (src/platform/unix/mod.rs): a         *)
(* SOCK_SEQPACKET socket pair whose sending end is shared by several       *)
(* OsIpcSenders and whose receiving end belongs to one OsIpcReceiver.      *)
(*                                                                         *)
(* send() transfers a message in one packet when it is small enough.       *)
(* Otherwise it splits it: the first fragment travels on the channel       *)
(* itself, with the receiving end of a fresh dedicated channel among its   *)
(* file descriptors, and the other fragments travel on the dedicated       *)
(* channel.  recv() reassembles the message.  Senders run concurrently     *)
(* with each other and with the receiver, one system call per step.        *)
(*                                                                         *)
(* Payload bytes are abstracted to their positions: a chunk stands for the *)
(* bytes from..to-1 of a message.                                          *)
(***************************************************************************)
EXTENDS Fragmentation, Sequences, FiniteSets

CONSTANTS
  Senders,          \* the threads (or processes) holding an OsIpcSender
  Messages,         \* the messages they may send: [len, fds] records
  MaxSends,         \* bound: how many times each of them calls send()
  SocketCapacity,   \* packets a socket buffers before a send blocks
  MAX_FDS_IN_CMSG   \* descriptors a received control message has room for

\* Descriptors are told apart by what is_socket() and the receiver's caller do
\* with them: ends of channels, shared memory, and the end of the dedicated one.
Fds == {"channel", "shmem", "dedicated"}

ASSUME ChannelAssumption ==
  /\ MaxSends \in Nat
  /\ SocketCapacity \in Nat \ {0}
  /\ MAX_FDS_IN_CMSG \in Nat \ {0}
  /\ \A m \in Messages :
        /\ DOMAIN m = {"len", "fds"}
        /\ m.len \in Nat
        /\ m.fds \in Seq({"channel", "shmem"})

VARIABLES
  \* One send() per sender, at most, is in progress:
  pc,              \* "idle", "whole" or "fragment" inside send(), "closed"
  msg,             \* the message of the last send(), named by its id <<s, n>>
  sendbuf_size,    \* the local variables of send(), reset when it returns
  byte_position,
  \* The kernel's sockets:
  queue,           \* packets on the channel
  dedicated,       \* chunks on the dedicated channel of each message
  \* The receiver:
  rx,              \* "open", "closed", "panicked" or reading a "foreign" channel
  partial,         \* the message being reassembled: <<>> or one buffer
  \* History:
  delivered,       \* what recv() returned, in order
  acked,           \* ids whose send() returned Ok
  broken,          \* ids whose recv() ended in ChannelClosed half way
  failed,          \* ids whose recv() ended in another error half way
  eof              \* whether recv() reported ChannelClosed between messages

senderVars == <<pc, msg, sendbuf_size, byte_position>>
receiverVars == <<rx, partial, delivered, broken, failed, eof>>
vars == <<senderVars, queue, dedicated, acked, receiverVars>>

Ids == Senders \X (0 .. MaxSends)

\* What is sent, what travels, and what recv() builds up from it.
MessageSet == [id : Ids, len : Nat, fds : Seq({"channel", "shmem"})]
PacketSet == [msg : MessageSet, total : Nat, len : Nat, fds : Seq(Fds)]
ChunkSet == [msg : MessageSet, from : Nat, to : Nat]
BufferSet == [msg : MessageSet, total : Nat, len : Nat, data : Seq(ChunkSet),
              channels : SUBSET Nat, shmem : SUBSET Nat]

IsSocket(fd) == fd # "shmem"

Sending(s) == pc[s] \in {"whole", "fragment"}

Init ==
  /\ pc = [s \in Senders |-> "idle"]
  /\ msg = [s \in Senders |-> [id |-> <<s, 0>>, len |-> 0, fds |-> <<>>]]
  /\ sendbuf_size = [s \in Senders |-> SYSTEM_SENDBUF_SIZE]
  /\ byte_position = [s \in Senders |-> 0]
  /\ queue = <<>>
  /\ dedicated = [i \in Ids |-> <<>>]
  /\ rx = "open"
  /\ partial = <<>>
  /\ delivered = <<>>
  /\ acked = {}
  /\ broken = {}
  /\ failed = {}
  /\ eof = FALSE

-----------------------------------------------------------------------------
(* The kernel, as the code uses it. *)

\* The packet that sendmsg() transfers for the first (or only) fragment.
FirstPacket(m, end, fds) ==
  [msg |-> m, total |-> m.len, len |-> end, fds |-> fds]

Chunk(m, from, to) == [msg |-> m, from |-> from, to |-> to]

\* A packet longer than the room offered to recvmsg() or recv() is cut.
Cut(c, room) == [c EXCEPT !.to = MinOf(c.to, c.from + room)]

\* Descriptors beyond the room for them are dropped.
CutFds(fds) == SubSeq(fds, 1, MinOf(Len(fds), MAX_FDS_IN_CMSG))

\* The receiving end still exists (a recv() that panics drops it).
ReceiverOpen == rx \in {"open", "foreign"}

\* All copies of the sending end are closed.
NoSenders == \A s \in Senders : pc[s] = "closed"

\* send() holds the sending end of the dedicated channel until it returns.
DedicatedTxOpen(id) == \E s \in Senders : pc[s] = "fragment" /\ msg[s].id = id

\* The receiving end of the dedicated channel has three owners: send() itself,
\* which keeps its copy until it returns, the packet it travels in, and recv().
DedicatedRxOpen(id) ==
  \/ DedicatedTxOpen(id)
  \/ \E i \in DOMAIN queue : queue[i].msg.id = id
  \/ \E i \in DOMAIN partial : partial[i].msg.id = id

-----------------------------------------------------------------------------
(* OsIpcSender *)

\* send() returns; its end of the dedicated channel is dropped with its locals.
Return(s, result) ==
  /\ pc' = [pc EXCEPT ![s] = "idle"]
  /\ sendbuf_size' = [sendbuf_size EXCEPT ![s] = SYSTEM_SENDBUF_SIZE]
  /\ byte_position' = [byte_position EXCEPT ![s] = 0]
  /\ acked' = IF result = "Ok" THEN acked \cup {msg[s].id} ELSE acked

\* Entry of send(), up to its first system call on the channel.
SendBegin(s, m) ==
  /\ pc[s] = "idle"
  /\ msg[s].id[2] < MaxSends
  /\ msg' = [msg EXCEPT ![s] =
               [id |-> <<s, msg[s].id[2] + 1>>, len |-> m.len, fds |-> m.fds]]
  /\ pc' = [pc EXCEPT ![s] =
              IF m.len <= get_max_fragment_size THEN "whole" ELSE "fragment"]
  /\ UNCHANGED <<sendbuf_size, byte_position, queue, dedicated, acked, receiverVars>>

\* sendmsg() of the channel's socket succeeds.  It blocks while the socket is
\* full and fails once the receiving end is closed (see SendBrokenPipe).
Enqueue(p) ==
  /\ ReceiverOpen
  /\ Len(queue) < SocketCapacity
  /\ queue' = Append(queue, p)

\* The message goes out in a single packet.
SendWhole(s) ==
  /\ pc[s] = "whole"
  /\ Enqueue(FirstPacket(msg[s], msg[s].len, msg[s].fds))
  /\ Return(s, "Ok")
  /\ UNCHANGED <<msg, dedicated, receiverVars>>

\* The end of the fragment that the loop of send() tries next.
EndPosition(s) ==
  IF byte_position[s] = 0
  THEN first_fragment_size(sendbuf_size[s])
  ELSE MinOf(byte_position[s] + fragment_size(sendbuf_size[s]), msg[s].len)

\* The loop advances; send() returns when it has transferred the whole message.
Advance(s) ==
  /\ IF EndPosition(s) < msg[s].len
     THEN /\ byte_position' = [byte_position EXCEPT ![s] = EndPosition(s)]
          /\ UNCHANGED <<pc, sendbuf_size, acked>>
     ELSE Return(s, "Ok")
  /\ UNCHANGED <<msg, receiverVars>>

\* The first fragment carries the receiving end of the dedicated channel, behind
\* the caller's descriptors.  &data[..end] panics when end exceeds the data:
\* the step is not possible then (see FirstFragmentFits).
SendFirstFragment(s) ==
  /\ pc[s] = "fragment"
  /\ byte_position[s] = 0
  /\ EndPosition(s) <= msg[s].len
  /\ Enqueue(FirstPacket(msg[s], EndPosition(s),
                         Append(msg[s].fds, "dedicated")))
  /\ Advance(s)
  /\ UNCHANGED dedicated

SendFollowupFragment(s) ==
  LET id == msg[s].id IN
  /\ pc[s] = "fragment"
  /\ byte_position[s] # 0
  /\ DedicatedRxOpen(id)
  /\ Len(dedicated[id]) < SocketCapacity
  /\ dedicated' = [dedicated EXCEPT ![id] =
                     Append(@, Chunk(msg[s], byte_position[s], EndPosition(s)))]
  /\ Advance(s)
  /\ UNCHANGED queue

\* The payload of the packet that a system call of send() tries to transfer.
TriedSize(s) ==
  IF pc[s] = "whole" THEN msg[s].len ELSE EndPosition(s) - byte_position[s]

\* The kernel has no buffer for the packet (ENOBUFS): try again with a smaller
\* one, which for a whole message means to fragment it after all.
SendShrinks(s) ==
  /\ Sending(s)
  /\ CanDownsize(TriedSize(s))
  /\ sendbuf_size' = [sendbuf_size EXCEPT ![s] = downsize(@, TriedSize(s))]
  /\ pc' = [pc EXCEPT ![s] = "fragment"]
  /\ UNCHANGED <<msg, byte_position, queue, dedicated, acked, receiverVars>>

\* The kernel reports that nobody can receive the packet any more.
SendBrokenPipe(s) ==
  /\ Sending(s)
  /\ IF pc[s] = "whole" \/ byte_position[s] = 0
     THEN ~ReceiverOpen
     ELSE ~DedicatedRxOpen(msg[s].id)
  /\ Return(s, "Err")
  /\ UNCHANGED <<msg, queue, dedicated, receiverVars>>

\* send() returns another error: ENOBUFS for a small packet, no descriptors left
\* for the dedicated channel, or a call that a signal handler interrupted.
SendFails(s) ==
  /\ Sending(s)
  /\ Return(s, "Err")
  /\ UNCHANGED <<msg, queue, dedicated, receiverVars>>

\* The last clone of an OsIpcSender is dropped, or its process dies, be it in
\* the middle of send(); the kernel then closes the descriptors it held.
DropSender(s) ==
  /\ pc[s] # "closed"
  /\ pc' = [pc EXCEPT ![s] = "closed"]
  /\ sendbuf_size' = [sendbuf_size EXCEPT ![s] = SYSTEM_SENDBUF_SIZE]
  /\ byte_position' = [byte_position EXCEPT ![s] = 0]
  /\ UNCHANGED <<msg, queue, dedicated, acked, receiverVars>>

-----------------------------------------------------------------------------
(* OsIpcReceiver *)

\* Mutant: channels[0], the first of them.
FirstSocket(fds) ==
  CHOOSE i \in DOMAIN fds :
    /\ IsSocket(fds[i])
    /\ \A j \in DOMAIN fds : IsSocket(fds[j]) => j >= i

\* channels.pop(): the last socket among the descriptors received.
LastSocket(fds) ==
  CHOOSE i \in DOMAIN fds :
    /\ IsSocket(fds[i])
    /\ \A j \in DOMAIN fds : IsSocket(fds[j]) => j <= i

\* The buffer after the first packet: its contents, and which of the received
\* descriptors are channels and which are shared memory.
FirstBuffer(p) ==
  LET c == Cut(Chunk(p.msg, 0, p.len), get_max_fragment_size)
      fds == CutFds(p.fds)
  IN [msg |-> p.msg, total |-> p.total, len |-> c.to, data |-> <<c>>,
      channels |-> {i \in DOMAIN fds : IsSocket(fds[i])},
      shmem |-> {i \in DOMAIN fds : ~IsSocket(fds[i])}]

\* recvmsg() of the channel's socket succeeds and brings a whole message.
RecvWhole ==
  /\ rx = "open"
  /\ partial = <<>>
  /\ queue # <<>>
  /\ LET b == FirstBuffer(Head(queue)) IN
       /\ b.total = b.len
       /\ delivered' = Append(delivered, b)
  /\ queue' = Tail(queue)
  /\ UNCHANGED <<senderVars, dedicated, acked, rx, partial, broken, failed, eof>>

\* It brings a first fragment: recv() takes the last channel as the dedicated
\* one.  If the descriptor of that was dropped, it panics when there is no
\* other channel, and else it goes on to read from a channel of the message.
RecvFirst ==
  /\ rx = "open"
  /\ partial = <<>>
  /\ queue # <<>>
  /\ LET b == FirstBuffer(Head(queue))
         fds == CutFds(Head(queue).fds)
         last == LastSocket(fds)
     IN /\ b.total # b.len
        /\ IF b.channels = {}
           THEN rx' = "panicked" /\ partial' = <<>>
           ELSE /\ rx' = IF fds[last] = "dedicated" THEN "open" ELSE "foreign"
                /\ partial' = <<[b EXCEPT !.channels = @ \ {last}]>>
  /\ queue' = IF rx' = "panicked" THEN <<>> ELSE Tail(queue)
  /\ UNCHANGED <<senderVars, dedicated, acked, delivered, broken, failed, eof>>

\* Mutant: every fragment is taken to fill the room offered.
ExtendFull(b, c) ==
  LET room == MinOf(b.len + fragment_size(SYSTEM_SENDBUF_SIZE), b.total) - b.len
  IN [b EXCEPT !.data = Append(@, Cut(c, room)), !.len = @ + room]

\* The buffer after a followup fragment, received at the end of the data.
Extend(b, c) ==
  LET room == MinOf(b.len + fragment_size(SYSTEM_SENDBUF_SIZE), b.total) - b.len
      got == Cut(c, room)
  IN [b EXCEPT !.data = Append(@, got), !.len = @ + (got.to - got.from)]

\* recv() of the dedicated channel succeeds; the message may be complete now.
RecvFollowup ==
  /\ rx = "open"
  /\ partial # <<>>
  /\ LET id == partial[1].msg.id
         b == Extend(partial[1], Head(dedicated[id]))
     IN /\ dedicated[id] # <<>>
        /\ dedicated' = [dedicated EXCEPT ![id] = Tail(@)]
        /\ IF b.len < b.total
           THEN partial' = <<b>> /\ UNCHANGED delivered
           ELSE partial' = <<>> /\ delivered' = Append(delivered, b)
  /\ UNCHANGED <<senderVars, queue, acked, rx, broken, failed, eof>>

\* Mutant: an empty dedicated channel is taken for one at its end.
RecvBrokenEarly ==
  /\ rx = "open"
  /\ partial # <<>>
  /\ dedicated[partial[1].msg.id] = <<>>
  /\ broken' = broken \cup {partial[1].msg.id}
  /\ partial' = <<>>
  /\ UNCHANGED <<senderVars, queue, dedicated, acked, rx, delivered, failed, eof>>

\* The dedicated channel is at its end before the message is complete: its
\* send() failed or its process died.  recv() returns Err(ChannelClosed).
RecvBroken ==
  /\ rx = "open"
  /\ partial # <<>>
  /\ dedicated[partial[1].msg.id] = <<>>
  /\ ~DedicatedTxOpen(partial[1].msg.id)
  /\ broken' = broken \cup {partial[1].msg.id}
  /\ partial' = <<>>
  /\ UNCHANGED <<senderVars, queue, dedicated, acked, rx, delivered, failed, eof>>

\* recv() of the dedicated channel fails, for instance because a signal handler
\* interrupted it; what was received of the message is dropped.
RecvFailed ==
  /\ rx = "open"
  /\ partial # <<>>
  /\ failed' = failed \cup {partial[1].msg.id}
  /\ partial' = <<>>
  /\ UNCHANGED <<senderVars, queue, dedicated, acked, rx, delivered, broken, eof>>

\* Mutant: an empty socket is taken for a closed one.
RecvClosedEarly ==
  /\ rx = "open"
  /\ partial = <<>>
  /\ queue = <<>>
  /\ eof' = TRUE
  /\ UNCHANGED <<senderVars, queue, dedicated, acked, rx, partial, delivered,
                 broken, failed>>

\* recvmsg() returns 0: every sending end is closed and the socket is drained.
RecvClosed ==
  /\ rx = "open"
  /\ partial = <<>>
  /\ queue = <<>>
  /\ NoSenders
  /\ eof' = TRUE
  /\ UNCHANGED <<senderVars, queue, dedicated, acked, rx, partial, delivered,
                 broken, failed>>

\* The receiver is dropped or its process dies.  The packets still queued, with
\* the descriptors in them, go with it.
DropReceiver ==
  /\ rx = "open"
  /\ rx' = "closed"
  /\ queue' = <<>>
  /\ partial' = <<>>
  /\ UNCHANGED <<senderVars, dedicated, acked, delivered, broken, failed, eof>>

-----------------------------------------------------------------------------

Recv == RecvWhole \/ RecvFirst \/ RecvFollowup \/ RecvBroken \/ RecvClosed

SendStep(s) ==
  \/ SendWhole(s)
  \/ SendFirstFragment(s)
  \/ SendFollowupFragment(s)
  \/ SendBrokenPipe(s)

Next ==
  \/ \E s \in Senders :
       \/ \E m \in Messages : SendBegin(s, m)
       \/ SendWhole(s)
       \/ SendFirstFragment(s)
       \/ SendFollowupFragment(s)
       \/ SendBrokenPipe(s)
       \/ SendShrinks(s)
       \/ SendFails(s)
       \/ DropSender(s)
  \/ RecvWhole
  \/ RecvFirst
  \/ RecvFollowup
  \/ RecvBroken
  \/ RecvFailed
  \/ RecvClosed
  \/ DropReceiver

Spec == Init /\ [][Next]_vars

\* A thread inside send() or recv() keeps running, and the application calls
\* recv() again as long as it holds the receiver.
Fairness ==
  /\ WF_vars(Recv)
  /\ \A s \in Senders : WF_vars(SendStep(s))

FairSpec == Spec /\ Fairness

-----------------------------------------------------------------------------
(* Properties *)

\* Every variable keeps the shape that send() and recv() give it.
TypeOK ==
  /\ pc \in [Senders -> {"idle", "whole", "fragment", "closed"}]
  /\ msg \in [Senders -> MessageSet]
  /\ sendbuf_size \in [Senders -> Nat]
  /\ byte_position \in [Senders -> Nat]
  /\ queue \in Seq(PacketSet)
  /\ dedicated \in [Ids -> Seq(ChunkSet)]
  /\ rx \in {"open", "closed", "panicked", "foreign"}
  /\ partial \in Seq(BufferSet) /\ Len(partial) <= 1
  /\ delivered \in Seq(BufferSet)
  /\ acked \in SUBSET Ids
  /\ broken \in SUBSET Ids
  /\ failed \in SUBSET Ids
  /\ eof \in BOOLEAN

\* A buffer holds exactly the message it is of: every byte, at its place, from
\* that message and no other, and the descriptors it was sent with.
Intact(b) ==
  /\ b.len = b.msg.len
  /\ \A i \in DOMAIN b.data : b.data[i].msg = b.msg
  /\ b.data[1].from = 0
  /\ \A i \in 2 .. Len(b.data) : b.data[i].from = b.data[i - 1].to
  /\ b.data[Len(b.data)].to = b.msg.len
  /\ b.channels = {i \in DOMAIN b.msg.fds : b.msg.fds[i] = "channel"}
  /\ b.shmem = {i \in DOMAIN b.msg.fds : b.msg.fds[i] = "shmem"}

\* recv() only ever returns messages as they were sent, however the fragments of
\* concurrent sends interleave, whatever ENOBUFS did to the fragment sizes and
\* whoever dies half way.
Reassembly == \A i \in DOMAIN delivered : Intact(delivered[i])

DeliveredIds == {delivered[i].msg.id : i \in DOMAIN delivered}

PendingIds ==
  {partial[i].msg.id : i \in DOMAIN partial} \cup {queue[i].msg.id : i \in DOMAIN queue}

\* A message whose send() returned Ok is never found incomplete, and while the
\* receiver exists it is delivered, on its way, or was dropped by a recv() that
\* reported an error of its own.
AckedNotLost ==
  /\ acked \cap broken = {}
  /\ rx = "open" => acked \subseteq DeliveredIds \cup failed \cup PendingIds

\* When recv() reports ChannelClosed between messages, nothing that any send()
\* acknowledged is still to come.
EofIsFinal == eof => NoSenders /\ acked \subseteq DeliveredIds \cup failed

\* The first fragment of a fragmented message is neither empty, which would
\* repeat it for ever, nor the whole message, which recv() would take for an
\* unfragmented one (and beyond which the slice in send() would panic).
FirstFragmentFits ==
  \A s \in Senders :
    pc[s] = "fragment" /\ byte_position[s] = 0 => EndPosition(s) \in 1 .. msg[s].len - 1

\* "The receiver end of the channel is sent with the first fragment along any
\* other file descriptors" (unix/mod.rs:373), and recv() finds it: it neither panics
\* nor reads the remaining fragments from a channel that the message carries.
DedicatedChannelFound == rx \notin {"panicked", "foreign"}

\* "Make certain we end up with less than what we tried before...": after
\* ENOBUFS, the packet that send() tries next is smaller.
RetryIsSmaller ==
  [][\A s \in Senders : SendShrinks(s) => TriedSize(s)' \in 1 .. TriedSize(s) - 1]_vars

\* send() returns as long as the receiver keeps receiving: waiting for room in a
\* socket ends, and so does retrying after ENOBUFS.
SendTerminates ==
  \A s \in Senders : []<>(Sending(s) => rx # "open" \/ msg[s].id \in failed)

\* What was acknowledged is received, unless a recv() failed or the receiver was
\* dropped: an incomplete message in front of it does not hold it up.  When all senders
\* are closed recv() reports the end.  (Sends are bounded, so that nothing is left to
\* receive again and again just when everything is received in the end.)
AllReceived ==
  []<>(rx = "open" => acked \subseteq DeliveredIds \cup failed /\ (NoSenders => eof))

\* The channel seen as a queue of whole messages.
Pending == partial \o queue

Abstract == INSTANCE IpcChannel WITH
  queue <- [i \in 1 .. Len(Pending) |-> Pending[i].msg.id],
  received <- [i \in 1 .. Len(delivered) |-> delivered[i].msg.id],
  open <- rx = "open"

\* The packets, fragments and dedicated channels implement that queue.
ImplementsIpcChannel == Abstract!Spec

\* unix/mod.rs:846 prints ChannelClosed as "All senders for this socket closed".
ClosedMeansNoSenders == (broken # {} \/ eof) => NoSenders

\* platform/test.rs:783 says that send() reports a broken pipe after the receive
\* end was closed; at least it has to return.
SendReturns == \A s \in Senders : Sending(s) ~> ~Sending(s)

=============================================================================
