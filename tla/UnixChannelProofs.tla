------------------------- MODULE UnixChannelProofs -------------------------
(***************************************************************************)
(* Proofs about UnixChannel, for any number of senders and messages and    *)
(* any send buffer size: the inductive invariant DataInv of packets and    *)
(* queues, and from it what the channel promises its users.  Messages      *)
(* arrive as they were sent, acknowledged ones are not lost, every attempt *)
(* after ENOBUFS is smaller, and the channel implements IpcChannel.        *)
(***************************************************************************)
EXTENDS UnixChannel, SequenceTheorems, TLAPS

\* Leaves are first-order reasoning about sets and functions, but where they name SMT.
USE Zenon

-----------------------------------------------------------------------------
(* Packet sizes *)

\* A buffer with room for a header and a word yields a first fragment that is
\* not empty, and that leaves 40 bytes of the buffer unused.
LEMMA FirstFragmentSize ==
  ASSUME NEW b \in Nat, b >= 48
  PROVE  first_fragment_size(b) \in 8 .. b - 40
BY SMT DEF first_fragment_size, fragment_size, AlignDown, RESERVED_SIZE, HEADER_SIZE

\* downsize() always ends up below the size that failed, and never so low that
\* no packet could be built: its buffer sizes stay at 1000 bytes or more.
LEMMA Downsize ==
  ASSUME NEW b \in Nat, NEW t \in Nat, t <= b - RESERVED_SIZE, CanDownsize(t)
  PROVE  /\ downsize(b, t) \in 1000 .. b
         /\ downsize(b, t) < t
BY SMT DEF downsize, CanDownsize, MIN_DOWNSIZE, RESERVED_SIZE

\* So the next attempt at a first fragment is smaller than the one that failed.
LEMMA DownsizedFirstFragment ==
  ASSUME NEW b \in Nat, NEW t \in Nat, t <= b - RESERVED_SIZE, CanDownsize(t)
  PROVE  first_fragment_size(downsize(b, t)) < t
<1> DEFINE d == downsize(b, t)
<1>1. d \in Nat /\ d >= 48 /\ d < t
  BY SMT, Downsize
<1> HIDE DEF d
<1>2. first_fragment_size(d) < t
  BY SMT, <1>1, FirstFragmentSize
<1> QED BY <1>2 DEF d

\* The largest fragment is not empty, and smaller than the buffer.
LEMMA MaxFragmentSize == get_max_fragment_size \in 8 .. SYSTEM_SENDBUF_SIZE - 40
BY FirstFragmentSize, SendbufAssumption DEF get_max_fragment_size

-----------------------------------------------------------------------------
(* The inductive invariant *)

\* What the local variables of send() say about the packet it tries next.
SizeInv ==
  \A s \in Senders :
    /\ msg[s].id[1] = s
    /\ sendbuf_size[s] \in 48 .. SYSTEM_SENDBUF_SIZE
    /\ pc[s] # "fragment" =>
         sendbuf_size[s] = SYSTEM_SENDBUF_SIZE /\ byte_position[s] = 0
    /\ pc[s] = "whole" => msg[s].len <= get_max_fragment_size
    /\ pc[s] = "fragment" =>
         IF byte_position[s] = 0
         THEN first_fragment_size(sendbuf_size[s]) < msg[s].len
         ELSE byte_position[s] < msg[s].len

\* Chunks of message m that follow each other from position a on.
Chain(d, m, a) ==
  /\ \A i \in DOMAIN d :
       /\ d[i].msg = m
       /\ d[i].from <= d[i].to
       /\ d[i].to <= m.len
       /\ i > 1 => d[i].from = d[i - 1].to
  /\ d # <<>> => d[1].from = a

\* Where such a chain ends.
EndOf(d, a) == IF d = <<>> THEN a ELSE d[Len(d)].to

\* A sender at p, with b bytes of its message m transferred, has put nothing
\* named i in the channel yet.
Fresh(i, p, m, b) ==
  \/ i[2] > m.id[2]
  \/ i = m.id /\ (p = "whole" \/ (p = "fragment" /\ b = 0))

\* A packet or a buffer e and the fragments d behind it on the dedicated channel
\* make up its message as far as its sender, at p, b and m, got with it.
Entry(e, d, p, m, b) ==
  /\ ~Fresh(e.msg.id, p, m, b)
  /\ e.msg.id = m.id => e.msg = m
  /\ e.total = e.msg.len
  /\ e.len <= e.total
  /\ Chain(d, e.msg, e.len)
  /\ p = "fragment" /\ e.msg.id = m.id => EndOf(d, e.len) = b

FreshId(i) == Fresh(i, pc[i[1]], msg[i[1]], byte_position[i[1]])

InFlight(e) ==
  LET i == e.msg.id
  IN Entry(e, dedicated[i], pc[i[1]], msg[i[1]], byte_position[i[1]])

\* The packets of the channel, at most one of each message.
Packet(p) ==
  /\ p.len <= get_max_fragment_size
  /\ p.fds = IF p.len = p.total THEN p.msg.fds ELSE Append(p.msg.fds, "dedicated")

QueueInv ==
  /\ \A k \in DOMAIN queue : InFlight(queue[k]) /\ Packet(queue[k])
  /\ \A j, k \in DOMAIN queue : queue[j].msg.id = queue[k].msg.id => j = k

\* A buffer holds the beginning of its message, up to its length.
Buffer(b) ==
  /\ b.data # <<>>
  /\ Chain(b.data, b.msg, 0)
  /\ EndOf(b.data, 0) = b.len

PartialInv ==
  partial # <<>> =>
    /\ InFlight(partial[1])
    /\ Buffer(partial[1])
    /\ partial[1].len < partial[1].total
    /\ \A k \in DOMAIN queue : queue[k].msg.id # partial[1].msg.id

\* Chunks on dedicated channels fit the room that recv() offers for them.
Fits(c) == c.to - c.from <= fragment_size(SYSTEM_SENDBUF_SIZE)

DedicatedInv ==
  \A i \in Ids :
    /\ FreshId(i) => dedicated[i] = <<>>
    /\ \A k \in DOMAIN dedicated[i] : Fits(dedicated[i][k])

DeliveredInv ==
  \A k \in DOMAIN delivered :
    Buffer(delivered[k]) /\ delivered[k].len = delivered[k].msg.len

\* The bytes: this much holds however many descriptors a message has.
DataInv ==
  /\ TypeOK
  /\ SizeInv
  /\ QueueInv
  /\ PartialInv
  /\ DedicatedInv
  /\ DeliveredInv

-----------------------------------------------------------------------------
(* The senders by themselves *)

\* The part of TypeOK about the senders.
SenderTypeOK ==
  /\ pc \in [Senders -> {"idle", "whole", "fragment", "closed"}]
  /\ msg \in [Senders -> MessageSet]
  /\ sendbuf_size \in [Senders -> Nat]
  /\ byte_position \in [Senders -> Nat]

\* A packet that send() tries is not empty and fits the buffer size it assumes.
LEMMA TriedFits ==
  ASSUME SenderTypeOK, SizeInv, NEW s \in Senders
  PROVE  /\ pc[s] = "whole" =>
              TriedSize(s) \in Nat /\ TriedSize(s) <= sendbuf_size[s] - RESERVED_SIZE
         /\ pc[s] = "fragment" =>
              /\ EndPosition(s) \in Nat
              /\ byte_position[s] < EndPosition(s)
              /\ EndPosition(s) <= msg[s].len
              /\ byte_position[s] = 0 => EndPosition(s) < msg[s].len
              /\ TriedSize(s) = EndPosition(s) - byte_position[s]
              /\ TriedSize(s) <= sendbuf_size[s] - RESERVED_SIZE
<1> /\ msg[s].len \in Nat
    /\ sendbuf_size[s] \in Nat /\ sendbuf_size[s] >= 48
    /\ byte_position[s] \in Nat
  BY SMT DEF SenderTypeOK, SizeInv, MessageSet
<1>1. first_fragment_size(sendbuf_size[s]) \in 8 .. sendbuf_size[s] - 40
  BY FirstFragmentSize
<1>2. CASE pc[s] = "whole"
  BY SMT, <1>2, MaxFragmentSize, SendbufAssumption DEF SizeInv, TriedSize, RESERVED_SIZE
<1>3. CASE pc[s] = "fragment"
  BY SMT, <1>1, <1>3 DEF SizeInv, TriedSize, EndPosition, MinOf, fragment_size, RESERVED_SIZE
<1> QED BY <1>2, <1>3

\* Every step keeps the types and the sizes of the senders.
LEMMA SenderStep ==
  ASSUME SenderTypeOK, SizeInv, [Next]_vars
  PROVE  SenderTypeOK' /\ SizeInv'
<1> USE SendbufAssumption, ChannelAssumption DEF SenderTypeOK, SizeInv
<1>1. ASSUME NEW s \in Senders, NEW m \in Messages, SendBegin(s, m)
      PROVE  SenderTypeOK' /\ SizeInv'
  <2>1. m.len \in Nat /\ m.fds \in Seq({"channel", "shmem"})
    OBVIOUS
  <2>2. <<s, msg[s].id[2] + 1>> \in Ids /\ msg[s].id[2] \in Nat
    BY SMT, <1>1 DEF SendBegin, Ids, MessageSet
  <2>3. SenderTypeOK'
    BY <1>1, <2>1, <2>2 DEF SendBegin, MessageSet
  <2>4. SizeInv'
    BY SMT, <1>1, <2>1, <2>3 DEF SendBegin, get_max_fragment_size,
          first_fragment_size, fragment_size, AlignDown, RESERVED_SIZE, HEADER_SIZE
  <2> QED BY <2>3, <2>4
<1>2. ASSUME NEW s \in Senders, NEW r, Return(s, r), UNCHANGED msg
      PROVE  SenderTypeOK' /\ SizeInv'
  BY SMT, <1>2 DEF Return
<1>3. ASSUME NEW s \in Senders, pc[s] = "fragment", Advance(s)
      PROVE  SenderTypeOK' /\ SizeInv'
  <2>1. /\ EndPosition(s) \in Nat
        /\ byte_position[s] < EndPosition(s)
        /\ byte_position[s] \in Nat
    BY <1>3, TriedFits
  <2>2. CASE EndPosition(s) < msg[s].len
    <3> DEFINE e == EndPosition(s)
    <3>1. /\ byte_position' = [byte_position EXCEPT ![s] = e]
          /\ UNCHANGED <<pc, sendbuf_size, msg>>
      BY <1>3, <2>2 DEF Advance
    <3>2. e \in Nat /\ e # 0 /\ e < msg[s].len
      BY SMT, <2>1, <2>2
    <3> HIDE DEF e
    <3> QED
      BY <1>3, <3>1, <3>2 DEF get_max_fragment_size, first_fragment_size,
           fragment_size, AlignDown, RESERVED_SIZE, HEADER_SIZE
  <2>3. CASE ~(EndPosition(s) < msg[s].len)
    BY <1>2, <1>3, <2>3 DEF Advance
  <2> QED BY <2>2, <2>3
<1>4. ASSUME NEW s \in Senders, SendShrinks(s)
      PROVE  SenderTypeOK' /\ SizeInv'
  <2> DEFINE t == TriedSize(s)
             b == sendbuf_size[s]
  <2>1. /\ pc[s] \in {"whole", "fragment"}
        /\ t \in Nat
        /\ t <= b - RESERVED_SIZE
        /\ CanDownsize(t)
        /\ b \in Nat
        /\ b <= SYSTEM_SENDBUF_SIZE
        /\ msg[s].len \in Nat
        /\ byte_position[s] = 0 => t <= msg[s].len
    BY SMT, <1>4, TriedFits DEF SendShrinks, Sending, TriedSize, MessageSet
  <2>2. downsize(b, t) \in 1000 .. b /\ downsize(b, t) < t
    BY SMT, <2>1, Downsize
  <2>3. first_fragment_size(downsize(b, t)) < t
    BY <2>1, DownsizedFirstFragment
  <2>4. SenderTypeOK'
    BY SMT, <1>4, <2>2 DEF SendShrinks
  <2>5. sendbuf_size'[s] = downsize(b, t)
    BY <1>4 DEF SendShrinks
  <2>6. SizeInv'
    BY SMTT(30), <1>4, <2>1, <2>2, <2>3, <2>4, <2>5 DEF SendShrinks, get_max_fragment_size,
          first_fragment_size, fragment_size, AlignDown, RESERVED_SIZE, HEADER_SIZE
  <2> QED BY <2>4, <2>6
<1>5. ASSUME NEW s \in Senders, DropSender(s)
      PROVE  SenderTypeOK' /\ SizeInv'
  BY SMT, <1>5 DEF DropSender
<1>6. CASE UNCHANGED senderVars
  BY <1>6 DEF senderVars
<1>7. ASSUME NEW s \in Senders, \/ SendWhole(s)
                                \/ SendBrokenPipe(s)
                                \/ SendFails(s)
      PROVE  SenderTypeOK' /\ SizeInv'
  BY <1>2, <1>7 DEF SendWhole, SendBrokenPipe, SendFails
<1>8. ASSUME NEW s \in Senders, SendFirstFragment(s) \/ SendFollowupFragment(s)
      PROVE  SenderTypeOK' /\ SizeInv'
  BY <1>3, <1>8 DEF SendFirstFragment, SendFollowupFragment
<1> QED
  BY <1>1, <1>4, <1>5, <1>6, <1>7, <1>8, Zenon
     DEF Next, vars, RecvWhole, RecvFirst, RecvFollowup, RecvBroken, RecvFailed,
         RecvClosed, DropReceiver

-----------------------------------------------------------------------------
(* Chains of chunks, and what a sender's progress does to entries *)

\* Sequences as functions: what Tail and Append do to every position.
LEMMA TailFacts ==
  ASSUME NEW S, NEW q \in Seq(S), q # <<>>
  PROVE  /\ Len(q) \in Nat \ {0}
         /\ DOMAIN q = 1 .. Len(q)
         /\ 1 \in DOMAIN q
         /\ Head(q) = q[1]
         /\ q[1] \in S
         /\ Tail(q) \in Seq(S)
         /\ Len(Tail(q)) = Len(q) - 1
         /\ DOMAIN Tail(q) = 1 .. Len(q) - 1
         /\ \A i \in DOMAIN Tail(q) : Tail(q)[i] = q[i + 1] /\ i + 1 \in DOMAIN q
         /\ Tail(q) = <<>> <=> Len(q) = 1
<1>1. /\ Len(q) \in Nat \ {0}
      /\ DOMAIN q = 1 .. Len(q)
  BY EmptySeq, LenProperties
<1>2. Head(q) = q[1] /\ q[1] \in S
  BY SMT, <1>1
<1>3. /\ Tail(q) \in Seq(S)
      /\ Len(Tail(q)) = Len(q) - 1
      /\ \A i \in 1 .. Len(Tail(q)) : Tail(q)[i] = q[i + 1]
  BY HeadTailProperties
<1>4. DOMAIN Tail(q) = 1 .. Len(q) - 1
  BY <1>3, LenProperties
<1>5. Tail(q) = <<>> <=> Len(q) = 1
  BY SMT, <1>1, <1>3, EmptySeq
<1> QED BY SMT, <1>1, <1>2, <1>3, <1>4, <1>5

\* What is appended to a sequence is its last element, and the others stay.
LEMMA AppendFacts ==
  ASSUME NEW S, NEW q \in Seq(S), NEW e \in S
  PROVE  /\ Append(q, e) \in Seq(S)
         /\ Append(q, e) # <<>>
         /\ Len(q) \in Nat
         /\ DOMAIN q = 1 .. Len(q)
         /\ Len(Append(q, e)) = Len(q) + 1
         /\ DOMAIN Append(q, e) = 1 .. Len(q) + 1
         /\ \A i \in DOMAIN q : Append(q, e)[i] = q[i]
         /\ Append(q, e)[Len(q) + 1] = e
BY SMT, AppendProperties, LenProperties

\* send() adds a fragment at the end of a dedicated channel, and recv() at the
\* end of its buffer.
LEMMA ChainAppend ==
  ASSUME NEW d \in Seq(ChunkSet), NEW m \in MessageSet, NEW a \in Nat, NEW t \in Nat,
         Chain(d, m, a), EndOf(d, a) <= t, t <= m.len
  PROVE  /\ Chain(Append(d, Chunk(m, EndOf(d, a), t)), m, a)
         /\ EndOf(Append(d, Chunk(m, EndOf(d, a), t)), a) = t
<1> DEFINE c == Chunk(m, EndOf(d, a), t)
           n == Append(d, c)
<1>1. c.msg = m /\ c.from = EndOf(d, a) /\ c.to = t
  BY DEF Chunk
<1> HIDE DEF c
<1>2. /\ DOMAIN n = 1 .. Len(d) + 1
      /\ DOMAIN d = 1 .. Len(d)
      /\ Len(d) \in Nat
      /\ Len(n) = Len(d) + 1
      /\ n[Len(d) + 1] = c
      /\ \A i \in 1 .. Len(d) : n[i] = d[i]
      /\ n # <<>>
  BY SMT
<1> HIDE DEF n
<1>3. EndOf(n, a) = t
  BY <1>1, <1>2 DEF EndOf
<1>4. n[1].from = a
  BY SMT, <1>1, <1>2 DEF Chain, EndOf
<1>5. ASSUME NEW i \in DOMAIN n
      PROVE  /\ n[i].msg = m
             /\ n[i].from <= n[i].to
             /\ n[i].to <= m.len
             /\ i > 1 => n[i].from = n[i - 1].to
  <2>1. CASE i = Len(d) + 1
    BY SMT, <1>1, <1>2, <2>1 DEF EndOf
  <2>2. CASE i \in DOMAIN d
    <3>1. n[i] = d[i] /\ (i > 1 => n[i - 1] = d[i - 1])
      BY SMT, <1>2, <2>2
    <3> QED BY <3>1, <2>2 DEF Chain
  <2> QED BY SMT, <1>2, <2>1, <2>2
<1> QED BY <1>3, <1>4, <1>5 DEF Chain, n, c

\* recv() takes the first fragment off a dedicated channel.
LEMMA ChainTail ==
  ASSUME NEW d \in Seq(ChunkSet), NEW m \in MessageSet, NEW a \in Nat,
         Chain(d, m, a), d # <<>>
  PROVE  /\ Head(d) \in ChunkSet
         /\ Head(d).msg = m
         /\ Head(d).from = a
         /\ Head(d).from <= Head(d).to
         /\ Head(d).to <= m.len
         /\ Chain(Tail(d), m, Head(d).to)
         /\ EndOf(Tail(d), Head(d).to) = EndOf(d, a)
<1> DEFINE n == Tail(d)
<1>1. /\ Len(d) \in Nat \ {0}
      /\ DOMAIN d = 1 .. Len(d)
      /\ Head(d) = d[1]
      /\ d[1] \in ChunkSet
      /\ n \in Seq(ChunkSet)
      /\ Len(n) = Len(d) - 1
      /\ DOMAIN n = 1 .. Len(d) - 1
      /\ \A i \in 1 .. Len(d) - 1 : n[i] = d[i + 1]
      /\ n = <<>> <=> Len(d) = 1
  BY TailFacts
<1> HIDE DEF n
<1>2. /\ d[1].msg = m
      /\ d[1].from = a
      /\ d[1].from <= d[1].to
      /\ d[1].to <= m.len
  BY SMT, <1>1 DEF Chain
<1>3. EndOf(n, d[1].to) = EndOf(d, a)
  BY SMT, <1>1 DEF EndOf
<1>4. Chain(n, m, d[1].to)
  <2>1. ASSUME NEW i \in DOMAIN n
        PROVE  /\ n[i].msg = m
               /\ n[i].from <= n[i].to
               /\ n[i].to <= m.len
               /\ i > 1 => n[i].from = n[i - 1].to
    <3>1. /\ n[i] = d[i + 1] /\ i + 1 \in DOMAIN d /\ i + 1 > 1 /\ (i + 1) - 1 = i
          /\ i > 1 => n[i - 1] = d[i]
      BY SMT, <1>1
    <3>2. /\ d[i + 1].msg = m
          /\ d[i + 1].from <= d[i + 1].to
          /\ d[i + 1].to <= m.len
          /\ d[i + 1].from = d[i].to
      BY <3>1, ZenonT(60) DEF Chain
    <3> QED BY <3>1, <3>2
  <2>2. n # <<>> => n[1].from = d[1].to
    <3> SUFFICES ASSUME n # <<>> PROVE n[1].from = d[1].to
      OBVIOUS
    <3>1. n[1] = d[2] /\ 2 \in DOMAIN d /\ 2 - 1 = 1 /\ 2 > 1
      BY SMT, <1>1
    <3> QED BY <3>1 DEF Chain
  <2> QED BY <2>1, <2>2 DEF Chain
<1> QED BY <1>1, <1>2, <1>3, <1>4 DEF n

\* What a sender does matters only to the entry of the message it is sending.
LEMMA EntryOfOther ==
  ASSUME NEW e, NEW d, NEW p, NEW q, NEW m, NEW b, NEW c,
         Entry(e, d, p, m, b), e.msg.id # m.id
  PROVE  Entry(e, d, q, m, c)
BY DEF Entry, Fresh

\* When send() has returned, what it sent stays what it was.
LEMMA EntryReturned ==
  ASSUME NEW e, NEW d, NEW p, NEW q \in {"idle", "closed"}, NEW m, NEW b, NEW c,
         Entry(e, d, p, m, b)
  PROVE  Entry(e, d, q, m, c)
BY DEF Entry, Fresh

\* The next send() of a sender does not concern what it sent before.
LEMMA EntryBegun ==
  ASSUME NEW e, NEW d, NEW p, NEW q, NEW m, NEW n, NEW b,
         e.msg.id[2] \in Nat, m.id[2] \in Nat, n.id[2] = m.id[2] + 1,
         Entry(e, d, p, m, b)
  PROVE  Entry(e, d, q, n, b)
BY SMT DEF Entry, Fresh

-----------------------------------------------------------------------------
(* The bytes: steps of the senders *)

\* Queued packets and the buffer are of messages.
LEMMA TypedEntries ==
  ASSUME TypeOK
  PROVE  /\ \A k \in DOMAIN queue : queue[k].msg \in MessageSet /\ queue[k].len \in Nat
         /\ partial # <<>> => partial[1].msg \in MessageSet /\ partial[1].len \in Nat
<1>1. \A k \in DOMAIN queue : queue[k] \in PacketSet
  BY SMT DEF TypeOK
<1>2. partial # <<>> => partial[1] \in BufferSet
  BY SMT DEF TypeOK
<1> QED BY <1>1, <1>2 DEF PacketSet, BufferSet

\* The fields of a message.
LEMMA TypedId ==
  ASSUME NEW m \in MessageSet
  PROVE  /\ m.id \in Ids
         /\ m.id[1] \in Senders
         /\ m.id[2] \in Nat
         /\ m.id = <<m.id[1], m.id[2]>>
         /\ m.len \in Nat
BY SMT, ChannelAssumption DEF MessageSet, Ids

\* A step that leaves the sockets and the buffer of recv() alone has to respect
\* what they contain.
LEMMA EntriesKept ==
  ASSUME TypeOK, QueueInv, PartialInv, UNCHANGED <<queue, partial>>,
         \A e : e.msg \in MessageSet /\ e.len \in Nat /\ InFlight(e) => InFlight(e)'
  PROVE  QueueInv' /\ PartialInv'
<1>1. QueueInv'
  BY TypedEntries, Zenon DEF QueueInv, InFlight
<1>2. PartialInv'
  BY TypedEntries, Zenon DEF PartialInv, InFlight
<1> QED BY <1>1, <1>2

\* The types of the senders are part of TypeOK.
LEMMA SenderTyped == ASSUME TypeOK PROVE SenderTypeOK
BY DEF TypeOK, SenderTypeOK

\* send() begins, gives up, or shrinks its packets; a sender is dropped.
LEMMA QuietSend ==
  ASSUME DataInv, SenderTypeOK', SizeInv', NEW s \in Senders,
         NEW q, NEW c, NEW m,
         pc' = [pc EXCEPT ![s] = q],
         byte_position' = [byte_position EXCEPT ![s] = c],
         msg' = [msg EXCEPT ![s] = m],
         UNCHANGED <<queue, dedicated, acked, receiverVars>>,
         \/ m = msg[s] /\ q \in {"idle", "closed"}
         \/ m = msg[s] /\ q = "fragment" /\ c = byte_position[s] /\ Sending(s)
         \/ pc[s] = "idle" /\ m.id[2] = msg[s].id[2] + 1 /\ c = byte_position[s]
              /\ c = 0 /\ q \in {"whole", "fragment"} /\ m.id[1] = s
  PROVE  DataInv'
<1> USE DEF DataInv
<1>1. TypeOK'
  BY DEF TypeOK, SenderTypeOK, receiverVars
<1>2. /\ pc \in [Senders -> {"idle", "whole", "fragment", "closed"}]
      /\ msg \in [Senders -> MessageSet]
      /\ byte_position \in [Senders -> Nat]
  BY DEF TypeOK
<1>3. msg[s].id[2] \in Nat /\ msg[s].id[1] = s
  BY <1>2, TypedId DEF SizeInv
<1>4. ASSUME NEW e, e.msg \in MessageSet, InFlight(e)
      PROVE  InFlight(e)'
  <2> DEFINE i == e.msg.id
  <2>1. i \in Ids /\ i[1] \in Senders /\ i[2] \in Nat
    BY <1>4, TypedId
  <2>2. Entry(e, dedicated[i], pc[i[1]], msg[i[1]], byte_position[i[1]])
    BY <1>4 DEF InFlight
  <2>3. Entry(e, dedicated[i], pc'[i[1]], msg'[i[1]], byte_position'[i[1]])
    <3>1. CASE i[1] # s
      BY SMT, <2>1, <2>2, <3>1
    <3>2. CASE i[1] = s
      <4>1. pc'[s] = q /\ msg'[s] = m /\ byte_position'[s] = c
        BY <1>2
      <4>2. CASE m = msg[s] /\ q \in {"idle", "closed"}
        BY SMT, <2>2, <3>2, <4>1, <4>2, EntryReturned
      <4>3. CASE m = msg[s] /\ q = "fragment" /\ c = byte_position[s] /\ Sending(s)
        <5>1. CASE pc[s] = "fragment"
          BY <2>2, <3>2, <4>1, <4>3, <5>1
        <5>2. CASE pc[s] = "whole"
          <6>1. i # msg[s].id
            BY <2>2, <3>2, <5>2 DEF Entry, Fresh
          <6> QED BY SMT, <2>2, <3>2, <4>1, <4>3, <6>1, EntryOfOther
        <5> QED BY <4>3, <5>1, <5>2 DEF Sending
      <4>4. CASE /\ m.id[2] = msg[s].id[2] + 1
                 /\ c = byte_position[s]
        BY SMT, <1>3, <2>1, <2>2, <3>2, <4>1, <4>4, EntryBegun
      <4> QED BY <4>2, <4>3, <4>4
    <3> QED BY <3>1, <3>2
  <2> QED BY <2>3 DEF InFlight
<1>5. QueueInv' /\ PartialInv'
  BY <1>4, EntriesKept DEF receiverVars
<1>6. DedicatedInv'
  <2>1. ASSUME NEW i \in Ids, FreshId(i)'
        PROVE  FreshId(i)
    <3>1. i[1] \in Senders /\ i[2] \in Nat
      BY SMT, ChannelAssumption DEF Ids
    <3>2. CASE i[1] # s
      BY <1>2, <2>1, <3>1, <3>2 DEF FreshId
    <3>3. CASE i[1] = s
      <4>1. pc'[s] = q /\ msg'[s] = m /\ byte_position'[s] = c
        BY <1>2
      <4>2. Fresh(i, q, m, c)
        BY <2>1, <3>3, <4>1 DEF FreshId
      <4>3. Fresh(i, pc[s], msg[s], byte_position[s])
        BY SMT, <1>3, <3>1, <4>2 DEF Fresh, Sending
      <4> QED BY <3>3, <4>3 DEF FreshId
    <3> QED BY <3>2, <3>3
  <2> QED BY <2>1 DEF DedicatedInv
<1>7. DeliveredInv'
  BY DEF DeliveredInv, receiverVars
<1> QED BY <1>1, <1>5, <1>6, <1>7

\* The first or only packet of a message enters the channel.
LEMMA Enqueued ==
  ASSUME DataInv, SenderTypeOK', SizeInv', NEW s \in Senders,
         NEW q, NEW c, NEW end \in Nat, NEW fds \in Seq(Fds),
         FreshId(msg[s].id),
         pc' = [pc EXCEPT ![s] = q],
         byte_position' = [byte_position EXCEPT ![s] = c],
         queue' = Append(queue, FirstPacket(msg[s], end, fds)),
         UNCHANGED <<msg, dedicated, receiverVars>>,
         acked' \in SUBSET Ids,
         end <= msg[s].len,
         Packet(FirstPacket(msg[s], end, fds)),
         q = "idle" \/ (q = "fragment" /\ c = end /\ c # 0)
  PROVE  DataInv'
<1> USE DEF DataInv
<1> DEFINE p == FirstPacket(msg[s], end, fds)
           id == msg[s].id
<1>1. /\ pc \in [Senders -> {"idle", "whole", "fragment", "closed"}]
      /\ msg \in [Senders -> MessageSet]
      /\ byte_position \in [Senders -> Nat]
      /\ queue \in Seq(PacketSet)
  BY DEF TypeOK
<1>2. /\ msg[s] \in MessageSet
      /\ id[2] \in Nat
      /\ id[1] = s
      /\ id \in Ids
      /\ msg[s].len \in Nat
  BY <1>1, TypedId DEF SizeInv
<1>3. /\ p.msg = msg[s]
      /\ p.total = msg[s].len
      /\ p.len = end
      /\ p \in PacketSet
  BY <1>2 DEF FirstPacket, PacketSet
<1> HIDE DEF p
<1>4. /\ queue' \in Seq(PacketSet)
      /\ Len(queue) \in Nat
      /\ DOMAIN queue = 1 .. Len(queue)
      /\ DOMAIN queue' = 1 .. Len(queue) + 1
      /\ \A i \in DOMAIN queue : queue'[i] = queue[i]
      /\ queue'[Len(queue) + 1] = p
  BY SMT, <1>1, <1>3, AppendFacts DEF p
<1>5. TypeOK'
  BY <1>4 DEF TypeOK, SenderTypeOK, receiverVars
<1>6. ASSUME NEW e, e.msg \in MessageSet, InFlight(e)
      PROVE  e.msg.id # id /\ InFlight(e)'
  <2> DEFINE i == e.msg.id
  <2>1. i \in Ids /\ i[1] \in Senders
    BY <1>6, TypedId
  <2>2. Entry(e, dedicated[i], pc[i[1]], msg[i[1]], byte_position[i[1]])
    BY <1>6, Zenon DEF InFlight
  <2>3. i # id
    BY <1>2, <2>2, Zenon DEF Entry, FreshId
  <2>4. Entry(e, dedicated[i], pc'[i[1]], msg[i[1]], byte_position'[i[1]])
    BY SMT, <1>1, <1>2, <2>1, <2>2, <2>3, EntryOfOther
  <2> QED BY <2>3, <2>4 DEF InFlight
<1>7. InFlight(p)'
  <2>1. dedicated[id] = <<>>
    BY <1>2 DEF DedicatedInv
  <2>2. pc'[s] = q /\ byte_position'[s] = c /\ msg'[s] = msg[s] /\ dedicated'[id] = <<>>
    BY <1>1, <2>1
  <2>3. Chain(<<>>, p.msg, p.len) /\ EndOf(<<>>, p.len) = p.len
    BY SMT DEF Chain, EndOf
  <2>4. ~Fresh(id, q, msg[s], c)
    BY SMT, <1>2 DEF Fresh
  <2>5. Entry(p, <<>>, q, msg[s], c)
    BY <1>2, <1>3, <2>3, <2>4 DEF Entry
  <2>6. p.msg.id[1] = s /\ p.msg.id = id
    BY <1>2, <1>3
  <2>7. /\ dedicated'[p.msg.id] = <<>>
        /\ pc'[p.msg.id[1]] = q
        /\ msg'[p.msg.id[1]] = msg[s]
        /\ byte_position'[p.msg.id[1]] = c
    BY <2>2, <2>6
  <2>8. Entry(p, dedicated'[p.msg.id], pc'[p.msg.id[1]], msg'[p.msg.id[1]],
              byte_position'[p.msg.id[1]])
    BY <2>5, <2>7
  <2>9. p' = p
    BY DEF p
  <2> QED BY <2>8, <2>9 DEF InFlight
<1>8. QueueInv'
  <2>1. ASSUME NEW k \in DOMAIN queue'
        PROVE  /\ InFlight(queue[k])'
               /\ Packet(queue'[k])
    <3>1. CASE k \in DOMAIN queue
      BY <1>4, <1>6, <3>1, TypedEntries, Zenon DEF QueueInv, InFlight
    <3>2. CASE k = Len(queue) + 1
      <4>1. Packet(p)
        BY DEF p
      <4>2. queue'[k] = p
        BY <1>4, <3>2
      <4>3. p' = p
        BY DEF p
      <4> QED BY <1>7, <4>1, <4>2, <4>3, Zenon DEF InFlight
    <3> QED BY SMT, <1>4, <3>1, <3>2
  <2>2. \A k \in DOMAIN queue : queue[k].msg.id # p.msg.id
    BY <1>3, <1>6, TypedEntries, Zenon DEF QueueInv
  <2>3. ASSUME NEW j \in DOMAIN queue', NEW k \in DOMAIN queue',
               queue'[j].msg.id = queue'[k].msg.id
        PROVE  j = k
    BY SMT, <1>4, <2>2, <2>3 DEF QueueInv
  <2> QED BY <2>1, <2>3 DEF QueueInv
<1>9. PartialInv'
  <2> SUFFICES ASSUME partial # <<>>
               PROVE  /\ InFlight(partial[1])'
                      /\ \A k \in DOMAIN queue' : queue'[k].msg.id # partial[1].msg.id
    BY DEF PartialInv, receiverVars
  <2>1. partial[1].msg.id # id
    BY <1>6, TypedEntries, Zenon DEF PartialInv
  <2>2. InFlight(partial[1])'
    BY <1>6, TypedEntries, Zenon DEF PartialInv, receiverVars, InFlight
  <2> QED BY SMT, <1>3, <1>4, <2>1, <2>2 DEF PartialInv
<1>10. DedicatedInv'
  <2>1. ASSUME NEW i \in Ids, FreshId(i)'
        PROVE  FreshId(i)
    <3>1. i[1] \in Senders
      BY DEF Ids
    <3>2. CASE i[1] # s
      BY <1>1, <2>1, <3>1, <3>2 DEF FreshId
    <3>3. CASE i[1] = s
      <4>1. Fresh(i, q, msg[s], c)
        BY <1>1, <2>1, <3>3 DEF FreshId
      <4>2. Fresh(i, pc[s], msg[s], byte_position[s])
        BY <4>1 DEF Fresh
      <4> QED BY <3>3, <4>2 DEF FreshId
    <3> QED BY <3>2, <3>3
  <2> QED BY <2>1 DEF DedicatedInv
<1>11. DeliveredInv'
  BY DEF DeliveredInv, receiverVars
<1> QED BY <1>5, <1>8, <1>9, <1>10, <1>11

\* A followup fragment enters the dedicated channel of its message.
LEMMA FollowedUp ==
  ASSUME DataInv, SenderTypeOK', SizeInv', NEW s \in Senders, SendFollowupFragment(s)
  PROVE  DataInv'
<1> USE DEF DataInv
<1> DEFINE id == msg[s].id
           end == EndPosition(s)
           new == Chunk(msg[s], byte_position[s], end)
<1>1. /\ pc \in [Senders -> {"idle", "whole", "fragment", "closed"}]
      /\ msg \in [Senders -> MessageSet]
      /\ byte_position \in [Senders -> Nat]
      /\ dedicated \in [Ids -> Seq(ChunkSet)]
      /\ acked \in SUBSET Ids
  BY DEF TypeOK
<1>2. /\ msg[s] \in MessageSet
      /\ id[1] = s
      /\ id \in Ids
      /\ msg[s].len \in Nat
      /\ byte_position[s] \in Nat
  BY <1>1, TypedId, Zenon DEF SizeInv
<1>3. /\ end \in Nat
      /\ byte_position[s] < end
      /\ end <= msg[s].len
  BY TriedFits, SenderTyped DEF SendFollowupFragment
<1>4. /\ pc[s] = "fragment"
      /\ byte_position[s] # 0
      /\ dedicated' = [dedicated EXCEPT ![id] = Append(@, new)]
      /\ UNCHANGED <<msg, queue, receiverVars>>
      /\ acked' \in SUBSET Ids
  BY SMT, <1>1, <1>2 DEF SendFollowupFragment, Advance, Return
<1>5. PICK q, c : /\ pc' = [pc EXCEPT ![s] = q]
                  /\ byte_position' = [byte_position EXCEPT ![s] = c]
                  /\ q = "idle" \/ (q = "fragment" /\ c = end)
  <2>1. CASE end < msg[s].len
    <3>1. /\ pc' = [pc EXCEPT ![s] = "fragment"]
          /\ byte_position' = [byte_position EXCEPT ![s] = end]
      BY <1>1, <1>4, <2>1 DEF SendFollowupFragment, Advance
    <3> QED BY <3>1, Zenon
  <2>2. CASE ~(end < msg[s].len)
    <3>1. /\ pc' = [pc EXCEPT ![s] = "idle"]
          /\ byte_position' = [byte_position EXCEPT ![s] = 0]
      BY <2>2 DEF SendFollowupFragment, Advance, Return
    <3> QED BY <3>1, Zenon
  <2> QED BY <2>1, <2>2
<1>6. new \in ChunkSet /\ new.to = end /\ new.from = byte_position[s]
  BY <1>2, <1>3, Zenon DEF ChunkSet, Chunk
<1>7. /\ dedicated'[id] = Append(dedicated[id], new)
      /\ \A i \in Ids : i # id => dedicated'[i] = dedicated[i]
      /\ dedicated' \in [Ids -> Seq(ChunkSet)]
  BY <1>1, <1>2, <1>4, <1>6, AppendFacts
<1>8. new.to - new.from <= fragment_size(SYSTEM_SENDBUF_SIZE)
  <2>1. end - byte_position[s] <= sendbuf_size[s] - RESERVED_SIZE
    BY <1>4, TriedFits, SenderTyped
  <2>2. /\ sendbuf_size[s] <= SYSTEM_SENDBUF_SIZE
        /\ sendbuf_size[s] \in Nat
    BY SMT, SendbufAssumption DEF SizeInv
  <2> QED BY SMT, <1>2, <1>3, <1>6, <2>1, <2>2, SendbufAssumption DEF fragment_size, RESERVED_SIZE
<1> HIDE DEF id, end
<1>9. TypeOK'
  BY <1>4, <1>7 DEF TypeOK, SenderTypeOK, receiverVars
<1>10. ASSUME NEW e, e.msg \in MessageSet, e.len \in Nat, InFlight(e)
       PROVE  InFlight(e)'
  <2> DEFINE i == e.msg.id
  <2>1. i \in Ids /\ i[1] \in Senders
    BY <1>10, TypedId
  <2>2. Entry(e, dedicated[i], pc[i[1]], msg[i[1]], byte_position[i[1]])
    BY <1>10 DEF InFlight
  <2>3. CASE i # id
    <3>1. Entry(e, dedicated[i], pc'[i[1]], msg[i[1]], byte_position'[i[1]])
      <4>1. CASE i[1] # s
        BY <1>1, <1>5, <2>1, <2>2, <4>1, Zenon
      <4>2. CASE i[1] = s
        BY SMT, <1>2, <2>2, <2>3, <4>2, EntryOfOther DEF id
      <4> QED BY <4>1, <4>2, Zenon
    <3>2. dedicated'[i] = dedicated[i] /\ msg' = msg
      BY <1>4, <1>7, <2>1, <2>3
    <3> QED BY <3>1, <3>2, Zenon DEF InFlight
  <2>4. CASE i = id
    <3>1. i[1] = s
      BY <1>2, <2>4, Zenon
    <3>2. Entry(e, dedicated[id], "fragment", msg[s], byte_position[s])
      BY <1>4, <2>2, <2>4, <3>1, Zenon
    <3>3. /\ e.msg = msg[s]
          /\ Chain(dedicated[id], msg[s], e.len)
          /\ EndOf(dedicated[id], e.len) = byte_position[s]
      BY <2>4, <3>2 DEF Entry, id
    <3>4. dedicated[id] \in Seq(ChunkSet)
      BY <1>1, <1>2, Zenon
    <3>5. /\ Chain(dedicated'[id], msg[s], e.len)
          /\ EndOf(dedicated'[id], e.len) = end
      <4>1. EndOf(dedicated[id], e.len) <= end
        BY SMT, <1>2, <1>3, <3>3
      <4>2. dedicated'[id] = Append(dedicated[id], Chunk(msg[s], EndOf(dedicated[id], e.len), end))
        BY <1>7, <3>3, Zenon
      <4> QED BY <1>2, <1>3, <1>10, <3>3, <3>4, <4>1, <4>2, ChainAppend, SMTT(30)
    <3>6. ~Fresh(id, q, msg[s], c)
      BY SMT, <1>2, <1>3, <1>5, <3>2, <2>4 DEF Entry, Fresh
    <3>7. Entry(e, dedicated'[id], q, msg[s], c)
      BY <1>5, <2>4, <3>2, <3>3, <3>5, <3>6 DEF Entry
    <3>8. pc'[s] = q /\ byte_position'[s] = c /\ msg'[s] = msg[s]
      BY <1>1, <1>4, <1>5, Zenon
    <3> QED BY <2>4, <3>1, <3>7, <3>8 DEF InFlight
  <2> QED BY <2>3, <2>4
<1>11. QueueInv' /\ PartialInv'
  BY <1>4, <1>10, EntriesKept, Zenon DEF receiverVars
<1>12. DedicatedInv'
  <2>1. ASSUME NEW i \in Ids, FreshId(i)'
        PROVE  FreshId(i) /\ i # id
    <3>1. i[1] \in Senders
      BY DEF Ids
    <3>2. CASE i[1] # s
      BY <1>1, <1>2, <1>4, <1>5, <2>1, <3>1, <3>2 DEF FreshId
    <3>3. CASE i[1] = s
      <4>1. Fresh(i, q, msg[s], c)
        BY <1>1, <1>4, <1>5, <2>1, <3>3 DEF FreshId
      <4>2. Fresh(i, pc[s], msg[s], byte_position[s]) /\ i # id
        <5>1. msg[s].id[2] \in Nat
          BY <1>2, TypedId
        <5> QED BY SMT, <1>2, <1>3, <1>5, <4>1, <5>1 DEF Fresh, id
      <4> QED BY <3>3, <4>2 DEF FreshId
    <3> QED BY <3>2, <3>3
  <2>2. ASSUME NEW i \in Ids
        PROVE  /\ FreshId(i)' => dedicated'[i] = <<>>
               /\ \A k \in DOMAIN dedicated'[i] : Fits(dedicated'[i][k])
    <3>1. CASE i # id
      BY <1>7, <2>1, <3>1 DEF DedicatedInv
    <3>2. CASE i = id
      <4>1. Fits(new)
        BY <1>8 DEF Fits
      <4>2. \A k \in DOMAIN dedicated[id] : Fits(dedicated[id][k])
        BY <1>2 DEF DedicatedInv, id
      <4>3. dedicated[id] \in Seq(ChunkSet)
        BY <1>1, <1>2
      <4> HIDE DEF new
      <4>4. /\ DOMAIN dedicated[id] = 1 .. Len(dedicated[id])
            /\ DOMAIN dedicated'[id] = 1 .. Len(dedicated[id]) + 1
            /\ Len(dedicated[id]) \in Nat
            /\ \A k \in DOMAIN dedicated[id] : dedicated'[id][k] = dedicated[id][k]
            /\ dedicated'[id][Len(dedicated[id]) + 1] = new
        BY SMT, <1>6, <1>7, <4>3, AppendFacts
      <4>5. \A k \in DOMAIN dedicated'[id] : Fits(dedicated'[id][k])
        BY SMT, <4>1, <4>2, <4>4
      <4> QED BY <2>1, <3>2, <4>5
    <3> QED BY <3>1, <3>2
  <2> QED BY <2>2 DEF DedicatedInv
<1>13. DeliveredInv'
  BY <1>4 DEF DeliveredInv, receiverVars
<1> QED BY <1>9, <1>11, <1>12, <1>13

-----------------------------------------------------------------------------
(* The bytes: steps of the receiver *)

\* A packet that fits the room offered is not cut.
LEMMA NotCut ==
  ASSUME NEW c \in ChunkSet, NEW room \in Int, c.to <= c.from + room
  PROVE  Cut(c, room) = Chunk(c.msg, c.from, c.to)
BY DEF Cut, Chunk, ChunkSet, MinOf

\* The descriptors that arrive are descriptors.
LEMMA CutFdsTyped ==
  ASSUME NEW fds \in Seq(Fds)
  PROVE  CutFds(fds) \in Seq(Fds)
BY SMT, ChannelAssumption DEF CutFds, MinOf

\* The buffer that recv() builds from a first packet.
LEMMA FirstBufferFacts ==
  ASSUME NEW p \in PacketSet, Packet(p), p.len <= p.msg.len
  PROVE  LET b == FirstBuffer(p) IN
         /\ b \in BufferSet
         /\ b.msg = p.msg
         /\ b.total = p.total
         /\ b.len = p.len
         /\ b.channels = {i \in DOMAIN CutFds(p.fds) : IsSocket(CutFds(p.fds)[i])}
         /\ b.shmem = {i \in DOMAIN CutFds(p.fds) : ~IsSocket(CutFds(p.fds)[i])}
         /\ Buffer(b)
<1> DEFINE c == Chunk(p.msg, 0, p.len)
           fds == CutFds(p.fds)
           ch == {i \in DOMAIN fds : IsSocket(fds[i])}
           sh == {i \in DOMAIN fds : ~IsSocket(fds[i])}
<1>1. /\ p.msg \in MessageSet
      /\ p.total \in Nat
      /\ p.len \in Nat
      /\ p.fds \in Seq(Fds)
  BY DEF PacketSet
<1>2. c \in ChunkSet /\ c.to = p.len /\ c.from = 0 /\ c.msg = p.msg
  BY <1>1 DEF ChunkSet, Chunk
<1>3. Cut(c, get_max_fragment_size) = c
  BY SMT, <1>1, <1>2, NotCut, MaxFragmentSize, SendbufAssumption DEF Packet
<1>4. ch \in SUBSET Nat /\ sh \in SUBSET Nat
  <2>1. DOMAIN fds \subseteq Nat
    BY SMT, <1>1, CutFdsTyped
  <2> QED BY <2>1
<1>5. FirstBuffer(p) = [msg |-> p.msg, total |-> p.total, len |-> c.to, data |-> <<c>>,
                        channels |-> ch, shmem |-> sh]
  BY <1>3, Zenon DEF FirstBuffer
<1> HIDE DEF c, ch, sh
<1>6. /\ FirstBuffer(p) \in BufferSet
      /\ FirstBuffer(p).msg = p.msg
      /\ FirstBuffer(p).total = p.total
      /\ FirstBuffer(p).len = p.len
      /\ FirstBuffer(p).data = <<c>>
      /\ FirstBuffer(p).channels = ch
      /\ FirstBuffer(p).shmem = sh
  BY SMT, <1>1, <1>2, <1>4, <1>5 DEF BufferSet
<1>7. Buffer(FirstBuffer(p))
  BY SMT, <1>1, <1>2, <1>6, TypedId DEF Buffer, Chain, EndOf
<1> QED BY <1>6, <1>7 DEF ch, sh

\* recv() takes the dedicated channel out of the channels received.
LEMMA ChannelTaken ==
  ASSUME NEW b \in BufferSet, NEW i
  PROVE  LET n == [b EXCEPT !.channels = @ \ {i}] IN
         /\ n \in BufferSet
         /\ n.msg = b.msg /\ n.total = b.total /\ n.len = b.len /\ n.data = b.data
         /\ n.channels = b.channels \ {i} /\ n.shmem = b.shmem
BY Zenon DEF BufferSet

\* recv() appends a followup fragment to its buffer.
LEMMA Extended ==
  ASSUME NEW b \in BufferSet, NEW c \in ChunkSet,
         Buffer(b), b.total = b.msg.len,
         c.msg = b.msg, c.from = b.len, c.from <= c.to, c.to <= b.msg.len, Fits(c)
  PROVE  LET n == Extend(b, c) IN
         /\ n \in BufferSet
         /\ n.msg = b.msg /\ n.total = b.total /\ n.len = c.to
         /\ n.channels = b.channels /\ n.shmem = b.shmem
         /\ Buffer(n)
<1> DEFINE f == fragment_size(SYSTEM_SENDBUF_SIZE)
           room == MinOf(b.len + f, b.total) - b.len
           d == Append(b.data, Chunk(b.msg, b.len, c.to))
<1>1. /\ b.msg \in MessageSet
      /\ b.total \in Nat
      /\ b.len \in Nat
      /\ b.data \in Seq(ChunkSet)
      /\ c.to \in Nat
  BY DEF BufferSet, ChunkSet
<1>2. Chunk(b.msg, b.len, c.to) \in ChunkSet
  BY <1>1 DEF ChunkSet, Chunk
<1>3. d \in Seq(ChunkSet)
  BY <1>1, <1>2, AppendFacts
<1>4. f \in Int
  BY SMT, SendbufAssumption DEF fragment_size, RESERVED_SIZE
<1>5. room \in Int /\ c.to <= c.from + room
  <2> HIDE DEF f
  <2>1. c.to - c.from <= f
    BY DEF Fits, f
  <2> QED BY SMT, <1>1, <1>4, <2>1 DEF MinOf
<1>6. Cut(c, room) = Chunk(b.msg, b.len, c.to)
  BY <1>5, NotCut
<1> DEFINE got == Cut(c, room)
<1>7. Extend(b, c) = [b EXCEPT !.data = d, !.len = c.to]
  <2>1. Extend(b, c) = [b EXCEPT !.data = Append(b.data, got),
                                 !.len = b.len + (got.to - got.from)]
    BY DEF Extend
  <2>2. Append(b.data, got) = d
    BY <1>6
  <2>3. b.len + (got.to - got.from) = c.to
    <3>1. got.to = c.to /\ got.from = b.len
      BY SMT, <1>6 DEF Chunk
    <3> HIDE DEF got
    <3> QED BY SMT, <1>1, <3>1
  <2> HIDE DEF got, d
  <2> QED BY <2>1, <2>2, <2>3, Zenon
<1> HIDE DEF d
<1>8. /\ Extend(b, c) \in BufferSet
      /\ Extend(b, c).msg = b.msg
      /\ Extend(b, c).total = b.total
      /\ Extend(b, c).len = c.to
      /\ Extend(b, c).data = d
      /\ Extend(b, c).channels = b.channels
      /\ Extend(b, c).shmem = b.shmem
  <2> DEFINE n == Extend(b, c)
             l == c.to
  <2>1. n = [b EXCEPT !.data = d, !.len = l] /\ l \in Nat
    BY <1>1, <1>7
  <2> HIDE DEF n, l
  <2>2. /\ n \in BufferSet
        /\ n.msg = b.msg /\ n.total = b.total /\ n.len = l /\ n.data = d
        /\ n.channels = b.channels /\ n.shmem = b.shmem
    BY <1>3, <2>1, Zenon DEF BufferSet
  <2> QED BY <2>2 DEF n, l
<1>9. Chain(d, b.msg, 0) /\ EndOf(d, 0) = c.to
  BY SMT, <1>1, ChainAppend DEF Buffer, d
<1>10. d # <<>>
  BY SMT, <1>1, <1>2, AppendFacts DEF d
<1> QED BY <1>8, <1>9, <1>10 DEF Buffer

\* What QueueInv says of the packet that recv() takes.
LEMMA HeadPacket ==
  ASSUME TypeOK, QueueInv, queue # <<>>
  PROVE  /\ 1 \in DOMAIN queue
         /\ Head(queue) = queue[1]
         /\ queue[1] \in PacketSet
         /\ Packet(queue[1])
         /\ InFlight(queue[1])
         /\ queue[1].msg \in MessageSet
         /\ queue[1].total = queue[1].msg.len
         /\ queue[1].len <= queue[1].msg.len
<1>1. 1 \in DOMAIN queue /\ Head(queue) = queue[1] /\ queue[1] \in PacketSet
  BY TailFacts DEF TypeOK
<1>2. Packet(queue[1]) /\ InFlight(queue[1])
  BY <1>1, Zenon DEF QueueInv
<1>3. /\ queue[1].total = queue[1].msg.len
      /\ queue[1].len <= queue[1].total
  BY <1>2 DEF InFlight, Entry
<1> QED BY <1>1, <1>2, <1>3, TypedEntries

\* Taking the first packet keeps QueueInv.
LEMMA Dequeued ==
  ASSUME TypeOK, QueueInv, queue # <<>>, queue' = Tail(queue),
         UNCHANGED <<senderVars, dedicated>>
  PROVE  /\ QueueInv'
         /\ queue' \in Seq(PacketSet)
         /\ \A k \in DOMAIN queue' : /\ k + 1 \in DOMAIN queue
                                     /\ queue'[k] = queue[k + 1]
                                     /\ queue'[k].msg.id # queue[1].msg.id
<1>1. /\ queue' \in Seq(PacketSet)
      /\ 1 \in DOMAIN queue
      /\ DOMAIN queue' \subseteq Nat \ {0}
      /\ \A k \in DOMAIN queue' : queue'[k] = queue[k + 1] /\ k + 1 \in DOMAIN queue
  BY SMT, TailFacts DEF TypeOK
<1>2. ASSUME NEW k \in DOMAIN queue'
      PROVE  queue'[k].msg.id # queue[1].msg.id
  <2>1. k + 1 # 1
    BY SMT, <1>1
  <2> QED BY <1>1, <2>1 DEF QueueInv
<1>3. ASSUME NEW k \in DOMAIN queue'
      PROVE  InFlight(queue[k])' /\ Packet(queue'[k])
  <2>1. InFlight(queue[k + 1]) /\ Packet(queue[k + 1])
    BY <1>1 DEF QueueInv
  <2> QED BY <1>1, <2>1, Zenon DEF InFlight, senderVars
<1>4. ASSUME NEW j \in DOMAIN queue', NEW k \in DOMAIN queue',
             queue'[j].msg.id = queue'[k].msg.id
      PROVE  j = k
  <2>1. j + 1 = k + 1
    BY SMT, <1>1, <1>4 DEF QueueInv
  <2> QED BY SMT, <1>1, <2>1
<1> QED BY <1>1, <1>2, <1>3, <1>4 DEF QueueInv

\* recv() of a whole message keeps DataInv.
LEMMA RecvWholeStep ==
  ASSUME DataInv, RecvWhole
  PROVE  DataInv'
<1> USE DEF DataInv
<1> DEFINE p == queue[1]
           b == FirstBuffer(p)
<1>1. /\ queue # <<>>
      /\ partial = <<>>
      /\ b.total = b.len
      /\ delivered' = Append(delivered, b)
      /\ queue' = Tail(queue)
      /\ UNCHANGED <<senderVars, dedicated, acked, rx, partial, broken, failed, eof>>
  BY HeadPacket DEF RecvWhole
<1>2. /\ b \in BufferSet
      /\ b.msg = p.msg
      /\ b.total = p.total
      /\ b.len = p.len
      /\ Buffer(b)
  BY <1>1, HeadPacket, FirstBufferFacts
<1>3. b.len = b.msg.len
  BY <1>1, <1>2, HeadPacket
<1> HIDE DEF b
<1>4. delivered \in Seq(BufferSet)
  BY DEF TypeOK
<1>5. /\ delivered' \in Seq(BufferSet)
      /\ DOMAIN delivered' = 1 .. Len(delivered) + 1
      /\ DOMAIN delivered = 1 .. Len(delivered)
      /\ Len(delivered) \in Nat
      /\ \A k \in DOMAIN delivered : delivered'[k] = delivered[k]
      /\ delivered'[Len(delivered) + 1] = b
  BY SMT, <1>1, <1>2, <1>4, AppendFacts
<1>6. QueueInv' /\ queue' \in Seq(PacketSet)
  BY <1>1, Dequeued
<1>7. TypeOK'
  BY <1>1, <1>5, <1>6, Zenon DEF TypeOK, senderVars
<1>8. PartialInv'
  BY <1>1, Zenon DEF PartialInv
<1>9. SizeInv' /\ DedicatedInv'
  BY <1>1, Zenon DEF SizeInv, DedicatedInv, FreshId, senderVars
<1>10. DeliveredInv'
  BY SMT, <1>2, <1>3, <1>5 DEF DeliveredInv
<1> QED BY <1>6, <1>7, <1>8, <1>9, <1>10

\* recv() of a first fragment keeps DataInv.
LEMMA RecvFirstStep ==
  ASSUME DataInv, RecvFirst
  PROVE  DataInv'
<1> USE DEF DataInv
<1> DEFINE p == queue[1]
           b == FirstBuffer(p)
           last == LastSocket(CutFds(p.fds))
           n == [b EXCEPT !.channels = @ \ {last}]
<1>1. /\ queue # <<>>
      /\ partial = <<>>
      /\ b.total # b.len
      /\ UNCHANGED <<senderVars, dedicated, acked, delivered, broken, failed, eof>>
      /\ \/ rx' = "panicked" /\ partial' = <<>> /\ queue' = <<>>
         \/ rx' \in {"open", "foreign"} /\ partial' = <<n>> /\ queue' = Tail(queue)
  BY HeadPacket DEF RecvFirst
<1>2. /\ b \in BufferSet
      /\ b.msg = p.msg
      /\ b.total = p.total
      /\ b.len = p.len
      /\ Buffer(b)
  BY <1>1, HeadPacket, FirstBufferFacts
<1>3. SizeInv' /\ DedicatedInv' /\ DeliveredInv'
  BY <1>1 DEF SizeInv, DedicatedInv, DeliveredInv, FreshId, senderVars
<1>4. CASE rx' = "panicked" /\ partial' = <<>> /\ queue' = <<>>
  <2>1. TypeOK'
    BY SMT, <1>1, <1>4 DEF TypeOK, senderVars
  <2>2. QueueInv' /\ PartialInv'
    BY SMT, <1>4 DEF QueueInv, PartialInv
  <2> QED BY <1>3, <2>1, <2>2
<1>5. CASE rx' \in {"open", "foreign"} /\ partial' = <<n>> /\ queue' = Tail(queue)
  <2> HIDE DEF b, last
  <2>1. /\ n \in BufferSet
        /\ n.msg = p.msg
        /\ n.total = p.total
        /\ n.len = p.len
        /\ n.data = b.data
    BY <1>2, ChannelTaken, Zenon
  <2> HIDE DEF n
  <2>2. /\ QueueInv'
        /\ queue' \in Seq(PacketSet)
        /\ \A k \in DOMAIN queue' : queue'[k].msg.id # p.msg.id
    BY <1>1, <1>5, Dequeued
  <2>3. partial' \in Seq(BufferSet) /\ Len(partial') = 1 /\ partial'[1] = n
    BY SMT, <1>5, <2>1
  <2>4. TypeOK'
    BY SMT, <1>1, <1>5, <2>2, <2>3 DEF TypeOK, senderVars
  <2>5. n.len < n.total
    <3>1. p.len <= p.total /\ p.len \in Nat /\ p.total \in Nat
      BY <1>1, HeadPacket DEF PacketSet
    <3> QED BY SMT, <1>1, <1>2, <2>1, <3>1
  <2>6. Buffer(n)
    BY <1>2, <2>1 DEF Buffer
  <2>7. InFlight(partial[1])'
    <3>1. InFlight(p)
      BY <1>1, HeadPacket, Zenon
    <3>2. Entry(n, dedicated[n.msg.id], pc[n.msg.id[1]], msg[n.msg.id[1]],
                byte_position[n.msg.id[1]])
      BY <2>1, <3>1, ZenonT(60) DEF InFlight, Entry
    <3> QED BY <1>1, <2>3, <3>2 DEF InFlight, senderVars
  <2>8. PartialInv'
    BY <2>1, <2>2, <2>3, <2>5, <2>6, <2>7, Zenon DEF PartialInv
  <2> QED BY <1>3, <2>2, <2>4, <2>8
<1> QED BY <1>1, <1>4, <1>5

\* What recv() finds on the dedicated channel, and its buffer afterwards.
LEMMA NextFragment ==
  ASSUME DataInv, partial # <<>>, dedicated[partial[1].msg.id] # <<>>
  PROVE  LET b == partial[1]
             d == dedicated[b.msg.id]
             n == Extend(b, Head(d))
         IN /\ b \in BufferSet
            /\ d \in Seq(ChunkSet)
            /\ n \in BufferSet
            /\ n.msg = b.msg /\ n.total = b.total /\ n.len = Head(d).to
            /\ n.channels = b.channels /\ n.shmem = b.shmem
            /\ n.len <= n.total /\ n.total = n.msg.len
            /\ Buffer(n)
            /\ Chain(Tail(d), n.msg, n.len)
            /\ EndOf(Tail(d), n.len) = EndOf(d, b.len)
<1> USE DEF DataInv
<1> DEFINE b == partial[1]
           d == dedicated[b.msg.id]
           c == Head(d)
<1>1. b \in BufferSet /\ b.msg \in MessageSet /\ b.len \in Nat
  BY SMT, TypedEntries DEF TypeOK
<1>2. b.msg.id \in Ids
  BY <1>1, TypedId
<1>3. d \in Seq(ChunkSet)
  BY <1>2, Zenon DEF TypeOK
<1>4. /\ b.total = b.msg.len
      /\ Chain(d, b.msg, b.len)
      /\ Buffer(b)
  BY DEF PartialInv, InFlight, Entry
<1> HIDE DEF b, d
<1>5. d # <<>>
  BY DEF b, d
<1>6. /\ c \in ChunkSet
      /\ c.msg = b.msg
      /\ c.from = b.len
      /\ c.from <= c.to
      /\ c.to <= b.msg.len
      /\ Chain(Tail(d), b.msg, c.to)
      /\ EndOf(Tail(d), c.to) = EndOf(d, b.len)
  BY <1>1, <1>3, <1>4, <1>5, ChainTail
<1>7. Fits(c)
  <2>1. c = d[1] /\ 1 \in DOMAIN d
    BY <1>3, <1>5, TailFacts, Zenon
  <2> QED BY <1>2, <2>1 DEF DedicatedInv, d
<1> HIDE DEF c
<1>8. LET n == Extend(b, c) IN
      /\ n \in BufferSet
      /\ n.msg = b.msg /\ n.total = b.total /\ n.len = c.to
      /\ n.channels = b.channels /\ n.shmem = b.shmem
      /\ Buffer(n)
  BY <1>1, <1>4, <1>6, <1>7, Extended, Zenon
<1> DEFINE n == Extend(b, c)
<1>9. /\ n.len <= n.total /\ n.total = n.msg.len
      /\ Chain(Tail(d), n.msg, n.len)
      /\ EndOf(Tail(d), n.len) = EndOf(d, b.len)
  BY <1>4, <1>6, <1>8
<1> QED BY <1>1, <1>3, <1>8, <1>9, Zenon DEF b, d, c

\* recv() of a followup fragment keeps DataInv.
LEMMA RecvFollowupStep ==
  ASSUME DataInv, RecvFollowup
  PROVE  DataInv'
<1> USE DEF DataInv
<1> DEFINE b == partial[1]
           id == b.msg.id
           d == dedicated[id]
           n == Extend(b, Head(d))
<1>1. /\ partial # <<>>
      /\ d # <<>>
      /\ dedicated' = [dedicated EXCEPT ![id] = Tail(@)]
      /\ UNCHANGED <<senderVars, queue, acked, rx, broken, failed, eof>>
      /\ \/ n.len < n.total /\ partial' = <<n>> /\ UNCHANGED delivered
         \/ ~(n.len < n.total) /\ partial' = <<>> /\ delivered' = Append(delivered, n)
  BY Zenon DEF RecvFollowup
<1>2. /\ b \in BufferSet
      /\ d \in Seq(ChunkSet)
      /\ n \in BufferSet
      /\ n.msg = b.msg /\ n.total = b.total
      /\ n.len <= n.total /\ n.total = n.msg.len
      /\ Buffer(n)
      /\ Chain(Tail(d), n.msg, n.len)
      /\ EndOf(Tail(d), n.len) = EndOf(d, b.len)
  BY <1>1, NextFragment, ZenonT(60)
<1>3. /\ b.msg \in MessageSet
      /\ id \in Ids
      /\ InFlight(b)
      /\ \A k \in DOMAIN queue : queue[k].msg.id # id
  BY <1>1, TypedEntries, TypedId, Zenon DEF PartialInv
<1> HIDE DEF n, d, b
<1>4. /\ dedicated' \in [Ids -> Seq(ChunkSet)]
      /\ dedicated'[id] = Tail(d)
      /\ \A i \in Ids : i # id => dedicated'[i] = dedicated[i]
  <2>1. Tail(d) \in Seq(ChunkSet)
    BY <1>1, <1>2, TailFacts
  <2> HIDE DEF id
  <2> QED BY <1>1, <1>3, <2>1, Zenon DEF TypeOK, d
<1>5. QueueInv'
  <2>1. ASSUME NEW k \in DOMAIN queue'
        PROVE  InFlight(queue[k])' /\ Packet(queue'[k])
    <3>1. InFlight(queue[k]) /\ Packet(queue[k])
      BY <1>1, Zenon DEF QueueInv
    <3>2. dedicated'[queue[k].msg.id] = dedicated[queue[k].msg.id]
      BY <1>1, <1>3, <1>4, TypedEntries, TypedId, Zenon
    <3> QED BY <1>1, <3>1, <3>2, Zenon DEF InFlight, senderVars
  <2> QED BY <1>1, <2>1, Zenon DEF QueueInv
<1>6. SizeInv'
  BY <1>1 DEF SizeInv, senderVars
<1>7. DedicatedInv'
  <2>1. ASSUME NEW i \in Ids
        PROVE  /\ FreshId(i)' => dedicated'[i] = <<>>
               /\ \A k \in DOMAIN dedicated'[i] : Fits(dedicated'[i][k])
    <3>1. FreshId(i)' => FreshId(i)
      BY <1>1, Zenon DEF FreshId, senderVars
    <3>2. CASE i # id
      BY <1>4, <3>1, <3>2 DEF DedicatedInv
    <3>3. CASE i = id
      <4>1. ~FreshId(i)
        BY <1>3, <3>3 DEF InFlight, Entry, FreshId
      <4>2. \A k \in DOMAIN d : Fits(d[k])
        BY <1>3 DEF DedicatedInv, d
      <4>3. \A k \in DOMAIN Tail(d) : Fits(Tail(d)[k])
        BY SMT, <1>1, <1>2, <4>2, TailFacts
      <4> QED BY <1>4, <3>1, <3>3, <4>1, <4>3, Zenon
    <3> QED BY <3>2, <3>3
  <2> QED BY <2>1 DEF DedicatedInv
<1>8. CASE n.len < n.total /\ partial' = <<n>> /\ UNCHANGED delivered
  <2>1. partial' \in Seq(BufferSet) /\ Len(partial') = 1 /\ partial'[1] = n
    BY SMT, <1>2, <1>8
  <2>2. TypeOK'
    BY SMT, <1>1, <1>4, <1>8, <2>1 DEF TypeOK, senderVars
  <2>3. InFlight(partial[1])'
    <3>1. n.msg.id = id
      BY <1>2, Zenon
    <3>2. Entry(b, d, pc[id[1]], msg[id[1]], byte_position[id[1]])
      BY <1>3, Zenon DEF InFlight, d
    <3>3. Entry(n, Tail(d), pc[id[1]], msg[id[1]], byte_position[id[1]])
      BY <1>2, <3>2, Zenon DEF Entry
    <3> QED BY <1>1, <1>4, <2>1, <3>1, <3>3, Zenon DEF InFlight, senderVars
  <2>4. PartialInv'
    BY <1>1, <1>2, <1>3, <1>8, <2>1, <2>3, Zenon DEF PartialInv
  <2>5. DeliveredInv'
    BY <1>8 DEF DeliveredInv
  <2> QED BY <1>5, <1>6, <1>7, <2>2, <2>4, <2>5, Zenon
<1>9. CASE ~(n.len < n.total) /\ partial' = <<>> /\ delivered' = Append(delivered, n)
  <2>1. delivered \in Seq(BufferSet)
    BY DEF TypeOK
  <2>2. /\ delivered' \in Seq(BufferSet)
        /\ DOMAIN delivered' = 1 .. Len(delivered) + 1
        /\ DOMAIN delivered = 1 .. Len(delivered)
        /\ Len(delivered) \in Nat
        /\ \A k \in DOMAIN delivered : delivered'[k] = delivered[k]
        /\ delivered'[Len(delivered) + 1] = n
    BY SMT, <1>2, <1>9, <2>1, AppendFacts
  <2>3. TypeOK'
    BY SMT, <1>1, <1>4, <1>9, <2>2 DEF TypeOK, senderVars
  <2>4. n.len = n.msg.len
    <3>1. n.len \in Nat /\ n.total \in Nat
      BY <1>2, Zenon DEF BufferSet
    <3> QED BY SMT, <1>2, <1>9, <3>1
  <2>5. DeliveredInv'
    BY SMT, <1>2, <2>2, <2>4 DEF DeliveredInv
  <2>6. PartialInv'
    BY <1>9 DEF PartialInv
  <2> QED BY <1>5, <1>6, <1>7, <2>3, <2>5, <2>6, Zenon
<1> QED BY <1>1, <1>8, <1>9, Zenon

\* recv() gives up on a message or finds the channel closed; the receiver is
\* dropped.
LEMMA QuietRecv ==
  ASSUME DataInv, RecvBroken \/ RecvFailed \/ RecvClosed \/ DropReceiver
  PROVE  DataInv'
<1> USE DEF DataInv
<1>1. /\ UNCHANGED <<senderVars, dedicated, acked, delivered>>
      /\ UNCHANGED queue \/ queue' = <<>>
      /\ UNCHANGED partial \/ partial' = <<>>
      /\ rx' \in {rx, "closed"}
      /\ eof' \in {eof, TRUE}
  BY Zenon DEF RecvBroken, RecvFailed, RecvClosed, DropReceiver
<1>2. broken' \in SUBSET Ids /\ failed' \in SUBSET Ids
  BY TypedEntries, TypedId DEF TypeOK, RecvBroken, RecvFailed, RecvClosed, DropReceiver
<1>3. TypeOK'
  <2>1. eof' \in BOOLEAN
    BY <1>1, Zenon DEF TypeOK
  <2>2. queue' \in Seq(PacketSet)
    <3>1. queue \in Seq(PacketSet) /\ <<>> \in Seq(PacketSet)
      BY EmptySeq DEF TypeOK
    <3> QED BY <1>1, <3>1, Zenon
  <2>3. partial' \in Seq(BufferSet) /\ Len(partial') <= 1
    <3>1. /\ partial \in Seq(BufferSet) /\ Len(partial) <= 1
          /\ <<>> \in Seq(BufferSet) /\ Len(<<>>) <= 1
      BY SMT, EmptySeq DEF TypeOK
    <3>2. partial' = partial \/ partial' = <<>>
      BY <1>1, Zenon
    <3> QED BY <3>1, <3>2, Zenon
  <2> QED BY <1>1, <1>2, <2>1, <2>2, <2>3 DEF TypeOK, senderVars
<1>4. SizeInv' /\ DedicatedInv' /\ DeliveredInv'
  BY <1>1, Zenon DEF SizeInv, DedicatedInv, DeliveredInv, FreshId, senderVars
<1>5. QueueInv'
  <2>1. CASE queue' = <<>>
    <3>1. DOMAIN queue' = {}
      BY SMT, <2>1
    <3> QED BY <3>1, Zenon DEF QueueInv
  <2>2. CASE UNCHANGED queue
    <3>1. \A k \in DOMAIN queue : InFlight(queue[k])'
      BY <1>1, <2>2, Zenon DEF QueueInv, InFlight, senderVars
    <3> QED BY <2>2, <3>1, Zenon DEF QueueInv
  <2> QED BY <1>1, <2>1, <2>2
<1>6. PartialInv'
  BY SMT, <1>1 DEF PartialInv, InFlight, senderVars
<1> QED BY <1>3, <1>4, <1>5, <1>6

\* The first packet of a fragmented message, and the packet of a whole one, are
\* as QueueInv says.
LEMMA FirstPackets ==
  ASSUME DataInv, NEW s \in Senders
  PROVE  /\ pc[s] = "whole" =>
              /\ Packet(FirstPacket(msg[s], msg[s].len, msg[s].fds))
              /\ msg[s].fds \in Seq(Fds)
              /\ FreshId(msg[s].id)
         /\ pc[s] = "fragment" /\ byte_position[s] = 0 =>
              /\ Packet(FirstPacket(msg[s], EndPosition(s), Append(msg[s].fds, "dedicated")))
              /\ Append(msg[s].fds, "dedicated") \in Seq(Fds)
              /\ FreshId(msg[s].id)
              /\ EndPosition(s) \in Nat /\ EndPosition(s) # 0
<1> USE DEF DataInv
<1>1. /\ msg[s] \in MessageSet
      /\ msg[s].id[1] = s
      /\ msg[s].len \in Nat
      /\ msg[s].fds \in Seq({"channel", "shmem"})
      /\ byte_position[s] \in Nat
  BY DEF TypeOK, SizeInv, MessageSet
<1>2. msg[s].fds \in Seq(Fds) /\ Append(msg[s].fds, "dedicated") \in Seq(Fds)
  <2>1. msg[s].fds \in Seq(Fds)
    BY SMT, <1>1 DEF Fds
  <2> QED BY SMT, <2>1 DEF Fds
<1>3. CASE pc[s] = "whole"
  <2>1. msg[s].len <= get_max_fragment_size
    BY <1>3, Zenon DEF SizeInv
  <2>2. FreshId(msg[s].id)
    BY <1>1, <1>3, Zenon DEF FreshId, Fresh
  <2> QED BY <1>2, <1>3, <2>1, <2>2, Zenon DEF Packet, FirstPacket
<1>4. CASE pc[s] = "fragment" /\ byte_position[s] = 0
  <2>1. /\ EndPosition(s) \in Nat
        /\ EndPosition(s) # 0
        /\ EndPosition(s) # msg[s].len
    BY SMT, <1>1, <1>4, TriedFits, SenderTyped
  <2>2. EndPosition(s) <= get_max_fragment_size
    <3>1. /\ sendbuf_size[s] \in Nat
          /\ sendbuf_size[s] >= 48
          /\ sendbuf_size[s] <= SYSTEM_SENDBUF_SIZE
      BY SMT, SendbufAssumption DEF SizeInv
    <3> QED
      BY SMT, <1>4, <3>1, SendbufAssumption DEF EndPosition, get_max_fragment_size,
         first_fragment_size, fragment_size, AlignDown, RESERVED_SIZE, HEADER_SIZE
  <2>3. FreshId(msg[s].id)
    BY <1>1, <1>4 DEF FreshId, Fresh
  <2> QED BY <1>2, <1>4, <2>1, <2>2, <2>3, Zenon DEF Packet, FirstPacket
<1> QED BY <1>3, <1>4, Zenon

\* The steps of send() keep DataInv.
LEMMA SendStepKeepsData ==
  ASSUME DataInv, SenderTypeOK', SizeInv', NEW s \in Senders,
         \/ \E m \in Messages : SendBegin(s, m)
         \/ SendWhole(s)
         \/ SendFirstFragment(s)
         \/ SendFollowupFragment(s)
         \/ SendBrokenPipe(s)
         \/ SendShrinks(s)
         \/ SendFails(s)
         \/ DropSender(s)
  PROVE  DataInv'
<1> USE DEF DataInv
<1>1. /\ pc \in [Senders -> {"idle", "whole", "fragment", "closed"}]
      /\ msg \in [Senders -> MessageSet]
      /\ byte_position \in [Senders -> Nat]
      /\ acked \in SUBSET Ids
      /\ msg[s].id \in Ids
      /\ msg = [msg EXCEPT ![s] = msg[s]]
      /\ byte_position = [byte_position EXCEPT ![s] = byte_position[s]]
      /\ pc = [pc EXCEPT ![s] = pc[s]]
  BY TypedId DEF TypeOK
<1>2. ASSUME NEW m \in Messages, SendBegin(s, m)
      PROVE  DataInv'
  <2> DEFINE n == [id |-> <<s, msg[s].id[2] + 1>>, len |-> m.len, fds |-> m.fds]
             q == IF m.len <= get_max_fragment_size THEN "whole" ELSE "fragment"
  <2>1. /\ pc[s] = "idle"
        /\ msg' = [msg EXCEPT ![s] = n]
        /\ pc' = [pc EXCEPT ![s] = q]
        /\ byte_position' = [byte_position EXCEPT ![s] = byte_position[s]]
        /\ UNCHANGED <<queue, dedicated, acked, receiverVars>>
    BY <1>1, <1>2 DEF SendBegin
  <2>2. /\ n.id[2] = msg[s].id[2] + 1
        /\ n.id[1] = s
        /\ q \in {"whole", "fragment"}
        /\ byte_position[s] = 0
    BY <2>1 DEF SizeInv
  <2> HIDE DEF n, q
  <2> QED BY <2>1, <2>2, QuietSend, Zenon
<1>3. CASE SendWhole(s)
  <2> DEFINE end == msg[s].len
             f == msg[s].fds
  <2>1. /\ pc[s] = "whole"
        /\ pc' = [pc EXCEPT ![s] = "idle"]
        /\ byte_position' = [byte_position EXCEPT ![s] = 0]
        /\ queue' = Append(queue, FirstPacket(msg[s], end, f))
        /\ UNCHANGED <<msg, dedicated, receiverVars>>
        /\ acked' \in SUBSET Ids
    BY <1>1, <1>3, Zenon DEF SendWhole, Enqueue, Return
  <2>2. /\ Packet(FirstPacket(msg[s], end, f))
        /\ f \in Seq(Fds)
        /\ FreshId(msg[s].id)
    BY <2>1, FirstPackets, ZenonT(60)
  <2>3. end \in Nat /\ end <= msg[s].len
    <3>1. msg[s] \in MessageSet
      BY Zenon DEF DataInv, TypeOK
    <3>2. end \in Nat
      BY <3>1, Zenon DEF MessageSet
    <3> QED BY SMT, <3>2
  <2> HIDE DEF end, f
  <2> QED BY <2>1, <2>2, <2>3, Enqueued, Zenon
<1>4. CASE SendFirstFragment(s)
  <2> DEFINE end == EndPosition(s)
             f == Append(msg[s].fds, "dedicated")
  <2>1. /\ pc[s] = "fragment"
        /\ byte_position[s] = 0
        /\ end <= msg[s].len
        /\ queue' = Append(queue, FirstPacket(msg[s], end, f))
        /\ UNCHANGED <<msg, dedicated, receiverVars>>
        /\ acked' \in SUBSET Ids
    BY SMT, <1>1, <1>4 DEF SendFirstFragment, Enqueue, Advance, Return
  <2>2. /\ Packet(FirstPacket(msg[s], end, f))
        /\ f \in Seq(Fds)
        /\ FreshId(msg[s].id)
        /\ end \in Nat /\ end # 0
    BY <2>1, FirstPackets, Zenon
  <2>3. CASE end < msg[s].len
    <3>1. /\ pc' = [pc EXCEPT ![s] = "fragment"]
          /\ byte_position' = [byte_position EXCEPT ![s] = end]
      BY <1>1, <1>4, <2>1, <2>3, Zenon DEF SendFirstFragment, Advance
    <3> HIDE DEF end, f
    <3> QED BY <2>1, <2>2, <3>1, Enqueued, Zenon
  <2>4. CASE ~(end < msg[s].len)
    <3>1. /\ pc' = [pc EXCEPT ![s] = "idle"]
          /\ byte_position' = [byte_position EXCEPT ![s] = 0]
      BY <1>4, <2>4, Zenon DEF SendFirstFragment, Advance, Return
    <3> HIDE DEF end, f
    <3> QED BY <2>1, <2>2, <3>1, Enqueued, ZenonT(60)
  <2> QED BY <2>3, <2>4, Zenon
<1>5. CASE SendFollowupFragment(s)
  BY <1>5, FollowedUp
<1>6. CASE SendBrokenPipe(s) \/ SendFails(s) \/ DropSender(s)
  <2>1. PICK q \in {"idle", "closed"} :
             /\ pc' = [pc EXCEPT ![s] = q]
             /\ byte_position' = [byte_position EXCEPT ![s] = 0]
             /\ UNCHANGED <<msg, queue, dedicated, acked, receiverVars>>
    BY <1>6 DEF SendBrokenPipe, SendFails, DropSender, Return
  <2>2. msg' = [msg EXCEPT ![s] = msg[s]]
    BY <1>1, <2>1
  <2> QED BY <2>1, <2>2, QuietSend, Zenon
<1>7. CASE SendShrinks(s)
  <2>1. /\ pc' = [pc EXCEPT ![s] = "fragment"]
        /\ byte_position' = [byte_position EXCEPT ![s] = byte_position[s]]
        /\ msg' = [msg EXCEPT ![s] = msg[s]]
        /\ UNCHANGED <<queue, dedicated, acked, receiverVars>>
        /\ Sending(s)
    BY <1>1, <1>7 DEF SendShrinks
  <2> QED BY <2>1, QuietSend, Zenon
<1> QED BY <1>2, <1>3, <1>4, <1>5, <1>6, <1>7, Zenon

\* Every step keeps the bytes in order.
LEMMA DataStep ==
  ASSUME DataInv, [Next]_vars
  PROVE  DataInv'
<1>1. SenderTypeOK' /\ SizeInv'
  BY SenderTyped, SenderStep DEF DataInv
<1>2. CASE UNCHANGED vars
  BY <1>2, Zenon DEF DataInv, vars, senderVars, receiverVars, TypeOK, SizeInv, QueueInv,
       PartialInv, DedicatedInv, DeliveredInv, InFlight, FreshId
<1>3. CASE Next
  BY <1>1, <1>3, SendStepKeepsData, RecvWholeStep, RecvFirstStep, RecvFollowupStep,
     QuietRecv DEF Next
<1> QED BY <1>2, <1>3

\* DataInv holds initially.
LEMMA DataInit == Init => DataInv
<1> SUFFICES ASSUME Init PROVE DataInv
  OBVIOUS
<1> USE SendbufAssumption, ChannelAssumption DEF Init
<1>1. TypeOK
  <2>1. msg \in [Senders -> MessageSet]
    <3>1. ASSUME NEW s \in Senders
          PROVE  msg[s] \in MessageSet
      <4>1. <<s, 0>> \in Ids
        BY SMT DEF Ids
      <4> QED BY SMT, <4>1 DEF MessageSet
    <3> QED BY <3>1
  <2>2. dedicated \in [Ids -> Seq(ChunkSet)]
    BY SMT
  <2>3. /\ queue \in Seq(PacketSet)
        /\ partial \in Seq(BufferSet) /\ Len(partial) <= 1
        /\ delivered \in Seq(BufferSet)
    BY SMT
  <2>4. /\ pc \in [Senders -> {"idle", "whole", "fragment", "closed"}]
        /\ sendbuf_size \in [Senders -> Nat]
        /\ byte_position \in [Senders -> Nat]
    OBVIOUS
  <2> QED BY <2>1, <2>2, <2>3, <2>4, Zenon DEF TypeOK
<1>2. SizeInv
  BY SMT DEF SizeInv
<1>3. QueueInv /\ PartialInv /\ DedicatedInv /\ DeliveredInv
  BY SMT DEF QueueInv, PartialInv, DedicatedInv, DeliveredInv
<1> QED BY <1>1, <1>2, <1>3 DEF DataInv

\* The inductive invariant: sizes, queued packets, the buffer being filled, the
\* dedicated channels and the delivered buffers agree on where each byte is.
THEOREM DataCorrect == Spec => []DataInv
BY DataInit, DataStep, PTL DEF Spec

\* Every variable keeps the shape that send() and recv() give it.
THEOREM TypeCorrect == Spec => []TypeOK
<1>1. DataInv => TypeOK
  BY DEF DataInv
<1> QED BY <1>1, DataCorrect, PTL

-----------------------------------------------------------------------------
(* Packet sizes *)

\* send() never tries an empty first fragment, nor one as long as the message.
THEOREM FirstFragmentAlwaysFits == Spec => []FirstFragmentFits
<1>1. ASSUME DataInv PROVE FirstFragmentFits
  <2>1. SenderTypeOK /\ SizeInv
    BY <1>1, SenderTyped DEF DataInv
  <2>2. ASSUME NEW s \in Senders, pc[s] = "fragment", byte_position[s] = 0
        PROVE  EndPosition(s) \in 1 .. msg[s].len - 1
    <3>1. msg[s].len \in Nat
      BY <2>1, TypedId DEF SenderTypeOK
    <3>2. EndPosition(s) \in Nat /\ 0 < EndPosition(s) /\ EndPosition(s) < msg[s].len
      BY <2>1, <2>2, TriedFits
    <3> QED BY SMT, <3>1, <3>2
  <2> QED BY <2>2 DEF FirstFragmentFits
<1> QED BY <1>1, DataCorrect, PTL

\* ENOBUFS always leads to a smaller packet, whatever was tried.
LEMMA ShrinkingStep ==
  ASSUME DataInv, [Next]_vars, NEW s \in Senders, SendShrinks(s)
  PROVE  TriedSize(s)' \in 1 .. TriedSize(s) - 1
<1> DEFINE t == TriedSize(s)
           b == sendbuf_size[s]
           n == downsize(b, t)
           pos == byte_position[s]
<1>1. SenderTypeOK /\ SizeInv /\ SenderTypeOK' /\ SizeInv'
  BY SenderTyped, SenderStep DEF DataInv
<1>2. /\ pc[s] \in {"whole", "fragment"}
      /\ CanDownsize(t)
      /\ b \in Nat
      /\ b <= SYSTEM_SENDBUF_SIZE
      /\ msg[s].len \in Nat
      /\ pos \in Nat
      /\ pc[s] # "fragment" => pos = 0
  BY SMT, <1>1, SendbufAssumption DEF SendShrinks, Sending, SenderTypeOK, SizeInv, MessageSet
<1>3. t \in Nat /\ t <= b - RESERVED_SIZE
  BY SMT, <1>1, <1>2, TriedFits
<1>4. /\ n \in Nat
      /\ n >= 1000
      /\ n < t
  BY SMT, <1>2, <1>3, Downsize
<1>5. first_fragment_size(n) < t
  BY <1>2, <1>3, DownsizedFirstFragment
<1>6. /\ pc'[s] = "fragment"
      /\ sendbuf_size'[s] = n
      /\ byte_position'[s] = pos
      /\ msg'[s] = msg[s]
  BY <1>1 DEF SendShrinks, SenderTypeOK
<1>7. /\ TriedSize(s)' = EndPosition(s)' - pos
      /\ EndPosition(s)' \in Nat
      /\ pos < EndPosition(s)'
  <2>1. /\ EndPosition(s)' \in Nat
        /\ byte_position'[s] < EndPosition(s)'
        /\ TriedSize(s)' = EndPosition(s)' - byte_position'[s]
    <3>1. /\ first_fragment_size(n) \in 8 .. n - 40
          /\ pos # 0 => pos < msg[s].len
      BY SMT, <1>1, <1>4, <1>6, FirstFragmentSize DEF SizeInv
    <3>2. EndPosition(s)' = IF pos = 0 THEN first_fragment_size(n)
                            ELSE MinOf(pos + fragment_size(n), msg[s].len)
      BY <1>6 DEF EndPosition
    <3>3. EndPosition(s)' \in Nat /\ pos < EndPosition(s)'
      <4> HIDE DEF n
      <4> QED BY SMT, <1>2, <1>4, <3>1, <3>2 DEF MinOf, fragment_size, RESERVED_SIZE
    <3>4. TriedSize(s)' = EndPosition(s)' - pos
      BY <1>6 DEF TriedSize
    <3> QED BY <1>6, <3>3, <3>4
  <2> QED BY <1>6, <2>1
<1>8. EndPosition(s)' - pos < t
  <2>1. EndPosition(s)' = IF pos = 0 THEN first_fragment_size(n)
                          ELSE MinOf(pos + fragment_size(n), msg[s].len)
    BY <1>6 DEF EndPosition
  <2>2. CASE pos = 0
    BY SMT, <1>5, <1>7, <2>1, <2>2
  <2>3. CASE pos # 0
    <3> HIDE DEF n, t
    <3>1. EndPosition(s)' <= pos + (n - 32)
      BY SMT, <1>2, <1>4, <2>1, <2>3 DEF MinOf, fragment_size, RESERVED_SIZE
    <3> QED BY SMT, <1>2, <1>3, <1>4, <1>7, <3>1
  <2> QED BY <2>2, <2>3
<1> HIDE DEF t, n
<1> QED BY SMT, <1>2, <1>3, <1>7, <1>8 DEF t

\* So retrying after ENOBUFS ends.
THEOREM RetriesShrink == Spec => RetryIsSmaller
<1>1. ASSUME DataInv, [Next]_vars
      PROVE  [\A s \in Senders :
                SendShrinks(s) => TriedSize(s)' \in 1 .. TriedSize(s) - 1]_vars
  BY <1>1, ShrinkingStep
<1> QED BY <1>1, DataCorrect, PTL DEF Spec, RetryIsSmaller

-----------------------------------------------------------------------------
(* Descriptors *)

\* No message carries so many descriptors that one more for a dedicated channel
\* would not fit a control message.
WithinFdLimit == \A m \in Messages : Len(m.fds) < MAX_FDS_IN_CMSG

Channels(fds) == {i \in DOMAIN fds : fds[i] = "channel"}

Shmem(fds) == {i \in DOMAIN fds : fds[i] = "shmem"}

\* A buffer has the descriptors of its message, each as what it is.
HasFds(b) == b.channels = Channels(b.msg.fds) /\ b.shmem = Shmem(b.msg.fds)

FdInv ==
  /\ \A s \in Senders : Len(msg[s].fds) < MAX_FDS_IN_CMSG
  /\ \A k \in DOMAIN queue : Len(queue[k].msg.fds) < MAX_FDS_IN_CMSG
  /\ partial # <<>> => HasFds(partial[1])
  /\ \A k \in DOMAIN delivered : HasFds(delivered[k])
  /\ DedicatedChannelFound

\* Within the limit all descriptors arrive.
LEMMA NoFdsCut ==
  ASSUME NEW fds \in Seq(Fds), Len(fds) <= MAX_FDS_IN_CMSG
  PROVE  CutFds(fds) = fds
BY SubSeqFull, LenProperties, ChannelAssumption DEF CutFds, MinOf

\* The dedicated channel is the last socket received.
LEMMA DedicatedIsLast ==
  ASSUME NEW f \in Seq({"channel", "shmem"})
  PROVE  LET g == Append(f, "dedicated") IN
         /\ g \in Seq(Fds)
         /\ Len(g) = Len(f) + 1
         /\ LastSocket(g) = Len(f) + 1
         /\ g[Len(f) + 1] = "dedicated"
         /\ Len(f) + 1 \in {i \in DOMAIN g : IsSocket(g[i])}
         /\ {i \in DOMAIN g : IsSocket(g[i])} \ {Len(f) + 1} = Channels(f)
         /\ {i \in DOMAIN g : ~IsSocket(g[i])} = Shmem(f)
<1> DEFINE g == Append(f, "dedicated")
<1>1. f \in Seq(Fds) /\ "dedicated" \in Fds
  BY SMT DEF Fds
<1>2. /\ g \in Seq(Fds)
      /\ Len(f) \in Nat
      /\ DOMAIN f = 1 .. Len(f)
      /\ Len(g) = Len(f) + 1
      /\ DOMAIN g = 1 .. Len(f) + 1
      /\ \A i \in DOMAIN f : g[i] = f[i]
      /\ g[Len(f) + 1] = "dedicated"
  BY SMT, <1>1, AppendFacts
<1> HIDE DEF g
<1>3. \A i \in DOMAIN f : f[i] \in {"channel", "shmem"}
  BY SMT
<1>4. LastSocket(g) = Len(f) + 1
  <2> DEFINE P(i) == IsSocket(g[i]) /\ \A j \in DOMAIN g : IsSocket(g[j]) => j <= i
  <2>1. Len(f) + 1 \in DOMAIN g /\ P(Len(f) + 1)
    BY SMT, <1>2 DEF IsSocket
  <2>2. ASSUME NEW i \in DOMAIN g, P(i)
        PROVE  i = Len(f) + 1
    BY SMT, <1>2, <2>1, <2>2
  <2>3. LastSocket(g) = CHOOSE i \in DOMAIN g : P(i)
    BY DEF LastSocket
  <2> HIDE DEF P
  <2> QED BY <2>1, <2>2, <2>3
<1>5. {i \in DOMAIN g : IsSocket(g[i])} \ {Len(f) + 1} = Channels(f)
  BY SMT, <1>2, <1>3 DEF IsSocket, Channels
<1>6. {i \in DOMAIN g : ~IsSocket(g[i])} = Shmem(f)
  BY SMT, <1>2, <1>3 DEF IsSocket, Shmem
<1>7. Len(f) + 1 \in {i \in DOMAIN g : IsSocket(g[i])}
  BY SMT, <1>2 DEF IsSocket
<1> QED BY <1>2, <1>4, <1>5, <1>6, <1>7 DEF g

\* The descriptors of a whole message, and of a first fragment.
LEMMA FdsReceived ==
  ASSUME DataInv, FdInv, queue # <<>>
  PROVE  LET p == queue[1]
             b == FirstBuffer(p)
             last == LastSocket(CutFds(p.fds))
         IN /\ b.len = b.total => HasFds(b)
            /\ b.len # b.total =>
                 /\ b.channels # {}
                 /\ CutFds(p.fds)[last] = "dedicated"
                 /\ HasFds([b EXCEPT !.channels = @ \ {last}])
<1> DEFINE p == queue[1]
           b == FirstBuffer(p)
           f == p.msg.fds
           last == LastSocket(CutFds(p.fds))
<1>1. /\ 1 \in DOMAIN queue
      /\ p \in PacketSet
      /\ Packet(p)
      /\ p.msg \in MessageSet
      /\ p.len <= p.msg.len
  BY HeadPacket DEF DataInv
<1>2. /\ b \in BufferSet
      /\ b.msg = p.msg
      /\ b.total = p.total
      /\ b.len = p.len
      /\ b.channels = {i \in DOMAIN CutFds(p.fds) : IsSocket(CutFds(p.fds)[i])}
      /\ b.shmem = {i \in DOMAIN CutFds(p.fds) : ~IsSocket(CutFds(p.fds)[i])}
  BY <1>1, FirstBufferFacts
<1>3. f \in Seq({"channel", "shmem"}) /\ f \in Seq(Fds)
  <2>1. f \in Seq({"channel", "shmem"})
    BY <1>1 DEF MessageSet
  <2> QED BY SMT, <2>1 DEF Fds
<1>4. Len(f) < MAX_FDS_IN_CMSG /\ Len(f) \in Nat /\ MAX_FDS_IN_CMSG \in Nat
  BY SMT, <1>1, <1>3, ChannelAssumption DEF FdInv
<1> HIDE DEF b
<1>5. CASE b.len = b.total
  <2>1. p.fds = f
    BY <1>1, <1>2, <1>5 DEF Packet
  <2>2. CutFds(p.fds) = f
    BY SMT, <1>3, <1>4, <2>1, NoFdsCut
  <2>3. b.channels = Channels(f) /\ b.shmem = Shmem(f)
    <3>1. \A i \in DOMAIN f : f[i] \in {"channel", "shmem"}
      BY SMT, <1>3
    <3> QED BY <1>2, <2>2, <3>1 DEF Channels, Shmem, IsSocket
  <2> QED BY <1>2, <1>5, <2>3 DEF HasFds, b
<1>6. CASE b.len # b.total
  <2>1. p.fds = Append(f, "dedicated")
    BY <1>1, <1>2, <1>6 DEF Packet
  <2> DEFINE g == Append(f, "dedicated")
  <2>2. /\ g \in Seq(Fds)
        /\ Len(g) = Len(f) + 1
        /\ LastSocket(g) = Len(f) + 1
        /\ g[Len(f) + 1] = "dedicated"
        /\ Len(f) + 1 \in {i \in DOMAIN g : IsSocket(g[i])}
        /\ {i \in DOMAIN g : IsSocket(g[i])} \ {Len(f) + 1} = Channels(f)
        /\ {i \in DOMAIN g : ~IsSocket(g[i])} = Shmem(f)
    BY <1>3, DedicatedIsLast
  <2> HIDE DEF g
  <2>3. CutFds(p.fds) = g
    <3>1. Len(g) <= MAX_FDS_IN_CMSG
      BY SMT, <1>4, <2>2
    <3>2. p.fds = g
      BY <2>1 DEF g
    <3> QED BY <2>2, <3>1, <3>2, NoFdsCut
  <2>4. last = Len(f) + 1 /\ CutFds(p.fds)[last] = "dedicated"
    BY <2>2, <2>3
  <2>5. b.channels # {} /\ b.channels \ {last} = Channels(f) /\ b.shmem = Shmem(f)
    BY <1>2, <2>2, <2>3, <2>4
  <2> DEFINE n == [b EXCEPT !.channels = @ \ {last}]
  <2> HIDE DEF last
  <2>6. n.msg = b.msg /\ n.channels = b.channels \ {last} /\ n.shmem = b.shmem
    BY SMT, <1>2, ChannelTaken
  <2>7. HasFds(n)
    <3> HIDE DEF n
    <3> QED BY <1>2, <2>5, <2>6 DEF HasFds
  <2> QED BY <1>6, <2>4, <2>5, <2>7 DEF b, last
<1> QED BY <1>5, <1>6

\* Every step keeps FdInv.
LEMMA FdStep ==
  ASSUME WithinFdLimit, DataInv, FdInv, [Next]_vars
  PROVE  FdInv'
<1>1. /\ msg \in [Senders -> MessageSet]
      /\ queue \in Seq(PacketSet)
      /\ delivered \in Seq(BufferSet)
  BY DEF DataInv, TypeOK
<1>2. ASSUME NEW s \in Senders, NEW m \in Messages, SendBegin(s, m)
      PROVE  FdInv'
  <2>1. /\ msg' = [msg EXCEPT ![s] = [id |-> <<s, msg[s].id[2] + 1>>,
                                      len |-> m.len, fds |-> m.fds]]
        /\ UNCHANGED <<queue, partial, delivered, rx>>
    BY <1>2 DEF SendBegin, receiverVars
  <2>2. ASSUME NEW r \in Senders
        PROVE  Len(msg'[r].fds) < MAX_FDS_IN_CMSG
    <3>1. CASE r = s
      <4>1. msg'[r].fds = m.fds
        BY <1>1, <2>1, <3>1
      <4> QED BY <4>1 DEF WithinFdLimit
    <3>2. CASE r # s
      BY <1>1, <2>1, <3>2 DEF FdInv
    <3> QED BY <3>1, <3>2
  <2> QED BY <2>1, <2>2 DEF FdInv, DedicatedChannelFound
<1>3. CASE UNCHANGED <<msg, queue, partial, delivered, rx>>
  BY <1>3 DEF FdInv, DedicatedChannelFound
<1>4. ASSUME NEW s \in Senders, SendWhole(s) \/ SendFirstFragment(s)
      PROVE  FdInv'
  <2>1. PICK p : /\ queue' = Append(queue, p)
                 /\ p.msg = msg[s]
                 /\ UNCHANGED <<msg, partial, delivered, rx>>
    <3>1. CASE SendWhole(s)
      BY <3>1 DEF SendWhole, Enqueue, FirstPacket, receiverVars
    <3>2. CASE SendFirstFragment(s)
      BY <3>2 DEF SendFirstFragment, Enqueue, FirstPacket, Advance, receiverVars
    <3> QED BY <1>4, <3>1, <3>2
  <2>2. /\ DOMAIN queue = 1 .. Len(queue)
        /\ DOMAIN queue' = 1 .. Len(queue) + 1
        /\ Len(queue) \in Nat
        /\ \A k \in DOMAIN queue : queue'[k] = queue[k]
        /\ queue'[Len(queue) + 1] = p
    BY SMT, <1>1, <2>1
  <2>3. \A k \in DOMAIN queue' : Len(queue'[k].msg.fds) < MAX_FDS_IN_CMSG
    BY SMT, <2>1, <2>2 DEF FdInv
  <2> QED BY <2>1, <2>3 DEF FdInv, DedicatedChannelFound
<1>5. CASE RecvWhole
  <2> DEFINE b == FirstBuffer(queue[1])
  <2>1. /\ queue # <<>>
        /\ b.total = b.len
        /\ delivered' = Append(delivered, b)
        /\ queue' = Tail(queue)
        /\ UNCHANGED <<senderVars, dedicated, partial, rx>>
    BY <1>5, HeadPacket DEF RecvWhole, DataInv
  <2>2. HasFds(b) /\ b \in BufferSet
    BY <2>1, FdsReceived, HeadPacket, FirstBufferFacts DEF DataInv
  <2> HIDE DEF b
  <2>3. \A k \in DOMAIN delivered' : HasFds(delivered'[k])
    BY SMT, <1>1, <2>1, <2>2, AppendFacts DEF FdInv
  <2>4. \A k \in DOMAIN queue' : Len(queue'[k].msg.fds) < MAX_FDS_IN_CMSG
    BY <2>1, Dequeued DEF FdInv, DataInv
  <2> QED BY <2>1, <2>3, <2>4 DEF FdInv, DedicatedChannelFound, senderVars
<1>6. CASE RecvFirst
  <2> DEFINE b == FirstBuffer(queue[1])
             last == LastSocket(CutFds(queue[1].fds))
             n == [b EXCEPT !.channels = @ \ {last}]
  <2>1. /\ queue # <<>>
        /\ b.total # b.len
        /\ b.channels # {} =>
             /\ rx' = IF CutFds(queue[1].fds)[last] = "dedicated" THEN "open" ELSE "foreign"
             /\ partial' = <<n>>
             /\ queue' = IF rx' = "panicked" THEN <<>> ELSE Tail(queue)
        /\ UNCHANGED <<senderVars, dedicated, delivered>>
    BY <1>6, HeadPacket DEF RecvFirst, DataInv
  <2>2. /\ b.channels # {}
        /\ CutFds(queue[1].fds)[last] = "dedicated"
        /\ HasFds(n)
    BY <2>1, FdsReceived
  <2> HIDE DEF n, b, last
  <2>3. rx' = "open" /\ partial' = <<n>> /\ queue' = Tail(queue)
    BY <2>1, <2>2
  <2>4. \A k \in DOMAIN queue' : Len(queue'[k].msg.fds) < MAX_FDS_IN_CMSG
    BY <2>1, <2>3, Dequeued DEF FdInv, DataInv
  <2>5. partial'[1] = n
    BY <2>3
  <2> QED BY <2>1, <2>2, <2>3, <2>4, <2>5 DEF FdInv, DedicatedChannelFound, senderVars
<1>7. CASE RecvFollowup
  <2> DEFINE b == partial[1]
             n == Extend(b, Head(dedicated[b.msg.id]))
  <2>1. /\ partial # <<>>
        /\ dedicated[b.msg.id] # <<>>
        /\ UNCHANGED <<senderVars, queue, rx>>
        /\ \/ partial' = <<n>> /\ UNCHANGED delivered
           \/ partial' = <<>> /\ delivered' = Append(delivered, n)
    BY <1>7, Zenon DEF RecvFollowup
  <2>2. /\ n \in BufferSet
        /\ n.msg = b.msg /\ n.channels = b.channels /\ n.shmem = b.shmem
    BY <2>1, NextFragment, Zenon
  <2>3. HasFds(n)
    <3>1. HasFds(b)
      BY <2>1 DEF FdInv
    <3> HIDE DEF n
    <3> QED BY <2>2, <3>1 DEF HasFds
  <2> HIDE DEF n
  <2>4. partial' # <<>> => HasFds(partial'[1])
    BY SMT, <2>1, <2>3
  <2>5. \A k \in DOMAIN delivered' : HasFds(delivered'[k])
    BY SMT, <1>1, <2>1, <2>2, <2>3, AppendFacts DEF FdInv
  <2> QED BY <2>1, <2>4, <2>5, Zenon DEF FdInv, DedicatedChannelFound, senderVars
<1>8. CASE RecvBroken \/ RecvFailed \/ DropReceiver
  <2>1. /\ UNCHANGED <<msg, delivered>>
        /\ partial' = <<>>
        /\ queue' = queue \/ queue' = <<>>
        /\ rx' \in {"open", "closed"}
    BY <1>8 DEF RecvBroken, RecvFailed, DropReceiver, senderVars
  <2> QED BY SMT, <2>1 DEF FdInv, DedicatedChannelFound
<1>9. ASSUME NEW s \in Senders, \/ SendFollowupFragment(s)
                                \/ SendBrokenPipe(s)
                                \/ SendShrinks(s)
                                \/ SendFails(s)
                                \/ DropSender(s)
      PROVE  UNCHANGED <<msg, queue, partial, delivered, rx>>
  BY <1>9 DEF SendFollowupFragment, SendBrokenPipe, SendShrinks, SendFails, DropSender,
       Advance, receiverVars
<1>10. CASE RecvClosed \/ UNCHANGED vars
  BY <1>3, <1>10 DEF RecvClosed, vars, senderVars, receiverVars
<1> QED
  BY <1>2, <1>3, <1>4, <1>5, <1>6, <1>7, <1>8, <1>9, <1>10 DEF Next

\* FdInv holds initially.
LEMMA FdInit == Init => FdInv
BY SMT, ChannelAssumption DEF Init, FdInv, DedicatedChannelFound

\* recv() takes the dedicated channel for what it is, never another one.
THEOREM DedicatedAlwaysFound ==
  ASSUME WithinFdLimit
  PROVE  Spec => []DedicatedChannelFound
<1>1. Init => FdInv
  BY FdInit
<1>2. FdInv /\ DataInv /\ [Next]_vars => FdInv'
  BY FdStep
<1>3. FdInv => DedicatedChannelFound
  BY DEF FdInv
<1> QED BY <1>1, <1>2, <1>3, DataCorrect, PTL DEF Spec

\* The two invariants make what recv() returned intact.
LEMMA BuffersIntact ==
  ASSUME DataInv, FdInv
  PROVE  Reassembly
<1> SUFFICES ASSUME NEW k \in DOMAIN delivered
             PROVE  Intact(delivered[k])
  BY DEF Reassembly
<1> DEFINE b == delivered[k]
<1>1. /\ b \in BufferSet
      /\ Buffer(b)
      /\ b.len = b.msg.len
      /\ HasFds(b)
  BY SMT DEF DataInv, TypeOK, DeliveredInv, FdInv
<1> HIDE DEF b
<1>2. /\ b.data \in Seq(ChunkSet)
      /\ b.data # <<>>
  BY <1>1 DEF BufferSet, Buffer
<1>3. Len(b.data) \in Nat \ {0} /\ DOMAIN b.data = 1 .. Len(b.data)
  BY <1>2, TailFacts
<1>4. /\ b.data[1].from = 0
      /\ b.data[Len(b.data)].to = b.msg.len
      /\ \A i \in DOMAIN b.data : b.data[i].msg = b.msg
      /\ \A i \in DOMAIN b.data : i > 1 => b.data[i].from = b.data[i - 1].to
  BY <1>1, <1>2 DEF Buffer, Chain, EndOf
<1>5. \A i \in 2 .. Len(b.data) : b.data[i].from = b.data[i - 1].to
  BY SMT, <1>3, <1>4
<1> QED BY <1>1, <1>4, <1>5 DEF Intact, HasFds, Channels, Shmem, b

\* Whatever interleaves, fails or dies, recv() returns messages as they were sent.
THEOREM MessagesReassembled ==
  ASSUME WithinFdLimit
  PROVE  Spec => []Reassembly
<1>1. Init => FdInv
  BY FdInit
<1>2. FdInv /\ DataInv /\ [Next]_vars => FdInv'
  BY FdStep
<1>3. DataInv /\ FdInv => Reassembly
  BY BuffersIntact
<1> QED BY <1>1, <1>2, <1>3, DataCorrect, PTL DEF Spec

-----------------------------------------------------------------------------
(* Acknowledged messages *)

IdsOf(q) == {q[k].msg.id : k \in DOMAIN q}

\* The send() of i has returned, or its sender is gone.
Settled(i) ==
  /\ i[2] <= msg[i[1]].id[2]
  /\ i = msg[i[1]].id => pc[i[1]] \in {"idle", "closed"}

\* If e is acknowledged, all of it has been transferred.
Complete(e, acks) == e.msg.id \in acks => EndOf(dedicated[e.msg.id], e.len) = e.total

\* Where the first packet of a message may have gone.
Located == IdsOf(delivered) \cup failed \cup IdsOf(partial) \cup IdsOf(queue)

AckInv ==
  /\ \A i \in acked \cup broken : Settled(i)
  /\ acked \cap broken = {}
  /\ \A k \in DOMAIN queue : Complete(queue[k], acked)
  /\ partial # <<>> => Complete(partial[1], acked)
  /\ rx = "open" => acked \subseteq Located
  /\ rx = "open" => \A s \in Senders :
        pc[s] = "fragment" /\ byte_position[s] # 0 => msg[s].id \in Located
  /\ EofIsFinal

\* The messages of a queue with one more element.
LEMMA IdsAppend ==
  ASSUME NEW S, NEW q \in Seq(S), NEW e \in S
  PROVE  IdsOf(Append(q, e)) = IdsOf(q) \cup {e.msg.id}
<1> DEFINE n == Append(q, e)
<1>1. /\ DOMAIN q = 1 .. Len(q)
      /\ DOMAIN n = 1 .. Len(q) + 1
      /\ Len(q) \in Nat
      /\ \A k \in DOMAIN q : n[k] = q[k]
      /\ n[Len(q) + 1] = e
  BY SMT, AppendFacts
<1> HIDE DEF n
<1>2. DOMAIN n = DOMAIN q \cup {Len(q) + 1}
  BY SMT, <1>1
<1> QED BY SMT, <1>1, <1>2 DEF IdsOf, n

\* The messages of a queue and those of its tail.
LEMMA IdsTail ==
  ASSUME NEW S, NEW q \in Seq(S), q # <<>>
  PROVE  IdsOf(q) = IdsOf(Tail(q)) \cup {q[1].msg.id}
<1> DEFINE t == Tail(q)
<1>1. /\ DOMAIN q = 1 .. Len(q)
      /\ 1 \in DOMAIN q
      /\ Len(q) \in Nat
      /\ DOMAIN t = 1 .. Len(q) - 1
      /\ \A k \in DOMAIN t : t[k] = q[k + 1] /\ k + 1 \in DOMAIN q
  BY TailFacts
<1> HIDE DEF t
<1>2. ASSUME NEW k \in DOMAIN q
      PROVE  k = 1 \/ (k - 1 \in DOMAIN t /\ t[k - 1] = q[k])
  BY SMT, <1>1
<1>3. IdsOf(q) \subseteq IdsOf(t) \cup {q[1].msg.id}
  BY <1>2 DEF IdsOf
<1>4. IdsOf(t) \cup {q[1].msg.id} \subseteq IdsOf(q)
  BY <1>1 DEF IdsOf
<1> QED BY <1>3, <1>4 DEF t

\* The messages of a queue of one element, and of none.
LEMMA IdsOfOne == ASSUME NEW e PROVE IdsOf(<<e>>) = {e.msg.id} /\ IdsOf(<<>>) = {}
BY SMT DEF IdsOf

\* partial holds one buffer at most.
LEMMA IdsOfPartial ==
  ASSUME TypeOK, partial # <<>>
  PROVE  IdsOf(partial) = {partial[1].msg.id}
<1>1. /\ partial \in Seq(BufferSet)
      /\ Len(partial) <= 1
  BY DEF TypeOK
<1>2. DOMAIN partial = {1}
  BY SMT, <1>1, TailFacts
<1> QED BY <1>2 DEF IdsOf

\* A message being sent is neither acknowledged nor given up by the receiver.
LEMMA SendingUnsettled ==
  ASSUME DataInv, AckInv, NEW s \in Senders, Sending(s)
  PROVE  msg[s].id \notin acked \cup broken
<1>1. msg[s].id[1] = s
  BY DEF DataInv, SizeInv
<1> QED BY <1>1 DEF AckInv, Settled, Sending

\* After recv() found the channel closed nobody sends.
LEMMA EofMeansClosed ==
  ASSUME AckInv, NEW s \in Senders, pc[s] # "closed", UNCHANGED eof
  PROVE  ~eof /\ EofIsFinal'
<1>1. ~eof
  BY Zenon DEF AckInv, EofIsFinal, NoSenders
<1> QED BY <1>1, Zenon DEF EofIsFinal

\* A message whose send() has returned stays so.
LEMMA SettledKept ==
  ASSUME DataInv, AckInv, NEW s \in Senders, NEW q, NEW m,
         pc' = [pc EXCEPT ![s] = q],
         msg' = [msg EXCEPT ![s] = m],
         \/ m = msg[s] /\ (Sending(s) \/ q = "closed")
         \/ m.id[2] = msg[s].id[2] + 1
  PROVE  \A i \in acked \cup broken : Settled(i)'
<1> SUFFICES ASSUME NEW i \in acked \cup broken
             PROVE  Settled(i)'
  OBVIOUS
<1>1. /\ pc \in [Senders -> {"idle", "whole", "fragment", "closed"}]
      /\ msg \in [Senders -> MessageSet]
      /\ i \in Ids
      /\ i[1] \in Senders
      /\ i[2] \in Nat
  BY SMT, ChannelAssumption DEF DataInv, TypeOK, Ids
<1>2. Settled(i)
  BY DEF AckInv
<1>3. CASE i[1] # s
  BY <1>1, <1>2, <1>3 DEF Settled
<1>4. CASE i[1] = s
  <2>1. msg[s].id[2] \in Nat /\ pc'[s] = q /\ msg'[s] = m
    BY <1>1, TypedId
  <2>2. CASE m = msg[s]
    <3>1. Sending(s) => i # msg[s].id
      BY SendingUnsettled
    <3> QED BY SMT, <1>2, <1>4, <2>1, <2>2, <3>1 DEF Settled
  <2>3. CASE m.id[2] = msg[s].id[2] + 1
    BY SMT, <1>1, <1>2, <1>4, <2>1, <2>3 DEF Settled
  <2> QED BY <2>2, <2>3
<1> QED BY <1>3, <1>4

\* The steps of send() that put nothing on a socket keep AckInv.
LEMMA AckQuietSend ==
  ASSUME DataInv, AckInv, NEW s \in Senders,
         \/ \E m \in Messages : SendBegin(s, m)
         \/ SendBrokenPipe(s)
         \/ SendShrinks(s)
         \/ SendFails(s)
         \/ DropSender(s)
  PROVE  AckInv'
<1>1. /\ pc \in [Senders -> {"idle", "whole", "fragment", "closed"}]
      /\ msg \in [Senders -> MessageSet]
      /\ byte_position \in [Senders -> Nat]
      /\ pc[s] # "fragment" => byte_position[s] = 0
  BY DEF DataInv, TypeOK, SizeInv
<1>2. /\ UNCHANGED <<queue, dedicated, acked, receiverVars>>
      /\ pc[s] # "closed"
  BY DEF SendBegin, SendBrokenPipe, SendShrinks, SendFails, DropSender, Return, Sending
<1>3. PICK q, m : /\ pc' = [pc EXCEPT ![s] = q]
                  /\ msg' = [msg EXCEPT ![s] = m]
                  /\ \/ m = msg[s] /\ (Sending(s) \/ q = "closed")
                     \/ m.id[2] = msg[s].id[2] + 1
                  /\ pc'[s] = "fragment" /\ byte_position'[s] # 0 =>
                       /\ pc[s] = "fragment"
                       /\ byte_position[s] # 0
                       /\ m = msg[s]
  <2>1. ASSUME NEW k \in Messages, SendBegin(s, k)
        PROVE  \E q, m : /\ pc' = [pc EXCEPT ![s] = q]
                         /\ msg' = [msg EXCEPT ![s] = m]
                         /\ m.id[2] = msg[s].id[2] + 1
                         /\ byte_position'[s] = 0
    <3> DEFINE q == IF k.len <= get_max_fragment_size THEN "whole" ELSE "fragment"
               m == [id |-> <<s, msg[s].id[2] + 1>>, len |-> k.len, fds |-> k.fds]
    <3>1. /\ pc' = [pc EXCEPT ![s] = q]
          /\ msg' = [msg EXCEPT ![s] = m]
          /\ byte_position'[s] = 0
      BY <1>1, <2>1 DEF SendBegin
    <3>2. m.id[2] = msg[s].id[2] + 1
      OBVIOUS
    <3> HIDE DEF q, m
    <3> QED BY <3>1, <3>2, Zenon
  <2>2. CASE SendBrokenPipe(s) \/ SendFails(s) \/ DropSender(s)
    <3>1. PICK q \in {"idle", "closed"} :
              /\ pc' = [pc EXCEPT ![s] = q]
              /\ msg' = msg
              /\ Sending(s) \/ q = "closed"
      BY <2>2 DEF SendBrokenPipe, SendFails, DropSender, Return
    <3>2. msg' = [msg EXCEPT ![s] = msg[s]]
      BY <1>1, <3>1
    <3>3. pc'[s] # "fragment"
      BY <1>1, <3>1
    <3> QED BY <3>1, <3>2, <3>3, Zenon
  <2>3. CASE SendShrinks(s)
    <3>1. /\ pc' = [pc EXCEPT ![s] = "fragment"]
          /\ msg' = [msg EXCEPT ![s] = msg[s]]
          /\ byte_position' = byte_position
          /\ Sending(s)
      BY <1>1, <2>3 DEF SendShrinks
    <3> QED BY <1>1, <3>1, Zenon
  <2> QED BY <2>1, <2>2, <2>3, Zenon
<1>4. \A i \in acked \cup broken : Settled(i)'
  BY <1>3, SettledKept, Zenon
<1>5. EofIsFinal'
  BY <1>2, EofMeansClosed DEF receiverVars
<1>6. Located' = Located
  BY <1>2 DEF Located, IdsOf, receiverVars
<1>7. rx = "open" => \A r \in Senders :
        pc'[r] = "fragment" /\ byte_position'[r] # 0 => msg'[r].id \in Located
  <2> SUFFICES ASSUME rx = "open", NEW r \in Senders,
                      pc'[r] = "fragment", byte_position'[r] # 0
               PROVE  msg'[r].id \in Located
    OBVIOUS
  <2>1. CASE r = s
    BY <1>1, <1>3, <2>1, Zenon DEF AckInv
  <2>2. CASE r # s
    <3>1. pc'[r] = pc[r] /\ msg'[r] = msg[r] /\ byte_position'[r] = byte_position[r]
      BY <1>1, <1>3, <2>2, ZenonT(60)
         DEF SendBegin, SendBrokenPipe, SendShrinks, SendFails, DropSender, Return
    <3> QED BY <3>1, Zenon DEF AckInv
  <2> QED BY <2>1, <2>2
<1>8. UNCHANGED <<queue, dedicated, acked, broken, partial, rx>>
  BY <1>2 DEF receiverVars
<1> QED BY <1>4, <1>5, <1>6, <1>7, <1>8, Zenon DEF AckInv, Complete

\* The first packet of a message keeps AckInv.
LEMMA AckEnqueue ==
  ASSUME DataInv, AckInv, NEW s \in Senders, SendWhole(s) \/ SendFirstFragment(s)
  PROVE  AckInv'
<1> DEFINE id == msg[s].id
<1>1. /\ pc \in [Senders -> {"idle", "whole", "fragment", "closed"}]
      /\ msg \in [Senders -> MessageSet]
      /\ byte_position \in [Senders -> Nat]
      /\ queue \in Seq(PacketSet)
      /\ id \in Ids
      /\ id[1] = s
      /\ msg[s].len \in Nat
      /\ id[2] \in Nat
  BY TypedId, Zenon DEF DataInv, TypeOK, SizeInv
<1>2. PICK p, q, c :
         /\ p \in PacketSet
         /\ queue' = Append(queue, p)
         /\ p.msg = msg[s]
         /\ p.total = msg[s].len
         /\ pc' = [pc EXCEPT ![s] = q]
         /\ byte_position' = [byte_position EXCEPT ![s] = c]
         /\ UNCHANGED <<msg, dedicated, receiverVars>>
         /\ \/ q = "idle" /\ acked' = acked \cup {id} /\ p.len = p.total
            \/ acked' = acked
         /\ Sending(s)
         /\ FreshId(id)
  <2>1. CASE SendWhole(s)
    <3> DEFINE p == FirstPacket(msg[s], msg[s].len, msg[s].fds)
    <3>1. /\ p.msg = msg[s] /\ p.total = msg[s].len /\ p.len = msg[s].len
          /\ p \in PacketSet
      <4>1. msg[s].fds \in Seq(Fds)
        BY <2>1, FirstPackets DEF SendWhole
      <4> QED BY <1>1, <4>1 DEF FirstPacket, PacketSet
    <3>2. /\ queue' = Append(queue, p)
          /\ pc' = [pc EXCEPT ![s] = "idle"]
          /\ byte_position' = [byte_position EXCEPT ![s] = 0]
          /\ UNCHANGED <<msg, dedicated, receiverVars>>
          /\ acked' = acked \cup {id}
          /\ Sending(s)
          /\ FreshId(id)
      BY <2>1, FirstPackets, Zenon DEF SendWhole, Enqueue, Return, Sending
    <3> HIDE DEF p
    <3> QED BY <3>1, <3>2, Zenon
  <2>2. CASE SendFirstFragment(s)
    <3> DEFINE p == FirstPacket(msg[s], EndPosition(s), Append(msg[s].fds, "dedicated"))
    <3>1. /\ p.msg = msg[s] /\ p.total = msg[s].len
          /\ p \in PacketSet
      <4>1. Append(msg[s].fds, "dedicated") \in Seq(Fds) /\ EndPosition(s) \in Nat
        BY <2>2, FirstPackets DEF SendFirstFragment
      <4> QED BY <1>1, <4>1 DEF FirstPacket, PacketSet
    <3>2. EndPosition(s) < msg[s].len
      BY <2>2, TriedFits, SenderTyped, Zenon DEF DataInv, SendFirstFragment
    <3>3. /\ queue' = Append(queue, p)
          /\ pc' = [pc EXCEPT ![s] = "fragment"]
          /\ byte_position' = [byte_position EXCEPT ![s] = EndPosition(s)]
          /\ UNCHANGED <<msg, dedicated, receiverVars>>
          /\ acked' = acked
          /\ Sending(s)
          /\ FreshId(id)
      BY <1>1, <2>2, <3>2, FirstPackets, Zenon DEF SendFirstFragment, Enqueue, Advance, Sending
    <3> HIDE DEF p
    <3> QED BY <3>1, <3>3, Zenon
  <2> QED BY <2>1, <2>2, Zenon
<1>3. /\ DOMAIN queue = 1 .. Len(queue)
      /\ DOMAIN queue' = 1 .. Len(queue) + 1
      /\ Len(queue) \in Nat
      /\ \A k \in DOMAIN queue : queue'[k] = queue[k]
      /\ queue'[Len(queue) + 1] = p
      /\ IdsOf(queue') = IdsOf(queue) \cup {id}
  BY SMTT(30), <1>1, <1>2, AppendFacts, IdsAppend
<1>4. Located' = Located \cup {id}
  BY <1>2, <1>3, ZenonT(60) DEF Located, IdsOf, receiverVars
<1>5. id \notin acked \cup broken
  BY <1>2, SendingUnsettled, Zenon
<1>6. \A i \in acked' \cup broken' : Settled(i)'
  <2>1. \A i \in acked \cup broken : Settled(i)'
    <3>1. msg' = [msg EXCEPT ![s] = msg[s]]
      BY <1>1, <1>2
    <3> QED BY <1>2, <3>1, SettledKept, Zenon
  <2>2. q = "idle" => Settled(id)'
    BY SMT, <1>1, <1>2 DEF Settled
  <2> QED BY <1>2, <2>1, <2>2 DEF receiverVars
<1>7. acked' \cap broken' = {}
  BY <1>2, <1>5 DEF AckInv, receiverVars
<1>8. ASSUME NEW e, e.msg \in MessageSet, InFlight(e), Complete(e, acked)
      PROVE  Complete(e, acked)'
  <2>1. e.msg.id # id
    BY <1>1, <1>2, <1>8 DEF InFlight, Entry, FreshId
  <2> QED BY <1>2, <1>8, <2>1, Zenon DEF Complete
<1>9. Complete(p, acked)'
  <2>1. dedicated'[id] = <<>> /\ p' = p /\ p.msg.id = id
    BY <1>1, <1>2 DEF DataInv, DedicatedInv
  <2>2. id \in acked' => p.len = p.total
    BY <1>2, <1>5
  <2> QED BY <2>1, <2>2, Zenon DEF Complete, EndOf
<1>10. \A k \in DOMAIN queue' : Complete(queue[k], acked)'
  <2> SUFFICES ASSUME NEW k \in DOMAIN queue' PROVE Complete(queue[k], acked)'
    OBVIOUS
  <2>1. CASE k \in DOMAIN queue
    <3>1. /\ queue[k].msg \in MessageSet
          /\ InFlight(queue[k])
          /\ Complete(queue[k], acked)
      BY <2>1, TypedEntries, Zenon DEF DataInv, QueueInv, AckInv
    <3> QED BY <1>3, <1>8, <2>1, <3>1, Zenon DEF Complete
  <2>2. CASE k = Len(queue) + 1
    BY <1>3, <1>9, <2>2, Zenon DEF Complete
  <2> QED BY SMT, <1>3, <2>1, <2>2
<1>11. partial' # <<>> => Complete(partial[1], acked)'
  <2> SUFFICES ASSUME partial # <<>>, partial' = partial
               PROVE  Complete(partial[1], acked)'
    BY <1>2, Zenon DEF receiverVars
  <2>1. /\ partial[1].msg \in MessageSet
        /\ InFlight(partial[1])
        /\ Complete(partial[1], acked)
    BY TypedEntries, Zenon DEF DataInv, PartialInv, AckInv
  <2> QED BY <1>8, <2>1 DEF Complete
<1>12. EofIsFinal'
  BY <1>2, EofMeansClosed, Zenon DEF Sending, receiverVars
<1>13. rx' = "open" =>
         /\ acked' \subseteq Located'
         /\ \A r \in Senders :
              pc'[r] = "fragment" /\ byte_position'[r] # 0 => msg'[r].id \in Located'
  BY <1>1, <1>2, <1>4 DEF AckInv, receiverVars
<1> QED BY <1>6, <1>7, <1>10, <1>11, <1>12, <1>13 DEF AckInv

\* A followup fragment keeps AckInv; the last one acknowledges the message.
LEMMA AckFollowup ==
  ASSUME DataInv, AckInv, NEW s \in Senders, SendFollowupFragment(s)
  PROVE  AckInv'
<1> DEFINE id == msg[s].id
           end == EndPosition(s)
<1>1. /\ pc \in [Senders -> {"idle", "whole", "fragment", "closed"}]
      /\ msg \in [Senders -> MessageSet]
      /\ byte_position \in [Senders -> Nat]
      /\ dedicated \in [Ids -> Seq(ChunkSet)]
      /\ msg[s] \in MessageSet
      /\ id \in Ids
      /\ id[1] = s
      /\ msg[s].len \in Nat
      /\ id[2] \in Nat
  BY TypedId, Zenon DEF DataInv, TypeOK, SizeInv
<1>2. /\ end \in Nat
      /\ byte_position[s] < end
      /\ end <= msg[s].len
  BY TriedFits, SenderTyped, Zenon DEF SendFollowupFragment, DataInv
<1>3. /\ pc[s] = "fragment"
      /\ byte_position[s] # 0
      /\ dedicated' = [dedicated EXCEPT ![id] =
                         Append(@, Chunk(msg[s], byte_position[s], end))]
      /\ UNCHANGED <<msg, queue, receiverVars>>
      /\ Sending(s)
  BY DEF SendFollowupFragment, Advance, Sending
<1>4. PICK q, c : /\ pc' = [pc EXCEPT ![s] = q]
                  /\ byte_position' = [byte_position EXCEPT ![s] = c]
                  /\ \/ q = "idle" /\ acked' = acked \cup {id} /\ end = msg[s].len
                     \/ acked' = acked
  <2>1. CASE end < msg[s].len
    <3>1. /\ pc' = [pc EXCEPT ![s] = "fragment"]
          /\ byte_position' = [byte_position EXCEPT ![s] = end]
          /\ acked' = acked
      BY <1>1, <1>3, <2>1 DEF SendFollowupFragment, Advance
    <3> QED BY <3>1, Zenon
  <2>2. CASE ~(end < msg[s].len)
    <3>1. /\ pc' = [pc EXCEPT ![s] = "idle"]
          /\ byte_position' = [byte_position EXCEPT ![s] = 0]
          /\ acked' = acked \cup {id}
      BY <2>2 DEF SendFollowupFragment, Advance, Return
    <3>2. end = msg[s].len
      BY SMT, <1>1, <1>2, <2>2
    <3> QED BY <3>1, <3>2, Zenon
  <2> QED BY <2>1, <2>2
<1> HIDE DEF end
<1>5. id \notin acked \cup broken
  BY <1>3, SendingUnsettled
<1>6. \A i \in acked' \cup broken' : Settled(i)'
  <2>1. \A i \in acked \cup broken : Settled(i)'
    <3>1. msg' = [msg EXCEPT ![s] = msg[s]]
      BY <1>1, <1>3
    <3> QED BY <1>3, <1>4, <3>1, SettledKept, ZenonT(60)
  <2>2. q = "idle" => Settled(id)'
    BY SMT, <1>1, <1>3, <1>4 DEF Settled
  <2> QED BY <1>3, <1>4, <2>1, <2>2 DEF receiverVars
<1>7. acked' \cap broken' = {}
  BY <1>3, <1>4, <1>5, Zenon DEF AckInv, receiverVars
<1>8. ASSUME NEW e, e.msg \in MessageSet, e.len \in Nat, InFlight(e), Complete(e, acked)
      PROVE  Complete(e, acked)'
  <2>1. CASE e.msg.id # id
    <3>1. e.msg.id \in Ids
      BY <1>8, TypedId, Zenon
    <3>2. dedicated'[e.msg.id] = dedicated[e.msg.id]
      BY <1>1, <1>3, <2>1, <3>1, Zenon
    <3> QED BY <1>4, <1>8, <2>1, <3>2 DEF Complete
  <2>2. CASE e.msg.id = id
    <3>1. Entry(e, dedicated[id], "fragment", msg[s], byte_position[s])
      BY <1>1, <1>3, <1>8, <2>2, Zenon DEF InFlight
    <3>2. /\ e.msg = msg[s]
          /\ e.total = msg[s].len
          /\ Chain(dedicated[id], msg[s], e.len)
          /\ EndOf(dedicated[id], e.len) = byte_position[s]
      BY <2>2, <3>1, Zenon DEF Entry
    <3>3. dedicated'[id] = Append(dedicated[id], Chunk(msg[s], byte_position[s], end))
      BY <1>1, <1>3, Zenon
    <3>4. EndOf(dedicated'[id], e.len) = end
      <4>1. dedicated[id] \in Seq(ChunkSet)
        BY <1>1
      <4>2. byte_position[s] <= end
        BY SMT, <1>1, <1>2
      <4> QED BY SMT, <1>1, <1>2, <1>8, <3>2, <3>3, <4>1, <4>2, ChainAppend
    <3> QED BY SMT, <1>4, <1>5, <2>2, <3>2, <3>4 DEF Complete
  <2> QED BY <2>1, <2>2
<1>9. \A k \in DOMAIN queue' : Complete(queue[k], acked)'
  <2> SUFFICES ASSUME NEW k \in DOMAIN queue PROVE Complete(queue[k], acked)'
    BY <1>3
  <2>1. /\ queue[k].msg \in MessageSet
        /\ queue[k].len \in Nat
        /\ InFlight(queue[k])
        /\ Complete(queue[k], acked)
    BY TypedEntries DEF DataInv, QueueInv, AckInv
  <2> QED BY <1>3, <1>8, <2>1 DEF Complete
<1>10. partial' # <<>> => Complete(partial[1], acked)'
  <2> SUFFICES ASSUME partial # <<>>, partial' = partial
               PROVE  Complete(partial[1], acked)'
    BY <1>3, Zenon DEF receiverVars
  <2>1. /\ partial[1].msg \in MessageSet
        /\ partial[1].len \in Nat
        /\ InFlight(partial[1])
        /\ Complete(partial[1], acked)
    BY TypedEntries DEF DataInv, PartialInv, AckInv
  <2> QED BY <1>8, <2>1 DEF Complete
<1>11. EofIsFinal'
  BY <1>3, EofMeansClosed DEF receiverVars
<1>12. Located' = Located
  BY <1>3, Zenon DEF Located, IdsOf, receiverVars
<1>13. rx' = "open" =>
         /\ acked' \subseteq Located'
         /\ \A r \in Senders :
              pc'[r] = "fragment" /\ byte_position'[r] # 0 => msg'[r].id \in Located'
  BY <1>1, <1>3, <1>4, <1>12, Zenon DEF AckInv, receiverVars
<1> QED BY <1>6, <1>7, <1>9, <1>10, <1>11, <1>13, Zenon DEF AckInv

\* A step of the receiver leaves the senders, and so what they settled, alone.
LEMMA ReceiverFrame ==
  ASSUME AckInv, UNCHANGED <<senderVars, acked>>
  PROVE  /\ \A i \in acked \cup broken : Settled(i)'
         /\ NoSenders' <=> NoSenders
BY DEF AckInv, Settled, NoSenders, senderVars

\* EofIsFinal survives a step that delivers or drops nothing it should not.
LEMMA EofKept ==
  ASSUME AckInv, UNCHANGED <<senderVars, acked, eof>>,
         IdsOf(delivered) \cup failed \subseteq IdsOf(delivered') \cup failed'
  PROVE  EofIsFinal'
<1>1. DeliveredIds = IdsOf(delivered) /\ DeliveredIds' = IdsOf(delivered')
  BY DEF DeliveredIds, IdsOf
<1>2. eof => NoSenders /\ acked \subseteq DeliveredIds \cup failed
  BY DEF AckInv, EofIsFinal
<1>3. eof' => eof
  OBVIOUS
<1>4. NoSenders' <=> NoSenders
  BY ReceiverFrame
<1>5. ASSUME eof' PROVE NoSenders' /\ acked' \subseteq DeliveredIds' \cup failed'
  <2>1. NoSenders /\ acked \subseteq DeliveredIds \cup failed
    BY <1>2, <1>3, <1>5, Zenon
  <2> QED BY <1>1, <1>4, <2>1
<1> QED BY <1>5 DEF EofIsFinal

\* recv() of a first packet keeps AckInv.
LEMMA AckRecvPacket ==
  ASSUME DataInv, AckInv, RecvWhole \/ RecvFirst
  PROVE  AckInv'
<1> DEFINE p == queue[1]
           b == FirstBuffer(p)
           n == [b EXCEPT !.channels = @ \ {LastSocket(CutFds(p.fds))}]
<1>1. /\ queue # <<>>
      /\ partial = <<>>
      /\ UNCHANGED <<senderVars, dedicated, acked, broken, failed, eof>>
      /\ \/ /\ delivered' = Append(delivered, b)
            /\ queue' = Tail(queue)
            /\ UNCHANGED <<rx, partial>>
         \/ /\ rx' = "panicked" /\ partial' = <<>> /\ queue' = <<>>
            /\ UNCHANGED delivered
         \/ /\ rx' \in {"open", "foreign"} /\ partial' = <<n>> /\ queue' = Tail(queue)
            /\ UNCHANGED delivered
      /\ rx = "open"
  BY HeadPacket DEF DataInv, RecvWhole, RecvFirst
<1>2. /\ delivered \in Seq(BufferSet)
      /\ queue \in Seq(PacketSet)
  BY DEF DataInv, TypeOK
<1>3. /\ b \in BufferSet
      /\ b.msg = p.msg /\ b.total = p.total /\ b.len = p.len
  BY <1>1, HeadPacket, FirstBufferFacts DEF DataInv
<1> HIDE DEF b
<1>4. n.msg = p.msg /\ n.total = p.total /\ n.len = p.len
  <2> DEFINE last == LastSocket(CutFds(p.fds))
  <2> HIDE DEF last
  <2>1. LET k == [b EXCEPT !.channels = @ \ {last}] IN
        k.msg = p.msg /\ k.total = p.total /\ k.len = p.len
    BY <1>3, ChannelTaken
  <2> QED BY <2>1 DEF last
<1> HIDE DEF n
<1>5. IdsOf(queue) = IdsOf(Tail(queue)) \cup {p.msg.id}
  BY <1>1, <1>2, IdsTail
<1>6. IdsOf(Append(delivered, b)) = IdsOf(delivered) \cup {p.msg.id}
  BY SMT, <1>2, <1>3, IdsAppend
<1>7. IdsOf(<<n>>) = {p.msg.id} /\ IdsOf(<<>>) = {}
  BY <1>4, IdsOfOne
<1>8. rx' = "open" => Located' = Located
  BY <1>1, <1>5, <1>6, <1>7, Zenon DEF Located
<1>9. rx' = "open" =>
         /\ acked' \subseteq Located'
         /\ \A s \in Senders :
              pc'[s] = "fragment" /\ byte_position'[s] # 0 => msg'[s].id \in Located'
  <2> SUFFICES ASSUME rx' = "open"
               PROVE  /\ acked' \subseteq Located'
                      /\ \A s \in Senders :
                          pc'[s] = "fragment" /\ byte_position'[s] # 0 => msg'[s].id \in Located'
    OBVIOUS
  <2>1. Located' = Located
    BY <1>8
  <2>2. /\ acked \subseteq Located
        /\ \A s \in Senders :
              pc[s] = "fragment" /\ byte_position[s] # 0 => msg[s].id \in Located
    BY <1>1 DEF AckInv
  <2> QED BY <1>1, <2>1, <2>2 DEF senderVars
<1>10. \A k \in DOMAIN queue' : Complete(queue[k], acked)'
  <2> SUFFICES ASSUME NEW k \in DOMAIN queue' PROVE Complete(queue[k], acked)'
    OBVIOUS
  <2>1. queue' = Tail(queue)
    BY SMT, <1>1
  <2>2. k + 1 \in DOMAIN queue /\ queue'[k] = queue[k + 1]
    BY <1>1, <2>1, Dequeued DEF DataInv
  <2> QED BY <1>1, <2>2 DEF AckInv, Complete
<1>11. partial' # <<>> => Complete(partial[1], acked)'
  <2> SUFFICES ASSUME partial' # <<>> PROVE Complete(partial[1], acked)'
    OBVIOUS
  <2>1. partial'[1] = n
    BY SMT, <1>1
  <2>2. Complete(p, acked)
    BY <1>1, HeadPacket DEF AckInv, DataInv
  <2> QED BY <1>1, <1>4, <2>1, <2>2 DEF Complete
<1>12. EofIsFinal'
  BY <1>1, <1>6, EofKept, ZenonT(60)
<1>13. \A i \in acked' \cup broken' : Settled(i)'
  BY <1>1, ReceiverFrame
<1> QED BY <1>1, <1>9, <1>10, <1>11, <1>12, <1>13 DEF AckInv

\* recv() of a followup fragment keeps AckInv.
LEMMA AckRecvFragment ==
  ASSUME DataInv, AckInv, RecvFollowup
  PROVE  AckInv'
<1> DEFINE b == partial[1]
           id == b.msg.id
           d == dedicated[id]
           n == Extend(b, Head(d))
<1>1. /\ partial # <<>>
      /\ d # <<>>
      /\ dedicated' = [dedicated EXCEPT ![id] = Tail(@)]
      /\ UNCHANGED <<senderVars, queue, acked, rx, broken, failed, eof>>
      /\ \/ partial' = <<n>> /\ UNCHANGED delivered
         \/ partial' = <<>> /\ delivered' = Append(delivered, n)
  BY Zenon DEF RecvFollowup
<1>2. /\ n \in BufferSet
      /\ n.msg = b.msg /\ n.total = b.total
      /\ EndOf(Tail(d), n.len) = EndOf(d, b.len)
  BY <1>1, NextFragment, ZenonT(60)
<1>3. /\ id \in Ids
      /\ dedicated \in [Ids -> Seq(ChunkSet)]
      /\ delivered \in Seq(BufferSet)
      /\ \A k \in DOMAIN queue : queue[k].msg.id # id /\ queue[k].msg.id \in Ids
      /\ IdsOf(partial) = {id}
  BY <1>1, TypedEntries, TypedId, IdsOfPartial, Zenon DEF DataInv, TypeOK, PartialInv
<1> HIDE DEF n, d, b
<1>4. dedicated'[id] = Tail(d) /\ \A i \in Ids : i # id => dedicated'[i] = dedicated[i]
  <2> HIDE DEF id
  <2> QED BY <1>1, <1>3 DEF d
<1>5. IdsOf(Append(delivered, n)) = IdsOf(delivered) \cup {id}
  BY SMT, <1>2, <1>3, IdsAppend
<1>6. IdsOf(<<n>>) = {id} /\ IdsOf(<<>>) = {}
  BY <1>2, IdsOfOne
<1>7. Located' = Located
  BY <1>1, <1>3, <1>5, <1>6, Zenon DEF Located
<1>8. rx' = "open" =>
         /\ acked' \subseteq Located'
         /\ \A s \in Senders :
              pc'[s] = "fragment" /\ byte_position'[s] # 0 => msg'[s].id \in Located'
  BY <1>1, <1>7 DEF AckInv, senderVars
<1>9. \A k \in DOMAIN queue' : Complete(queue[k], acked)'
  BY <1>1, <1>3, <1>4 DEF AckInv, Complete
<1>10. partial' # <<>> => Complete(partial[1], acked)'
  <2> SUFFICES ASSUME partial' # <<>> PROVE Complete(partial[1], acked)'
    OBVIOUS
  <2>1. partial'[1] = n
    BY SMT, <1>1
  <2>2. id \in acked => EndOf(d, b.len) = b.total
    BY <1>1 DEF AckInv, Complete, d, b
  <2> QED BY <1>1, <1>2, <1>4, <2>1, <2>2, Zenon DEF Complete
<1>11. EofIsFinal'
  BY <1>1, <1>5, EofKept, Zenon
<1>12. \A i \in acked' \cup broken' : Settled(i)'
  BY <1>1, ReceiverFrame
<1> QED BY <1>1, <1>8, <1>9, <1>10, <1>11, <1>12 DEF AckInv

\* recv() gives up on a message only when its send() will not complete it.
LEMMA AckRecvBroken ==
  ASSUME DataInv, AckInv, RecvBroken
  PROVE  AckInv'
<1> DEFINE b == partial[1]
           id == b.msg.id
<1>1. /\ partial # <<>>
      /\ dedicated[id] = <<>>
      /\ ~DedicatedTxOpen(id)
      /\ broken' = broken \cup {id}
      /\ partial' = <<>>
      /\ UNCHANGED <<senderVars, queue, dedicated, acked, rx, delivered, failed, eof>>
  BY Zenon DEF RecvBroken
<1>2. /\ id \in Ids
      /\ id[1] \in Senders
      /\ id[2] \in Nat
      /\ b.msg \in MessageSet
      /\ b \in BufferSet
      /\ InFlight(b)
      /\ b.len < b.total
      /\ IdsOf(partial) = {id}
  BY SMT, <1>1, TypedEntries, TypedId, IdsOfPartial DEF DataInv, TypeOK, PartialInv
<1>3. b.len \in Nat /\ b.total \in Nat
  BY <1>2, Zenon DEF BufferSet
<1>4. id \notin acked
  <2>1. id \in acked => EndOf(dedicated[id], b.len) = b.total
    BY <1>1, Zenon DEF AckInv, Complete
  <2> QED BY SMT, <1>1, <1>2, <1>3, <2>1 DEF EndOf
<1>5. Settled(id)
  <2>1. ~FreshId(id)
    BY <1>2, ZenonT(60) DEF InFlight, Entry, FreshId
  <2>2. /\ msg[id[1]].id[2] \in Nat
        /\ pc[id[1]] \in {"idle", "whole", "fragment", "closed"}
    BY <1>2, TypedId, Zenon DEF DataInv, TypeOK
  <2>3. msg[id[1]].id = id => pc[id[1]] # "fragment"
    BY <1>1, <1>2 DEF DedicatedTxOpen
  <2> HIDE DEF id
  <2> QED BY SMT, <1>2, <2>1, <2>2, <2>3 DEF FreshId, Fresh, Settled
<1>6. \A s \in Senders : pc[s] = "fragment" => msg[s].id # id
  BY <1>1, Zenon DEF DedicatedTxOpen
<1>7. Located \subseteq Located' \cup {id}
  BY <1>1, <1>2, Zenon DEF Located, IdsOf
<1>8. rx' = "open" =>
         /\ acked' \subseteq Located'
         /\ \A s \in Senders :
              pc'[s] = "fragment" /\ byte_position'[s] # 0 => msg'[s].id \in Located'
  <2> HIDE DEF id
  <2> QED BY <1>1, <1>4, <1>6, <1>7 DEF AckInv, senderVars
<1>9. EofIsFinal'
  BY <1>1, EofKept
<1>10. \A i \in acked' \cup broken' : Settled(i)'
  <2>1. ASSUME NEW i, i = id PROVE Settled(i)'
    BY <1>1, <1>5, <2>1, Zenon DEF Settled, senderVars
  <2> QED BY <1>1, <2>1, ReceiverFrame, Zenon
<1>11. \A k \in DOMAIN queue' : Complete(queue[k], acked)'
  BY <1>1 DEF AckInv, Complete
<1> HIDE DEF id
<1> QED BY <1>1, <1>4, <1>8, <1>9, <1>10, <1>11 DEF AckInv

\* Failing receives and drops keep AckInv.
LEMMA AckOther ==
  ASSUME DataInv, AckInv, RecvFailed \/ RecvClosed \/ DropReceiver \/ UNCHANGED vars
  PROVE  AckInv'
<1>1. CASE RecvFailed
  <2>1. /\ partial # <<>>
        /\ failed' = failed \cup {partial[1].msg.id}
        /\ partial' = <<>>
        /\ UNCHANGED <<senderVars, queue, dedicated, acked, rx, delivered, broken, eof>>
    BY <1>1 DEF RecvFailed
  <2>2. IdsOf(partial) = {partial[1].msg.id}
    BY <2>1, IdsOfPartial DEF DataInv
  <2>3. Located \subseteq Located'
    BY <2>1, <2>2 DEF Located, IdsOf
  <2>4. EofIsFinal' /\ \A i \in acked' \cup broken' : Settled(i)'
    BY <2>1, EofKept, ReceiverFrame, Zenon
  <2>5. rx' = "open" =>
         /\ acked' \subseteq Located'
         /\ \A s \in Senders :
              pc'[s] = "fragment" /\ byte_position'[s] # 0 => msg'[s].id \in Located'
    BY <2>1, <2>3, Zenon DEF AckInv, senderVars
  <2>6. \A k \in DOMAIN queue' : Complete(queue[k], acked)'
    BY <2>1, Zenon DEF AckInv, Complete
  <2> QED BY <2>1, <2>4, <2>5, <2>6 DEF AckInv
<1>2. CASE RecvClosed
  <2>1. /\ rx = "open" /\ partial = <<>> /\ queue = <<>> /\ NoSenders
        /\ UNCHANGED <<senderVars, queue, dedicated, acked, rx, partial, delivered,
                       broken, failed>>
    BY <1>2 DEF RecvClosed
  <2>2. IdsOf(partial) = {} /\ IdsOf(queue) = {}
    BY SMT, <2>1 DEF IdsOf
  <2>3. acked \subseteq IdsOf(delivered) \cup failed
    BY <2>1, <2>2, Zenon DEF AckInv, Located
  <2>4. DeliveredIds' = IdsOf(delivered)
    BY <2>1 DEF DeliveredIds, IdsOf
  <2>5. EofIsFinal'
    BY <2>1, <2>3, <2>4, ReceiverFrame DEF EofIsFinal
  <2>6. \A i \in acked' \cup broken' : Settled(i)'
    BY <2>1, ReceiverFrame
  <2>7. Located' = Located
    BY <2>1, Zenon DEF Located, IdsOf
  <2> QED BY <2>1, <2>5, <2>6, <2>7 DEF AckInv, Complete, senderVars
<1>3. CASE DropReceiver
  <2>1. /\ rx' = "closed" /\ queue' = <<>> /\ partial' = <<>>
        /\ UNCHANGED <<senderVars, dedicated, acked, delivered, broken, failed, eof>>
    BY <1>3 DEF DropReceiver
  <2>2. EofIsFinal' /\ \A i \in acked' \cup broken' : Settled(i)'
    BY <2>1, EofKept, ReceiverFrame, Zenon
  <2> QED BY SMT, <2>1, <2>2 DEF AckInv
<1>4. CASE UNCHANGED vars
  <2>1. UNCHANGED <<senderVars, queue, dedicated, acked, rx, partial, delivered,
                    broken, failed, eof>>
    BY <1>4 DEF vars, receiverVars
  <2>2. EofIsFinal' /\ \A i \in acked' \cup broken' : Settled(i)'
    BY <2>1, EofKept, ReceiverFrame, Zenon
  <2>3. Located' = Located
    BY <2>1 DEF Located, IdsOf
  <2> QED BY <2>1, <2>2, <2>3 DEF AckInv, Complete, senderVars
<1> QED BY <1>1, <1>2, <1>3, <1>4, Zenon

\* Every step keeps AckInv.
LEMMA AckStep ==
  ASSUME DataInv, AckInv, [Next]_vars
  PROVE  AckInv'
BY AckQuietSend, AckEnqueue, AckFollowup, AckRecvPacket, AckRecvFragment, AckRecvBroken,
   AckOther DEF Next

\* AckInv holds initially.
LEMMA AckInit == Init => AckInv
BY SMT DEF Init, AckInv, EofIsFinal

\* AckInv holds in every reachable state.
LEMMA AckCorrect == Spec => []AckInv
<1>1. Init => AckInv
  BY AckInit
<1>2. AckInv /\ DataInv /\ [Next]_vars => AckInv'
  BY AckStep, Zenon
<1> QED BY <1>1, <1>2, DataCorrect, PTL DEF Spec

\* A message whose send() returned Ok is never found incomplete, and stays in the
\* channel until recv() delivers it or drops it with an error of its own.
THEOREM AckedNeverLost == Spec => []AckedNotLost
<1>1. ASSUME AckInv PROVE AckedNotLost
  <2>1. DeliveredIds = IdsOf(delivered) /\ PendingIds = IdsOf(partial) \cup IdsOf(queue)
    BY DEF DeliveredIds, PendingIds, IdsOf
  <2> QED BY <1>1, <2>1 DEF AckInv, AckedNotLost, Located
<1> QED BY <1>1, AckCorrect, PTL

\* ChannelClosed between messages is final: no sender is left, and nothing that a
\* send() acknowledged is still to come.
THEOREM EofFinal == Spec => []EofIsFinal
<1>1. AckInv => EofIsFinal
  BY DEF AckInv
<1> QED BY <1>1, AckCorrect, PTL


-----------------------------------------------------------------------------
(* The refinement: packets, fragments, retries and dedicated channels look to *)
(* users like one queue of whole messages.                                    *)

\* The names of the messages that the elements of q are of: the mapping of Abstract.
Names(q) == [i \in 1 .. Len(q) |-> q[i].msg.id]

\* Appending an element appends its name.
LEMMA NamesAppend ==
  ASSUME NEW S, NEW q \in Seq(S), NEW e \in S
  PROVE  Names(Append(q, e)) = Append(Names(q), e.msg.id)
<1> DEFINE n == Append(q, e)
           m == Append(Names(q), e.msg.id)
           N == {e.msg.id} \cup {q[i].msg.id : i \in DOMAIN q}
<1>1. /\ Len(q) \in Nat /\ DOMAIN q = 1 .. Len(q) /\ Len(n) = Len(q) + 1
      /\ \A k \in DOMAIN q : n[k] = q[k]
      /\ n[Len(q) + 1] = e
  BY SMT, AppendFacts
<1> HIDE DEF n
<1>2. Names(q) \in Seq(N) /\ Len(Names(q)) = Len(q) /\ DOMAIN Names(q) = 1 .. Len(q)
  BY SMT, <1>1 DEF Names
<1>3. /\ Len(m) = Len(q) + 1 /\ DOMAIN m = 1 .. Len(q) + 1 /\ m \in Seq(N)
      /\ \A k \in 1 .. Len(q) : m[k] = Names(q)[k]
      /\ m[Len(q) + 1] = e.msg.id
  BY SMT, <1>2, AppendFacts
<1> HIDE DEF m, N
<1>4. Names(n) \in [1 .. Len(q) + 1 -> N] /\ m \in [1 .. Len(q) + 1 -> N]
  <2>1. \A k \in 1 .. Len(q) + 1 : n[k].msg.id \in N
    BY SMT, <1>1 DEF N
  <2>2. QED
    BY SMT, <1>1, <1>3, <2>1 DEF Names
<1>5. \A k \in 1 .. Len(q) + 1 : Names(n)[k] = m[k]
  <2>1. ASSUME NEW k \in 1 .. Len(q) PROVE Names(n)[k] = m[k]
    BY SMTT(30), <1>1, <1>3 DEF Names
  <2>2. Names(n)[Len(q) + 1] = m[Len(q) + 1]
    BY SMT, <1>1, <1>3 DEF Names
  <2>3. QED
    BY SMT, <1>1, <2>1, <2>2
<1>6. Names(n) = m
  BY SMT, <1>4, <1>5
<1>7. QED
  BY <1>6 DEF n, m

\* The names without the first are those of the rest.
LEMMA NamesTail ==
  ASSUME NEW S, NEW q \in Seq(S), q # <<>>
  PROVE  /\ Names(q) # <<>>
         /\ Head(Names(q)) = q[1].msg.id
         /\ Tail(Names(q)) = Names(Tail(q))
<1> DEFINE t == Tail(q)
           N == {q[i].msg.id : i \in DOMAIN q}
<1>1. /\ Len(q) \in Nat \ {0} /\ DOMAIN q = 1 .. Len(q) /\ Len(t) = Len(q) - 1
      /\ \A i \in 1 .. Len(q) - 1 : t[i] = q[i + 1] /\ i + 1 \in DOMAIN q
  BY TailFacts
<1> HIDE DEF t
<1>2. Names(q) \in Seq(N) /\ Len(Names(q)) = Len(q) /\ Names(q)[1] = q[1].msg.id
  <2>1. Names(q) \in [1 .. Len(q) -> N]
    BY <1>1 DEF Names
  <2>2. 1 \in 1 .. Len(q) /\ Len(q) \in Nat
    BY SMT, <1>1
  <2>3. Names(q)[1] = q[1].msg.id
    BY <2>2 DEF Names
  <2>4. QED
    BY SMT, <2>1, <2>2, <2>3
<1> HIDE DEF N
<1>3. Names(q) # <<>>
  BY <1>1, <1>2
<1>4. /\ Head(Names(q)) = q[1].msg.id /\ Tail(Names(q)) \in Seq(N)
      /\ Len(Tail(Names(q))) = Len(q) - 1
      /\ DOMAIN Tail(Names(q)) = 1 .. Len(q) - 1
      /\ \A i \in 1 .. Len(q) - 1 : Tail(Names(q))[i] = Names(q)[i + 1]
  BY <1>2, <1>3, TailFacts
<1>5. \A i \in 1 .. Len(q) - 1 : Names(t)[i] = Tail(Names(q))[i]
  BY <1>1, <1>4 DEF Names
<1>6. Tail(Names(q)) \in [1 .. Len(q) - 1 -> N]
  <2>1. Len(Tail(Names(q))) = Len(q) - 1 /\ Len(q) - 1 \in Nat
    BY SMT, <1>1, <1>4
  <2>2. Tail(Names(q)) \in [1 .. Len(Tail(Names(q))) -> N]
    BY <1>4, LenProperties, Zenon
  <2>3. QED
    BY <2>1, <2>2, Zenon
<1>7. Names(t) \in [1 .. Len(q) - 1 -> N]
  <2>1. \A i \in 1 .. Len(q) - 1 : Names(t)[i] \in N
    BY <1>5, <1>6
  <2>2. QED
    BY <1>1, <2>1 DEF Names
<1>8. Tail(Names(q)) = Names(t)
  BY SMT, <1>5, <1>6, <1>7
<1>9. QED
  BY <1>3, <1>4, <1>8 DEF t

\* Two sequences with the same rest have the same names if their first elements do.
LEMMA NamesSame ==
  ASSUME NEW S, NEW q \in Seq(S), NEW T, NEW r \in Seq(T), q # <<>>, r # <<>>,
         q[1].msg.id = r[1].msg.id, Tail(q) = Tail(r)
  PROVE  Names(q) = Names(r)
<1> DEFINE t == Tail(q)
<1>1. /\ Len(q) \in Nat \ {0} /\ Len(t) = Len(q) - 1
      /\ \A i \in 1 .. Len(q) - 1 : t[i] = q[i + 1]
  BY TailFacts
<1>2. /\ Len(r) \in Nat \ {0} /\ Len(t) = Len(r) - 1
      /\ \A i \in 1 .. Len(r) - 1 : t[i] = r[i + 1]
  BY TailFacts
<1> HIDE DEF t
<1>3. Len(q) = Len(r)
  BY SMT, <1>1, <1>2
<1>4. ASSUME NEW k \in 1 .. Len(q), k # 1 PROVE q[k] = r[k]
  <2>1. k - 1 \in 1 .. Len(q) - 1 /\ (k - 1) + 1 = k
    BY SMT, <1>1, <1>4
  <2>2. q[(k - 1) + 1] = r[(k - 1) + 1]
    BY <1>1, <1>2, <1>3, <2>1
  <2>3. QED
    BY <2>1, <2>2
<1>5. \A k \in 1 .. Len(q) : q[k].msg.id = r[k].msg.id
  BY <1>4
<1>6. QED
  BY <1>3, <1>5 DEF Names

Entries == PacketSet \cup BufferSet

\* The message being reassembled comes before the packets queued.
LEMMA PendingFacts ==
  ASSUME NEW p \in Seq(BufferSet), Len(p) <= 1, NEW q \in Seq(PacketSet)
  PROVE  /\ p \o q \in Seq(Entries)
         /\ p = <<>> => p \o q = q
         /\ p # <<>> => p \o q # <<>> /\ (p \o q)[1] = p[1] /\ Tail(p \o q) = q
         /\ \A e \in PacketSet : p \o Append(q, e) = Append(p \o q, e)
<1>1. p \in Seq(Entries) /\ q \in Seq(Entries) /\ \A e \in PacketSet : e \in Entries
  BY SMT DEF Entries
<1>2. p \o q \in Seq(Entries) /\ Len(p \o q) = Len(p) + Len(q)
  BY SMT, <1>1
<1>3. ASSUME p = <<>> PROVE p \o q = q
  BY SMT, <1>1, <1>3
<1>4. ASSUME p # <<>> PROVE p \o q # <<>> /\ (p \o q)[1] = p[1] /\ Tail(p \o q) = q
  <2>1. Len(p) = 1 /\ Len(q) \in Nat
    BY SMT, <1>1, <1>4, TailFacts
  <2>2. Len(p \o q) = Len(q) + 1 /\ (p \o q)[1] = p[1] /\ \A i \in 1 .. Len(q) : (p \o q)[i + 1] = q[i]
    BY SMT, <1>1, <1>2, <2>1
  <2>3. p \o q # <<>>
    BY SMT, <2>1, <2>2
  <2>4. /\ Tail(p \o q) \in Seq(Entries) /\ Len(Tail(p \o q)) = Len(q)
        /\ \A i \in 1 .. Len(q) : Tail(p \o q)[i] = q[i]
    BY SMT, <1>2, <2>1, <2>2, <2>3, TailFacts
  <2>5. QED
    BY SMT, <1>1, <2>1, <2>2, <2>3, <2>4
<1>5. ASSUME NEW e \in PacketSet PROVE p \o Append(q, e) = Append(p \o q, e)
  BY SMT, <1>1, <1>2
<1>6. QED
  BY <1>2, <1>3, <1>4, <1>5

-----------------------------------------------------------------------------
(* Names are used once *)

\* Nothing that the receiver has finished with is a message still to be queued.
HistoryInv == \A i \in IdsOf(delivered) \cup broken \cup failed : ~FreshId(i)

\* A message that was queued once never becomes one still to be queued.
LEMMA StaysQueued ==
  ASSUME DataInv, [Next]_vars, NEW i \in Ids, FreshId(i)'
  PROVE  FreshId(i)
<1>1. i[1] \in Senders /\ i[2] \in Nat
  BY SMT DEF Ids
<1>2. SenderTypeOK /\ SizeInv
  BY SenderTyped DEF DataInv
<1>3. CASE UNCHANGED <<pc, msg, byte_position>>
  BY <1>3 DEF FreshId, Fresh
<1>4. ASSUME NEW s \in Senders,
             \/ \E m \in Messages : SendBegin(s, m)
             \/ SendWhole(s)
             \/ SendFirstFragment(s)
             \/ SendFollowupFragment(s)
             \/ SendBrokenPipe(s)
             \/ SendShrinks(s)
             \/ SendFails(s)
             \/ DropSender(s)
      PROVE  FreshId(i)
  <2>1. CASE i[1] # s
    <3>1. pc'[i[1]] = pc[i[1]] /\ msg'[i[1]] = msg[i[1]] /\ byte_position'[i[1]] = byte_position[i[1]]
      BY <1>1, <1>2, <1>4, <2>1
      DEF SendBegin, SendWhole, SendFirstFragment, SendFollowupFragment, SendBrokenPipe,
          SendShrinks, SendFails, DropSender, Return, Advance, SenderTypeOK
    <3>2. QED
      BY <3>1 DEF FreshId, Fresh
  <2>2. CASE i[1] = s
    <3>1. CASE \E m \in Messages : SendBegin(s, m)
      <4>1. PICK m \in Messages : SendBegin(s, m)
        BY <3>1
      <4>2. msg'[s].id = <<s, msg[s].id[2] + 1>>
        BY <1>2, <4>1 DEF SendBegin, SenderTypeOK
      <4>3. msg[s].id[2] \in Nat
        BY <1>2, TypedId DEF SenderTypeOK
      <4>4. i[2] > msg[s].id[2]
        BY SMT, <1>1, <2>2, <4>2, <4>3 DEF FreshId, Fresh
      <4>5. QED
        BY <2>2, <4>4 DEF FreshId, Fresh
    <3>2. CASE SendWhole(s) \/ SendFirstFragment(s)
      <4>1. msg' = msg
        BY <3>2 DEF SendWhole, SendFirstFragment, Advance
      <4>2. pc[s] = "whole" \/ (pc[s] = "fragment" /\ byte_position[s] = 0)
        BY <3>2 DEF SendWhole, SendFirstFragment
      <4>3. i[2] > msg[s].id[2] \/ i = msg[s].id
        BY <2>2, <4>1 DEF FreshId, Fresh
      <4>4. QED
        BY <2>2, <4>2, <4>3 DEF FreshId, Fresh
    <3>3. CASE SendFollowupFragment(s)
      <4>1. msg' = msg /\ pc[s] = "fragment" /\ byte_position[s] # 0
        BY <3>3 DEF SendFollowupFragment, Advance
      <4>2. EndPosition(s) # 0
        BY SMT, <1>2, <4>1, TriedFits DEF SenderTypeOK, TriedSize
      <4>3. pc'[s] = "idle" \/ (pc'[s] = "fragment" /\ byte_position'[s] = EndPosition(s))
        BY <1>2, <3>3 DEF SendFollowupFragment, Advance, Return, SenderTypeOK
      <4>4. QED
        BY <2>2, <4>1, <4>2, <4>3 DEF FreshId, Fresh
    <3>4. CASE SendShrinks(s)
      BY <1>2, <2>2, <3>4 DEF SendShrinks, Sending, FreshId, Fresh, SenderTypeOK
    <3>5. CASE SendBrokenPipe(s) \/ SendFails(s) \/ DropSender(s)
      <4>1. msg' = msg /\ pc'[s] \in {"idle", "closed"}
        BY <1>2, <3>5 DEF SendBrokenPipe, SendFails, DropSender, Return, SenderTypeOK
      <4>2. QED
        BY <2>2, <4>1 DEF FreshId, Fresh
    <3>6. QED
      BY <1>4, <3>1, <3>2, <3>3, <3>4, <3>5
  <2>3. QED
    BY <2>1, <2>2
<1>5. CASE RecvWhole \/ RecvFirst \/ RecvFollowup \/ RecvBroken \/ RecvFailed \/ RecvClosed
           \/ DropReceiver \/ UNCHANGED vars
  <2>1. UNCHANGED <<pc, msg, byte_position>>
    BY <1>5 DEF RecvWhole, RecvFirst, RecvFollowup, RecvBroken, RecvFailed, RecvClosed,
                DropReceiver, senderVars, vars
  <2>2. QED
    BY <1>3, <2>1
<1>6. QED
  BY <1>4, <1>5 DEF Next

\* What recv() finishes with came from the queue.
LEMMA HistoryStep ==
  ASSUME DataInv, DataInv', HistoryInv, [Next]_vars
  PROVE  HistoryInv'
<1>1. TypeOK /\ TypeOK' /\ QueueInv /\ PartialInv
  BY DEF DataInv
<1>2. ASSUME NEW i \in IdsOf(delivered') \cup broken' \cup failed'
      PROVE  i \in Ids
  <2>1. \A k \in DOMAIN delivered' : delivered'[k] \in BufferSet
    BY SMT, <1>1 DEF TypeOK
  <2>2. \A b \in BufferSet : b.msg.id \in Ids
    BY TypedId DEF BufferSet
  <2>3. QED
    BY SMT, <1>1, <2>1, <2>2 DEF IdsOf, TypeOK
<1>3. queue # <<>> => queue[1].msg.id \in Ids /\ ~FreshId(queue[1].msg.id)
  BY <1>1, HeadPacket, TypedId DEF InFlight, Entry, FreshId
<1>4. partial # <<>> => ~FreshId(partial[1].msg.id)
  BY <1>1 DEF PartialInv, InFlight, Entry, FreshId
<1>5. ASSUME NEW i \in IdsOf(delivered') \cup broken' \cup failed'
      PROVE  \/ i \in IdsOf(delivered) \cup broken \cup failed
             \/ queue # <<>> /\ i = queue[1].msg.id
             \/ partial # <<>> /\ i = partial[1].msg.id
  <2>1. CASE UNCHANGED <<delivered, broken, failed>>
    BY <2>1
  <2>2. CASE RecvWhole
    <3>1. queue # <<>> /\ delivered' = Append(delivered, FirstBuffer(Head(queue)))
          /\ UNCHANGED <<broken, failed>>
      BY <2>2 DEF RecvWhole
    <3>2. FirstBuffer(Head(queue)) \in BufferSet /\ FirstBuffer(Head(queue)).msg = queue[1].msg
      BY <1>1, <3>1, HeadPacket, FirstBufferFacts
    <3>3. IdsOf(delivered') = IdsOf(delivered) \cup {queue[1].msg.id}
      BY SMT, <1>1, <3>1, <3>2, IdsAppend DEF TypeOK
    <3>4. QED
      BY <3>1, <3>3
  <2>3. CASE RecvFollowup
    <3> DEFINE b == partial[1]
               n == Extend(b, Head(dedicated[b.msg.id]))
    <3>1. partial # <<>> /\ dedicated[b.msg.id] # <<>> /\ UNCHANGED <<broken, failed>>
          /\ (delivered' = delivered \/ delivered' = Append(delivered, n))
      BY <2>3 DEF RecvFollowup
    <3>2. n \in BufferSet /\ n.msg = b.msg
      BY <3>1, NextFragment
    <3> HIDE DEF n
    <3>3. IdsOf(delivered') \subseteq IdsOf(delivered) \cup {b.msg.id}
      <4>1. delivered \in Seq(BufferSet)
        BY <1>1 DEF TypeOK
      <4>2. IdsOf(Append(delivered, n)) = IdsOf(delivered) \cup {n.msg.id}
        BY SMT, <3>2, <4>1, IdsAppend
      <4>3. QED
        BY <3>1, <3>2, <4>2
    <3>4. QED
      BY <3>1, <3>3
  <2>4. CASE RecvBroken \/ RecvFailed
    BY <2>4 DEF RecvBroken, RecvFailed
  <2>5. CASE \E s \in Senders :
               \/ \E m \in Messages : SendBegin(s, m)
               \/ SendWhole(s)
               \/ SendFirstFragment(s)
               \/ SendFollowupFragment(s)
               \/ SendBrokenPipe(s)
               \/ SendShrinks(s)
               \/ SendFails(s)
               \/ DropSender(s)
    <3>1. UNCHANGED <<delivered, broken, failed>>
      BY <2>5 DEF SendBegin, SendWhole, SendFirstFragment, SendFollowupFragment, SendBrokenPipe,
          SendShrinks, SendFails, DropSender, Advance, receiverVars
    <3>2. QED
      BY <2>1, <3>1
  <2>6. CASE RecvFirst \/ RecvClosed \/ DropReceiver \/ UNCHANGED vars
    <3>1. UNCHANGED <<delivered, broken, failed>>
      BY <2>6 DEF RecvFirst, RecvClosed, DropReceiver, receiverVars, vars
    <3>2. QED
      BY <2>1, <3>1
  <2>7. QED
    BY <2>2, <2>3, <2>4, <2>5, <2>6 DEF Next
<1>6. ASSUME NEW i \in IdsOf(delivered') \cup broken' \cup failed'
      PROVE  ~FreshId(i)'
  <2>1. i \in Ids /\ ~FreshId(i)
    BY <1>2, <1>3, <1>4, <1>5 DEF HistoryInv
  <2>2. QED
    BY <2>1, StaysQueued
<1>7. QED
  BY <1>6 DEF HistoryInv, IdsOf

-----------------------------------------------------------------------------
(* Every step is a step of the queue, or leaves it alone *)

\* What the proof needs of a state.
RefInv == DataInv /\ FdInv /\ AckInv /\ HistoryInv

\* The state of Abstract, under the names used here.
LEMMA Mapping ==
  ASSUME DataInv
  PROVE  /\ partial \in Seq(BufferSet) /\ Len(partial) <= 1 /\ queue \in Seq(PacketSet)
         /\ delivered \in Seq(BufferSet) /\ Pending \in Seq(Entries)
         /\ Abstract!Elements(Names(Pending)) = IdsOf(Pending)
         /\ Abstract!Elements(Names(delivered)) = IdsOf(delivered)
         /\ IdsOf(Pending) = IdsOf(partial) \cup IdsOf(queue)
<1>1. /\ partial \in Seq(BufferSet) /\ Len(partial) <= 1 /\ queue \in Seq(PacketSet)
      /\ delivered \in Seq(BufferSet)
  BY DEF DataInv, TypeOK
<1>2. /\ Pending \in Seq(Entries)
      /\ partial = <<>> => Pending = queue
      /\ partial # <<>> => Pending # <<>> /\ Pending[1] = partial[1] /\ Tail(Pending) = queue
  BY <1>1, PendingFacts DEF Pending
<1>3. ASSUME NEW S, NEW q \in Seq(S) PROVE Abstract!Elements(Names(q)) = IdsOf(q)
  <2>1. DOMAIN q = 1 .. Len(q)
    BY SMT, <1>3
  <2>2. QED
    BY <2>1 DEF Abstract!Elements, Names, IdsOf
<1>4. IdsOf(Pending) = IdsOf(partial) \cup IdsOf(queue)
  <2>1. CASE partial = <<>>
    BY SMT, <1>2, <2>1 DEF IdsOf
  <2>2. CASE partial # <<>>
    <3>1. IdsOf(partial) = {partial[1].msg.id}
      BY <2>2, IdsOfPartial DEF DataInv
    <3>2. IdsOf(Pending) = IdsOf(Tail(Pending)) \cup {Pending[1].msg.id}
      BY <1>2, <2>2, IdsTail
    <3>3. QED
      BY <1>2, <2>2, <3>1, <3>2
  <2>3. QED
    BY <2>1, <2>2
<1>5. QED
  BY <1>1, <1>2, <1>3, <1>4

\* The sender's name is younger than all that it has queued so far.
LEMMA NewestName ==
  ASSUME RefInv, NEW s \in Senders, FreshId(msg[s].id),
         NEW e \in IdsOf(partial) \cup IdsOf(queue) \cup IdsOf(delivered) \cup broken \cup failed,
         e[1] = msg[s].id[1]
  PROVE  e[2] < msg[s].id[2]
<1>1. TypeOK /\ QueueInv /\ PartialInv /\ SizeInv /\ HistoryInv
  BY DEF RefInv, DataInv
<1>2. msg[s].id \in Ids /\ msg[s].id[1] = s /\ msg[s].id[2] \in Nat
  BY <1>1, TypedId DEF TypeOK, SizeInv
<1>3. msg[s].id = <<s, msg[s].id[2]>>
  BY SMT, <1>2 DEF Ids
<1>4. ~FreshId(e)
  <2>1. \A k \in DOMAIN queue : ~FreshId(queue[k].msg.id)
    BY <1>1 DEF QueueInv, InFlight, Entry, FreshId
  <2>2. partial # <<>> => IdsOf(partial) = {partial[1].msg.id} /\ ~FreshId(partial[1].msg.id)
    BY <1>1, IdsOfPartial DEF PartialInv, InFlight, Entry, FreshId
  <2>3. partial = <<>> => IdsOf(partial) = {}
    BY SMT DEF IdsOf
  <2>4. CASE e \in IdsOf(partial)
    BY <2>2, <2>3, <2>4
  <2>5. CASE e \in IdsOf(queue)
    BY <2>1, <2>5 DEF IdsOf
  <2>6. CASE e \in IdsOf(delivered) \cup broken \cup failed
    BY <1>1, <2>6 DEF HistoryInv
  <2>7. QED
    BY <2>4, <2>5, <2>6
<1>5. e \in Ids
  <2>1. \A k \in DOMAIN queue : queue[k].msg.id \in Ids
    BY <1>1, TypedEntries, TypedId
  <2>2. \A b \in BufferSet : b.msg.id \in Ids
    BY TypedId DEF BufferSet
  <2>3. /\ \A k \in DOMAIN partial : partial[k] \in BufferSet
        /\ \A k \in DOMAIN delivered : delivered[k] \in BufferSet
    BY SMT, <1>1 DEF TypeOK
  <2>4. QED
    BY SMT, <1>1, <2>1, <2>2, <2>3 DEF IdsOf, TypeOK
<1>6. e = <<s, e[2]>> /\ e[2] \in Nat
  BY SMT, <1>2, <1>5 DEF Ids
<1>7. ~(e[2] > msg[s].id[2])
  BY <1>2, <1>4 DEF FreshId, Fresh
<1>8. e # msg[s].id
  BY <1>4
<1>9. e[2] # msg[s].id[2]
  BY <1>3, <1>6, <1>8
<1>10. QED
  BY SMT, <1>2, <1>6, <1>7, <1>9

\* A first packet queues its message.
LEMMA SimSend ==
  ASSUME RefInv, DataInv', NEW s \in Senders, SendWhole(s) \/ SendFirstFragment(s),
         NEW m, m = msg[s].id
  PROVE  Abstract!Send(m)
<1>1. DataInv /\ FdInv
  BY DEF RefInv
<1>2. PICK p \in PacketSet : p.msg = msg[s] /\ queue' = Append(queue, p)
  <2>1. \E p : p.msg = msg[s] /\ queue' = Append(queue, p)
    BY DEF SendWhole, SendFirstFragment, Enqueue, FirstPacket
  <2>2. PICK p : p.msg = msg[s] /\ queue' = Append(queue, p)
    BY <2>1
  <2>3. queue \in Seq(PacketSet) /\ queue' \in Seq(PacketSet)
    BY <1>1 DEF DataInv, TypeOK
  <2>4. p \in PacketSet
    <3>1. Len(queue) \in Nat /\ Len(Append(queue, p)) = Len(queue) + 1 /\ Append(queue, p)[Len(queue) + 1] = p
      BY SMT, <2>3
    <3>2. Len(queue) + 1 \in 1 .. Len(queue')
      BY SMT, <2>2, <3>1
    <3>3. queue'[Len(queue) + 1] \in PacketSet
      BY SMT, <2>3, <3>2
    <3>4. QED
      BY <2>2, <3>1, <3>3
  <2>5. QED
    BY <2>2, <2>4
<1>3. /\ rx = "open" /\ rx' = rx /\ partial' = partial /\ delivered' = delivered
      /\ broken' = broken /\ failed' = failed /\ acked' \in {acked, acked \cup {m}}
  <2>1. ReceiverOpen /\ rx # "foreign"
    BY <1>1 DEF FdInv, DedicatedChannelFound, SendWhole, SendFirstFragment, Enqueue
  <2>2. rx = "open"
    BY <2>1 DEF ReceiverOpen
  <2>3. UNCHANGED receiverVars /\ acked' \in {acked, acked \cup {m}}
    BY DEF SendWhole, SendFirstFragment, Advance, Return
  <2>4. QED
    BY <2>2, <2>3 DEF receiverVars
<1>4. FreshId(m)
  <2>1. pc[s] = "whole" \/ (pc[s] = "fragment" /\ byte_position[s] = 0)
    BY DEF SendWhole, SendFirstFragment
  <2>2. m[1] = s
    BY <1>1 DEF DataInv, SizeInv
  <2>3. QED
    BY <2>1, <2>2 DEF FreshId, Fresh
<1>5. /\ partial \in Seq(BufferSet) /\ Len(partial) <= 1 /\ queue \in Seq(PacketSet)
      /\ Pending \in Seq(Entries)
      /\ Abstract!Elements(Names(Pending)) = IdsOf(partial) \cup IdsOf(queue)
      /\ Abstract!Elements(Names(delivered)) = IdsOf(delivered)
  BY <1>1, Mapping
<1>6. Pending' = Append(Pending, p)
  BY <1>2, <1>3, <1>5, PendingFacts DEF Pending
<1>7. Names(Pending') = Append(Names(Pending), m)
  BY SMT, <1>2, <1>5, <1>6, NamesAppend DEF Entries
<1>8. \A e \in Abstract!Elements(Names(Pending)) \cup Abstract!Elements(Names(delivered))
              \cup broken \cup failed : e[1] = m[1] => e[2] < m[2]
  BY <1>4, <1>5, NewestName
<1>9. QED
  BY <1>3, <1>7, <1>8 DEF Abstract!Send, Names

\* The last fragment acknowledges its message; the others leave the queue alone.
LEMMA SimFollowup ==
  ASSUME RefInv, AckInv', NEW s \in Senders, SendFollowupFragment(s)
  PROVE  Abstract!Ack(msg[s].id) \/ UNCHANGED Abstract!vars
<1>1. DataInv
  BY DEF RefInv
<1>2. /\ queue' = queue /\ rx' = rx /\ partial' = partial /\ delivered' = delivered
      /\ broken' = broken /\ failed' = failed
      /\ acked' = acked \/ acked' = acked \cup {msg[s].id}
  BY DEF SendFollowupFragment, Advance, Return, receiverVars
<1>3. Pending' = Pending
  BY <1>2 DEF Pending
<1>4. CASE acked' = acked
  BY <1>2, <1>3, <1>4 DEF Abstract!vars
<1>5. CASE acked' = acked \cup {msg[s].id}
  <2>1. msg[s].id \notin broken
    BY <1>2, <1>5 DEF AckInv
  <2>2. rx = "open" => msg[s].id \in IdsOf(delivered) \cup failed \cup IdsOf(partial) \cup IdsOf(queue)
    BY SMT, <1>2, <1>5 DEF AckInv, Located, IdsOf
  <2>3. /\ Abstract!Elements(Names(Pending)) = IdsOf(partial) \cup IdsOf(queue)
        /\ Abstract!Elements(Names(delivered)) = IdsOf(delivered)
    BY <1>1, Mapping
  <2>4. rx = "open" => msg[s].id \in Abstract!Elements(Names(Pending))
                          \cup Abstract!Elements(Names(delivered)) \cup failed
    BY <2>2, <2>3
  <2>5. QED
    BY <1>2, <1>3, <1>5, <2>1, <2>4 DEF Abstract!Ack, Names
<1>6. QED
  BY <1>2, <1>4, <1>5

\* A message in one packet is received.
LEMMA SimRecvWhole ==
  ASSUME RefInv, RecvWhole
  PROVE  Abstract!Recv
<1>1. DataInv /\ TypeOK /\ QueueInv
  BY DEF RefInv, DataInv
<1> DEFINE b == FirstBuffer(Head(queue))
<1>2. /\ rx = "open" /\ rx' = rx /\ partial = <<>> /\ partial' = <<>> /\ queue # <<>>
      /\ delivered' = Append(delivered, b) /\ queue' = Tail(queue)
      /\ broken' = broken /\ failed' = failed /\ acked' = acked
  BY DEF RecvWhole
<1>3. b \in BufferSet /\ b.msg = queue[1].msg
  BY <1>1, <1>2, HeadPacket, FirstBufferFacts
<1> HIDE DEF b
<1>4. queue \in Seq(PacketSet) /\ Tail(queue) \in Seq(PacketSet) /\ delivered \in Seq(BufferSet)
  BY <1>1, <1>2, TailFacts DEF TypeOK
<1>5. Pending = queue /\ Pending' = Tail(queue)
  BY SMT, <1>2, <1>4, PendingFacts, EmptySeq DEF Pending
<1>6. Names(Pending) # <<>> /\ Head(Names(Pending)) = b.msg.id /\ Tail(Names(Pending)) = Names(Pending')
  BY <1>2, <1>3, <1>4, <1>5, NamesTail
<1>7. Names(delivered') = Append(Names(delivered), Head(Names(Pending)))
  BY <1>2, <1>3, <1>4, <1>6, NamesAppend
<1>8. QED
  BY <1>2, <1>6, <1>7 DEF Abstract!Recv, Names

\* Between its first packet and its last fragment, a message stays first in the queue.
LEMMA SimRecvFirst ==
  ASSUME RefInv, DataInv', FdInv', RecvFirst
  PROVE  UNCHANGED Abstract!vars
<1>1. DataInv /\ TypeOK /\ QueueInv
  BY DEF RefInv, DataInv
<1> DEFINE b == FirstBuffer(Head(queue))
<1>2. /\ rx = "open" /\ partial = <<>> /\ queue # <<>>
      /\ delivered' = delivered /\ broken' = broken /\ failed' = failed /\ acked' = acked
      /\ \/ rx' = "panicked"
         \/ /\ rx' \in {"open", "foreign"} /\ queue' = Tail(queue)
            /\ \E i : partial' = <<[b EXCEPT !.channels = @ \ {i}]>>
  BY DEF RecvFirst
<1>3. rx' = "open" /\ queue' = Tail(queue) /\ \E i : partial' = <<[b EXCEPT !.channels = @ \ {i}]>>
  BY <1>2 DEF FdInv, DedicatedChannelFound
<1>4. b \in BufferSet /\ b.msg = queue[1].msg
  BY <1>1, <1>2, HeadPacket, FirstBufferFacts
<1> HIDE DEF b
<1>5. PICK n : partial' = <<n>> /\ n.msg = queue[1].msg
  <2>1. PICK i : partial' = <<[b EXCEPT !.channels = @ \ {i}]>>
    BY <1>3
  <2>2. [b EXCEPT !.channels = @ \ {i}].msg = b.msg
    BY <1>4, ChannelTaken
  <2>3. QED
    BY <1>4, <2>1, <2>2
<1>6. /\ queue \in Seq(PacketSet) /\ queue' \in Seq(PacketSet)
      /\ partial' \in Seq(BufferSet) /\ Len(partial') <= 1
  BY <1>1 DEF TypeOK, DataInv
<1>7. Pending = queue
  BY SMT, <1>2, <1>6, PendingFacts, EmptySeq DEF Pending
<1>8. /\ Pending' \in Seq(Entries) /\ Pending' # <<>>
      /\ Pending'[1].msg.id = queue[1].msg.id /\ Tail(Pending') = Tail(queue)
  <2>1. partial' # <<>> /\ partial'[1] = n
    BY <1>5
  <2>2. QED
    BY <1>3, <1>5, <1>6, <2>1, PendingFacts DEF Pending
<1>9. Names(Pending') = Names(Pending)
  BY <1>2, <1>6, <1>7, <1>8, NamesSame
<1>10. QED
  BY <1>2, <1>3, <1>9 DEF Abstract!vars, Names

\* While a message is being reassembled, it is first in the queue.
LEMMA FirstPending ==
  ASSUME DataInv, partial # <<>>
  PROVE  /\ Names(Pending) # <<>> /\ Head(Names(Pending)) = partial[1].msg.id
         /\ Tail(Names(Pending)) = Names(queue)
<1>1. partial \in Seq(BufferSet) /\ Len(partial) <= 1 /\ queue \in Seq(PacketSet)
  BY DEF DataInv, TypeOK
<1>2. /\ Pending \in Seq(Entries) /\ Pending # <<>> /\ Pending[1] = partial[1]
      /\ Tail(Pending) = queue
  BY <1>1, PendingFacts DEF Pending
<1>3. QED
  BY <1>2, NamesTail

\* Without one, the queue is the packets.
LEMMA NonePending ==
  ASSUME NEW q \in Seq(PacketSet)
  PROVE  <<>> \o q = q
BY SMT, PendingFacts, EmptySeq

\* A further fragment leaves its message first in the queue, or completes it.
LEMMA SimRecvFollowup ==
  ASSUME RefInv, DataInv', RecvFollowup
  PROVE  Abstract!Recv \/ UNCHANGED Abstract!vars
<1>1. DataInv /\ TypeOK /\ TypeOK'
  BY DEF RefInv, DataInv
<1> DEFINE b == partial[1]
           n == Extend(b, Head(dedicated[b.msg.id]))
<1>2. /\ rx = "open" /\ rx' = rx /\ partial # <<>> /\ dedicated[b.msg.id] # <<>>
      /\ queue' = queue /\ broken' = broken /\ failed' = failed /\ acked' = acked
      /\ \/ partial' = <<n>> /\ delivered' = delivered
         \/ partial' = <<>> /\ delivered' = Append(delivered, n)
  BY DEF RecvFollowup
<1>3. n \in BufferSet /\ n.msg = b.msg
  BY <1>1, <1>2, NextFragment
<1> HIDE DEF n
<1>4. queue \in Seq(PacketSet) /\ delivered \in Seq(BufferSet)
  BY <1>1 DEF TypeOK
<1>5. /\ Names(Pending) # <<>> /\ Head(Names(Pending)) = b.msg.id
      /\ Tail(Names(Pending)) = Names(queue)
  BY <1>1, <1>2, FirstPending
<1>6. CASE partial' = <<n>> /\ delivered' = delivered
  <2>1. /\ partial \in Seq(BufferSet) /\ Len(partial) <= 1
        /\ partial' \in Seq(BufferSet) /\ Len(partial') <= 1
        /\ partial' # <<>> /\ partial'[1] = n
    BY <1>1, <1>6 DEF TypeOK
  <2>2. /\ Pending \in Seq(Entries) /\ Pending # <<>> /\ Pending[1] = b /\ Tail(Pending) = queue
    BY <1>2, <1>4, <2>1, PendingFacts DEF Pending
  <2>3. /\ Pending' \in Seq(Entries) /\ Pending' # <<>> /\ Pending'[1] = n /\ Tail(Pending') = queue
    BY <1>2, <1>4, <2>1, PendingFacts DEF Pending
  <2>4. Names(Pending') = Names(Pending)
    BY <1>3, <2>2, <2>3, NamesSame
  <2>5. QED
    BY <1>2, <1>6, <2>4 DEF Abstract!vars, Names
<1>7. CASE partial' = <<>> /\ delivered' = Append(delivered, n)
  <2>1. Pending' = queue
    BY <1>2, <1>4, <1>7, NonePending DEF Pending
  <2>2. Names(delivered') = Append(Names(delivered), Head(Names(Pending)))
    BY <1>3, <1>4, <1>5, <1>7, NamesAppend
  <2>3. QED
    BY <1>2, <1>5, <2>1, <2>2 DEF Abstract!Recv, Names
<1>8. QED
  BY <1>2, <1>6, <1>7

\* A message that recv() gives up leaves the queue.
LEMMA SimGiveUp ==
  ASSUME RefInv, AckInv', RecvBroken \/ RecvFailed
  PROVE  Abstract!RecvBroken \/ Abstract!RecvFailed
<1>1. DataInv /\ TypeOK
  BY DEF RefInv, DataInv
<1>2. /\ rx = "open" /\ rx' = rx /\ partial # <<>> /\ partial' = <<>> /\ queue' = queue
      /\ delivered' = delivered /\ acked' = acked
  BY DEF RecvBroken, RecvFailed
<1>3. queue \in Seq(PacketSet)
  BY <1>1 DEF TypeOK
<1>4. /\ Names(Pending) # <<>> /\ Head(Names(Pending)) = partial[1].msg.id
      /\ Tail(Names(Pending)) = Names(queue)
  BY <1>1, <1>2, FirstPending
<1>5. Pending' = queue
  BY <1>2, <1>3, NonePending DEF Pending
<1>6. CASE RecvBroken
  <2>1. broken' = broken \cup {partial[1].msg.id} /\ failed' = failed
    BY <1>6 DEF RecvBroken
  <2>2. partial[1].msg.id \notin acked
    BY <1>2, <2>1 DEF AckInv
  <2>3. Abstract!RecvBroken
    BY <1>2, <1>4, <1>5, <2>1, <2>2 DEF Abstract!RecvBroken, Names
  <2>4. QED
    BY <2>3
<1>7. CASE RecvFailed
  <2>1. failed' = failed \cup {partial[1].msg.id} /\ broken' = broken
    BY <1>7 DEF RecvFailed
  <2>2. Abstract!RecvFailed
    BY <1>2, <1>4, <1>5, <2>1 DEF Abstract!RecvFailed, Names
  <2>3. QED
    BY <2>2
<1>8. QED
  BY <1>6, <1>7

\* The receiver goes, and the queue with it.
LEMMA SimDropReceiver ==
  ASSUME DropReceiver
  PROVE  Abstract!DropReceiver
<1>1. /\ rx = "open" /\ rx' = "closed" /\ queue' = <<>> /\ partial' = <<>>
      /\ delivered' = delivered /\ broken' = broken /\ failed' = failed /\ acked' = acked
  BY DEF DropReceiver
<1>2. Pending' = <<>>
  <2>1. <<>> \in Seq(PacketSet)
    BY EmptySeq
  <2>2. QED
    BY <1>1, <2>1, NonePending DEF Pending
<1>3. Names(Pending') = <<>>
  BY SMT, <1>2 DEF Names
<1>4. QED
  BY <1>1, <1>3 DEF Abstract!DropReceiver, Names

\* The other steps do not touch what users see.
LEMMA SimQuiet ==
  ASSUME \/ \E s \in Senders :
              \/ \E m \in Messages : SendBegin(s, m)
              \/ SendBrokenPipe(s)
              \/ SendShrinks(s)
              \/ SendFails(s)
              \/ DropSender(s)
         \/ RecvClosed
         \/ UNCHANGED vars
  PROVE  UNCHANGED Abstract!vars
<1>1. /\ rx' = rx /\ queue' = queue /\ partial' = partial /\ delivered' = delivered
      /\ broken' = broken /\ failed' = failed
  BY DEF SendBegin, SendBrokenPipe, SendShrinks, SendFails, DropSender, RecvClosed, receiverVars,
         vars
<1>2. acked' = acked
  BY DEF SendBegin, SendBrokenPipe, SendShrinks, SendFails, DropSender, RecvClosed, Return, vars
<1>3. Pending' = Pending
  BY <1>1 DEF Pending
<1>4. QED
  BY <1>1, <1>2, <1>3 DEF Abstract!vars

\* The empty channel is the empty queue.
LEMMA SimInit == Init => Abstract!Init
<1>1. SUFFICES ASSUME Init PROVE Abstract!Init
  OBVIOUS
<1>2. /\ rx = "open" /\ queue = <<>> /\ partial = <<>> /\ delivered = <<>> /\ acked = {}
      /\ broken = {} /\ failed = {}
  BY <1>1 DEF Init
<1>3. Pending = <<>>
  <2>1. <<>> \in Seq(PacketSet)
    BY EmptySeq
  <2>2. QED
    BY <1>2, <2>1, NonePending DEF Pending
<1>4. Names(Pending) = <<>> /\ Names(delivered) = <<>>
  BY SMT, <1>2, <1>3 DEF Names
<1>5. QED
  BY <1>2, <1>4 DEF Abstract!Init, Names

\* Each step of the channel is one of the queue, or none.
LEMMA Simulation ==
  ASSUME RefInv, RefInv', [Next]_vars
  PROVE  [Abstract!Next]_(Abstract!vars)
<1>1. DataInv /\ DataInv' /\ FdInv' /\ AckInv'
  BY DEF RefInv
<1>2. \A s \in Senders : msg[s].id \in Ids
  BY <1>1, TypedId DEF DataInv, TypeOK
<1>3. ASSUME NEW s \in Senders, SendWhole(s) \/ SendFirstFragment(s)
      PROVE  Abstract!Next
  <2>1. PICK m \in Ids : m = msg[s].id
    BY <1>2
  <2>2. Abstract!Send(m)
    BY <1>1, <1>3, <2>1, SimSend
  <2>3. QED
    BY <2>2 DEF Abstract!Next
<1>4. ASSUME NEW s \in Senders, SendFollowupFragment(s)
      PROVE  Abstract!Next \/ UNCHANGED Abstract!vars
  BY <1>1, <1>2, <1>4, SimFollowup DEF Abstract!Next
<1>5. ASSUME RecvWhole \/ RecvFirst \/ RecvFollowup \/ RecvBroken \/ RecvFailed \/ DropReceiver
      PROVE  Abstract!Next \/ UNCHANGED Abstract!vars
  BY <1>1, <1>5, SimRecvWhole, SimRecvFirst, SimRecvFollowup, SimGiveUp, SimDropReceiver
  DEF Abstract!Next
<1>6. QED
  BY <1>3, <1>4, <1>5, SimQuiet DEF Next

\* The packets, fragments and dedicated channels of the Unix transport implement a
\* queue of whole messages, if no message exhausts the room for descriptors.
THEOREM ChannelIsQueue ==
  ASSUME WithinFdLimit
  PROVE  Spec => ImplementsIpcChannel
<1>1. Init => RefInv
  BY SMT, DataInit, FdInit, AckInit DEF RefInv, HistoryInv, Init, IdsOf
<1>2. RefInv /\ [Next]_vars => RefInv'
  BY DataStep, FdStep, AckStep, HistoryStep DEF RefInv
<1>3. RefInv /\ RefInv' /\ [Next]_vars => [Abstract!Next]_(Abstract!vars)
  BY Simulation
<1>4. QED
  BY <1>1, <1>2, <1>3, SimInit, PTL DEF Spec, ImplementsIpcChannel, Abstract!Spec
=============================================================================
