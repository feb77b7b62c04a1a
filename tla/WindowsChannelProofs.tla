------------------------ MODULE WindowsChannelProofs ------------------------
(***************************************************************************)
(* Proofs about WindowsChannel, for any number of senders, messages and    *)
(* bytes read at a time: the buffer is not given away while the kernel may *)
(* write to it, ChannelClosed is the end, the stream of bytes stays whole, *)
(* and the channel is a queue of messages.                                 *)
(***************************************************************************)
EXTENDS WindowsChannel, SequenceFacts, TLAPS

\* Leaves are first-order reasoning about sets and functions, but where they name SMT.
USE Zenon

-----------------------------------------------------------------------------
(* The reader and the read in flight *)

\* What a read in flight says of the reader.  The reader knows of it (`async`); it
\* was begun for want of a whole message; only a completed one has read something.
ReaderInv ==
  /\ async <=> io # "none"
  /\ async => ~HasMessage
  /\ io # "done" => iodata = <<>>
  /\ io = "broken" => pipe = <<>> /\ open = {}
  /\ pc = "start" => async \/ ~HasMessage
  /\ pc \in {"fetch", "cancel", "wait"} => async
  /\ pc \in {"dropped", "transfer"} => ~async
  /\ closed => open = {} /\ pipe = <<>> /\ ~async /\ ~HasMessage

\* While the buffer stays, so does what it holds.
LEMMA SameBuffer ==
  ASSUME read_buf' = read_buf
  PROVE  HasMessage' <=> HasMessage
BY DEF HasMessage, First

\* Init establishes ReaderInv.
LEMMA ReaderInit == Init => ReaderInv
BY DEF Init, ReaderInv

\* No step of a sender disturbs ReaderInv: nobody writes when all are closed.
LEMMA SenderKeepsReader ==
  ASSUME ReaderInv, NEW s \in Senders, SenderStep(s)
  PROVE  ReaderInv'
<1>1. CASE SendSmall(s)
  BY SameBuffer, <1>1 DEF SendSmall, Write, ReaderInv, readerVars
<1>2. CASE SendBig(s)
  BY SameBuffer, <1>2 DEF SendBig, Write, ReaderInv, readerVars
<1>3. CASE SendRaw(s)
  BY SameBuffer, <1>3 DEF SendRaw, ReaderInv, readerVars
<1>4. CASE DropSender(s)
  BY SameBuffer, <1>4 DEF DropSender, ReaderInv, readerVars, kernelVars
<1>5. CASE Crash(s)
  BY SameBuffer, <1>5 DEF Crash, ReaderInv, readerVars
<1>6. QED
  BY <1>1, <1>2, <1>3, <1>4, <1>5 DEF SenderStep

\* The kernel's steps keep ReaderInv: a read breaks only at the end of the pipe.
LEMMA KernelKeepsReader ==
  ASSUME ReaderInv, KernelStep
  PROVE  ReaderInv'
<1>1. ASSUME NEW k \in 1 .. Len(pipe), Complete(k) PROVE ReaderInv'
  BY SameBuffer, <1>1 DEF Complete, ReaderInv, readerVars, senderVars
<1>2. CASE Break
  BY SameBuffer, <1>2 DEF Break, ReaderInv, readerVars, senderVars
<1>3. CASE Abort
  BY SameBuffer, <1>3 DEF Abort, ReaderInv, readerVars, senderVars
<1>4. QED
  BY <1>1, <1>2, <1>3 DEF KernelStep

\* get_message keeps ReaderInv: with a read in flight it finds nothing.
LEMMA GetKeepsReader ==
  ASSUME ReaderInv, GetSmall \/ GetBig \/ GetBroken \/ GetPanics \/ GetGarbled \/ GetNone
  PROVE  ReaderInv'
<1>1. CASE GetSmall
  BY SMT, <1>1 DEF GetSmall, Deliver, ReaderInv, kernelVars, senderVars
<1>2. CASE GetBig
  BY SMT, <1>2 DEF GetBig, Deliver, ReaderInv, senderVars
<1>3. CASE GetBroken
  BY SameBuffer, <1>3 DEF GetBroken, ReaderInv, senderVars
<1>4. CASE GetPanics
  BY SameBuffer, <1>4 DEF GetPanics, ReaderInv, kernelVars, senderVars
<1>5. CASE GetNone
  BY SameBuffer, SMT, <1>5 DEF GetNone, ReaderInv, kernelVars, senderVars
<1>6. CASE GetGarbled
  BY <1>6 DEF GetGarbled, ReaderInv, kernelVars, senderVars
<1>7. QED
  BY <1>1, <1>2, <1>3, <1>4, <1>5, <1>6

\* start_read and fetch_async_result keep ReaderInv.
LEMMA FetchKeepsReader ==
  ASSUME ReaderInv, read_buf \in Seq(Unit),
         StartRead \/ FetchDone \/ FetchBroken \/ FetchNoData \/ FetchTimeout
  PROVE  ReaderInv'
<1>1. CASE StartRead
  BY SameBuffer, <1>1 DEF StartRead, ReaderInv, senderVars
<1>2. CASE FetchDone
  BY <1>2 DEF FetchDone, NotifyCompletion, ReaderInv, senderVars
<1>3. CASE FetchBroken
  <2>1. read_buf' = read_buf \o <<>>
    BY <1>3 DEF FetchBroken, NotifyCompletion, ReaderInv
  <2>2. read_buf' = read_buf
    BY SMT, <2>1
  <2>3. QED
    BY <1>3, <2>2, SameBuffer DEF FetchBroken, NotifyCompletion, ReaderInv, senderVars
<1>4. CASE FetchNoData
  BY SameBuffer, <1>4 DEF FetchNoData, ReaderInv, kernelVars, senderVars
<1>5. CASE FetchTimeout
  BY SameBuffer, <1>5 DEF FetchTimeout, ReaderInv, kernelVars, senderVars
<1>6. QED
  BY <1>1, <1>2, <1>3, <1>4, <1>5

\* cancel_io and what follows it keep ReaderInv.
LEMMA CancelKeepsReader ==
  ASSUME ReaderInv, Cancel \/ CancelNotFound \/ Wait \/ TransferEnd
  PROVE  ReaderInv'
<1>1. AfterCancel \in {"transfer", "dropped", "idle"}
  BY DEF AfterCancel
<1>2. CASE Cancel
  BY SameBuffer, <1>2 DEF Cancel, ReaderInv, senderVars
<1>3. CASE CancelNotFound
  BY <1>1, <1>3 DEF CancelNotFound, ReaderInv, senderVars
<1>4. CASE Wait
  BY <1>1, <1>4 DEF Wait, NotifyCompletion, ReaderInv, senderVars
<1>5. CASE TransferEnd
  BY SameBuffer, <1>5 DEF TransferEnd, ReaderInv, kernelVars, senderVars
<1>6. QED
  BY <1>2, <1>3, <1>4, <1>5

\* The calls of the user keep ReaderInv.
LEMMA CallKeepsReader ==
  ASSUME ReaderInv, (\E m \in Modes : Receive(m)) \/ Transfer \/ Consume \/ DropReceiver
  PROVE  ReaderInv'
<1>1. CASE \E m \in Modes : Receive(m)
  BY SameBuffer, SMT, <1>1 DEF Receive, ReaderInv, kernelVars, senderVars
<1>2. CASE Transfer
  BY SameBuffer, <1>2 DEF Transfer, GoAway, ReaderInv, kernelVars, senderVars
<1>3. CASE Consume
  BY SMT, SameBuffer, <1>3 DEF Consume, HasMessage, ReaderInv, kernelVars, senderVars
<1>4. CASE DropReceiver
  BY SameBuffer, <1>4 DEF DropReceiver, GoAway, ReaderInv, kernelVars, senderVars
<1>5. QED
  BY <1>1, <1>2, <1>3, <1>4

-----------------------------------------------------------------------------
(* The stream of bytes *)

\* The unit at position p of the stream: two units for each message.
At(p) == <<(p + 1) \div 2, 2 - (p % 2)>>

\* s holds the units of the stream that follow position a.
Holds(s, a) == \A i \in 1 .. Len(s) : s[i] = At(a + i)

\* Two stretches of the stream that follow each other are one.
LEMMA HoldsConcat ==
  ASSUME NEW s \in Seq(Unit), NEW t \in Seq(Unit), NEW a \in Nat,
         Holds(s, a), Holds(t, a + Len(s))
  PROVE  s \o t \in Seq(Unit) /\ Len(s \o t) = Len(s) + Len(t) /\ Holds(s \o t, a)
<1>1. s \o t \in Seq(Unit) /\ Len(s \o t) = Len(s) + Len(t) /\ Len(s) \in Nat /\ Len(t) \in Nat
  BY SMT
<1>2. ASSUME NEW i \in 1 .. Len(s \o t) PROVE (s \o t)[i] = At(a + i)
  <2>1. CASE i \in 1 .. Len(s)
    BY SMT, <2>1 DEF Holds
  <2>2. CASE i \in Len(s) + 1 .. Len(s) + Len(t)
    <3>1. (s \o t)[i] = t[i - Len(s)] /\ i - Len(s) \in 1 .. Len(t)
      BY SMT, <2>2
    <3>2. a + Len(s) + (i - Len(s)) = a + i
      BY SMT, <1>1
    <3>3. QED
      BY <3>1, <3>2 DEF Holds
  <2>3. QED
    BY SMT, <1>1, <2>1, <2>2
<1>3. QED
  BY <1>1, <1>2 DEF Holds

\* A stretch cut in two is two stretches.
LEMMA HoldsSplit ==
  ASSUME NEW s \in Seq(Unit), NEW a \in Nat, NEW k \in 0 .. Len(s), Holds(s, a)
  PROVE  /\ SubSeq(s, 1, k) \in Seq(Unit) /\ Len(SubSeq(s, 1, k)) = k
         /\ Holds(SubSeq(s, 1, k), a)
         /\ SubSeq(s, k + 1, Len(s)) \in Seq(Unit)
         /\ Len(SubSeq(s, k + 1, Len(s))) = Len(s) - k
         /\ Holds(SubSeq(s, k + 1, Len(s)), a + k)
<1> DEFINE f == SubSeq(s, 1, k)
           g == SubSeq(s, k + 1, Len(s))
<1>1. f \in Seq(Unit) /\ Len(f) = k /\ \A i \in 1 .. k : f[i] = s[i]
  BY SMT
<1>2. g \in Seq(Unit) /\ Len(g) = Len(s) - k /\ \A i \in 1 .. Len(s) - k : g[i] = s[k + i]
  BY SMT
<1> HIDE DEF f, g
<1>3. Holds(f, a)
  BY SMT, <1>1 DEF Holds
<1>4. Holds(g, a + k)
  <2>1. ASSUME NEW i \in 1 .. Len(g) PROVE g[i] = At(a + k + i)
    <3>1. k + i \in 1 .. Len(s) /\ g[i] = s[k + i] /\ a + (k + i) = a + k + i
      BY SMT, <1>2
    <3>2. QED
      BY <3>1 DEF Holds
  <2>2. QED
    BY <2>1 DEF Holds
<1>5. QED
  BY <1>1, <1>2, <1>3, <1>4 DEF f, g

\* The two units of message n + 1 follow those of the first n messages.
LEMMA HoldsMessage ==
  ASSUME NEW n \in Nat
  PROVE  /\ <<<<n + 1, 1>>, <<n + 1, 2>>>> \in Seq(Unit)
         /\ Len(<<<<n + 1, 1>>, <<n + 1, 2>>>>) = 2
         /\ Holds(<<<<n + 1, 1>>, <<n + 1, 2>>>>, 2 * n)
<1>1. At(2 * n + 1) = <<n + 1, 1>> /\ At(2 * n + 2) = <<n + 1, 2>>
  BY SMT DEF At
<1>2. QED
  BY SMT, <1>1 DEF Holds, Unit

-----------------------------------------------------------------------------
(* Where the units are *)

\* The buffer, the read in flight and the pipe hold, one after the other, what
\* follows the messages returned and ends with the last message written.
PartsInv ==
  /\ read_buf \in Seq(Unit) /\ iodata \in Seq(Unit) /\ pipe \in Seq(Unit)
  /\ sent \in Seq(Senders) /\ got \in Seq(Nat) /\ whole = Len(got)
  /\ \A i \in 1 .. Len(got) : got[i] = i
  /\ Holds(read_buf, 2 * Len(got))
  /\ Holds(iodata, 2 * Len(got) + Len(read_buf))
  /\ Holds(pipe, 2 * Len(got) + Len(read_buf) + Len(iodata))
  /\ 2 * Len(got) + Len(read_buf) + Len(iodata) + Len(pipe) = 2 * Len(sent)

\* Init establishes PartsInv.
LEMMA PartsInit == Init => PartsInv
BY SMT DEF Init, PartsInv, Holds, Unit

\* When all parts stay, so does PartsInv.
LEMMA PartsSame ==
  ASSUME PartsInv, UNCHANGED <<read_buf, iodata, pipe, sent, got, whole>>
  PROVE  PartsInv'
BY DEF PartsInv

\* A write adds the units of the next message to the pipe.
LEMMA WriteParts ==
  ASSUME PartsInv, NEW s \in Senders, Write(s), UNCHANGED <<read_buf, iodata, got, whole>>
  PROVE  PartsInv'
<1> DEFINE n == Len(sent)
           m == <<<<n + 1, 1>>, <<n + 1, 2>>>>
           a == 2 * Len(got) + Len(read_buf) + Len(iodata)
<1>1. n \in Nat /\ a \in Nat /\ Len(pipe) \in Nat /\ a + Len(pipe) = 2 * n
      /\ pipe \in Seq(Unit) /\ Holds(pipe, a)
  BY SMT DEF PartsInv
<1>2. sent' \in Seq(Senders) /\ Len(sent') = n + 1 /\ pipe' = pipe \o m
  BY SMT DEF Write, PartsInv
<1>3. m \in Seq(Unit) /\ Len(m) = 2 /\ Holds(m, 2 * n)
  BY <1>1, HoldsMessage
<1> HIDE DEF n, m, a
<1>4. Holds(m, a + Len(pipe))
  BY <1>1, <1>3
<1>5. pipe' \in Seq(Unit) /\ Len(pipe') = Len(pipe) + 2 /\ Holds(pipe', a)
  BY <1>1, <1>2, <1>3, <1>4, HoldsConcat
<1>6. a + Len(pipe') = 2 * Len(sent')
  <2>1. \A p \in Nat : a + p = 2 * n => a + (p + 2) = 2 * (n + 1)
    BY SMT, <1>1
  <2>2. QED
    BY <1>1, <1>2, <1>5, <2>1, Zenon
<1>7. QED
  BY <1>2, <1>5, <1>6 DEF PartsInv, a

\* The kernel moves the first units of the pipe to the read.
LEMMA CompleteParts ==
  ASSUME PartsInv, ReaderInv, NEW k \in 1 .. Len(pipe), Complete(k)
  PROVE  PartsInv'
<1> DEFINE a == 2 * Len(got) + Len(read_buf)
<1>1. /\ iodata = <<>> /\ Len(iodata) = 0
      /\ iodata' = SubSeq(pipe, 1, k) /\ pipe' = SubSeq(pipe, k + 1, Len(pipe))
      /\ UNCHANGED <<read_buf, sent, got, whole>>
  BY DEF Complete, ReaderInv, senderVars, readerVars
<1>2. /\ a \in Nat /\ Len(pipe) \in Nat /\ k \in 0 .. Len(pipe)
      /\ pipe \in Seq(Unit) /\ a + Len(pipe) = 2 * Len(sent) /\ Holds(pipe, a)
  BY SMT, <1>1 DEF PartsInv
<1> HIDE DEF a
<1>3. /\ iodata' \in Seq(Unit) /\ Len(iodata') = k /\ Holds(iodata', a)
      /\ pipe' \in Seq(Unit) /\ Len(pipe') = Len(pipe) - k /\ Holds(pipe', a + k)
  BY <1>1, <1>2, HoldsSplit
<1>4. a + Len(iodata') + Len(pipe') = 2 * Len(sent)
  <2>1. \A p \in Nat : a + k + (p - k) = a + p
    BY SMT, <1>2
  <2>2. QED
    BY <1>2, <1>3, <2>1, Zenon
<1>5. Holds(pipe', a + Len(iodata'))
  BY <1>3
<1>6. QED
  BY <1>1, <1>3, <1>4, <1>5 DEF PartsInv, a

\* notify_completion adds what was read to the buffer.
LEMMA NotifyParts ==
  ASSUME PartsInv, NotifyCompletion, UNCHANGED <<pipe, sent, got, whole>>
  PROVE  PartsInv'
<1> DEFINE a == 2 * Len(got)
<1>1. /\ a \in Nat /\ read_buf \in Seq(Unit) /\ iodata \in Seq(Unit)
      /\ Len(read_buf) \in Nat /\ Len(iodata) \in Nat
      /\ Holds(read_buf, a) /\ Holds(iodata, a + Len(read_buf))
      /\ Holds(pipe, a + Len(read_buf) + Len(iodata))
      /\ a + Len(read_buf) + Len(iodata) + Len(pipe) = 2 * Len(sent)
  BY SMT DEF PartsInv
<1>2. iodata' = <<>> /\ Len(iodata') = 0 /\ read_buf' = read_buf \o iodata
  BY DEF NotifyCompletion
<1> HIDE DEF a
<1>3. /\ read_buf' \in Seq(Unit) /\ Len(read_buf') = Len(read_buf) + Len(iodata)
      /\ Holds(read_buf', a)
  BY <1>1, <1>2, HoldsConcat
<1>4. a + Len(read_buf') + Len(iodata') = a + Len(read_buf) + Len(iodata)
  <2>1. \A x, y \in Nat : a + (x + y) + 0 = a + x + y
    BY SMT, <1>1
  <2>2. QED
    BY <1>1, <1>2, <1>3, <2>1, Zenon
<1>5. Holds(pipe', a + Len(read_buf') + Len(iodata'))
      /\ a + Len(read_buf') + Len(iodata') + Len(pipe') = 2 * Len(sent')
  BY <1>1, <1>4, Zenon
<1>6. iodata' \in Seq(Unit) /\ Holds(iodata', a + Len(read_buf'))
  BY SMT, <1>2 DEF Holds
<1>7. QED
  BY <1>3, <1>5, <1>6 DEF PartsInv, a

\* The message at the start of the buffer is the next one, and leaves the buffer.
LEMMA DeliverParts ==
  ASSUME PartsInv, ~lossy, HasMessage, Deliver, UNCHANGED <<iodata, pipe, sent>>
  PROVE  PartsInv'
<1> DEFINE n == Len(got)
           r == Len(read_buf)
<1>1. /\ n \in Nat /\ r \in Nat /\ 2 \in 0 .. r /\ 1 \in 1 .. r
      /\ read_buf \in Seq(Unit) /\ Holds(read_buf, 2 * n)
      /\ Len(iodata) \in Nat /\ Len(pipe) \in Nat
  BY SMT DEF PartsInv, HasMessage
<1>2. got' = Append(got, First) /\ read_buf' = SubSeq(read_buf, 3, r)
  BY DEF Deliver
<1>3. First = n + 1
  <2>1. At(2 * n + 1) = <<n + 1, 1>>
    BY SMT, <1>1 DEF At
  <2>2. read_buf[1] = At(2 * n + 1)
    BY <1>1 DEF Holds
  <2>3. QED
    BY SMT, <2>1, <2>2 DEF First
<1>4. /\ got' \in Seq(Nat) /\ Len(got') = n + 1
      /\ \A i \in 1 .. Len(got') : got'[i] = i
  <2>1. got \in Seq(Nat) /\ \A i \in 1 .. n : got[i] = i
    BY DEF PartsInv
  <2>2. /\ got' \in Seq(Nat) /\ Len(got') = n + 1 /\ got'[n + 1] = n + 1
        /\ \A i \in 1 .. n : got'[i] = got[i]
    BY SMT, <1>1, <1>2, <1>3, <2>1
  <2>3. ASSUME NEW i \in 1 .. n + 1 PROVE got'[i] = i
    <3>1. i \in 1 .. n \/ i = n + 1
      BY SMT, <1>1
    <3>2. QED
      BY <2>1, <2>2, <3>1, Zenon
  <2>4. QED
    BY <2>2, <2>3
<1>5. read_buf' \in Seq(Unit) /\ Len(read_buf') = r - 2 /\ Holds(read_buf', 2 * n + 2)
  <2>1. 2 * n \in Nat /\ read_buf' = SubSeq(read_buf, 2 + 1, r)
    BY SMT, <1>1, <1>2
  <2>2. /\ SubSeq(read_buf, 2 + 1, r) \in Seq(Unit)
        /\ Len(SubSeq(read_buf, 2 + 1, r)) = r - 2
        /\ Holds(SubSeq(read_buf, 2 + 1, r), 2 * n + 2)
    BY <1>1, <2>1, HoldsSplit
  <2>3. QED
    BY <2>1, <2>2, Zenon
<1> HIDE DEF n, r
<1>6. 2 * Len(got') = 2 * n + 2
  BY SMT, <1>1, <1>4
<1>7. 2 * Len(got') + Len(read_buf') = 2 * n + r
  <2>1. 2 * n + 2 + (r - 2) = 2 * n + r
    BY SMT, <1>1
  <2>2. QED
    BY <1>5, <1>6, <2>1, Zenon
<1>8. whole' = Len(got')
  BY <1>4 DEF Deliver, PartsInv, n
<1>9. QED
  BY <1>4, <1>5, <1>6, <1>7, <1>8 DEF PartsInv, n, r

\* While the parts are together the buffer begins with the header of a message, and goes
\* on with the same message.
LEMMA NotGarbled ==
  ASSUME PartsInv
  PROVE  ~Garbled
<1> DEFINE n == Len(got)
<1>1. n \in Nat /\ read_buf \in Seq(Unit) /\ Holds(read_buf, 2 * n)
  BY SMT DEF PartsInv
<1>2. At(2 * n + 1) = <<n + 1, 1>> /\ At(2 * n + 2) = <<n + 1, 2>>
  BY SMT, <1>1 DEF At
<1>3. read_buf # <<>> => read_buf[1] = <<n + 1, 1>>
  <2>1. read_buf # <<>> => 1 \in 1 .. Len(read_buf)
    BY SMT, <1>1
  <2>2. QED
    BY <1>1, <1>2, <2>1 DEF Holds
<1>4. Len(read_buf) >= 2 => read_buf[2] = <<n + 1, 2>>
  <2>1. Len(read_buf) >= 2 => 2 \in 1 .. Len(read_buf)
    BY SMT, <1>1
  <2>2. QED
    BY <1>1, <1>2, <2>1 DEF Holds
<1>5. read_buf # <<>> => First = n + 1
  BY SMT, <1>3 DEF First
<1>6. QED
  BY <1>3, <1>4, <1>5 DEF Garbled

-----------------------------------------------------------------------------
(* The invariants *)

\* The types that the reader's invariant needs.
BufferType == read_buf \in Seq(Unit) /\ iodata \in Seq(Unit) /\ pipe \in Seq(Unit) /\ sent \in Seq(Senders)

\* ReaderInv and BufferType hold initially and are kept by every step, whatever the
\* constants are.
LEMMA ReaderStepInv ==
  ASSUME ReaderInv, BufferType, [Next]_vars
  PROVE  ReaderInv'
<1>1. CASE UNCHANGED vars
  BY <1>1, SameBuffer DEF vars, kernelVars, senderVars, readerVars, ReaderInv
<1>2. CASE ReaderStep
  BY <1>2, GetKeepsReader, FetchKeepsReader, CancelKeepsReader DEF ReaderStep, BufferType
<1>3. CASE KernelStep
  BY <1>3, KernelKeepsReader
<1>4. CASE \E s \in Senders : SenderStep(s)
  BY <1>4, SenderKeepsReader
<1>5. CASE (\E m \in Modes : Receive(m)) \/ Transfer \/ Consume \/ DropReceiver
  BY <1>5, CallKeepsReader
<1>6. QED
  BY <1>1, <1>2, <1>3, <1>4, <1>5 DEF Next

\* A part of a sequence of units, or two of them together, is one.
LEMMA UnitSequences ==
  /\ \A s, t \in Seq(Unit) : s \o t \in Seq(Unit)
  /\ \A s \in Seq(Unit) : \A k \in 1 .. Len(s) :
       SubSeq(s, 1, k) \in Seq(Unit) /\ SubSeq(s, k + 1, Len(s)) \in Seq(Unit)
  /\ \A s \in Seq(Unit) : Len(s) >= 2 => SubSeq(s, 3, Len(s)) \in Seq(Unit)
  /\ \A n \in Nat : <<<<n + 1, 1>>, <<n + 1, 2>>>> \in Seq(Unit)
<1>1. \A s, t \in Seq(Unit) : s \o t \in Seq(Unit)
  BY SMT
<1>2. \A s \in Seq(Unit) : \A k \in 1 .. Len(s) :
        SubSeq(s, 1, k) \in Seq(Unit) /\ SubSeq(s, k + 1, Len(s)) \in Seq(Unit)
  BY SMT
<1>3. \A s \in Seq(Unit) : Len(s) >= 2 => SubSeq(s, 3, Len(s)) \in Seq(Unit)
  BY SMT
<1>4. \A n \in Nat : <<<<n + 1, 1>>, <<n + 1, 2>>>> \in Seq(Unit)
  BY HoldsMessage
<1>5. QED
  BY <1>1, <1>2, <1>3, <1>4

\* Every step keeps BufferType.
LEMMA BufferTypeStep ==
  ASSUME BufferType, [Next]_vars
  PROVE  BufferType'
<1> USE DEF BufferType
<1>1. CASE UNCHANGED <<read_buf, iodata, pipe, sent>>
  BY <1>1
<1>2. ASSUME NEW s \in Senders, Write(s), UNCHANGED <<read_buf, iodata>> PROVE BufferType'
  <2>1. sent' \in Seq(Senders) /\ Len(sent) \in Nat
    BY SMT, <1>2 DEF Write
  <2>2. pipe' = pipe \o <<<<Len(sent) + 1, 1>>, <<Len(sent) + 1, 2>>>>
    BY <1>2 DEF Write
  <2>3. pipe' \in Seq(Unit)
    BY <2>1, <2>2, UnitSequences, Zenon
  <2>4. QED
    BY <1>2, <2>1, <2>3
<1>3. ASSUME NEW k \in 1 .. Len(pipe), Complete(k) PROVE BufferType'
  BY <1>3, UnitSequences DEF Complete, senderVars, readerVars
<1>4. ASSUME NotifyCompletion, UNCHANGED <<pipe, sent>> PROVE BufferType'
  BY SMT, <1>4, UnitSequences DEF NotifyCompletion
<1>5. ASSUME Deliver, HasMessage, UNCHANGED <<iodata, pipe, sent>> PROVE BufferType'
  BY <1>5, UnitSequences DEF Deliver, HasMessage
<1>15. CASE GetGarbled
  <2>1. /\ read_buf' = read_buf \/ \E k \in 1 .. Len(read_buf) : read_buf' = SubSeq(read_buf, k + 1, Len(read_buf))
        /\ UNCHANGED <<iodata, pipe, sent>>
    BY <1>15 DEF GetGarbled, kernelVars, senderVars
  <2>2. QED
    BY <2>1, UnitSequences
<1>6. ASSUME NEW s \in Senders, SenderStep(s) PROVE BufferType'
  BY <1>1, <1>2, <1>6
  DEF SenderStep, SendSmall, SendBig, SendRaw, DropSender, Crash, readerVars, kernelVars
<1>7. CASE KernelStep
  BY <1>1, <1>3, <1>7 DEF KernelStep, Break, Abort, senderVars, readerVars
<1>8. CASE GetSmall \/ GetBig
  BY <1>5, <1>8 DEF GetSmall, GetBig, kernelVars, senderVars
<1>9. CASE FetchDone \/ FetchBroken \/ Wait
  BY <1>4, <1>9 DEF FetchDone, FetchBroken, Wait, senderVars
<1>10. CASE CancelNotFound
  BY SMT, <1>10 DEF CancelNotFound, senderVars
<1>11. CASE GetBroken \/ GetPanics \/ GetNone \/ StartRead \/ FetchNoData \/ FetchTimeout
            \/ Cancel \/ TransferEnd
  BY <1>1, <1>11
  DEF GetBroken, GetPanics, GetNone, StartRead, FetchNoData, FetchTimeout, Cancel,
      TransferEnd, kernelVars, senderVars
<1>12. CASE (\E m \in Modes : Receive(m)) \/ Transfer \/ DropReceiver
  BY <1>1, <1>12 DEF Receive, Transfer, DropReceiver, GoAway, kernelVars, senderVars
<1>13. CASE Consume
  <2>1. read_buf' \in {<<>>, read_buf} /\ UNCHANGED <<iodata, pipe, sent>>
    BY <1>13 DEF Consume, kernelVars, senderVars
  <2>2. CASE read_buf' = <<>>
    BY SMT, <2>1, <2>2
  <2>3. CASE read_buf' = read_buf
    BY <2>1, <2>3
  <2>4. QED
    BY <2>1, <2>2, <2>3, Zenon
<1>14. CASE UNCHANGED vars
  BY <1>1, <1>14 DEF vars, kernelVars, senderVars, readerVars
<1>16. QED
  BY <1>6, <1>7, <1>8, <1>9, <1>10, <1>11, <1>12, <1>13, <1>14, <1>15 DEF Next, ReaderStep

\* The reader and the read in flight agree in every reachable state.
LEMMA ReaderCorrect == Spec => [](ReaderInv /\ BufferType)
<1>1. Init => ReaderInv /\ BufferType
  BY SMT, ReaderInit DEF Init, BufferType
<1>2. ReaderInv /\ BufferType /\ [Next]_vars => (ReaderInv /\ BufferType)'
  BY ReaderStepInv, BufferTypeStep
<1>3. QED
  BY <1>1, <1>2, PTL DEF Spec

\* While the kernel may write to the reader's buffer, the reader takes a read to be
\* in flight, and neither drop() nor a transfer lets go of the buffer: for any
\* number of senders, every kind of call and every way the receiver moves.
THEOREM KernelNeverWritesToFreedBuffer == Spec => []BufferOwned
<1>1. ReaderInv => BufferOwned
  BY DEF ReaderInv, BufferOwned
<1>2. QED
  BY <1>1, ReaderCorrect, PTL

\* ChannelClosed is returned only when no sender is left, the pipe is empty, no read
\* is in flight and the buffer holds no whole message; and all that stays so.
THEOREM ClosedIsTheEnd == Spec => []ClosedAtEnd
<1>1. ReaderInv => ClosedAtEnd
  BY DEF ReaderInv, ClosedAtEnd
<1>2. QED
  BY <1>1, ReaderCorrect, PTL

\* What is lost stays lost.
LEMMA LossyStays ==
  ASSUME [Next]_vars
  PROVE  lossy => lossy'
<1>1. CASE UNCHANGED vars
  BY <1>1 DEF vars, readerVars
<1>2. ASSUME NEW s \in Senders, SenderStep(s) PROVE lossy' = lossy
  BY <1>2 DEF SenderStep, SendSmall, SendBig, SendRaw, DropSender, Crash, readerVars
<1>3. CASE KernelStep
  BY <1>3 DEF KernelStep, Complete, Break, Abort, readerVars
<1>4. CASE ReaderStep
  BY <1>4 DEF ReaderStep, GetSmall, GetBig, Deliver, GetBroken, GetPanics, GetGarbled, GetNone,
              StartRead, FetchDone, FetchBroken, FetchNoData, FetchTimeout, Cancel,
              CancelNotFound, Wait, TransferEnd
<1>5. CASE (\E m \in Modes : Receive(m)) \/ Transfer \/ Consume \/ DropReceiver
  BY <1>5 DEF Receive, Transfer, Consume, DropReceiver, GoAway
<1>6. QED
  BY <1>1, <1>2, <1>3, <1>4, <1>5 DEF Next

\* Until something is lost, every step keeps the parts of the stream together: only a
\* cancellation that finds the read complete and consume() throw units away.
LEMMA PartsStep ==
  ASSUME ReaderInv, ~lossy => PartsInv, [Next]_vars, ~lossy'
  PROVE  PartsInv'
<1>0. PartsInv /\ ~lossy
  BY LossyStays
<1>1. ASSUME NEW s \in Senders, SendSmall(s) \/ SendBig(s) PROVE PartsInv'
  BY <1>0, <1>1, WriteParts DEF SendSmall, SendBig, readerVars
<1>2. ASSUME NEW s \in Senders, SendRaw(s) \/ DropSender(s) \/ Crash(s) PROVE PartsInv'
  BY <1>0, <1>2, PartsSame DEF SendRaw, DropSender, Crash, readerVars, kernelVars
<1>3. CASE KernelStep
  BY <1>0, <1>3, CompleteParts, PartsSame DEF KernelStep, Break, Abort, senderVars, readerVars
<1>4. CASE GetSmall \/ GetBig
  BY <1>0, <1>4, DeliverParts DEF GetSmall, GetBig, kernelVars, senderVars
<1>5. CASE FetchDone \/ FetchBroken \/ Wait
  BY <1>0, <1>5, NotifyParts DEF FetchDone, FetchBroken, Wait, senderVars
<1>6. CASE CancelNotFound
  <2>1. iodata = <<>>
    BY <1>6 DEF CancelNotFound
  <2>2. QED
    BY <1>0, <1>6, <2>1, PartsSame DEF CancelNotFound, senderVars
<1>7. CASE GetBroken \/ GetPanics \/ GetNone \/ StartRead \/ FetchNoData \/ FetchTimeout
            \/ Cancel \/ TransferEnd
  BY <1>0, <1>7, PartsSame
  DEF GetBroken, GetPanics, GetNone, StartRead, FetchNoData, FetchTimeout, Cancel,
      TransferEnd, kernelVars, senderVars
<1>8. CASE (\E m \in Modes : Receive(m)) \/ Transfer \/ DropReceiver
  BY <1>0, <1>8, PartsSame DEF Receive, Transfer, DropReceiver, GoAway, kernelVars, senderVars
<1>9. CASE Consume
  <2>1. read_buf' = read_buf /\ UNCHANGED <<iodata, pipe, sent, got, whole>>
    BY <1>9 DEF Consume, kernelVars, senderVars
  <2>2. QED
    BY <1>0, <2>1, PartsSame
<1>10. CASE UNCHANGED vars
  BY <1>0, <1>10, PartsSame DEF vars, kernelVars, senderVars, readerVars
<1>11. ~GetGarbled
  BY <1>0, NotGarbled DEF GetGarbled
<1>12. QED
  BY <1>1, <1>2, <1>3, <1>4, <1>5, <1>6, <1>7, <1>8, <1>9, <1>10, <1>11
  DEF Next, ReaderStep, SenderStep

\* Two positions further is one message further.
LEMMA Halves ==
  ASSUME NEW n \in Nat, NEW i \in Nat
  PROVE  (2 * n + i + 1) \div 2 = n + (i + 1) \div 2 /\ (2 * n + i) % 2 = i % 2
BY SMT

\* What remains of w messages when n were returned.
LEMMA Remaining ==
  ASSUME NEW n \in Nat, NEW x \in Nat, NEW y \in Nat, NEW z \in Nat, NEW w \in Nat,
         2 * n + x + y + z = 2 * w
  PROVE  x + y + z = 2 * (w - n) /\ w - n \in Nat
BY SMT

\* The parts together are a stretch of the stream, the one from the first message not
\* returned to the last one written.
LEMMA PartsTogether ==
  ASSUME PartsInv
  PROVE  /\ Len(sent) - Len(got) \in Nat /\ Len(got) \in Nat
         /\ Rest \in Seq(Unit) /\ Holds(Rest, 2 * Len(got))
         /\ Len(Rest) = 2 * (Len(sent) - Len(got))
<1> DEFINE n == Len(got)
           u == read_buf \o iodata
<1>1. n \in Nat /\ 2 * n \in Nat /\ Len(read_buf) \in Nat /\ Len(iodata) \in Nat /\ Len(pipe) \in Nat
      /\ Len(sent) \in Nat
  BY SMT DEF PartsInv
<1>2. u \in Seq(Unit) /\ Len(u) = Len(read_buf) + Len(iodata) /\ Holds(u, 2 * n)
  BY <1>1, HoldsConcat DEF PartsInv
<1> HIDE DEF u
<1>3. pipe \in Seq(Unit) /\ Holds(pipe, 2 * n + Len(u))
  <2>1. 2 * n + Len(u) = 2 * n + Len(read_buf) + Len(iodata)
    BY SMT, <1>1, <1>2
  <2>2. QED
    BY <2>1 DEF PartsInv
<1>4. Rest = u \o pipe
  BY DEF Rest, u
<1>5. Rest \in Seq(Unit) /\ Len(Rest) = Len(u) + Len(pipe) /\ Holds(Rest, 2 * n)
  BY <1>1, <1>2, <1>3, <1>4, HoldsConcat
<1>6. Len(Rest) = 2 * (Len(sent) - n) /\ Len(sent) - n \in Nat
  <2>1. 2 * n + Len(read_buf) + Len(iodata) + Len(pipe) = 2 * Len(sent)
    BY DEF PartsInv
  <2> HIDE DEF n
  <2>2. Len(Rest) = Len(read_buf) + Len(iodata) + Len(pipe)
    BY <1>2, <1>5, Zenon
  <2>3. QED
    BY SMT, <1>1, <2>1, <2>2, Remaining
<1>7. QED
  BY <1>1, <1>5, <1>6

\* The parts together are the rest of the stream.
LEMMA PartsAreTheRest == PartsInv => StreamWhole
<1> SUFFICES ASSUME PartsInv PROVE StreamWhole
  OBVIOUS
<1> DEFINE n == Len(got)
<1>1. /\ n \in Nat /\ Rest \in Seq(Unit) /\ Holds(Rest, 2 * n)
      /\ Len(Rest) = 2 * (Len(sent) - n)
  BY PartsTogether
<1>2. ASSUME NEW i \in DOMAIN Rest PROVE Rest[i] = <<n + (i + 1) \div 2, 2 - (i % 2)>>
  <2>1. i \in 1 .. Len(Rest) /\ i \in Nat
    BY SMT, <1>1
  <2>2. Rest[i] = At(2 * n + i)
    BY <1>1, <2>1 DEF Holds
  <2>3. (2 * n + i + 1) \div 2 = n + (i + 1) \div 2 /\ (2 * n + i) % 2 = i % 2
    BY <1>1, <2>1, Halves
  <2>4. QED
    BY <2>2, <2>3 DEF At
<1>3. \A i \in DOMAIN got : got[i] = i
  BY SMT DEF PartsInv
<1>4. QED
  BY <1>1, <1>2, <1>3 DEF StreamWhole

\* However reads split the bytes, and calls give up and begin again, the messages
\* returned and the bytes still to be parsed are the messages written, in order, until
\* CancelIoEx finds a read that is complete or consume() leaves part of a message
\* behind: for any number of senders and messages and all ways to call and to move.
THEOREM StreamStaysWhole == Spec => []NothingLost
<1>1. Init => (~lossy => PartsInv)
  BY PartsInit
<1>2. ReaderInv /\ (~lossy => PartsInv) /\ [Next]_vars => (~lossy => PartsInv)'
  BY PartsStep
<1>3. (~lossy => PartsInv) => NothingLost
  BY PartsAreTheRest DEF NothingLost
<1>4. QED
  BY <1>1, <1>2, <1>3, ReaderCorrect, PTL DEF Spec

-----------------------------------------------------------------------------
(* The channel is a queue *)

\* A message that is acknowledged, or whose data is being written, was written.
SendersInv ==
  /\ acked \subseteq 1 .. Len(sent)
  /\ amid \in [Senders -> 0 .. Len(sent)]
  /\ Len(sent) <= MaxMessages

\* Init establishes SendersInv.
LEMMA SendersInit == Init => SendersInv
BY SMT, WindowsAssumption DEF Init, SendersInv

\* Every step keeps SendersInv.
LEMMA SendersStep ==
  ASSUME BufferType, SendersInv, [Next]_vars
  PROVE  SendersInv'
<1> USE DEF SendersInv
<1>1. Len(sent) \in Nat
  BY SMT DEF BufferType
<1>2. CASE UNCHANGED <<acked, amid, sent>>
  BY <1>2
<1>3. ASSUME NEW s \in Senders, Write(s) PROVE Len(sent') = Len(sent) + 1 /\ Len(sent') <= MaxMessages
  BY SMT, <1>1, <1>3, WindowsAssumption DEF Write, BufferType
<1>4. ASSUME NEW s \in Senders, SendSmall(s) PROVE SendersInv'
  <2>1. /\ Len(sent') = Len(sent) + 1 /\ Len(sent') <= MaxMessages
        /\ acked' = acked \cup {Len(sent) + 1} /\ amid' = amid
    BY <1>3, <1>4 DEF SendSmall
  <2>2. 1 .. Len(sent) \subseteq 1 .. Len(sent') /\ Len(sent) + 1 \in 1 .. Len(sent')
    BY SMT, <1>1, <2>1
  <2>3. acked \subseteq 1 .. Len(sent)
    OBVIOUS
  <2>4. acked' \subseteq 1 .. Len(sent')
    BY <2>1, <2>2, <2>3, Zenon
  <2>5. amid' \in [Senders -> 0 .. Len(sent')]
    BY SMT, <1>1, <2>1
  <2>6. QED
    BY <2>1, <2>4, <2>5
<1>5. ASSUME NEW s \in Senders, SendBig(s) PROVE SendersInv'
  <2>1. /\ Len(sent') = Len(sent) + 1 /\ Len(sent') <= MaxMessages
        /\ acked' = acked /\ amid' = [amid EXCEPT ![s] = Len(sent) + 1]
    BY <1>3, <1>5 DEF SendBig
  <2>2. acked' \subseteq 1 .. Len(sent')
    BY SMT, <1>1, <2>1
  <2>3. amid' \in [Senders -> 0 .. Len(sent')]
    BY SMT, <1>1, <2>1
  <2>4. QED
    BY <2>1, <2>2, <2>3
<1>6. ASSUME NEW s \in Senders, SendRaw(s) PROVE SendersInv'
  <2>1. /\ sent' = sent /\ amid' \in {amid, [amid EXCEPT ![s] = 0]}
        /\ acked' \in {acked, acked \cup {amid[s]}} /\ amid[s] # 0
    BY <1>6 DEF SendRaw
  <2>2. amid[s] \in 1 .. Len(sent)
    BY SMT, <1>1, <2>1
  <2>3. acked' \subseteq 1 .. Len(sent)
    BY <2>1, <2>2
  <2>4. amid' \in [Senders -> 0 .. Len(sent)]
    BY SMT, <1>1, <2>1
  <2>5. QED
    BY <2>1, <2>3, <2>4
<1>7. ASSUME NEW s \in Senders, DropSender(s) PROVE SendersInv'
  BY <1>2, <1>7 DEF DropSender
<1>8. ASSUME NEW s \in Senders, Crash(s) PROVE SendersInv'
  BY SMT, <1>1, <1>8 DEF Crash
<1>9. CASE KernelStep
  BY <1>2, <1>9 DEF KernelStep, Complete, Break, Abort, senderVars
<1>10. CASE ReaderStep
  BY <1>2, <1>10
  DEF ReaderStep, GetSmall, GetBig, GetBroken, GetPanics, GetGarbled, GetNone, StartRead,
      FetchDone, FetchBroken, FetchNoData, FetchTimeout, Cancel, CancelNotFound, Wait, TransferEnd, senderVars
<1>11. CASE (\E m \in Modes : Receive(m)) \/ Transfer \/ Consume \/ DropReceiver
  BY <1>2, <1>11 DEF Receive, Transfer, Consume, DropReceiver, GoAway, senderVars
<1>12. CASE UNCHANGED vars
  BY <1>2, <1>12 DEF vars, senderVars
<1>13. QED
  BY <1>4, <1>5, <1>6, <1>7, <1>8, <1>9, <1>10, <1>11, <1>12 DEF Next, SenderStep

\* The messages returned before a loss are the first ones written.
WholeInv ==
  /\ got \in Seq(Nat)
  /\ whole \in Nat /\ whole <= Len(got) /\ whole <= Len(sent)
  /\ \A i \in 1 .. whole : got[i] = i

\* That follows from where the units are, while these are together.
LEMMA PartsWhole == PartsInv => WholeInv
<1> SUFFICES ASSUME PartsInv PROVE WholeInv
  OBVIOUS
<1>1. Len(got) \in Nat /\ Len(sent) - Len(got) \in Nat /\ Len(sent) \in Nat
  BY SMT, PartsTogether DEF PartsInv
<1>2. Len(got) <= Len(got) /\ Len(got) <= Len(sent)
  BY SMT, <1>1
<1>3. QED
  BY <1>1, <1>2 DEF PartsInv, WholeInv

\* What is returned after a loss comes after those messages.
LEMMA WholeKept ==
  ASSUME WholeInv, BufferType, whole' = whole,
         got' = got \/ \E x \in Nat : got' = Append(got, x),
         sent' = sent \/ \E s \in Senders : sent' = Append(sent, s)
  PROVE  WholeInv'
<1>1. Len(sent') >= Len(sent) /\ Len(sent) \in Nat /\ Len(sent') \in Nat
  BY SMT DEF BufferType
<1>2. /\ got' \in Seq(Nat) /\ Len(got') >= Len(got) /\ Len(got) \in Nat /\ Len(got') \in Nat
      /\ \A i \in 1 .. Len(got) : got'[i] = got[i]
  <2>1. got \in Seq(Nat)
    BY DEF WholeInv
  <2>2. CASE got' = got
    BY SMT, <2>1, <2>2
  <2>3. ASSUME NEW x \in Nat, got' = Append(got, x)
        PROVE  /\ got' \in Seq(Nat) /\ Len(got') >= Len(got) /\ Len(got) \in Nat /\ Len(got') \in Nat
               /\ \A i \in 1 .. Len(got) : got'[i] = got[i]
    BY SMT, <2>1, <2>3
  <2>4. QED
    BY <2>2, <2>3
<1>3. /\ whole \in Nat /\ whole <= Len(got') /\ whole <= Len(sent')
      /\ \A i \in 1 .. whole : i \in 1 .. Len(got)
  BY SMT, <1>1, <1>2 DEF WholeInv
<1>4. QED
  BY <1>2, <1>3 DEF WholeInv

\* Every step after which something is lost keeps WholeInv.
LEMMA WholeStep ==
  ASSUME BufferType, WholeInv, [Next]_vars, lossy'
  PROVE  WholeInv'
<1>1. ASSUME NEW s \in Senders, SenderStep(s) PROVE WholeInv'
  BY <1>1, WholeKept
  DEF SenderStep, SendSmall, SendBig, Write, SendRaw, DropSender, Crash, readerVars
<1>2. CASE KernelStep
  BY <1>2, WholeKept DEF KernelStep, Complete, Break, Abort, senderVars, readerVars
<1>3. CASE GetSmall \/ GetBig
  <2>1. HasMessage /\ Deliver /\ sent' = sent
    BY <1>3 DEF GetSmall, GetBig, kernelVars, senderVars
  <2>2. First \in Nat
    <3>1. Len(read_buf) >= 2 /\ read_buf \in Seq(Unit)
      BY <2>1 DEF BufferType, HasMessage
    <3>2. read_buf[1] \in Unit
      BY SMT, <3>1
    <3>3. QED
      BY SMT, <3>2 DEF First, Unit
  <2>3. whole' = whole /\ got' = Append(got, First)
    BY <2>1 DEF Deliver
  <2>4. QED
    BY <2>1, <2>2, <2>3, WholeKept
<1>4. CASE GetGarbled
  <2>1. whole' = whole /\ sent' = sent /\ (got' = got \/ got' = Append(got, 0))
    BY <1>4 DEF GetGarbled, senderVars
  <2>2. 0 \in Nat
    BY SMT
  <2>3. QED
    BY <2>1, <2>2, WholeKept
<1>5. CASE GetBroken \/ GetPanics \/ GetNone \/ StartRead \/ FetchDone \/ FetchBroken
           \/ FetchNoData \/ FetchTimeout \/ Cancel \/ CancelNotFound \/ Wait \/ TransferEnd
  BY <1>5, WholeKept
  DEF GetBroken, GetPanics, GetNone, StartRead, FetchDone, FetchBroken, FetchNoData,
      FetchTimeout, Cancel, CancelNotFound, Wait, TransferEnd, senderVars
<1>6. CASE (\E m \in Modes : Receive(m)) \/ Transfer \/ Consume \/ DropReceiver
  BY <1>6, WholeKept DEF Receive, Transfer, Consume, DropReceiver, GoAway, senderVars
<1>7. CASE UNCHANGED vars
  BY <1>7, WholeKept DEF vars, senderVars, readerVars
<1>8. QED
  BY <1>1, <1>2, <1>3, <1>4, <1>5, <1>6, <1>7 DEF Next, ReaderStep

\* The queue holds the messages from the first one not returned to the last one
\* written, until it is gone; those returned are the ones before.
QueueInv ==
  /\ sent \in Seq(Senders) /\ whole \in Nat /\ Len(sent) - whole \in Nat
  /\ Returned = [i \in 1 .. whole |-> Name(i)]
  /\ Queued = IF Gone THEN <<>>
              ELSE [i \in 1 .. Len(sent) - whole |-> Name(whole + i)]

\* That follows from where the units are.
LEMMA PartsAreTheQueue ==
  ASSUME BufferType, WholeInv, ~lossy => PartsInv
  PROVE  QueueInv
<1>1. sent \in Seq(Senders) /\ whole \in Nat /\ Len(sent) - whole \in Nat
  BY SMT DEF BufferType, WholeInv
<1>2. Returned = [i \in 1 .. whole |-> Name(i)]
  BY DEF Returned, WholeInv
<1>3. CASE Gone
  BY <1>1, <1>2, <1>3 DEF QueueInv, Queued
<1>4. CASE ~Gone
  <2> DEFINE n == Len(got)
             k == Len(sent) - Len(got)
  <2>1. PartsInv /\ n = whole
    BY <1>4 DEF Gone, PartsInv
  <2>2. n \in Nat /\ k \in Nat /\ Rest \in Seq(Unit) /\ Holds(Rest, 2 * n) /\ Len(Rest) = 2 * k
    BY <2>1, PartsTogether
  <2> HIDE DEF n, k
  <2>3. Len(Rest) \div 2 = k
    BY SMT, <2>2
  <2>4. ASSUME NEW i \in 1 .. k PROVE Rest[2 * i - 1][1] = n + i
    <3>1. 2 * i - 1 \in 1 .. Len(Rest)
      BY SMT, <2>2
    <3>2. Rest[2 * i - 1] = At(2 * n + (2 * i - 1))
      BY <2>2, <3>1 DEF Holds
    <3>3. (2 * n + (2 * i - 1) + 1) \div 2 = n + i
      BY SMT, <2>2
    <3>4. QED
      BY SMT, <3>2, <3>3 DEF At
  <2>5. Queued = [i \in 1 .. k |-> Name(Rest[2 * i - 1][1])]
    BY <1>4, <2>3 DEF Queued
  <2>6. Queued = [i \in 1 .. k |-> Name(n + i)]
    BY <2>4, <2>5
  <2>7. QED
    BY <1>1, <1>2, <1>4, <2>1, <2>6 DEF QueueInv, n, k
<1>5. QED
  BY <1>3, <1>4

\* The empty pipe is the empty queue.
LEMMA SimInit == Init => Abstract!Init
<1> SUFFICES ASSUME Init PROVE Abstract!Init
  OBVIOUS
<1>1. ~Gone /\ whole = 0 /\ sent = <<>> /\ acked = {}
  BY DEF Init, Gone
<1>2. QueueInv
  <2>1. BufferType
    BY SMT DEF Init, BufferType
  <2>2. QED
    BY <2>1, PartsInit, PartsWhole, PartsAreTheQueue
<1>3. Queued = <<>> /\ Returned = <<>>
  BY SMT, <1>1, <1>2 DEF QueueInv
<1>4. QED
  BY <1>1, <1>3 DEF Abstract!Init, Acked

\* A step that leaves the messages alone, wherever it moves their units, is no step of
\* the queue.
LEMMA SimQuiet ==
  ASSUME QueueInv, QueueInv', UNCHANGED <<sent, whole, acked>>, Gone <=> Gone'
  PROVE  UNCHANGED Abstract!vars
<1>1. Queued' = Queued /\ Returned' = Returned
  BY DEF QueueInv, Name
<1>2. Acked' = Acked
  BY DEF Acked, Name
<1>3. QED
  BY <1>1, <1>2 DEF Abstract!vars

\* When the receiver goes away, or bytes are lost, the queue goes.
LEMMA SimDropReceiver ==
  ASSUME QueueInv, QueueInv', UNCHANGED <<sent, whole, acked>>, ~Gone, Gone'
  PROVE  Abstract!DropReceiver
<1>1. Queued' = <<>> /\ Returned' = Returned
  BY DEF QueueInv, Name
<1>2. Acked' = Acked
  BY DEF Acked, Name
<1>3. QED
  BY <1>1, <1>2 DEF Abstract!DropReceiver

\* The end of a big message's data acknowledges a message that was written, and is
\* queued or was returned, unless the queue is gone.
LEMMA SimAck ==
  ASSUME QueueInv, QueueInv', UNCHANGED <<sent, whole>>, Gone <=> Gone',
         NEW m \in 1 .. Len(sent), acked' = acked \cup {m}
  PROVE  Abstract!Ack(Name(m))
<1>1. Queued' = Queued /\ Returned' = Returned
  BY DEF QueueInv, Name
<1>2. Acked' = Acked \cup {Name(m)}
  BY DEF Acked, Name
<1>3. CASE m \in 1 .. whole
  <2>1. m \in DOMAIN Returned /\ Returned[m] = Name(m)
    BY <1>3 DEF QueueInv
  <2>2. QED
    BY <1>1, <1>2, <2>1 DEF Abstract!Ack, Abstract!Elements
<1>4. CASE m - whole \in 1 .. Len(sent) - whole /\ ~Gone
  <2>1. /\ m - whole \in DOMAIN Queued
        /\ Queued[m - whole] = Name(whole + (m - whole))
    BY <1>4 DEF QueueInv
  <2>2. whole + (m - whole) = m
    BY SMT DEF QueueInv
  <2>3. Name(m) \in Abstract!Elements(Queued)
    BY <2>1, <2>2 DEF Abstract!Elements
  <2>4. QED
    BY <1>1, <1>2, <2>3 DEF Abstract!Ack
<1>5. CASE Gone
  BY <1>1, <1>2, <1>5 DEF Abstract!Ack
<1>6. m \in 1 .. whole \/ m - whole \in 1 .. Len(sent) - whole
  BY SMT DEF QueueInv
<1>7. QED
  BY <1>3, <1>4, <1>5, <1>6

\* A function on 1 .. k is a sequence of length k.
LEMMA MadeSequence ==
  ASSUME NEW S, NEW k \in Nat, NEW f \in [1 .. k -> S]
  PROVE  f \in Seq(S) /\ Len(f) = k
BY SMT

\* A sequence is a function.
LEMMA SequenceIsFunction ==
  ASSUME NEW S, NEW s \in Seq(S)
  PROVE  s \in [1 .. Len(s) -> S]
BY SMT

\* What Append makes of a sequence.
LEMMA AppendIs ==
  ASSUME NEW S, NEW s \in Seq(S), NEW e \in S
  PROVE  Append(s, e) = [i \in 1 .. Len(s) + 1 |-> IF i = Len(s) + 1 THEN e ELSE s[i]]
<1> DEFINE f == [i \in 1 .. Len(s) + 1 |-> IF i = Len(s) + 1 THEN e ELSE s[i]]
<1>1. Append(s, e) \in Seq(S) /\ Len(Append(s, e)) = Len(s) + 1 /\ Len(s) \in Nat
  BY SMT, Appended
<1>2. Append(s, e) \in [1 .. Len(s) + 1 -> S]
  BY <1>1, SequenceIsFunction, Zenon
<1>3. ASSUME NEW i \in 1 .. Len(s) + 1 PROVE Append(s, e)[i] = f[i]
  <2>1. i = Len(s) + 1 \/ (i \in 1 .. Len(s) /\ i # Len(s) + 1)
    BY SMT, <1>1
  <2>2. QED
    BY SMT, <2>1, Appended
<1>4. QED
  BY <1>2, <1>3

\* What Tail makes of one.
LEMMA TailIs ==
  ASSUME NEW S, NEW s \in Seq(S), s # <<>>
  PROVE  Tail(s) = [i \in 1 .. Len(s) - 1 |-> s[i + 1]]
<1> DEFINE f == [i \in 1 .. Len(s) - 1 |-> s[i + 1]]
<1>1. Tail(s) \in Seq(S) /\ Len(Tail(s)) = Len(s) - 1
  BY TailOf
<1>2. Tail(s) \in [1 .. Len(s) - 1 -> S]
  BY <1>1, SequenceIsFunction, Zenon
<1>3. ASSUME NEW i \in 1 .. Len(s) - 1 PROVE Tail(s)[i] = f[i]
  BY <1>1, <1>2, TailOf
<1>4. QED
  BY <1>2, <1>3

\* The write of a message's header puts it in the queue, after all others.
LEMMA SimSend ==
  ASSUME QueueInv, QueueInv', SendersInv, NEW s \in Senders, Write(s), UNCHANGED whole,
         ~Gone, ~Gone',
         acked' \in {acked, acked \cup {Len(sent) + 1}}
  PROVE  Abstract!Next
<1> DEFINE n == whole
           w == Len(sent)
           m == <<s, w + 1>>
<1>1. /\ n \in Nat /\ w \in Nat /\ w - n \in Nat /\ sent \in Seq(Senders)
      /\ sent' = Append(sent, s) /\ w < MaxMessages
  BY SMT DEF QueueInv, Write
<1>2. /\ Len(sent') = w + 1 /\ sent'[w + 1] = s
      /\ \A i \in 1 .. w : sent'[i] = sent[i]
  BY SMT, <1>1
<1>3. /\ Returned = [i \in 1 .. n |-> <<sent[i], i>>]
      /\ Queued = [i \in 1 .. w - n |-> <<sent[n + i], n + i>>]
  BY <1>1 DEF QueueInv, Name
<1>4. /\ Returned' = [i \in 1 .. n |-> <<sent'[i], i>>]
      /\ Queued' = [i \in 1 .. (w + 1) - n |-> <<sent'[n + i], n + i>>]
  BY <1>1, <1>2 DEF QueueInv, Name
<1> HIDE DEF n, w
<1>5. Returned' = Returned
  BY SMT, <1>1, <1>2, <1>3, <1>4
<1>6. Queued' = Append(Queued, m)
  <2>1. (w + 1) - n = (w - n) + 1 /\ n + ((w - n) + 1) = w + 1
    BY SMT, <1>1
  <2>2. Queued \in Seq(Senders \X Nat) /\ Len(Queued) = w - n
    <3>1. \A i \in 1 .. w - n : n + i \in 1 .. w /\ n + i \in Nat
      BY SMT, <1>1
    <3>2. \A j \in 1 .. w : sent[j] \in Senders
      BY SMT, <1>1 DEF w
    <3>3. \A i \in 1 .. w - n : <<sent[n + i], n + i>> \in Senders \X Nat
      BY <3>1, <3>2
    <3>4. Queued \in [1 .. w - n -> Senders \X Nat]
      BY <1>3, <3>3
    <3>5. QED
      BY <1>1, <3>4, MadeSequence
  <2>3. Append(Queued, m) = [i \in 1 .. (w - n) + 1 |-> IF i = (w - n) + 1 THEN m ELSE Queued[i]]
    <3>1. m \in Senders \X Nat
      BY SMT, <1>1
    <3>2. QED
      BY SMT, <2>2, <3>1, AppendIs
  <2>4. ASSUME NEW i \in 1 .. (w - n) + 1
        PROVE  <<sent'[n + i], n + i>> = IF i = (w - n) + 1 THEN m ELSE Queued[i]
    <3>1. CASE i = (w - n) + 1
      BY <1>2, <2>1, <3>1
    <3>2. CASE i \in 1 .. w - n
      <4>1. n + i \in 1 .. w /\ i # (w - n) + 1
        BY SMT, <1>1, <3>2
      <4>2. sent'[n + i] = sent[n + i] /\ Queued[i] = <<sent[n + i], n + i>>
        BY <1>2, <1>3, <3>2, <4>1
      <4>3. (IF i = (w - n) + 1 THEN m ELSE Queued[i]) = Queued[i]
        BY <4>1
      <4>4. QED
        BY <4>2, <4>3, Zenon
    <3>3. i = (w - n) + 1 \/ i \in 1 .. w - n
      BY SMT, <1>1
    <3>4. QED
      BY <3>1, <3>2, <3>3, Zenon
  <2>5. QED
    BY <1>4, <2>1, <2>3, <2>4
<1>7. Acked' \in {Acked, Acked \cup {m}}
  <2>1. \A i \in acked : <<sent'[i], i>> = <<sent[i], i>>
    BY <1>2 DEF SendersInv, w
  <2>2. /\ Acked = {<<sent[i], i>> : i \in acked}
        /\ Acked' = {<<sent'[i], i>> : i \in acked'}
    BY DEF Acked, Name
  <2>3. CASE acked' = acked
    BY <2>1, <2>2, <2>3
  <2>4. CASE acked' = acked \cup {w + 1}
    <3>1. <<sent'[w + 1], w + 1>> = m
      BY <1>2
    <3>2. QED
      BY SMT, <2>1, <2>2, <2>4, <3>1
  <2>5. QED
    BY <2>3, <2>4 DEF w
<1>8. ASSUME NEW e \in Abstract!Elements(Queued) \cup Abstract!Elements(Returned)
      PROVE  e[2] < w + 1
  <2>1. CASE e \in Abstract!Elements(Queued)
    <3>1. PICK i \in 1 .. w - n : e = <<sent[n + i], n + i>>
      BY <1>3, <2>1 DEF Abstract!Elements
    <3>2. QED
      BY SMT, <1>1, <3>1
  <2>2. CASE e \in Abstract!Elements(Returned)
    <3>1. PICK i \in 1 .. n : e = <<sent[i], i>>
      BY <1>3, <2>2 DEF Abstract!Elements
    <3>2. QED
      BY SMT, <1>1, <3>1
  <2>3. QED
    BY <2>1, <2>2
<1>9. Abstract!Send(m)
  BY <1>1, <1>5, <1>6, <1>7, <1>8 DEF Abstract!Send
<1>10. m \in Senders \X (1 .. MaxMessages)
  BY SMT, <1>1, WindowsAssumption
<1>11. QED
  BY <1>9, <1>10 DEF Abstract!Next

\* The message that get_message returns is the head of the queue.
LEMMA SimRecv ==
  ASSUME QueueInv, QueueInv', whole' = whole + 1, UNCHANGED <<sent, acked>>, ~Gone, ~Gone'
  PROVE  Abstract!Recv
<1> DEFINE n == whole
           k == Len(sent) - whole
<1>1. n \in Nat /\ Len(sent) \in Nat /\ k \in Nat \ {0} /\ Len(sent) - (n + 1) = k - 1 /\ k - 1 \in Nat
  BY SMT DEF QueueInv
<1>2. /\ Returned = [i \in 1 .. n |-> Name(i)]
      /\ Queued = [i \in 1 .. k |-> Name(n + i)]
      /\ Returned' = [i \in 1 .. n + 1 |-> Name(i)]
      /\ Queued' = [i \in 1 .. k - 1 |-> Name((n + 1) + i)]
  BY <1>1 DEF QueueInv, Name
<1>3. Acked' = Acked
  BY DEF Acked, Name
<1> HIDE DEF n, k
<1> DEFINE T == {Name(i) : i \in Nat}
<1>4. Queued \in [1 .. k -> T] /\ Returned \in [1 .. n -> T] /\ Name(n + 1) \in T
  <2>1. /\ \A i \in 1 .. k : n + i \in Nat
        /\ \A i \in 1 .. n : i \in Nat
        /\ n + 1 \in Nat
    BY SMT, <1>1
  <2>2. \A j \in Nat : Name(j) \in T
    BY Zenon
  <2> HIDE DEF T
  <2>3. QED
    BY <1>2, <2>1, <2>2
<1> HIDE DEF T
<1>5. /\ Queued \in Seq(T) /\ Len(Queued) = k /\ Queued # <<>>
      /\ Returned \in Seq(T) /\ Len(Returned) = n
  <2>1. Queued \in Seq(T) /\ Len(Queued) = k /\ Returned \in Seq(T) /\ Len(Returned) = n
    BY <1>1, <1>4, MadeSequence
  <2>2. QED
    BY <1>1, <2>1
<1>6. Head(Queued) = Name(n + 1)
  <2>1. Head(Queued) = Queued[1] /\ 1 \in 1 .. k
    BY SMT, <1>1, <1>5
  <2>2. QED
    BY <1>2, <2>1
<1>7. Queued' = Tail(Queued)
  <2>1. Tail(Queued) = [i \in 1 .. k - 1 |-> Queued[i + 1]]
    BY <1>5, TailIs
  <2>2. ASSUME NEW i \in 1 .. k - 1 PROVE Queued[i + 1] = Name((n + 1) + i)
    <3>1. i + 1 \in 1 .. k /\ n + (i + 1) = (n + 1) + i
      BY SMT, <1>1
    <3>2. QED
      BY <1>2, <3>1
  <2>3. QED
    BY <1>2, <2>1, <2>2
<1>8. Returned' = Append(Returned, Head(Queued))
  <2>1. Append(Returned, Name(n + 1))
          = [i \in 1 .. n + 1 |-> IF i = n + 1 THEN Name(n + 1) ELSE Returned[i]]
    BY SMT, <1>4, <1>5, AppendIs
  <2>2. ASSUME NEW i \in 1 .. n + 1
        PROVE  (IF i = n + 1 THEN Name(n + 1) ELSE Returned[i]) = Name(i)
    <3>1. i = n + 1 \/ i \in 1 .. n
      BY SMT, <1>1
    <3>2. QED
      BY <1>2, <3>1
  <2>3. QED
    BY <1>2, <1>6, <2>1, <2>2
<1>9. QED
  BY <1>3, <1>5, <1>7, <1>8 DEF Abstract!Recv

\* Once the queue is gone, a message that is written is none of its steps.
LEMMA SimWriteGone ==
  ASSUME QueueInv, QueueInv', SendersInv, BufferType, NEW s \in Senders, Write(s), UNCHANGED whole,
         Gone, Gone'
  PROVE  /\ Queued' = Queued /\ Returned' = Returned
         /\ acked' = acked => Acked' = Acked
         /\ acked' = acked \cup {Len(sent) + 1} => Acked' = Acked \cup {<<s, Len(sent) + 1>>}
<1> DEFINE w == Len(sent)
<1>1. /\ w \in Nat /\ sent'[w + 1] = s
      /\ \A i \in 1 .. w : sent'[i] = sent[i]
  BY SMT DEF Write, BufferType
<1>2. /\ \A i \in 1 .. whole : i \in 1 .. w
      /\ \A i \in acked : i \in 1 .. w
  BY SMT DEF QueueInv, SendersInv
<1>3. /\ Returned = [i \in 1 .. whole |-> <<sent[i], i>>]
      /\ Returned' = [i \in 1 .. whole |-> <<sent'[i], i>>]
  BY DEF QueueInv, Name
<1>4. Queued' = Queued
  BY DEF QueueInv
<1>5. /\ Acked = {<<sent[i], i>> : i \in acked}
      /\ Acked' = {<<sent'[i], i>> : i \in acked'}
  BY DEF Acked, Name
<1> HIDE DEF w
<1>6. Returned' = Returned
  BY <1>1, <1>2, <1>3
<1>7. ASSUME acked' = acked PROVE Acked' = Acked
  BY <1>1, <1>2, <1>5, <1>7
<1>8. ASSUME acked' = acked \cup {w + 1} PROVE Acked' = Acked \cup {<<s, w + 1>>}
  <2>1. ASSUME NEW x \in Acked' PROVE x \in Acked \cup {<<s, w + 1>>}
    <3>1. PICK i \in acked' : x = <<sent'[i], i>>
      BY <1>5, <2>1
    <3>2. QED
      BY <1>1, <1>2, <1>5, <1>8, <3>1
  <2>2. ASSUME NEW i \in acked PROVE <<sent[i], i>> \in Acked'
    BY <1>1, <1>2, <1>5, <1>8, <2>2
  <2>3. <<s, w + 1>> \in Acked'
    BY <1>1, <1>5, <1>8
  <2>4. QED
    BY <1>5, <2>1, <2>2, <2>3
<1>9. QED
  BY <1>4, <1>6, <1>7, <1>8 DEF w

\* The invariant that the refinement rests on.
RefInv == ReaderInv /\ BufferType /\ (~lossy => PartsInv) /\ WholeInv /\ SendersInv /\ QueueInv

\* The name of a message that was written is one of the names there are.
LEMMA Named ==
  ASSUME BufferType, SendersInv, NEW m \in 1 .. Len(sent)
  PROVE  Name(m) \in Senders \X (1 .. MaxMessages)
<1>1. sent[m] \in Senders /\ m \in 1 .. MaxMessages
  BY SMT, WindowsAssumption DEF SendersInv, BufferType
<1>2. QED
  BY <1>1 DEF Name

\* Each step of the channel is one of the queue, or none.
LEMMA Simulation ==
  ASSUME RefInv, RefInv', [Next]_vars
  PROVE  [Abstract!Next]_(Abstract!vars)
<1> USE DEF RefInv
<1>0. Gone => Gone' \/ (pc = "dropped" /\ pc' # "dropped")
  BY LossyStays DEF Gone
<1>1. ASSUME NEW s \in Senders, SendSmall(s) \/ SendBig(s) PROVE [Abstract!Next]_(Abstract!vars)
  <2>1. /\ Write(s) /\ UNCHANGED <<whole, pc, lossy>>
        /\ acked' \in {acked, acked \cup {Len(sent) + 1}}
    BY <1>1 DEF SendSmall, SendBig, readerVars
  <2>2. Gone' <=> Gone
    BY <2>1 DEF Gone
  <2>3. CASE ~Gone
    BY <2>1, <2>2, <2>3, SimSend
  <2>4. CASE Gone
    <3>1. /\ Queued' = Queued /\ Returned' = Returned
          /\ acked' = acked => Acked' = Acked
          /\ acked' = acked \cup {Len(sent) + 1} => Acked' = Acked \cup {<<s, Len(sent) + 1>>}
      BY <2>1, <2>2, <2>4, SimWriteGone
    <3> DEFINE m == <<s, Len(sent) + 1>>
    <3>2. CASE acked' = acked
      <4>1. Acked' = Acked
        BY <3>1, <3>2
      <4>2. QED
        BY <2>2, <3>1, <4>1 DEF Abstract!vars
    <3>3. CASE acked' = acked \cup {Len(sent) + 1}
      <4>1. Acked' = Acked \cup {m}
        BY <3>1, <3>3
      <4>2. Abstract!Ack(m)
        BY <2>2, <2>4, <3>1, <4>1 DEF Abstract!Ack
      <4>3. m \in Senders \X (1 .. MaxMessages)
        BY SMT, <2>1, WindowsAssumption DEF Write, BufferType
      <4>4. QED
        BY <4>2, <4>3 DEF Abstract!Next
    <3>4. QED
      BY <2>1, <3>2, <3>3
  <2>5. QED
    BY <2>3, <2>4
<1>2. ASSUME UNCHANGED <<sent, whole, acked>>
      PROVE  [Abstract!Next]_(Abstract!vars) \/ (pc = "dropped" /\ pc' # "dropped")
  BY <1>0, <1>2, SimQuiet, SimDropReceiver DEF Abstract!Next
<1>3. ASSUME NEW s \in Senders, SendRaw(s) PROVE [Abstract!Next]_(Abstract!vars)
  <2>1. /\ UNCHANGED <<sent, whole, pc, lossy>> /\ amid[s] # 0
        /\ acked' = acked \/ acked' = acked \cup {amid[s]}
    BY <1>3 DEF SendRaw, readerVars
  <2>2. CASE acked' = acked
    BY <1>2, <2>1, <2>2
  <2>3. CASE acked' = acked \cup {amid[s]}
    <3>1. PICK m \in 1 .. Len(sent) : m = amid[s]
      BY SMT, <2>1 DEF SendersInv, BufferType
    <3>2. Abstract!Ack(Name(m))
      BY <2>1, <2>3, <3>1, SimAck DEF Gone
    <3>3. Name(m) \in Senders \X (1 .. MaxMessages)
      BY Named
    <3>4. QED
      BY <3>2, <3>3 DEF Abstract!Next
  <2>4. QED
    BY <2>1, <2>2, <2>3
<1>4. ASSUME NEW s \in Senders, DropSender(s) \/ Crash(s) PROVE [Abstract!Next]_(Abstract!vars)
  BY <1>2, <1>4 DEF DropSender, Crash, readerVars
<1>5. CASE KernelStep
  BY <1>2, <1>5 DEF KernelStep, Complete, Break, Abort, senderVars, readerVars
<1>6. CASE GetSmall \/ GetBig
  <2>1. /\ pc = "get" /\ pc' = "idle" /\ UNCHANGED <<sent, acked, lossy>>
        /\ whole' = IF lossy THEN whole ELSE whole + 1
    BY <1>6 DEF GetSmall, GetBig, Deliver, senderVars
  <2>2. CASE lossy
    BY <1>2, <2>1, <2>2
  <2>3. CASE ~lossy
    <3>1. ~Gone /\ ~Gone' /\ whole' = whole + 1
      BY <2>1, <2>3 DEF Gone
    <3>2. QED
      BY <2>1, <3>1, SimRecv DEF Abstract!Next
  <2>4. QED
    BY <2>2, <2>3
<1>7. CASE GetBroken \/ GetPanics \/ GetGarbled \/ GetNone \/ StartRead \/ FetchDone
           \/ FetchBroken \/ FetchNoData \/ FetchTimeout \/ Cancel \/ TransferEnd
  BY <1>2, <1>7
  DEF GetBroken, GetPanics, ClosesTwice, GetGarbled, GetNone, StartRead, FetchDone, FetchBroken,
      FetchNoData, FetchTimeout, Cancel, TransferEnd, senderVars
<1>8. CASE CancelNotFound \/ Wait
  BY <1>2, <1>8 DEF CancelNotFound, Wait, senderVars
<1>9. CASE (\E m \in Modes : Receive(m)) \/ Transfer \/ Consume \/ DropReceiver
  BY <1>2, <1>9 DEF Receive, Transfer, Consume, DropReceiver, GoAway, senderVars
<1>10. CASE UNCHANGED vars
  BY <1>2, <1>10 DEF vars, senderVars, readerVars
<1>11. QED
  BY <1>1, <1>3, <1>4, <1>5, <1>6, <1>7, <1>8, <1>9, <1>10 DEF Next, ReaderStep, SenderStep

\* A byte pipe read with overlapped reads that are cut anywhere, abandoned and taken up
\* again, with the data of big messages on pipes of their own, implements a queue of whole
\* messages for any number of senders and messages.  That ends with the first bytes lost,
\* to a cancellation that finds its read complete or to consume().
THEOREM ByteStreamIsQueue == Spec => ImplementsIpcChannel
<1>1. Init => RefInv
  <2> SUFFICES ASSUME Init PROVE RefInv
    OBVIOUS
  <2>1. BufferType
    BY SMT DEF Init, BufferType
  <2>2. QED
    BY <2>1, ReaderInit, PartsInit, PartsWhole, SendersInit, PartsAreTheQueue DEF RefInv
<1>2. RefInv /\ [Next]_vars
        => (ReaderInv /\ BufferType /\ (~lossy => PartsInv) /\ (lossy => WholeInv) /\ SendersInv)'
  BY ReaderStepInv, BufferTypeStep, PartsStep, WholeStep, SendersStep DEF RefInv
<1>3. BufferType /\ (lossy => WholeInv) /\ (~lossy => PartsInv) => WholeInv /\ QueueInv
  BY PartsAreTheQueue, PartsWhole
<1>4. RefInv /\ RefInv' /\ [Next]_vars => [Abstract!Next]_(Abstract!vars)
  BY Simulation
<1>5. QED
  BY <1>1, <1>2, <1>3, <1>4, SimInit, PTL
  DEF Spec, RefInv, ImplementsIpcChannel, Abstract!Spec
=============================================================================
