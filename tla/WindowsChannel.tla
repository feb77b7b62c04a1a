--------------------------- MODULE WindowsChannel ---------------------------
(***************************************************************************)
(* One channel of the Windows back-end (platform/windows/mod.rs): senders   *)
(* write messages to a named pipe, which carries bytes, and a receiver that *)
(* is in no set reads them with overlapped reads into a buffer that the     *)
(* kernel writes to while a read is in flight.                              *)
(*                                                                         *)
(* Messages are numbered in the order of their writes.  Message n is two    *)
(* units of bytes, <<n, 1>> with its header and <<n, 2>>; a read may end    *)
(* after any unit.  The data of a big message follows on a pipe of its own, *)
(* whose reading end is the big_data_receiver_handle in the message.        *)
(* Receivers move within one process: the check of target_process_id and    *)
(* handles of other processes are left out.                                 *)
(***************************************************************************)
EXTENDS Integers, Sequences

CONSTANTS
  Senders,
  MaxMessages,   \* bound: messages written
  Pieces,        \* number of writes that the data of a big message takes
  Big,           \* which messages there are: a set of Booleans
  Modes,         \* calls made: "Blocking" recv(), "Nonblocking" try_recv(), "Timeout"
  Transfers,     \* ways the receiver moves: "consume" (ipc.rs), "send" (send() alone)
  Crashes        \* a sender's process may end in the middle of send()

ASSUME WindowsAssumption ==
  /\ MaxMessages \in Nat /\ Pieces \in Nat \ {0}
  /\ Big \subseteq BOOLEAN /\ Crashes \in BOOLEAN
  /\ Modes \subseteq {"Blocking", "Nonblocking", "Timeout"}
  /\ Transfers \subseteq {"consume", "send"}

VARIABLES
  \* The kernel:
  pipe,       \* the units written and not yet read
  io,         \* the overlapped read: "none", "pending", "cancelling", "done", "broken", "aborted"
  iodata,     \* the units it has read
  helper,     \* of each big message: pieces written; "open", "closed" or "complete"
  taken,      \* big messages whose big_data_receiver_handle is closed
  \* The senders:
  open,       \* senders that are not closed
  amid,       \* of each sender: the big message whose data it is writing
  sent,       \* the sender of each message written
  acked,      \* messages whose send() returned Ok
  \* MessageReader and receive_message:
  async,      \* async.is_some(): the reader takes a read to be in flight
  read_buf,   \* the filled part of the buffer, whoever owns it
  pc,         \* where the receiver is
  mode,       \* blocking_mode
  got,        \* the messages returned
  closed,     \* ChannelClosed was returned
  \* History:
  lossy,      \* units that were read have been thrown away
  whole       \* number of messages returned before that

kernelVars == <<pipe, io, iodata, helper, taken>>
senderVars == <<open, amid, sent, acked>>
readerVars == <<async, read_buf, pc, mode, got, closed, lossy, whole>>
vars == <<kernelVars, senderVars, readerVars>>

Unit == Nat \X {1, 2}
Message == 1 .. Len(sent)

Init ==
  /\ pipe = <<>> /\ io = "none" /\ iodata = <<>>
  /\ helper = [n \in 1 .. MaxMessages |-> [written |-> 0, state |-> "none"]]
  /\ taken = {}
  /\ open = Senders /\ amid = [s \in Senders |-> 0] /\ sent = <<>> /\ acked = {}
  /\ async = FALSE /\ read_buf = <<>> /\ pc = "idle" /\ mode = "Blocking"
  /\ got = <<>> /\ closed = FALSE /\ lossy = FALSE /\ whole = 0

----------------------------------------------------------------------------
\* The senders

Alive == pc \notin {"dropped", "panicked"}

\* The write of the header, the data or the out-of-band part: one WriteFile.
Write(s) ==
  /\ s \in open /\ amid[s] = 0 /\ Len(sent) < MaxMessages /\ Alive
  /\ sent' = Append(sent, s)
  /\ pipe' = pipe \o <<<<Len(sent) + 1, 1>>, <<Len(sent) + 1, 2>>>>

SendSmall(s) ==
  /\ FALSE \in Big
  /\ Write(s)
  /\ acked' = acked \cup {Len(sent) + 1}
  /\ UNCHANGED <<io, iodata, helper, taken, open, amid, readerVars>>

SendBig(s) ==
  /\ TRUE \in Big
  /\ Write(s)
  /\ amid' = [amid EXCEPT ![s] = Len(sent) + 1]
  /\ helper' = [helper EXCEPT ![Len(sent) + 1].state = "open"]
  /\ UNCHANGED <<io, iodata, taken, open, acked, readerVars>>

\* send_raw: one WriteFile to the helper pipe.  Its reading end was duplicated into
\* the receiver's process, and stays open until recv_raw() has all the data: a write
\* succeeds, or blocks for ever when nobody reads the message.  After the last one
\* the sender is dropped.
SendRaw(s) ==
  LET n == amid[s] IN
  /\ n # 0
  /\ IF helper[n].written + 1 = Pieces
     THEN /\ helper' = [helper EXCEPT ![n] = [written |-> Pieces, state |-> "complete"]]
          /\ amid' = [amid EXCEPT ![s] = 0]
          /\ acked' = acked \cup {n}
     ELSE /\ helper' = [helper EXCEPT ![n].written = @ + 1]
          /\ UNCHANGED <<amid, acked>>
  /\ UNCHANGED <<pipe, io, iodata, taken, open, sent, readerVars>>

DropSender(s) ==
  /\ s \in open /\ amid[s] = 0
  /\ open' = open \ {s}
  /\ UNCHANGED <<kernelVars, amid, sent, acked, readerVars>>

Crash(s) ==
  /\ Crashes /\ amid[s] # 0
  /\ helper' = [helper EXCEPT ![amid[s]].state = "closed"]
  /\ amid' = [amid EXCEPT ![s] = 0]
  /\ open' = open \ {s}
  /\ UNCHANGED <<pipe, io, iodata, taken, sent, acked, readerVars>>

----------------------------------------------------------------------------
\* The kernel's end of the overlapped read

\* The first k units go to the buffer.  A read may complete before CancelIoEx is
\* called, and one that is being cancelled may still complete.
Complete(k) ==
  /\ io \in {"pending", "cancelling"}
  /\ io' = "done"
  /\ iodata' = SubSeq(pipe, 1, k)
  /\ pipe' = SubSeq(pipe, k + 1, Len(pipe))
  /\ UNCHANGED <<helper, taken, senderVars, readerVars>>

\* ERROR_BROKEN_PIPE: nothing is left, and nobody can write.
Break ==
  /\ io \in {"pending", "cancelling"} /\ pipe = <<>> /\ open = {}
  /\ io' = "broken"
  /\ UNCHANGED <<pipe, iodata, helper, taken, senderVars, readerVars>>

Abort ==
  /\ io = "cancelling"
  /\ io' = "aborted"
  /\ UNCHANGED <<pipe, iodata, helper, taken, senderVars, readerVars>>

----------------------------------------------------------------------------
\* OsIpcReceiver::receive_message and MessageReader

\* Mutant: the loop begins with the read.
ReceiveReadsFirst(m) ==
  /\ pc = "idle" /\ m \in Modes
  /\ pc' = "start" /\ mode' = m
  /\ UNCHANGED <<kernelVars, senderVars, async, read_buf, got, closed, lossy, whole>>

\* recv(), try_recv(), or try_recv_timeout() with at least one millisecond (with
\* less it is try_recv()).
Receive(m) ==
  /\ pc = "idle" /\ m \in Modes
  /\ pc' = "get" /\ mode' = m
  /\ UNCHANGED <<kernelVars, senderVars, async, read_buf, got, closed, lossy, whole>>

First == read_buf[1][1]

\* Message::from_bytes finds a whole message at the start of the buffer.
HasMessage == Len(read_buf) >= 2 /\ read_buf[1] = <<First, 1>> /\ read_buf[2] = <<First, 2>>

\* What it takes for a header is none, or is not followed by its own message.
Garbled ==
  /\ read_buf # <<>>
  /\ read_buf[1] # <<First, 1>> \/ (Len(read_buf) >= 2 /\ read_buf[2] # <<First, 2>>)

IsBig(n) == helper[n].state # "none"

\* Mutant: the whole buffer is cleared.
DeliverAndClear ==
  /\ got' = Append(got, First)
  /\ read_buf' = <<>>
  /\ whole' = IF lossy THEN whole ELSE whole + 1
  /\ pc' = "idle"
  /\ UNCHANGED <<async, mode, closed, lossy>>

\* The message is returned and drained from the buffer.
Deliver ==
  /\ got' = Append(got, First)
  /\ read_buf' = SubSeq(read_buf, 3, Len(read_buf))
  /\ whole' = IF lossy THEN whole ELSE whole + 1
  /\ pc' = "idle"
  /\ UNCHANGED <<async, mode, closed, lossy>>

\* get_message, with a small message.
GetSmall ==
  /\ pc = "get" /\ ~async /\ HasMessage /\ ~IsBig(First)
  /\ Deliver
  /\ UNCHANGED <<kernelVars, senderVars>>

\* get_message, with a big one: recv_raw() until all its data is there.
GetBig ==
  /\ pc = "get" /\ ~async /\ HasMessage /\ IsBig(First)
  /\ First \notin taken /\ helper[First].state = "complete"
  /\ taken' = taken \cup {First}
  /\ Deliver
  /\ UNCHANGED <<pipe, io, iodata, helper, senderVars>>

\* recv_raw() fails, as the helper pipe ends early.  Its handle is closed; the
\* message stays in the buffer.
GetBroken ==
  /\ pc = "get" /\ ~async /\ HasMessage /\ IsBig(First)
  /\ First \notin taken /\ helper[First].state = "closed"
  /\ taken' = taken \cup {First}
  /\ pc' = "idle"
  /\ UNCHANGED <<pipe, io, iodata, helper, senderVars, async, read_buf, mode, got, closed, lossy, whole>>

\* The message is looked at again: its handle is closed a second time, and the
\* assertion in WinHandle::drop fails.
ClosesTwice == pc = "get" /\ ~async /\ HasMessage /\ First \in taken

GetPanics ==
  /\ ClosesTwice
  /\ pc' = "panicked"
  /\ UNCHANGED <<kernelVars, senderVars, async, read_buf, mode, got, closed, lossy, whole>>

\* The header is garbage: get_message returns some other bytes as a message (number 0)
\* or panics on them, if it does not take them for part of a message (GetNone).  What
\* was no message when the channel was found closed is none now.
GetGarbled ==
  /\ pc = "get" /\ ~async /\ Garbled /\ ~closed
  /\ \/ /\ \E k \in 1 .. Len(read_buf) : read_buf' = SubSeq(read_buf, k + 1, Len(read_buf))
        /\ got' = Append(got, 0) /\ pc' = "idle"
     \/ pc' = "panicked" /\ UNCHANGED <<read_buf, got>>
  /\ UNCHANGED <<kernelVars, senderVars, async, mode, closed, lossy, whole>>

\* get_message returns None.
GetNone ==
  /\ pc = "get" /\ (async \/ ~HasMessage)
  /\ pc' = "start"
  /\ UNCHANGED <<kernelVars, senderVars, async, read_buf, mode, got, closed, lossy, whole>>

\* start_read
StartRead ==
  /\ pc = "start"
  /\ IF async THEN pc' = "fetch" /\ UNCHANGED <<async, io, closed>>
     ELSE IF pipe = <<>> /\ open = {}
     THEN pc' = "idle" /\ closed' = TRUE /\ UNCHANGED <<async, io>>
     ELSE pc' = "fetch" /\ async' = TRUE /\ io' = "pending" /\ UNCHANGED closed
  /\ UNCHANGED <<pipe, iodata, helper, taken, senderVars, read_buf, mode, got, lossy, whole>>

\* Mutant: the length of the buffer is set to what was read last.
NotifyCompletionReplaces ==
  /\ async' = FALSE
  /\ io' = "none"
  /\ iodata' = <<>>
  /\ read_buf' = iodata

\* notify_completion: handle and buffer come back to the reader, the buffer longer
\* by what was read.
NotifyCompletion ==
  /\ async' = FALSE
  /\ io' = "none"
  /\ iodata' = <<>>
  /\ read_buf' = read_buf \o iodata

\* Mutant: the loop waits again without another read.
FetchDoneRefetches ==
  /\ pc = "fetch" /\ io = "done"
  /\ NotifyCompletion
  /\ mode' = "Blocking"
  /\ UNCHANGED <<pipe, helper, taken, senderVars, pc, got, closed, lossy, whole>>

\* fetch_async_result of receive_message: part of a message is there, so the call
\* now blocks.
FetchDone ==
  /\ pc = "fetch" /\ io = "done"
  /\ NotifyCompletion
  /\ pc' = "get" /\ mode' = "Blocking"
  /\ UNCHANGED <<pipe, helper, taken, senderVars, got, closed, lossy, whole>>

FetchBroken ==
  /\ pc = "fetch" /\ io = "broken"
  /\ NotifyCompletion
  /\ pc' = "idle" /\ closed' = TRUE
  /\ UNCHANGED <<pipe, helper, taken, senderVars, mode, got, lossy, whole>>

\* ERROR_IO_INCOMPLETE: NoData; the read stays in flight.
FetchNoData ==
  /\ pc = "fetch" /\ io = "pending" /\ mode = "Nonblocking"
  /\ pc' = "idle"
  /\ UNCHANGED <<kernelVars, senderVars, async, read_buf, mode, got, closed, lossy, whole>>

\* WAIT_TIMEOUT: cancel_io(), then NoData.
FetchTimeout ==
  /\ pc = "fetch" /\ io = "pending" /\ mode = "Timeout"
  /\ pc' = "cancel"
  /\ UNCHANGED <<kernelVars, senderVars, async, read_buf, mode, got, closed, lossy, whole>>

\* Where cancel_io() returns to: prepare_for_transfer, drop, or NoData.
AfterCancel == CASE mode = "transfer" -> "transfer" [] mode = "drop" -> "dropped" [] OTHER -> "idle"

\* issue_async_cancel: the kernel will end the read.
Cancel ==
  /\ pc = "cancel" /\ io = "pending"
  /\ io' = "cancelling" /\ pc' = "wait"
  /\ UNCHANGED <<pipe, iodata, helper, taken, senderVars, async, read_buf, mode, got, closed, lossy, whole>>

\* ERROR_NOT_FOUND: handle and buffer come back, with the length of before.  What
\* the read had put in the buffer is lost.
CancelNotFound ==
  /\ pc = "cancel" /\ io \in {"done", "broken"}
  /\ async' = FALSE /\ io' = "none" /\ iodata' = <<>>
  /\ lossy' = (lossy \/ iodata # <<>>)
  /\ pc' = AfterCancel
  /\ UNCHANGED <<pipe, helper, taken, senderVars, read_buf, mode, got, closed, whole>>

\* Mutant: cancel_io() does not wait for the read to end.
WaitNot ==
  /\ pc = "wait"
  /\ async' = FALSE /\ iodata' = <<>> /\ read_buf' = read_buf \o iodata
  /\ pc' = AfterCancel
  /\ UNCHANGED <<pipe, io, helper, taken, senderVars, mode, got, closed, lossy, whole>>

\* The blocking fetch_async_result of cancel_io.
Wait ==
  /\ pc = "wait" /\ io \in {"done", "broken", "aborted"}
  /\ NotifyCompletion
  /\ pc' = AfterCancel
  /\ UNCHANGED <<pipe, helper, taken, senderVars, mode, got, closed, lossy, whole>>

----------------------------------------------------------------------------
\* The receiver moves, or is dropped

\* cancel_io() before the receiver goes: at once when there is nothing to cancel.
GoAway(why) ==
  /\ pc = "idle"
  /\ mode' = why
  /\ pc' = IF async THEN "cancel" ELSE IF why = "drop" THEN "dropped" ELSE "transfer"
  /\ UNCHANGED <<kernelVars, senderVars, async, read_buf, got, closed, lossy, whole>>

\* send() of the receiver: prepare_for_transfer.
Transfer == "send" \in Transfers /\ GoAway("transfer")

\* A receiver with part of a message cannot be sent: send() panics.
TransferEnd ==
  /\ pc = "transfer"
  /\ pc' = IF read_buf = <<>> THEN "idle" ELSE "panicked"
  /\ UNCHANGED <<kernelVars, senderVars, async, read_buf, mode, got, closed, lossy, whole>>

DropReceiver == GoAway("drop")

\* The assertion in consume() fails.
ConsumePanics == pc = "idle" /\ "consume" \in Transfers /\ async

\* consume(): the handle goes to a new reader, the buffer stays behind.
Consume ==
  /\ pc = "idle" /\ "consume" \in Transfers
  /\ IF async THEN pc' = "panicked" /\ UNCHANGED <<read_buf, lossy>>
              ELSE read_buf' = <<>> /\ lossy' = (lossy \/ read_buf # <<>>) /\ UNCHANGED pc
  /\ UNCHANGED <<kernelVars, senderVars, async, mode, got, closed, whole>>

----------------------------------------------------------------------------
ReaderStep ==
  \/ GetSmall \/ GetBig \/ GetBroken \/ GetPanics \/ GetGarbled \/ GetNone
  \/ StartRead \/ FetchDone \/ FetchBroken \/ FetchNoData \/ FetchTimeout
  \/ Cancel \/ CancelNotFound \/ Wait \/ TransferEnd

KernelStep == (\E k \in 1 .. Len(pipe) : Complete(k)) \/ Break \/ Abort

SenderStep(s) == SendSmall(s) \/ SendBig(s) \/ SendRaw(s) \/ DropSender(s) \/ Crash(s)

Next ==
  \/ ReaderStep \/ KernelStep
  \/ \E s \in Senders : SenderStep(s)
  \/ \E m \in Modes : Receive(m)
  \/ Transfer \/ Consume \/ DropReceiver

Spec == Init /\ [][Next]_vars

\* recv_raw() is reading the data of message n.
Reading(n) == pc = "get" /\ ~async /\ HasMessage /\ First = n

\* The kernel ends reads, a send() goes on while its data is read, and the receiver
\* keeps calling recv() (Modes is {"Blocking"}) until it is told that the channel is
\* closed.
FairSpec ==
  /\ Spec
  /\ WF_vars(ReaderStep) /\ WF_vars(KernelStep)
  /\ \A s \in Senders : WF_vars(Reading(amid[s]) /\ SendRaw(s))
  /\ WF_vars(~closed /\ Receive("Blocking"))

----------------------------------------------------------------------------
\* Properties

\* Every variable has its type.
TypeOK ==
  /\ pipe \in Seq(Unit) /\ iodata \in Seq(Unit) /\ read_buf \in Seq(Unit)
  /\ io \in {"none", "pending", "cancelling", "done", "broken", "aborted"}
  /\ helper \in [1 .. MaxMessages -> [written : 0 .. Pieces,
                                      state : {"none", "open", "closed", "complete"}]]
  /\ taken \subseteq Message /\ acked \subseteq Message
  /\ open \subseteq Senders /\ amid \in [Senders -> 0 .. Len(sent)] /\ sent \in Seq(Senders)
  /\ Len(sent) <= MaxMessages
  /\ async \in BOOLEAN /\ closed \in BOOLEAN /\ got \in Seq(Nat)
  /\ lossy \in BOOLEAN /\ whole \in 0 .. Len(got)
  /\ pc \in {"idle", "get", "start", "fetch", "cancel", "wait", "transfer", "dropped", "panicked"}
  /\ mode \in {"Blocking", "Nonblocking", "Timeout", "transfer", "drop"}

\* While the kernel may write to the buffer, the reader knows it: the buffer is not
\* freed, handed on or looked at (start_read, cancel_io, the comment on `async`).
BufferOwned ==
  /\ ~async => io = "none"
  /\ io \in {"pending", "cancelling"} => pc \notin {"dropped", "transfer"}

\* The units that the receiver has yet to see, in order.
Rest == read_buf \o iodata \o pipe

\* What was returned and what is still to be parsed are the messages that were
\* written, in order, cut at message borders.
StreamWhole ==
  pc # "dropped" =>
    /\ \A i \in DOMAIN got : got[i] = i
    /\ Len(Rest) = 2 * (Len(sent) - Len(got))
    /\ \A i \in DOMAIN Rest : Rest[i] = <<Len(got) + (i + 1) \div 2, 2 - (i % 2)>>

\* The stream of bytes stays whole however reads split it and calls are abandoned and
\* taken up again, with two exceptions: a read that is complete when CancelIoEx is
\* called (issue_async_cancel), and consume() with part of a message in the buffer.
\* Nothing else loses or mixes up bytes.
NothingLost == ~lossy => StreamWhole

\* mod.rs:565 of a cancelled read that is already complete: "I *think* it should be
\* benign".
CancelIsBenign == StreamWhole

\* ChannelClosed is returned when no sender is left, the pipe is read and the buffer
\* holds no whole message.
ClosedAtEnd == closed => open = {} /\ pipe = <<>> /\ io = "none" /\ ~HasMessage

\* consume() is never called with a read in flight, as it asserts (mod.rs:1053).
ConsumeAllowed == ~ConsumePanics

\* No handle is closed twice, as WinHandle::drop asserts (mod.rs:317).
ClosedOnce == ~ClosesTwice

\* Every message that is completely sent is returned, and the end is reported; sends are
\* bounded (recv).
AllReceived ==
  []<>(pc # "dropped" => acked \subseteq 1 .. Len(got) /\ (open = {} => closed))

\* The channel as a queue of messages: message i of the rest begins at its unit
\* 2 * i - 1.  A message whose data never comes stays at the head of the queue.
\* With the first loss the queue is gone, as with its receiver.
Gone == pc = "dropped" \/ lossy
Name(n) == <<sent[n], n>>
Queued ==
  IF Gone THEN <<>> ELSE [i \in 1 .. (Len(Rest) \div 2) |-> Name(Rest[2 * i - 1][1])]
Returned == [i \in 1 .. whole |-> Name(got[i])]
Acked == {Name(n) : n \in acked}

Abstract == INSTANCE IpcChannel WITH
  Ids <- Senders \X (1 .. MaxMessages),
  queue <- Queued,
  received <- Returned,
  broken <- {},
  failed <- {},
  acked <- Acked,
  open <- ~Gone

\* A byte pipe read asynchronously, with big messages on pipes of their own, is a
\* queue of whole messages until a complete read is cancelled or consume() leaves part
\* of a message behind.
ImplementsIpcChannel == Abstract!Spec
=============================================================================
