---------------------------- MODULE ReceiveCalls ----------------------------
(***************************************************************************)
(* What recv(), try_recv(), try_recv_timeout() (IpcReceiver in ipc.rs) and *)
(* the recv() of an accept() tell their caller, on each back-end: the      *)
(* system calls of one call and the conversions of their outcome into the  *)
(* back-end's error type and from there into IpcError, TryRecvError and    *)
(* io::Error.  On Unix a call is several system calls, the non-blocking    *)
(* one sets O_NONBLOCK on the socket and takes it off again, and each of   *)
(* them may fail.  The data of a long message comes in parts that are      *)
(* received one by one, on Unix and Windows; its sender may stop halfway.  *)
(*                                                                         *)
(* How the messages themselves travel is the subject of UnixChannel,       *)
(* WindowsChannel, MacChannel and InProcess; here a channel is a queue,    *)
(* and what a cancelled read loses on Windows are whole messages.          *)
(***************************************************************************)
EXTENDS Naturals, Sequences, FiniteSets

CONSTANTS
  Backends,      \* subset of {"unix", "windows", "macos", "inprocess"}
  MaxMessages,   \* bound: messages sent
  MaxCalls,      \* bound: calls of the receiver
  MaxFaults      \* bound: system calls that fail

ReceiveCallsAssumption ==
  /\ Backends \subseteq {"unix", "windows", "macos", "inprocess"}
  /\ MaxMessages \in Nat /\ MaxCalls \in Nat /\ MaxFaults \in Nat

Ops == {"recv", "try_recv", "try_recv_timeout", "forever", "accept"}

VARIABLES
  backend,     \* the platform
  queue,       \* messages of the channel: <<number, decodable, long>>
  sent,        \* number of messages sent
  fate,        \* of each message: "none", "partly" sent, "whole", or "broken" off
  senders,     \* a sender exists
  nonblock,    \* O_NONBLOCK on the socket (Unix)
  op, pc,      \* the call under way, and its next system call
  outcome,     \* what the receiving system call returned, in the back-end's type
  answer,      \* what the last call returned
  calls, faults,
  handed,      \* messages that calls returned, or could not decode
  lost,        \* messages that a call took and did not return
  late,        \* those of them that came as the time of a call ended (Windows)
  tried,       \* reading the data of the first message has failed (Windows)
  sawEmpty,    \* when this call began, there was a sender and no message
  failed,      \* in this call: a system call failed
  cut,         \* in this call: a message broke off
  stuck        \* a failed fcntl has left O_NONBLOCK on

channelVars == <<queue, sent, fate, senders>>
callVars == <<op, pc, outcome, answer, calls, handed, lost>>
dataVars == <<late, tried, cut>>
vars == <<backend, channelVars, nonblock, callVars, dataVars, faults, sawEmpty, failed, stuck>>

Nothing == [kind |-> "none", io |-> "none"]

NoOutcome == [message |-> <<>>, error |-> "none"]

Init ==
  /\ backend \in Backends
  /\ queue = <<>> /\ sent = 0 /\ senders = TRUE /\ nonblock = FALSE
  /\ op = "none" /\ pc = "idle" /\ outcome = NoOutcome /\ answer = Nothing
  /\ calls = 0 /\ faults = 0 /\ handed = <<>> /\ lost = {}
  /\ fate = [n \in 1 .. MaxMessages |-> "none"] /\ late = {} /\ tried = FALSE /\ cut = FALSE
  /\ sawEmpty = FALSE /\ failed = FALSE /\ stuck = FALSE

----------------------------------------------------------------------------
\* The errors of the back-ends, and what becomes of them.

Error(kind, io) == [kind |-> kind, io |-> io]
Disconnected == Error("Disconnected", "none")
EmptyError == Error("Empty", "none")

\* MachError of a mach_msg_return_t; of the failures, two stand for the rest.
MachErrorOf ==
  [MACH_NOTIFY_NO_SENDERS |-> "NotifyNoSenders", MACH_RCV_TIMED_OUT |-> "RcvTimedOut",
   MACH_RCV_INTERRUPTED |-> "RcvInterrupted", MACH_RCV_PORT_DIED |-> "RcvPortDied"]

\* The end of the channel, a channel without a message, and any other failure, as the
\* receiving functions of the back-ends report them; crossbeam has no other failure.
Closed ==
  [unix |-> "ChannelClosed", windows |-> "ChannelClosed",
   macos |-> MachErrorOf["MACH_NOTIFY_NO_SENDERS"], inprocess |-> "ChannelClosedError"]

NoMessage ==
  [unix |-> "EAGAIN", windows |-> "NoData", macos |-> MachErrorOf["MACH_RCV_TIMED_OUT"],
   inprocess |-> "ChannelEmpty"]

Fault ==
  [unix |-> {"EINTR"}, windows |-> {"WindowsResult"},
   macos |-> {MachErrorOf["MACH_RCV_INTERRUPTED"], MachErrorOf["MACH_RCV_PORT_DIED"]},
   inprocess |-> {}]

\* The data of a message ends before it is complete.
BrokenOff == [unix |-> "ChannelClosed", windows |-> "WindowsBrokenPipe"]

\* Into io::Error: its kind.
UnixIo ==
  [ChannelClosed |-> "ConnectionReset", EAGAIN |-> "WouldBlock", EINTR |-> "Interrupted"]

WindowsIo ==
  [ChannelClosed |-> "BrokenPipe", NoData |-> "WouldBlock", WindowsResult |-> "Other",
   WindowsBrokenPipe |-> "BrokenPipe"]

MachIo ==
  [NotifyNoSenders |-> "ConnectionReset", RcvTimedOut |-> "TimedOut",
   RcvInterrupted |-> "Interrupted", RcvPortDied |-> "BrokenPipe"]

InProcessIo ==
  [ChannelClosedError |-> "ConnectionReset", ChannelEmpty |-> "ConnectionReset"]

\* Into IpcError; on the in-process back-end, an io::Error inside a bincode::Error.
UnixIpcError(e) == IF e = "ChannelClosed" THEN Disconnected ELSE Error("Io", UnixIo[e])

WindowsIpcError(e) == IF e = "ChannelClosed" THEN Disconnected ELSE Error("Io", WindowsIo[e])

MachIpcError(e) == IF e = "NotifyNoSenders" THEN Disconnected ELSE Error("Io", MachIo[e])

InProcessIpcError(e) ==
  IF e = "ChannelClosedError" THEN Disconnected ELSE Error("Bincode", InProcessIo[e])

\* Into TryRecvError
UnixTryRecvError(e) == IF e = "EAGAIN" THEN EmptyError ELSE UnixIpcError(e)

WindowsTryRecvError(e) == IF e = "NoData" THEN EmptyError ELSE WindowsIpcError(e)

MachTryRecvError(e) == IF e = "RcvTimedOut" THEN EmptyError ELSE MachIpcError(e)

InProcessTryRecvError(e) == IF e = "ChannelEmpty" THEN EmptyError ELSE InProcessIpcError(e)

Conversions ==
  [unix |-> [recv |-> [e \in DOMAIN UnixIo |-> UnixIpcError(e)],
             try_recv |-> [e \in DOMAIN UnixIo |-> UnixTryRecvError(e)], io |-> UnixIo],
   windows |-> [recv |-> [e \in DOMAIN WindowsIo |-> WindowsIpcError(e)],
                try_recv |-> [e \in DOMAIN WindowsIo |-> WindowsTryRecvError(e)], io |-> WindowsIo],
   macos |-> [recv |-> [e \in DOMAIN MachIo |-> MachIpcError(e)],
              try_recv |-> [e \in DOMAIN MachIo |-> MachTryRecvError(e)], io |-> MachIo],
   inprocess |-> [recv |-> [e \in DOMAIN InProcessIo |-> InProcessIpcError(e)],
                  try_recv |-> [e \in DOMAIN InProcessIo |-> InProcessTryRecvError(e)],
                  io |-> InProcessIo]]

\* What the caller of op is told of an error; accept() gives an io::Error in a
\* bincode::Error.  accept() is the first call on its channel.
Told(b, o, e) ==
  CASE o = "recv" -> Conversions[b].recv[e]
    [] o = "accept" -> Error("Bincode", Conversions[b].io[e])
    [] OTHER -> Conversions[b].try_recv[e]

----------------------------------------------------------------------------
\* Neither a message nor the end of the channel.
Empty == queue = <<>> /\ senders

\* The senders.  Only on two back-ends does a message come in parts.
Send(good, long) ==
  /\ senders /\ sent < MaxMessages
  /\ long => backend \in {"unix", "windows"}
  /\ sent' = sent + 1 /\ queue' = Append(queue, <<sent + 1, good, long>>)
  /\ fate' = [fate EXCEPT ![sent + 1] = IF long THEN "partly" ELSE "whole"]
  /\ UNCHANGED <<backend, senders, nonblock, callVars, dataVars, faults, sawEmpty, failed, stuck>>

\* A send() under way ends, or its process does.
SendEnds(n) ==
  /\ fate[n] = "partly"
  /\ \E f \in {"whole", "broken"} : fate' = [fate EXCEPT ![n] = f]
  /\ UNCHANGED <<backend, queue, sent, senders, nonblock, callVars, dataVars, faults, sawEmpty, failed, stuck>>

DropSenders ==
  /\ senders /\ senders' = FALSE
  /\ \A n \in 1 .. MaxMessages : fate[n] # "partly"
  /\ UNCHANGED <<backend, queue, sent, fate, nonblock, callVars, dataVars, faults, sawEmpty, failed, stuck>>

----------------------------------------------------------------------------
\* The receiver.  "forever" is a timeout that the system cannot represent.

\* The first system call of each call.
First(o) ==
  CASE backend = "unix" /\ o = "try_recv" -> "set"
    [] backend = "unix" /\ o \in {"try_recv_timeout", "forever"} -> "poll"
    [] OTHER -> "receive"

Call(o) ==
  /\ pc = "idle" /\ calls < MaxCalls /\ (o = "accept" => calls = 0)
  /\ calls' = calls + 1 /\ op' = o /\ pc' = First(o)
  /\ sawEmpty' = Empty /\ failed' = FALSE /\ cut' = FALSE
  /\ UNCHANGED <<backend, channelVars, late, tried, nonblock, outcome, answer, faults, handed, lost, stuck>>

\* The call returns: an error is converted, a message decoded.
Return(e) ==
  /\ answer' = Told(backend, op, e)
  /\ pc' = "idle" /\ outcome' = NoOutcome
  /\ UNCHANGED handed

ReturnMessage(m) ==
  /\ answer' = IF m[2] THEN Error("Ok", "none") ELSE Error("Bincode", "none")
  /\ pc' = "idle" /\ outcome' = NoOutcome
  /\ handed' = Append(handed, m[1])

\* A system call fails.
Fails == faults < MaxFaults /\ faults' = faults + 1 /\ failed' = TRUE

\* fcntl(O_NONBLOCK)
SetNonblock ==
  /\ pc = "set" /\ pc' = "receive" /\ nonblock' = TRUE
  /\ UNCHANGED <<backend, channelVars, dataVars, op, outcome, answer, calls, handed, lost, faults, sawEmpty, failed, stuck>>

SetFails ==
  /\ pc = "set" /\ Fails /\ (\E e \in Fault[backend] : Return(e))
  /\ UNCHANGED <<backend, channelVars, dataVars, nonblock, op, calls, lost, sawEmpty, stuck>>

\* poll: something to receive, or the end of the channel; ...
Poll ==
  /\ pc = "poll" /\ (queue # <<>> \/ ~senders)
  /\ pc' = "receive"
  /\ UNCHANGED <<backend, channelVars, dataVars, nonblock, op, outcome, answer, calls, handed, lost, faults, sawEmpty,
                 failed, stuck>>

\* ... the end of the time, of which the caller is told as of EAGAIN; ...
PollTimeout ==
  /\ pc = "poll" /\ op = "try_recv_timeout" /\ Empty
  /\ Return("EAGAIN")
  /\ UNCHANGED <<backend, channelVars, dataVars, nonblock, op, calls, lost, faults, sawEmpty, failed, stuck>>

\* ... or a failure.
PollFails ==
  /\ pc = "poll" /\ Fails /\ (\E e \in Fault[backend] : Return(e))
  /\ UNCHANGED <<backend, channelVars, dataVars, nonblock, op, calls, lost, sawEmpty, stuck>>

\* A message is in hand: on Unix the rest of a long one comes on a socket of its own.
Deliver(m) ==
  IF backend = "unix" /\ m[3]
    THEN pc' = "followup" /\ outcome' = [message |-> m, error |-> "none"] /\ UNCHANGED <<answer, handed>>
    ELSE ReturnMessage(m)

\* recvmsg, mach_msg, a read of the pipe, recv of crossbeam: what comes back is the
\* answer, except in try_recv() on Unix, which has O_NONBLOCK to take off first.
Outcome(m, e) ==
  IF backend = "unix" /\ op = "try_recv"
    THEN pc' = "reset" /\ outcome' = [message |-> m, error |-> e] /\ UNCHANGED <<answer, handed>>
    ELSE IF e = "none" THEN Deliver(m) ELSE Return(e)

Receive ==
  /\ pc = "receive" /\ queue # <<>>
  /\ backend = "windows" => ~Head(queue)[3]
  /\ queue' = Tail(queue) /\ Outcome(Head(queue), "none")
  /\ UNCHANGED <<backend, sent, fate, senders, nonblock, dataVars, op, calls, lost, faults, sawEmpty, failed,
                 stuck>>

\* get_message of a big message on Windows: the message stays in the buffer while its
\* data is read.  When that failed before, the same handle is closed again: a panic.
ReceiveBig ==
  /\ pc = "receive" /\ queue # <<>> /\ backend = "windows" /\ Head(queue)[3]
  /\ pc' = IF tried THEN "panicked" ELSE "followup"
  /\ UNCHANGED <<backend, channelVars, nonblock, dataVars, op, outcome, answer, calls, handed, lost, faults,
                 sawEmpty, failed, stuck>>

\* The message whose data is being received, and what becomes of it after a failure.
InHand == IF backend = "windows" THEN Head(queue) ELSE outcome.message

Spoilt ==
  IF backend = "windows" THEN tried' = TRUE /\ UNCHANGED lost
                         ELSE lost' = lost \cup {InHand[1]} /\ UNCHANGED tried

FollowupDone ==
  /\ pc = "followup" /\ fate[InHand[1]] = "whole"
  /\ ReturnMessage(InHand)
  /\ queue' = IF backend = "windows" THEN Tail(queue) ELSE queue
  /\ UNCHANGED <<backend, sent, fate, senders, nonblock, dataVars, op, calls, lost, faults, sawEmpty, failed,
                 stuck>>

FollowupBroken ==
  /\ pc = "followup" /\ fate[InHand[1]] = "broken" /\ cut' = TRUE
  /\ Return(BrokenOff[backend]) /\ Spoilt
  /\ UNCHANGED <<backend, channelVars, nonblock, late, op, calls, faults, sawEmpty, failed, stuck>>

FollowupFails ==
  /\ pc = "followup" /\ Fails /\ (\E e \in Fault[backend] : Return(e)) /\ Spoilt
  /\ UNCHANGED <<backend, channelVars, nonblock, late, cut, op, calls, sawEmpty, stuck>>

\* On Windows a read that completes as the time ends loses what it has read
\* (WindowsChannel, CancelNotFound); it was begun on an empty pipe.
ReceiveLate ==
  /\ pc = "receive" /\ backend = "windows" /\ op = "try_recv_timeout" /\ sawEmpty /\ ~tried
  /\ \E k \in 1 .. Len(queue) :
       /\ queue' = SubSeq(queue, k + 1, Len(queue))
       /\ late' = late \cup {queue[i][1] : i \in 1 .. k}
  /\ lost' = lost \cup late'
  /\ Return("NoData")
  /\ UNCHANGED <<backend, sent, fate, senders, nonblock, tried, cut, op, calls, faults, sawEmpty, failed, stuck>>

ReceiveClosed ==
  /\ pc = "receive" /\ queue = <<>> /\ ~senders
  /\ Outcome(<<>>, Closed[backend])
  /\ UNCHANGED <<backend, channelVars, dataVars, nonblock, op, calls, lost, faults, sawEmpty, failed, stuck>>

\* The call does not wait: on Unix because of O_NONBLOCK, elsewhere for its timeout.
ReceiveEmpty ==
  /\ pc = "receive" /\ Empty
  /\ IF backend = "unix" THEN nonblock ELSE op \in {"try_recv", "try_recv_timeout"}
  /\ Outcome(<<>>, NoMessage[backend])
  /\ UNCHANGED <<backend, channelVars, dataVars, nonblock, op, calls, lost, faults, sawEmpty, failed, stuck>>

ReceiveFails ==
  /\ pc = "receive" /\ Fails /\ (\E e \in Fault[backend] : Outcome(<<>>, e))
  /\ UNCHANGED <<backend, channelVars, dataVars, nonblock, op, calls, lost, sawEmpty, stuck>>

\* The held result is given back.
Held == IF outcome.error = "none" THEN Deliver(outcome.message) ELSE Return(outcome.error)


\* fcntl(0): a later failure does not leave the flag of an earlier one.
Reset ==
  /\ pc = "reset" /\ nonblock' = FALSE /\ stuck' = FALSE /\ Held
  /\ UNCHANGED <<backend, channelVars, dataVars, op, calls, lost, faults, sawEmpty, failed>>

\* The result is replaced by the failure: a message that was received is gone.
ResetFails ==
  /\ pc = "reset" /\ Fails /\ (\E e \in Fault[backend] : Return(e)) /\ stuck' = TRUE
  /\ lost' = IF outcome.error = "none" THEN lost \cup {outcome.message[1]} ELSE lost
  /\ UNCHANGED <<backend, channelVars, dataVars, nonblock, op, calls, sawEmpty>>

----------------------------------------------------------------------------
CallStep ==
  \/ SetNonblock \/ Poll \/ PollTimeout \/ Receive \/ ReceiveBig \/ ReceiveClosed \/ ReceiveEmpty
  \/ ReceiveLate \/ Reset \/ FollowupDone \/ FollowupBroken

FaultStep == SetFails \/ PollFails \/ ReceiveFails \/ ResetFails \/ FollowupFails

SendStep == \E n \in 1 .. MaxMessages : SendEnds(n)

Next ==
  \/ (\E good, long \in BOOLEAN : Send(good, long)) \/ SendStep \/ DropSenders
  \/ (\E o \in Ops : Call(o)) \/ CallStep \/ FaultStep

Spec == Init /\ [][Next]_vars

\* A system call that can return does, and a send() under way ends.
FairSpec == Spec /\ WF_vars(CallStep) /\ WF_vars(SendStep)

----------------------------------------------------------------------------
\* Properties

\* Every variable has its type.
TypeOK ==
  /\ backend \in Backends /\ queue \in Seq(Nat \X BOOLEAN \X BOOLEAN) /\ sent \in 0 .. MaxMessages
  /\ fate \in [1 .. MaxMessages -> {"none", "partly", "whole", "broken"}]
  /\ senders \in BOOLEAN /\ nonblock \in BOOLEAN /\ op \in Ops \cup {"none"}
  /\ pc \in {"idle", "set", "poll", "receive", "reset", "followup", "panicked"}
  /\ answer.kind \in {"none", "Ok", "Empty", "Disconnected", "Io", "Bincode"}
  /\ calls \in 0 .. MaxCalls /\ faults \in 0 .. MaxFaults
  /\ handed \in Seq(Nat) /\ late \subseteq lost /\ lost \subseteq 1 .. MaxMessages
  /\ {sawEmpty, failed, cut, tried, stuck} \subseteq BOOLEAN

Returned(o) == calls > 0 /\ pc = "idle" /\ op = o

\* How each op tells of the end of the channel.
EndOf(o) ==
  CASE o # "accept" -> Disconnected
    [] o = "accept" /\ backend = "windows" -> Error("Bincode", "BrokenPipe")
    [] OTHER -> Error("Bincode", "ConnectionReset")

\* A message that broke off looks like the end of the channel: always on Unix, and to
\* accept() on Windows.
LooksLikeEnd(o) == cut /\ (backend = "unix" \/ (backend = "windows" /\ o = "accept"))

\* On every back-end, a caller is told of the end of the channel only at its end, when
\* nothing is left to receive, or in place of a message that broke off; of an empty
\* channel only by a call that does not wait for good, that found neither a message nor
\* the end; and of a failure only when a system call failed or a message broke off (the
\* From conversions of the four error types).
AnswerTrue ==
  \A o \in Ops : Returned(o) =>
    /\ answer = EndOf(o) => (queue = <<>> /\ ~senders) \/ LooksLikeEnd(o)
    /\ answer.kind = "Empty" => (sawEmpty /\ (o \in {"try_recv", "try_recv_timeout"} \/ stuck))
    /\ (answer.io # "none" /\ answer # EndOf(o)) => (failed \/ stuck \/ cut)

\* A failure is never hidden: a call with a failed system call neither returns a message
\* nor reports an empty channel or its end, and one whose message broke off neither
\* returns it nor reports an empty channel (the default cases of the conversions).
FaultTold ==
  \A o \in Ops : Returned(o) =>
    /\ failed => (answer.io # "none" /\ answer # EndOf(o))
    /\ cut => answer.kind \notin {"Ok", "Empty"}

\* Messages are handed out once and in order.  One that was completely sent is lost only
\* to a failing system call that comes after its first part was received (the last fcntl
\* of try_recv() and the followup fragments on Unix), one for each, or on Windows to a
\* read that completes as the time of its call ends.
NothingLost ==
  LET held == IF outcome.message = <<>> THEN <<>> ELSE <<outcome.message[1]>>
      all == handed \o held \o [i \in DOMAIN queue |-> queue[i][1]]
  IN  /\ Len(all) + Cardinality(lost) = sent
      /\ Cardinality({n \in lost \ late : fate[n] # "broken"}) <= faults
      /\ IF backend = "windows" THEN lost = late ELSE late = {}
      /\ \A i, j \in DOMAIN all : i < j => all[i] < all[j]

\* Every call that does not wait for good returns, and so does every other one when
\* there is a message or no sender.
CallReturns ==
  /\ []<>(op \in {"try_recv", "try_recv_timeout"} => pc \in {"idle", "panicked"})
  /\ (pc # "idle" /\ ~Empty) ~> (pc \in {"idle", "panicked"})
=============================================================================
