------------------------- MODULE WindowsReceiverSet -------------------------
(***************************************************************************)
(* OsIpcReceiverSet of the Windows back-end (platform/windows/mod.rs): the  *)
(* readers in the set always have an overlapped read in flight, whose end   *)
(* the kernel reports on the set's I/O completion port.  A completion names *)
(* the reader by its handle, here by its channel.                           *)
(*                                                                         *)
(* As in WindowsChannel, message n of a channel is the units <<n, 1>> and   *)
(* <<n, 2>>, and a read may end after any unit.  Receivers come to the set  *)
(* unused, or after calls of recv() and try_recv(); those are one step      *)
(* here.  Big messages are left out.                                        *)
(***************************************************************************)
EXTENDS Integers, Sequences

CONSTANTS
  Channels,
  MaxMessages,   \* bound: messages sent on each channel
  UsedBefore,    \* what receivers do before they are added: "recv", "try_recv"
  Drops          \* whether the set is dropped

WindowsSetAssumption ==
  /\ MaxMessages \in Nat /\ Drops \in BOOLEAN /\ UsedBefore \subseteq {"recv", "try_recv"}

VARIABLES
  \* The kernel:
  pipe,         \* units of each channel written and not yet read
  io,           \* the overlapped read of each receiver
  iodata,       \* the units it has read
  iocp,         \* completions on the set's port, oldest first
  \* The senders:
  open,         \* channels that have a sender
  sent,         \* number of messages sent on each channel
  \* MessageReader:
  async,        \* receivers whose async.is_some()
  read_buf,     \* the filled part of their buffers
  holder,       \* where the reader is: "app", "set", "gone"
  \* OsIpcReceiverSet:
  incrementor,
  readers,
  closed_readers,
  phase,        \* "idle"; "select", "restart" in select(); "cancel", "drain" in drop(); "dropped", "panicked"
  current,      \* in phase "restart": the reader that was taken out of the set
  uncancelled,  \* in phase "cancel": readers whose read is not yet cancelled
  results,      \* selection_results
  \* History:
  ids,          \* what add() returned for each receiver, or -1
  got,          \* messages returned to the program: of recv(), or reported under the id
  ended,        \* ids reported as closed
  failed        \* channels whose reader was dropped by an error return of select()

kernelVars == <<pipe, io, iodata, iocp>>
senderVars == <<open, sent>>
readerVars == <<async, read_buf, holder>>
setVars == <<incrementor, readers, closed_readers, phase, current, uncancelled, results>>
historyVars == <<ids, got, ended, failed>>
vars == <<kernelVars, senderVars, readerVars, setVars, historyVars>>

\* OsIpcSelectionResult: DataReceived, or ChannelClosed (n is 0).
SelectionResult == [id : Nat, n : Nat]
Closed(id) == [id |-> id, n |-> 0]

Init ==
  /\ pipe = [c \in Channels |-> <<>>] /\ io = [c \in Channels |-> "none"]
  /\ iodata = [c \in Channels |-> <<>>] /\ iocp = <<>>
  /\ open = Channels /\ sent = [c \in Channels |-> 0]
  /\ async = {} /\ read_buf = [c \in Channels |-> <<>>] /\ holder = [c \in Channels |-> "app"]
  /\ incrementor = 0 /\ readers = {} /\ closed_readers = <<>>
  /\ phase = "idle" /\ current = {} /\ uncancelled = {} /\ results = <<>>
  /\ ids = [c \in Channels |-> -1] /\ got = [c \in Channels |-> <<>>] /\ ended = <<>>
  /\ failed = {}

----------------------------------------------------------------------------
\* The senders and the kernel

Send(c) ==
  /\ c \in open /\ holder[c] # "gone" /\ sent[c] < MaxMessages
  /\ sent' = [sent EXCEPT ![c] = @ + 1]
  /\ pipe' = [pipe EXCEPT ![c] = @ \o <<<<sent[c] + 1, 1>>, <<sent[c] + 1, 2>>>>]
  /\ UNCHANGED <<io, iodata, iocp, open, readerVars, setVars, historyVars>>

DropSenders(c) ==
  /\ c \in open
  /\ open' = open \ {c}
  /\ UNCHANGED <<kernelVars, sent, readerVars, setVars, historyVars>>

\* A read ends: its result is in io, and a completion is on the port when the
\* handle is associated with it.
Ends(c, result) ==
  /\ io' = [io EXCEPT ![c] = result]
  /\ iocp' = IF holder[c] = "set" THEN Append(iocp, c) ELSE iocp
  /\ UNCHANGED <<senderVars, readerVars, setVars, historyVars>>

Complete(c, k) ==
  /\ io[c] \in {"pending", "cancelling"} /\ k <= Len(pipe[c])
  /\ Ends(c, "done")
  /\ iodata' = [iodata EXCEPT ![c] = SubSeq(pipe[c], 1, k)]
  /\ pipe' = [pipe EXCEPT ![c] = SubSeq(@, k + 1, Len(@))]

NothingComes(c) == pipe[c] = <<>> /\ c \notin open

Break(c) ==
  /\ io[c] \in {"pending", "cancelling"} /\ NothingComes(c)
  /\ Ends(c, "broken")
  /\ UNCHANGED <<pipe, iodata>>

\* A read in flight fails with another error.
Fail(c) ==
  /\ io[c] = "pending" /\ holder[c] = "set"
  /\ Ends(c, "failed")
  /\ UNCHANGED <<pipe, iodata>>

Abort(c) ==
  /\ io[c] = "cancelling"
  /\ Ends(c, "aborted")
  /\ UNCHANGED <<pipe, iodata>>

----------------------------------------------------------------------------
\* The receiver before it is added

\* recv() returns a message; the read may have brought more.
Recv(c, k) ==
  /\ "recv" \in UsedBefore /\ holder[c] = "app" /\ c \notin async /\ phase = "idle"
  /\ k <= Len(pipe[c]) /\ Len(read_buf[c]) + k >= 2
  /\ LET buf == read_buf[c] \o SubSeq(pipe[c], 1, k) IN
       /\ got' = [got EXCEPT ![c] = Append(@, buf[1][1])]
       /\ read_buf' = [read_buf EXCEPT ![c] = SubSeq(buf, 3, Len(buf))]
  /\ pipe' = [pipe EXCEPT ![c] = SubSeq(@, k + 1, Len(@))]
  /\ UNCHANGED <<io, iodata, iocp, senderVars, async, holder, setVars, ids, ended, failed>>

\* try_recv() returns NoData and leaves a read in flight.
TryRecv(c) ==
  /\ "try_recv" \in UsedBefore /\ holder[c] = "app" /\ c \notin async /\ phase = "idle"
  /\ ~NothingComes(c)
  /\ async' = async \cup {c}
  /\ io' = [io EXCEPT ![c] = "pending"]
  /\ UNCHANGED <<pipe, iodata, iocp, senderVars, read_buf, holder, setVars, historyVars>>

----------------------------------------------------------------------------
\* OsIpcReceiverSet::add

\* start_read
StartRead(c) ==
  /\ async' = async \cup {c}
  /\ io' = [io EXCEPT ![c] = "pending"]

\* add_to_iocp cannot associate the handle, since a read in flight holds it; the
\* reader is dropped, which ends the read.
AddFails(c) == phase = "idle" /\ holder[c] = "app" /\ c \in async

AddError(c) ==
  /\ AddFails(c)
  /\ holder' = [holder EXCEPT ![c] = "gone"]
  /\ async' = async \ {c}
  /\ io' = [io EXCEPT ![c] = "none"] /\ iodata' = [iodata EXCEPT ![c] = <<>>]
  /\ incrementor' = incrementor + 1
  /\ UNCHANGED <<pipe, iocp, senderVars, read_buf, readers, closed_readers, phase, current,
                 uncancelled, results, historyVars>>

Add(c) ==
  /\ phase = "idle" /\ holder[c] = "app" /\ c \notin async
  /\ incrementor' = incrementor + 1
  /\ ids' = [ids EXCEPT ![c] = incrementor]
  /\ IF NothingComes(c)
     THEN /\ closed_readers' = Append(closed_readers, incrementor)
          /\ holder' = [holder EXCEPT ![c] = "gone"]
          /\ UNCHANGED <<io, async, readers>>
     ELSE /\ readers' = readers \cup {c}
          /\ holder' = [holder EXCEPT ![c] = "set"]
          /\ StartRead(c)
          /\ UNCHANGED closed_readers
  /\ UNCHANGED <<pipe, iodata, iocp, senderVars, read_buf, phase, current, uncancelled, results,
                 got, ended, failed>>

----------------------------------------------------------------------------
\* OsIpcReceiverSet::select

\* What the program gets out of a list of results.
Return(rs) ==
  /\ got' = [c \in Channels |->
       got[c] \o [i \in DOMAIN SelectSeq(rs, LAMBDA r : r.id = ids[c] /\ r.n # 0) |->
                    SelectSeq(rs, LAMBDA r : r.id = ids[c] /\ r.n # 0)[i].n]]
  /\ ended' = ended \o [i \in DOMAIN SelectSeq(rs, LAMBDA r : r.n = 0) |->
                          SelectSeq(rs, LAMBDA r : r.n = 0)[i].id]
  /\ results' = <<>>
  /\ phase' = "idle"
  /\ UNCHANGED <<ids, failed>>

\* The readers that were closed when they were added come first.
SelectBegin ==
  /\ phase = "idle" /\ (readers # {} \/ closed_readers # <<>>)
  /\ closed_readers' = <<>>
  /\ IF closed_readers = <<>>
     THEN phase' = "select" /\ UNCHANGED <<results, historyVars>>
     ELSE Return([i \in DOMAIN closed_readers |-> Closed(closed_readers[i])])
  /\ UNCHANGED <<kernelVars, senderVars, readerVars, incrementor, readers, current, uncancelled>>

\* fetch_iocp_result finds no reader for the completion, and panics.
Unknown == phase \in {"select", "drain"} /\ iocp # <<>> /\ Head(iocp) \notin readers

FetchPanics ==
  /\ Unknown
  /\ phase' = "panicked"
  /\ UNCHANGED <<kernelVars, senderVars, readerVars, incrementor, readers, closed_readers, current,
                 uncancelled, results, historyVars>>

\* fetch_iocp_result and notify_completion: the reader of the completion is taken
\* out of the set, its buffer is its own again.
FetchResult(c) ==
  /\ iocp # <<>> /\ Head(iocp) = c /\ c \in readers
  /\ iocp' = Tail(iocp)
  /\ readers' = readers \ {c}
  /\ async' = async \ {c}
  /\ io' = [io EXCEPT ![c] = "none"]
  /\ iodata' = [iodata EXCEPT ![c] = <<>>]

\* The messages of a buffer, and what is left behind them.
Whole(buf) == Len(buf) \div 2
Results(id, buf) == [i \in 1 .. Whole(buf) |-> [id |-> id, n |-> buf[2 * i - 1][1]]]
Remainder(buf) == SubSeq(buf, 2 * Whole(buf) + 1, Len(buf))

\* Data came: all messages that are complete are taken out of the buffer.
SelectData(c) ==
  LET buf == read_buf[c] \o iodata[c] IN
  /\ phase = "select" /\ io[c] = "done"
  /\ FetchResult(c)
  /\ results' = results \o Results(ids[c], buf)
  /\ read_buf' = [read_buf EXCEPT ![c] = Remainder(buf)]
  /\ current' = {c}
  /\ phase' = "restart"
  /\ UNCHANGED <<pipe, senderVars, holder, incrementor, closed_readers, uncancelled, historyVars>>

\* The channel is closed: the reader is dropped.
SelectClosed(c) ==
  /\ phase = "select" /\ io[c] = "broken"
  /\ FetchResult(c)
  /\ holder' = [holder EXCEPT ![c] = "gone"]
  /\ Return(Append(results, Closed(ids[c])))
  /\ UNCHANGED <<pipe, senderVars, read_buf, incrementor, closed_readers, current, uncancelled>>

\* select() returns an error: the reader at hand goes, with its batch and what its
\* buffer and its pipe hold.
ReturnError(c) ==
  /\ holder' = [holder EXCEPT ![c] = "gone"]
  /\ failed' = failed \cup {c}
  /\ results' = <<>> /\ current' = {} /\ phase' = "idle"
  /\ UNCHANGED <<pipe, senderVars, read_buf, incrementor, closed_readers, uncancelled, ids, got, ended>>

\* The read had failed.
SelectFailed(c) ==
  /\ phase = "select" /\ io[c] = "failed"
  /\ FetchResult(c) /\ ReturnError(c)

\* get_message() fails, perhaps after some of the messages that the read brought.
GetMessageError(c) ==
  /\ phase = "select" /\ io[c] = "done"
  /\ FetchResult(c) /\ ReturnError(c)

\* The next read cannot be started.
RestartError(c) ==
  /\ phase = "restart" /\ c \in current
  /\ ReturnError(c)
  /\ UNCHANGED <<io, iodata, iocp, async, readers>>

\* GetQueuedCompletionStatus itself fails, with no completion.
FetchFails ==
  /\ phase = "select" /\ phase' = "idle"
  /\ UNCHANGED <<kernelVars, senderVars, readerVars, incrementor, readers, closed_readers, current,
                 uncancelled, results, historyVars>>

\* The next read is started, or finds the channel closed; select() returns when it
\* has a result.
Restart(c) ==
  /\ phase = "restart" /\ c \in current
  /\ current' = {}
  /\ IF NothingComes(c)
     THEN /\ holder' = [holder EXCEPT ![c] = "gone"]
          /\ Return(Append(results, Closed(ids[c])))
          /\ UNCHANGED <<async, io, readers>>
     ELSE /\ StartRead(c)
          /\ readers' = readers \cup {c}
          /\ UNCHANGED holder
          /\ IF results = <<>> THEN phase' = "select" /\ UNCHANGED <<results, historyVars>>
                               ELSE Return(results)
  /\ UNCHANGED <<pipe, iodata, iocp, senderVars, read_buf, incrementor, closed_readers, uncancelled>>

----------------------------------------------------------------------------
\* OsIpcReceiverSet::drop

DropBegin ==
  /\ Drops /\ phase = "idle"
  /\ phase' = "cancel"
  /\ uncancelled' = readers
  /\ UNCHANGED <<kernelVars, senderVars, readerVars, incrementor, readers, closed_readers, current,
                 results, historyVars>>

\* Mutant: the reader is dropped whether its read has ended or not.
DropCancelFrees(c) ==
  /\ phase = "cancel" /\ c \in uncancelled
  /\ uncancelled' = uncancelled \ {c}
  /\ io' = [io EXCEPT ![c] = IF @ = "pending" THEN "cancelling" ELSE "none"]
  /\ async' = async \ {c} /\ readers' = readers \ {c}
  /\ holder' = [holder EXCEPT ![c] = "gone"]
  /\ UNCHANGED <<pipe, iodata, iocp, senderVars, read_buf, incrementor, closed_readers, phase,
                 current, results, historyVars>>

\* issue_async_cancel: the kernel will end the read, or it has ended (its completion
\* is on the port): then the reader is dropped.
DropCancel(c) ==
  /\ phase = "cancel" /\ c \in uncancelled
  /\ uncancelled' = uncancelled \ {c}
  /\ IF io[c] = "pending"
     THEN /\ io' = [io EXCEPT ![c] = "cancelling"]
          /\ UNCHANGED <<async, iodata, readers, holder>>
     ELSE /\ io' = [io EXCEPT ![c] = "none"]
          /\ iodata' = [iodata EXCEPT ![c] = <<>>]
          /\ async' = async \ {c} /\ readers' = readers \ {c}
          /\ holder' = [holder EXCEPT ![c] = "gone"]
  /\ UNCHANGED <<pipe, iocp, senderVars, read_buf, incrementor, closed_readers, phase, current,
                 results, historyVars>>

DropCancelled ==
  /\ phase = "cancel" /\ uncancelled = {}
  /\ phase' = "drain"
  /\ UNCHANGED <<kernelVars, senderVars, readerVars, incrementor, readers, closed_readers, current,
                 uncancelled, results, historyVars>>

DropFetch(c) ==
  /\ phase = "drain"
  /\ FetchResult(c)
  /\ holder' = [holder EXCEPT ![c] = "gone"]
  /\ UNCHANGED <<pipe, senderVars, read_buf, incrementor, closed_readers, phase, current,
                 uncancelled, results, historyVars>>

DropEnd ==
  /\ phase = "drain" /\ readers = {}
  /\ phase' = "dropped"
  /\ UNCHANGED <<kernelVars, senderVars, readerVars, incrementor, readers, closed_readers, current,
                 uncancelled, results, historyVars>>

----------------------------------------------------------------------------
SelectStep ==
  FetchPanics \/ \E c \in Channels : SelectData(c) \/ SelectClosed(c) \/ SelectFailed(c) \/ Restart(c)
DropStep == DropCancelled \/ DropEnd \/ \E c \in Channels : DropCancel(c) \/ DropFetch(c)
SelectErrors == FetchFails \/ \E c \in Channels : GetMessageError(c) \/ RestartError(c)
KernelStep(c) == (\E k \in 1 .. Len(pipe[c]) : Complete(c, k)) \/ Break(c) \/ Abort(c)

Next ==
  \/ SelectBegin \/ SelectStep \/ SelectErrors \/ DropBegin \/ DropStep
  \/ \E c \in Channels :
       \/ Send(c) \/ DropSenders(c) \/ KernelStep(c) \/ Fail(c)
       \/ (\E k \in 1 .. Len(pipe[c]) : Recv(c, k)) \/ TryRecv(c)
       \/ Add(c) \/ AddError(c)

Spec == Init /\ [][Next]_vars

\* The kernel ends reads, and the owner of the set keeps calling select(), or drops
\* the set; a fetch of completions does not fail for ever.
FairSpec ==
  /\ Spec
  /\ \A c \in Channels : WF_vars(KernelStep(c))
  /\ WF_vars(SelectBegin) /\ SF_vars(SelectStep) /\ WF_vars(DropStep)

----------------------------------------------------------------------------
\* Properties

Unit == Nat \X {1, 2}

\* Every variable has its type.
TypeOK ==
  /\ \A c \in Channels : pipe[c] \in Seq(Unit) /\ iodata[c] \in Seq(Unit) /\ read_buf[c] \in Seq(Unit)
  /\ io \in [Channels -> {"none", "pending", "cancelling", "done", "broken", "aborted", "failed"}]
  /\ iocp \in Seq(Channels) /\ open \subseteq Channels /\ sent \in [Channels -> 0 .. MaxMessages]
  /\ async \subseteq Channels /\ readers \subseteq Channels /\ uncancelled \subseteq Channels
  /\ holder \in [Channels -> {"app", "set", "gone"}]
  /\ incrementor \in Nat /\ closed_readers \in Seq(Nat) /\ results \in Seq(SelectionResult)
  /\ phase \in {"idle", "select", "restart", "cancel", "drain", "dropped", "panicked"}
  /\ current \subseteq Channels /\ ids \in [Channels -> Nat \cup {-1}]
  /\ \A c \in Channels : got[c] \in Seq(Nat)
  /\ ended \in Seq(Nat) /\ failed \subseteq Channels

\* While the kernel may write to a reader's buffer the reader exists and takes its
\* read to be in flight; a reader waits in the set exactly as long as that, so
\* that its completion finds it (the comments on readers and fetch_iocp_result).
BufferOwned ==
  /\ \A c \in Channels : io[c] \in {"pending", "cancelling"} => c \in async /\ holder[c] # "gone"
  /\ readers \subseteq async

\* A reader that waits in the set has one completion coming: its read is in flight,
\* or one completion is on the port.  A reader that is not in flight would wait
\* for ever, as the comment in add_to_iocp says.
OneCompletion ==
  \A c \in readers :
    LET packets == {i \in DOMAIN iocp : iocp[i] = c}
    IN  /\ \A i, j \in packets : i = j
        /\ packets = {} <=> io[c] \in {"pending", "cancelling"}

\* Messages are reported under the id that add() returned for their channel, in
\* order and without gaps, however reads cut them.
ReportsInOrder == \A c \in Channels : \A i \in DOMAIN got[c] : got[c][i] = i

\* The end of a channel is reported once, and after all its messages: "wait for IPC
\* messages received on any of the receivers in the set" (ipc.rs:471).
ClosedAtEnd ==
  /\ \A i, j \in DOMAIN ended : ended[i] = ended[j] => i = j
  /\ \A i \in DOMAIN ended, c \in Channels :
       ended[i] = ids[c] => c \notin open /\ Len(got[c]) = sent[c]

\* Every completion is for a reader that is in the set (fetch_iocp_result).
NotificationKnown == ~Unknown

\* A receiver can be added to the set: "add and consume the IpcReceiver to the set
\* of receivers to be polled" (ipc.rs:458).
AddSucceeds == \A c \in Channels : ~AddFails(c)

\* Every message sent to a receiver in the set is reported, and then its end, unless the set
\* goes away or an error return of select() drops the reader; sends are bounded.
AllReported ==
  []<>(\/ phase \in {"dropped", "panicked"}
       \/ \A c \in Channels \ failed :
            ids[c] # -1 =>
              Len(got[c]) = sent[c] /\ (c \in open \/ \E i \in DOMAIN ended : ended[i] = ids[c]))
=============================================================================
