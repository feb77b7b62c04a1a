-------------------------- MODULE MCChannelProgress --------------------------
(***************************************************************************)
(* What must happen in the end on the channels of the three operating       *)
(* systems and on the streams of to_stream(), for TLC, and what the calls of *)
(* a receiver say.  Each is a program of its own: `part` is chosen at the    *)
(* beginning, and the others stay as they are.                              *)
(***************************************************************************)
EXTENDS MCUnixChannel

CONSTANTS FirstSender, None, Routes

VARIABLES
  part,        \* the component that runs
  \* WindowsChannel:
  w_pipe, w_io, w_iodata, w_helper, w_taken, w_open, w_amid, w_sent, w_acked, w_async,
  w_read_buf, w_pc, w_mode, w_got, w_closed, w_lossy, w_whole,
  \* MacChannel:
  m_max_inline, m_port, m_pc, m_cur, m_n, m_acked, m_urefs, m_queue, m_armed, m_rx, m_mode,
  m_received, m_closed,
  \* ReceiveCalls:
  c_backend, c_queue, c_sent, c_senders, c_nonblock, c_op, c_pc, c_outcome, c_answer,
  c_calls, c_faults, c_handed, c_lost, c_sawEmpty, c_failed, c_stuck, c_fate, c_late,
  c_tried, c_cut,
  \* AsyncRouter:
  a_pc, a_arg, a_lock, a_routes, a_wakeups, a_phase, a_receivers, a_senders, a_results,
  a_sent, a_queue, a_closed, a_stream, a_buffer, a_got, a_ended, a_unwoken, a_refused

wVars ==
  <<w_pipe, w_io, w_iodata, w_helper, w_taken, w_open, w_amid, w_sent, w_acked, w_async,
    w_read_buf, w_pc, w_mode, w_got, w_closed, w_lossy, w_whole>>
mVars ==
  <<m_max_inline, m_port, m_pc, m_cur, m_n, m_acked, m_urefs, m_queue, m_armed, m_rx, m_mode,
    m_received, m_closed>>
cVars ==
  <<c_backend, c_queue, c_sent, c_senders, c_nonblock, c_op, c_pc, c_outcome, c_answer,
    c_calls, c_faults, c_handed, c_lost, c_sawEmpty, c_failed, c_stuck, c_fate, c_late,
    c_tried, c_cut>>
aVars ==
  <<a_pc, a_arg, a_lock, a_routes, a_wakeups, a_phase, a_receivers, a_senders, a_results,
    a_sent, a_queue, a_closed, a_stream, a_buffer, a_got, a_ended, a_unwoken, a_refused>>

\* The receiver calls recv() only, so that it is there when something comes.
Windows == INSTANCE WindowsChannel WITH
  MaxMessages <- 2, Pieces <- 2, Big <- BOOLEAN, Modes <- {"Blocking"}, Transfers <- {},
  Crashes <- FALSE, pipe <- w_pipe, io <- w_io, iodata <- w_iodata,
  helper <- w_helper, taken <- w_taken, open <- w_open, amid <- w_amid, sent <- w_sent,
  acked <- w_acked, async <- w_async, read_buf <- w_read_buf, pc <- w_pc, mode <- w_mode,
  got <- w_got, closed <- w_closed, lossy <- w_lossy, whole <- w_whole

Mac == INSTANCE MacChannel WITH
  First <- FirstSender, Lens <- {1, 9}, RegionCounts <- {1, 2}, Unlimited <- 100,
  MessageSize <- 4, OolSize <- 4, WordSize <- 4, KernelLimit <- 16, SmallSize <- 12,
  QLimit <- 1, Modes <- {"Blocking"}, max_inline <- m_max_inline, port <- m_port,
  pc <- m_pc, cur <- m_cur, n <- m_n, acked <- m_acked, urefs <- m_urefs, queue <- m_queue,
  armed <- m_armed, rx <- m_rx, mode <- m_mode, received <- m_received, closed <- m_closed

Calls == INSTANCE ReceiveCalls WITH
  Backends <- {"unix", "windows", "macos", "inprocess"}, MaxMessages <- 2, MaxCalls <- 3,
  MaxFaults <- 1, backend <- c_backend, queue <- c_queue, sent <- c_sent,
  senders <- c_senders, nonblock <- c_nonblock, op <- c_op, pc <- c_pc,
  outcome <- c_outcome, answer <- c_answer, calls <- c_calls, faults <- c_faults,
  handed <- c_handed, lost <- c_lost, sawEmpty <- c_sawEmpty, failed <- c_failed,
  stuck <- c_stuck, fate <- c_fate, late <- c_late, tried <- c_tried, cut <- c_cut

\* One thread calls to_stream(), so that nobody keeps it from the mutex.
Async == INSTANCE AsyncRouter WITH
  Clients <- {FirstSender}, MaxMessages <- 1, Events <- 1, WakeupCapacity <- 1, pc <- a_pc,
  arg <- a_arg, lock <- a_lock, routes <- a_routes, wakeups <- a_wakeups, phase <- a_phase,
  receivers <- a_receivers, senders <- a_senders, results <- a_results, sent <- a_sent,
  queue <- a_queue, closed <- a_closed, stream <- a_stream, buffer <- a_buffer, got <- a_got,
  ended <- a_ended, unwoken <- a_unwoken, refused <- a_refused

ASSUME Instances == Mac!MacAssumption /\ Calls!ReceiveCallsAssumption /\ Async!AsyncAssumption

\* ReceiveCalls begins on one of four back-ends, when it runs, and AsyncRouter in one of three
\* states.
MCInit ==
  /\ part \in {"unix", "windows", "macos", "calls", "async"}
  /\ Init /\ Windows!Init /\ Mac!Init /\ Calls!Init /\ Async!Init
  /\ part # "calls" => c_backend = "unix"
  /\ part # "async" => a_receivers = {"wakeup"}

MCNext ==
  \/ part = "unix" /\ Next /\ UNCHANGED <<part, wVars, mVars, cVars, aVars>>
  \/ part = "windows" /\ Windows!Next /\ UNCHANGED <<part, vars, mVars, cVars, aVars>>
  \/ part = "macos" /\ Mac!Next /\ UNCHANGED <<part, vars, wVars, cVars, aVars>>
  \/ part = "calls" /\ Calls!Next /\ UNCHANGED <<part, vars, wVars, mVars, aVars>>
  \/ part = "async" /\ Async!Next /\ UNCHANGED <<part, vars, wVars, mVars, cVars>>

\* The fairness of the five modules, of the one that runs.
MCFairSpec ==
  /\ MCInit /\ [][MCNext]_<<part, vars, wVars, mVars, cVars, aVars>>
  /\ WF_vars(part = "unix" /\ Recv)
  /\ \A s \in Senders : WF_vars(part = "unix" /\ SendStep(s))
  /\ WF_wVars(part = "windows" /\ Windows!ReaderStep) /\ WF_wVars(part = "windows" /\ Windows!KernelStep)
  /\ \A s \in Senders : WF_wVars(part = "windows" /\ Windows!Reading(w_amid[s]) /\ Windows!SendRaw(s))
  /\ WF_wVars(part = "windows" /\ ~w_closed /\ Windows!Receive("Blocking"))
  /\ \A s \in Senders : WF_mVars(part = "macos" /\ Mac!SendStep(s))
  /\ WF_mVars(part = "macos" /\ Mac!SelectStep)
  /\ WF_mVars(part = "macos" /\ ~m_closed /\ Mac!Recv("Blocking"))
  /\ WF_cVars(part = "calls" /\ Calls!CallStep) /\ WF_cVars(part = "calls" /\ Calls!SendStep)
  /\ WF_aVars(part = "async" /\ Async!ClientStep(FirstSender))
  /\ WF_aVars(part = "async" /\ Async!ThreadStep)
  /\ \A r \in Routes \cup {"wakeup"} :
       SF_aVars(part = "async" /\ \E S \in SUBSET a_receivers : r \in S /\ Async!Select(S))
  /\ \A r \in Routes : WF_aVars(part = "async" /\ Async!StreamStep(r))

----------------------------------------------------------------------------
\* Properties that hold of several channels

\* Every send() returns: on Unix every fragment finds its way while the receiver reads, on
\* macOS the message does, though the queue of the port may be full.  Every call of a
\* receiver that does not wait for good returns, and every other one when there is a message
\* or no sender (recv, try_recv, try_recv_timeout, accept).
CallsReturn == SendTerminates /\ Mac!SendReturns /\ Calls!CallReturns

\* Every message that is completely sent is returned by recv(), big or small, though the
\* kernel splits what is read, and when all senders are closed recv() says so (Unix, Windows
\* and macOS).
EverythingReceived ==
  AllReceived /\ Windows!AllReceived /\ Mac!AllReceived

\* The program that polls a stream gets all its messages and then its end, unless the routing
\* thread has ended, its receiver was refused or a wakeup failed (asynch.rs, poll_next).
StreamProgress == Async!StreamProgress

==============================================================================
