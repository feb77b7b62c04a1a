--------------------------- MODULE MCReceiverSets ----------------------------
(***************************************************************************)
(* The receiver sets of the three operating systems, for TLC.  Each is a    *)
(* program of its own: `part` is chosen at the beginning, and the others    *)
(* stay as they are.  The Windows one is explored twice, with receivers     *)
(* that were used before and a set that is dropped, and without either.     *)
(***************************************************************************)
EXTENDS UnixReceiverSet, TLC

CONSTANTS
  Ports,                        \* the channels of the macOS set
  WindowsMessages, MacMessages, \* bounds: messages sent on each channel of those sets
  MacSizes                      \* sizes of messages on macOS, 1 in the first buffer

VARIABLES
  part,        \* the component that runs
  \* WindowsReceiverSet:
  w_pipe, w_io, w_iodata, w_iocp, w_open, w_sent, w_async, w_read_buf, w_holder,
  w_incrementor, w_readers, w_closed_readers, w_phase, w_current, w_uncancelled, w_results,
  w_ids, w_got, w_ended, w_failed,
  \* MacReceiverSet:
  m_name, m_member, m_queue, m_senders, m_created, m_sent, m_receivers, m_ports, m_pc,
  m_buffer, m_ids, m_events

wVars ==
  <<w_pipe, w_io, w_iodata, w_iocp, w_open, w_sent, w_async, w_read_buf, w_holder,
    w_incrementor, w_readers, w_closed_readers, w_phase, w_current, w_uncancelled, w_results,
    w_ids, w_got, w_ended, w_failed>>
mVars ==
  <<m_name, m_member, m_queue, m_senders, m_created, m_sent, m_receivers, m_ports, m_pc,
    m_buffer, m_ids, m_events>>

Windows(UsedBefore, Drops) == INSTANCE WindowsReceiverSet WITH
  MaxMessages <- WindowsMessages, pipe <- w_pipe, io <- w_io, iodata <- w_iodata,
  iocp <- w_iocp, open <- w_open, sent <- w_sent, async <- w_async, read_buf <- w_read_buf,
  holder <- w_holder, incrementor <- w_incrementor, readers <- w_readers,
  closed_readers <- w_closed_readers, phase <- w_phase, current <- w_current,
  uncancelled <- w_uncancelled, results <- w_results, ids <- w_ids, got <- w_got,
  ended <- w_ended, failed <- w_failed

\* What receivers may do before they are added.
Uses == {"recv", "try_recv"}

M == INSTANCE MacReceiverSet WITH
  Ports <- Ports, MaxMessages <- MacMessages, Names <- {1, 2}, Sizes <- MacSizes,
  SmallSize <- 1, name <- m_name, member <- m_member, queue <- m_queue,
  senders <- m_senders, created <- m_created, sent <- m_sent, receivers <- m_receivers,
  ports <- m_ports, pc <- m_pc, buffer <- m_buffer, ids <- m_ids, events <- m_events

ASSUME Instances == Windows(Uses, TRUE)!WindowsSetAssumption /\ M!MacSetAssumption

MCInit ==
  /\ part \in {"unix", "windows", "windows fresh", "macos"}
  /\ Init /\ Windows(Uses, TRUE)!Init /\ M!Init

MCNext ==
  \/ part = "unix" /\ Next /\ UNCHANGED <<part, wVars, mVars>>
  \/ part = "windows" /\ Windows(Uses, TRUE)!Next /\ UNCHANGED <<part, vars, mVars>>
  \/ part = "windows fresh" /\ Windows({}, FALSE)!Next /\ UNCHANGED <<part, vars, mVars>>
  \/ part = "macos" /\ M!Next /\ UNCHANGED <<part, vars, wVars>>

MCSpec == MCInit /\ [][MCNext]_<<part, vars, wVars, mVars>>

Symmetry == Permutations(Channels) \cup Permutations(Senders)

----------------------------------------------------------------------------
\* Properties that hold of all sets

WindowsRuns == part \in {"windows", "windows fresh"}

\* A set reports the messages of a channel in order and without gaps, and its end once and
\* after them; on Windows the end is reported like this of receivers that were new when they
\* were added (add and select).  Of the Unix set ReportsFaithful says so, and here that
\* select() finds an entry for every event.
SetsReportInOrder ==
  /\ part = "unix" => TypeOK /\ NoPanic
  /\ WindowsRuns => Windows(Uses, TRUE)!TypeOK /\ Windows(Uses, TRUE)!ReportsInOrder
  /\ part = "windows fresh" => Windows(Uses, TRUE)!ClosedAtEnd
  /\ part = "macos" => M!TypeOK /\ M!ReportsUnderId /\ M!InOrder

\* While the kernel may write to a reader's buffer the reader exists and takes its read to
\* be in flight, a reader that waits in the set has one completion coming and, of receivers
\* that were new, every completion is for a reader in the set (fetch_iocp_result, add_to_iocp
\* on Windows); a name denotes one receive right of one owner, a receiver or the set, though
\* names are used again (consume_port in add, drop on macOS).
SetsOwnReceivers ==
  /\ WindowsRuns => Windows(Uses, TRUE)!BufferOwned /\ Windows(Uses, TRUE)!OneCompletion
  /\ part = "windows fresh" => Windows(Uses, TRUE)!NotificationKnown
  /\ part = "macos" => M!OwnedOnce
==============================================================================
