----------------------------- MODULE MCChannels ------------------------------
(***************************************************************************)
(* The channels of the other back-ends, the typed layer above the channels  *)
(* and the control messages of Unix, for TLC.  Each is a program of its     *)
(* own: `part` is chosen at the beginning, and the others stay as they are. *)
(* The Unix channel is in MCUnixChannel.                                    *)
(***************************************************************************)
EXTENDS WindowsChannel, TLC

CONSTANTS
  Handles,   \* the sender handles of the macOS channel
  FirstHandle,\* the one that channel() returns
  Chans,     \* the in-process channels, and the receivers that are serialized
  None

VARIABLES
  part,        \* the component that runs
  \* MacChannel:
  m_max_inline, m_port, m_pc, m_cur, m_n, m_acked, m_urefs, m_queue, m_armed, m_rx, m_mode,
  m_received, m_closed,
  \* InProcess:
  i_queue, i_senders, i_receiver, i_incrementor, i_receiver_ids, i_receivers, i_sent,
  i_got, i_ids, i_closes,
  \* Serialization:
  s_serChannels, s_serRegions, s_deChannels, s_deRegions, s_stack, s_wire, s_mine,
  s_unwinding,
  \* AncillaryData:
  a_word, a_fds, a_stage, a_buffer, a_cmsg_len, a_controllen, a_count

mVars ==
  <<m_max_inline, m_port, m_pc, m_cur, m_n, m_acked, m_urefs, m_queue, m_armed, m_rx, m_mode,
    m_received, m_closed>>
iVars ==
  <<i_queue, i_senders, i_receiver, i_incrementor, i_receiver_ids, i_receivers, i_sent,
    i_got, i_ids, i_closes>>
sVars ==
  <<s_serChannels, s_serRegions, s_deChannels, s_deRegions, s_stack, s_wire, s_mine,
    s_unwinding>>
aVars ==
  <<a_word, a_fds, a_stage, a_buffer, a_cmsg_len, a_controllen, a_count>>

\* Sizes are small numbers: inline, the kernel takes a message of length 1 with one region
\* and no other; the first buffer of select() holds a message out of line with one region,
\* and no other.
M == INSTANCE MacChannel WITH
  Senders <- Handles, First <- FirstHandle, MaxSends <- 2, Lens <- {1, 5},
  RegionCounts <- {1, 2}, Unlimited <- 100, MessageSize <- 4, OolSize <- 4, WordSize <- 8,
  KernelLimit <- 20, SmallSize <- 16, QLimit <- 2, Modes <- {"Timeout"},
  max_inline <- m_max_inline, port <- m_port, pc <- m_pc, cur <- m_cur, n <- m_n,
  acked <- m_acked, urefs <- m_urefs, queue <- m_queue, armed <- m_armed, rx <- m_rx,
  mode <- m_mode, received <- m_received, closed <- m_closed

I == INSTANCE InProcess WITH
  Threads <- Senders, MaxMessages <- 2, queue <- i_queue, senders <- i_senders,
  receiver <- i_receiver, incrementor <- i_incrementor, receiver_ids <- i_receiver_ids,
  receivers <- i_receivers, sent <- i_sent, got <- i_got, ids <- i_ids, closes <- i_closes

S == INSTANCE Serialization WITH
  Txs <- {FirstHandle}, Rxs <- Chans, Regions <- Handles \ {FirstHandle}, MaxDepth <- 2,
  MaxItems <- 2, MaxMessages <- 1, IgnoresErrors <- FALSE, serChannels <- s_serChannels,
  serRegions <- s_serRegions, deChannels <- s_deChannels, deRegions <- s_deRegions,
  stack <- s_stack, wire <- s_wire, mine <- s_mine, unwinding <- s_unwinding

A == INSTANCE AncillaryData WITH
  Words <- {4, 8}, MaxFds <- 130, MAX_FDS_IN_CMSG <- 64, word <- a_word, fds <- a_fds,
  stage <- a_stage, buffer <- a_buffer, cmsg_len <- a_cmsg_len, controllen <- a_controllen,
  count <- a_count

ASSUME Instances ==
  M!MacAssumption /\ I!InProcessAssumption /\ S!Disjoint /\ A!AncillaryAssumption

\* The first state of AncillaryData is one of many, chosen only when it runs.
MCInit ==
  /\ part \in {"windows", "macos", "inprocess", "serialization", "ancillary"}
  /\ Init /\ M!Init /\ I!Init /\ S!Init /\ A!Init
  /\ part # "ancillary" => a_word = 8 /\ a_fds = 0

MCNext ==
  \/ part = "windows" /\ Next /\ UNCHANGED <<part, mVars, iVars, sVars, aVars>>
  \/ part = "macos" /\ M!Next /\ UNCHANGED <<part, vars, iVars, sVars, aVars>>
  \/ part = "inprocess" /\ I!Next /\ UNCHANGED <<part, vars, mVars, sVars, aVars>>
  \/ part = "serialization" /\ S!Next /\ UNCHANGED <<part, vars, mVars, iVars, aVars>>
  \/ part = "ancillary" /\ A!Next /\ UNCHANGED <<part, vars, mVars, iVars, sVars>>

MCSpec == MCInit /\ [][MCNext]_<<part, vars, mVars, iVars, sVars, aVars>>

\* Senders are also the threads of the in-process back-end.
Symmetry == Permutations(Senders) \cup Permutations(Chans)

----------------------------------------------------------------------------
\* Properties that hold of several parts

\* A channel is a queue of whole messages, each returned once and in the order of its sender:
\* a port on macOS and, however its ends move, every channel inside one process (send, recv,
\* select of the two back-ends).  WindowsChannel's ImplementsIpcChannel says it of a pipe.
ChannelsImplementIpcChannel ==
  /\ M!Abstract!Init /\ \A c \in Chans : I!Abstract(c)!Init
  /\ [][part = "macos" => [M!Abstract!Next]_(M!Abstract!vars)]_mVars
  /\ [][part = "inprocess" => \A c \in Chans : [I!Abstract(c)!Next]_(I!Abstract(c)!vars)]_iVars

\* A channel ends exactly when its last sender is gone, in the process or in a message, and
\* its messages are returned.  On macOS the name of a port has one send right for each
\* handle (clone, drop, the end of send); in one process a receiver is in one place, and the
\* vectors of the set stay aligned while receivers are removed (consume, add, select).
ChannelsEndOnce ==
  /\ part = "macos" => M!TypeOK /\ M!RightsMatchHandles /\ M!ClosedAtEnd
  /\ part = "inprocess" => I!TypeOK /\ I!OneReceiver /\ I!IdsAligned /\ I!ClosedIsFinal

\* What a message carries arrives with it, once, whatever calls are nested or fail: the
\* written indices lead to the ends and regions of the value, to() reads those of its own
\* message and leaves its lists empty (IpcSender::send, OpaqueIpcMessage::to); data that
\* travels as a region is told from the message's regions, and a message is refused as too
\* large at most once, whatever other threads learn meanwhile (send, select on macOS); all
\* accesses to control messages are inside their buffers, and recv() finds exactly the
\* descriptors that were sent, up to MAX_FDS_IN_CMSG (send_first_fragment, recv on Unix).
ValuesArrive ==
  /\ part = "macos" => M!DataApart /\ M!RefusedOnce
  /\ part = "ancillary" => A!InBounds /\ A!CutAtLimit
  /\ part = "serialization" =>
       /\ S!TypeOK /\ S!HandlesArrive /\ S!DecodedAsSent /\ S!NoPanic /\ S!OneReceiver
       /\ S!DeserializationCleanedUp
==============================================================================
