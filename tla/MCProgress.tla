----------------------------- MODULE MCProgress ------------------------------
(***************************************************************************)
(* What must happen in the end in the receiver sets, and between the        *)
(* clients of a one-shot server and its accept().  The servers are small,   *)
(* so that their invariants are checked here as well.  Each is a program of *)
(* its own: `part` is chosen at the beginning, and the others stay as they  *)
(* are.                                                                     *)
(***************************************************************************)
EXTENDS MCReceiverSets

CONSTANTS Clients, Servers, None

VARIABLES
  \* UnixServer:
  us_server, us_result, us_listening, us_path, us_backlog, us_conn, us_client, us_queue,
  us_sent, us_got,
  \* WindowsServer:
  ws_server, ws_pipe, ws_conn, ws_client, ws_queue, ws_sent, ws_got,
  \* MacServer:
  ms_server, ms_registered, ms_queue, ms_client, ms_sent, ms_sentAll, ms_got,
  \* InProcessServer:
  is_table, is_poisoned, is_conns, is_queue, is_server, is_first, is_client, is_target,
  is_sent

usVars ==
  <<us_server, us_result, us_listening, us_path, us_backlog, us_conn, us_client, us_queue,
    us_sent, us_got>>
wsVars ==
  <<ws_server, ws_pipe, ws_conn, ws_client, ws_queue, ws_sent, ws_got>>
msVars ==
  <<ms_server, ms_registered, ms_queue, ms_client, ms_sent, ms_sentAll, ms_got>>
isVars ==
  <<is_table, is_poisoned, is_conns, is_queue, is_server, is_first, is_client, is_target,
    is_sent>>

\* A backlog of one connection; accept(2) may be interrupted.
UnixOneShot == INSTANCE UnixServer WITH
  Backlog <- 0, MaxMessages <- 2, Interrupts <- TRUE, server <- us_server,
  result <- us_result, listening <- us_listening, path <- us_path, backlog <- us_backlog,
  conn <- us_conn, client <- us_client, queue <- us_queue, sent <- us_sent, got <- us_got

WindowsOneShot == INSTANCE WindowsServer WITH
  MaxMessages <- 2, server <- ws_server, pipe <- ws_pipe, conn <- ws_conn,
  client <- ws_client, queue <- ws_queue, sent <- ws_sent, got <- ws_got

MacOneShot == INSTANCE MacServer WITH
  MaxMessages <- 1, server <- ms_server, registered <- ms_registered, queue <- ms_queue,
  client <- ms_client, sent <- ms_sent, sentAll <- ms_sentAll, got <- ms_got

\* Two clients, named here after the channels.
InProcessOneShot == INSTANCE InProcessServer WITH
  Clients <- Channels, MaxMessages <- 2, table <- is_table, poisoned <- is_poisoned,
  conns <- is_conns, queue <- is_queue, server <- is_server, first <- is_first,
  client <- is_client, target <- is_target, sent <- is_sent

ASSUME ServerInstances ==
  /\ UnixOneShot!UnixServerAssumption /\ WindowsOneShot!WindowsServerAssumption
  /\ MacOneShot!MacServerAssumption /\ InProcessOneShot!ServerAssumption
  /\ Ports = Fds

\* The in-process server has several first states, and begins in one of them when it
\* does not run.
ProgressInit ==
  /\ part \in {"unix", "windows fresh", "macos", "unix server", "windows server",
               "macos server", "in-process server"}
  /\ Init /\ Windows({}, FALSE)!Init /\ M!Init
  /\ UnixOneShot!Init /\ WindowsOneShot!Init /\ MacOneShot!Init /\ InProcessOneShot!Init
  /\ part # "in-process server" => \A c \in Channels : is_target[c] = CHOOSE s \in Servers : TRUE

ProgressNext ==
  \/ part = "unix" /\ Next /\ UNCHANGED <<part, wVars, mVars, usVars, wsVars, msVars, isVars>>
  \/ part = "windows fresh" /\ Windows({}, FALSE)!Next
     /\ UNCHANGED <<part, vars, mVars, usVars, wsVars, msVars, isVars>>
  \/ part = "macos" /\ M!Next /\ UNCHANGED <<part, vars, wVars, usVars, wsVars, msVars, isVars>>
  \/ part = "unix server" /\ UnixOneShot!Next
     /\ UNCHANGED <<part, vars, wVars, mVars, wsVars, msVars, isVars>>
  \/ part = "windows server" /\ WindowsOneShot!Next
     /\ UNCHANGED <<part, vars, wVars, mVars, usVars, msVars, isVars>>
  \/ part = "macos server" /\ MacOneShot!Next
     /\ UNCHANGED <<part, vars, wVars, mVars, usVars, wsVars, isVars>>
  \/ part = "in-process server" /\ InProcessOneShot!Next
     /\ UNCHANGED <<part, vars, wVars, mVars, usVars, wsVars, msVars>>

\* The fairness of each module, of the one that runs.  The conditions of strong fairness of
\* the sets are stated as one, since only one of them runs: Ports is Fds here.
SetsFair ==
  /\ \A f \in Fds :
       /\ SF_<<vars, wVars, mVars>>(
            \/ /\ part = "unix" /\ UNCHANGED <<wVars, mVars>>
               /\ \E S \in SUBSET registered : f \in S /\ Poll(S)
            \/ part = "windows fresh" /\ Windows({}, FALSE)!SelectStep /\ UNCHANGED <<vars, mVars>>
            \/ part = "macos" /\ M!TooLarge(f) /\ UNCHANGED <<vars, wVars>>)
       /\ SF_<<vars, wVars, mVars>>(
            \/ part = "unix" /\ Recv(f) /\ UNCHANGED <<wVars, mVars>>
            \/ part = "macos" /\ M!Receive(f) /\ UNCHANGED <<vars, wVars>>)
  /\ WF_vars(part = "unix" /\ SelectStep)
  /\ \A c \in Channels, s \in Senders : WF_vars(part = "unix" /\ SendFollowup(c, s))
  /\ \A c \in Channels : WF_wVars(part = "windows fresh" /\ Windows({}, FALSE)!KernelStep(c))
  /\ WF_wVars(part = "windows fresh" /\ Windows({}, FALSE)!SelectBegin)
  /\ WF_mVars(part = "macos" /\ M!Select)

ServersFair ==
  /\ WF_usVars(part = "unix server" /\ UnixOneShot!AcceptBegin)
  /\ WF_usVars(part = "unix server" /\ UnixOneShot!AcceptStep)
  /\ WF_usVars(part = "unix server" /\ UnixOneShot!Recv)
  /\ \A c \in Clients :
       /\ WF_usVars(part = "unix server" /\ (\/ UnixOneShot!ConnectBegin(c) \/ UnixOneShot!Connect(c)
                                             \/ UnixOneShot!ConnectRefused(c)))
       /\ WF_usVars(part = "unix server" /\ (UnixOneShot!Send(c) \/ UnixOneShot!Close(c)))
  /\ WF_wsVars(part = "windows server" /\ WindowsOneShot!Accept)
  /\ WF_wsVars(part = "windows server" /\ WindowsOneShot!ServerStep)
  /\ \A s \in Servers : WF_isVars(part = "in-process server" /\ InProcessOneShot!AcceptStep(s))
  /\ \A c \in Channels : WF_isVars(part = "in-process server" /\ InProcessOneShot!Announce(c))

ProgressSpec ==
  /\ ProgressInit
  /\ [][ProgressNext]_<<part, vars, wVars, mVars, usVars, wsVars, msVars, isVars>>
  /\ SetsFair /\ ServersFair

----------------------------------------------------------------------------
\* Properties

\* select() reports every message sent to a receiver in the set, and the end of its channel,
\* unless the set goes away, though every system call may meet another message than the last
\* one and may fail; on Windows a failure may drop the one reader it is about (select of the
\* three sets).
SetsReport ==
  /\ MessagesReported /\ EndReported
  /\ Windows({}, FALSE)!AllReported /\ M!AllReported

\* The messages of the accepted client are returned or waiting, none lost and none twice,
\* whether they were sent before, during or after accept(), unless a system call of accept()
\* fails, and none of another client's.  In one process accept() returns the first one, its
\* unwrap()s fail only after a client came too late, and it leaves no sender behind (accept and drop of the four servers).
ServersKeepStreams ==
  /\ part = "unix server" => UnixOneShot!TypeOK /\ UnixOneShot!AcceptedStream
  /\ part = "windows server" => WindowsOneShot!TypeOK /\ WindowsOneShot!AcceptedStream
  /\ part = "macos server" => MacOneShot!TypeOK /\ MacOneShot!NothingLost
  /\ part = "in-process server" =>
       /\ InProcessOneShot!TypeOK /\ InProcessOneShot!PanicsOnlyIfLate
       /\ InProcessOneShot!AcceptedChannelCloses /\ InProcessOneShot!AcceptsFirstMessage

\* Clients of a server are served or told: no connect() hangs, what the accepted client sent
\* is received though it may have ended before accept() was called, unless a system call of
\* accept() fails, in one process accept() returns once a client has sent, and on macOS the
\* name is of use until then only (connect, accept).
ClientsServed ==
  /\ part = "unix server" => UnixOneShot!ConnectReturns
  /\ UnixOneShot!Delivered /\ WindowsOneShot!Delivered /\ InProcessOneShot!AcceptReturns
  /\ MacOneShot!NameGone
==============================================================================
