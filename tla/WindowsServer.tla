---------------------------- MODULE WindowsServer ----------------------------
(***************************************************************************)
(* A one-shot server of the Windows back-end (OsIpcOneShotServer,           *)
(* OsIpcReceiver::accept and OsIpcSender::connect in                        *)
(* platform/windows/mod.rs): a named pipe with a single instance.  A client *)
(* may connect, send and end before accept() is called, while it waits, or  *)
(* later; the pipe is never listening again.                                *)
(***************************************************************************)
EXTENDS Naturals, Sequences

CONSTANTS
  Clients,
  None,          \* not a client
  MaxMessages    \* bound: messages sent by each client

WindowsServerAssumption == None \notin Clients /\ MaxMessages \in Nat

VARIABLES
  server,   \* "ready"; in accept(): "pending", "receiving"; "accepted", "failed", "errored", "dropped"
  pipe,     \* "listening", "connected", "closing" (the client's end is closed)
  conn,     \* the client that connected
  client,   \* of each client: "idle", "connected", "busy", "closed"
  queue,    \* numbers of the messages in the pipe
  sent,     \* number of messages whose send() returned Ok
  got       \* messages returned, by accept() and by its receiver

vars == <<server, pipe, conn, client, queue, sent, got>>

\* new(): CreateNamedPipe
Init ==
  /\ server = "ready" /\ pipe = "listening" /\ conn = None
  /\ client = [c \in Clients |-> "idle"] /\ queue = <<>> /\ sent = 0 /\ got = <<>>

Exists == server \notin {"failed", "errored", "dropped"}

----------------------------------------------------------------------------
\* connect_named: CreateFile fails unless the instance is free.
Connect(c) ==
  /\ client[c] = "idle"
  /\ IF Exists /\ pipe = "listening"
     THEN /\ pipe' = "connected" /\ conn' = c
          /\ client' = [client EXCEPT ![c] = "connected"]
     ELSE /\ client' = [client EXCEPT ![c] = "busy"]
          /\ UNCHANGED <<pipe, conn>>
  /\ UNCHANGED <<server, queue, sent, got>>

Send(c) ==
  /\ client[c] = "connected" /\ Exists /\ sent < MaxMessages
  /\ sent' = sent + 1 /\ queue' = Append(queue, sent + 1)
  /\ UNCHANGED <<server, pipe, conn, client, got>>

Close(c) ==
  /\ client[c] = "connected"
  /\ client' = [client EXCEPT ![c] = "closed"] /\ pipe' = "closing"
  /\ UNCHANGED <<server, conn, queue, sent, got>>

----------------------------------------------------------------------------
\* accept(): ERROR_IO_PENDING, ERROR_PIPE_CONNECTED and ERROR_NO_DATA of
\* ConnectNamedPipe.
Accept ==
  /\ server = "ready"
  /\ server' = IF pipe = "listening" THEN "pending" ELSE "receiving"
  /\ UNCHANGED <<pipe, conn, client, queue, sent, got>>

\* GetOverlappedResult
AcceptConnected ==
  /\ server = "pending" /\ pipe # "listening"
  /\ server' = "receiving"
  /\ UNCHANGED <<pipe, conn, client, queue, sent, got>>

\* receiver.recv(): the first message, or ChannelClosed.
AcceptRecv ==
  /\ server = "receiving" /\ queue # <<>>
  /\ got' = Append(got, Head(queue)) /\ queue' = Tail(queue)
  /\ server' = "accepted"
  /\ UNCHANGED <<pipe, conn, client, sent>>

AcceptEnd ==
  /\ server = "receiving" /\ queue = <<>> /\ pipe = "closing"
  /\ server' = "failed"
  /\ UNCHANGED <<pipe, conn, client, queue, sent, got>>

\* ConnectNamedPipe, GetOverlappedResult or recv() fails: the pipe goes with the server,
\* whether accept() returns the error or panics over the OVERLAPPED that it still has.
AcceptFails ==
  /\ server \in {"ready", "pending", "receiving"}
  /\ server' = "errored" /\ queue' = <<>>
  /\ UNCHANGED <<pipe, conn, client, sent, got>>

DropServer ==
  /\ server = "ready"
  /\ server' = "dropped" /\ queue' = <<>>
  /\ UNCHANGED <<pipe, conn, client, sent, got>>

\* The receiver that accept() returned.
Recv ==
  /\ server = "accepted" /\ queue # <<>>
  /\ got' = Append(got, Head(queue)) /\ queue' = Tail(queue)
  /\ UNCHANGED <<server, pipe, conn, client, sent>>

----------------------------------------------------------------------------
ServerStep == AcceptConnected \/ AcceptRecv \/ AcceptEnd \/ Recv

Next ==
  \/ \E c \in Clients : Connect(c) \/ Send(c) \/ Close(c)
  \/ Accept \/ ServerStep \/ AcceptFails \/ DropServer

Spec == Init /\ [][Next]_vars

\* accept() is called (or the server is dropped), and its calls return when they can.
FairSpec == Spec /\ WF_vars(Accept) /\ WF_vars(ServerStep)

----------------------------------------------------------------------------
\* Properties

\* Every variable has its type; one client at most is connected.
TypeOK ==
  /\ server \in {"ready", "pending", "receiving", "accepted", "failed", "errored", "dropped"}
  /\ pipe \in {"listening", "connected", "closing"} /\ conn \in Clients \cup {None}
  /\ client \in [Clients -> {"idle", "connected", "busy", "closed"}]
  /\ queue \in Seq(Nat) /\ sent \in 0 .. MaxMessages /\ got \in Seq(Nat)
  /\ \A c \in Clients : client[c] \in {"connected", "closed"} => c = conn

\* The client's messages are returned or waiting, none lost and none twice, whether
\* they were sent before, during or after accept(), unless a call of accept() fails or
\* the server is dropped (accept, recv).
AcceptedStream ==
  server \notin {"dropped", "errored"} =>
    /\ \A i \in DOMAIN got : got[i] = i
    /\ Len(got) + Len(queue) = sent
    /\ \A i \in DOMAIN queue : queue[i] = Len(got) + i

\* A client that connects, sends and ends before accept() is called is served (the
\* comment on ERROR_NO_DATA in accept), unless a call of accept() fails; sends are bounded.
Delivered == []<>(Len(got) = sent \/ server \in {"dropped", "errored"})
=============================================================================
