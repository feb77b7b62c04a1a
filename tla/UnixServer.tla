----------------------------- MODULE UnixServer -----------------------------
(***************************************************************************)
(* A one-shot server of the Unix back-end (OsIpcOneShotServer and           *)
(* OsIpcSender::connect in platform/unix/mod.rs): a listening socket in a   *)
(* temporary directory.  Clients connect, and may send, before accept() has *)
(* been called; the kernel keeps their connections in a backlog.  accept()  *)
(* takes the oldest one and its first message, and the server is gone:      *)
(* first its socket, then the directory with the socket's name.             *)
(***************************************************************************)
EXTENDS Naturals, Sequences

CONSTANTS
  Clients,
  None,          \* not a client
  Backlog,       \* the argument of listen(): one connection more is kept
  MaxMessages,   \* bound: messages sent by each client
  Interrupts     \* the system calls of accept() may fail

UnixServerAssumption ==
  /\ None \notin Clients /\ Backlog \in Nat /\ MaxMessages \in Nat /\ Interrupts \in BOOLEAN

VARIABLES
  server,     \* "ready", "accepting", "receiving", "closing", "removing", "done"
  result,     \* of accept(): "none", "ok", "err", and "leaked" or "failed" for an error after accept(2)
  listening,  \* the server's socket is open
  path,       \* the socket has its name in the file system
  backlog,    \* clients whose connection was not accepted
  conn,       \* the client that was
  client,     \* of each client: "idle", "connecting", "connected", "refused", "closed"
  queue,      \* of each client's connection: numbers of the messages in it
  sent,       \* of each client: messages whose send() returned Ok
  got         \* messages returned, by accept() and by its receiver: <<client, number>>

serverVars == <<server, result, listening, path, backlog, conn, got>>
clientVars == <<client, sent>>
vars == <<serverVars, clientVars, queue>>

\* new(): socket, directory, bind, listen
Init ==
  /\ server = "ready" /\ result = "none" /\ listening = TRUE /\ path = TRUE
  /\ backlog = <<>> /\ conn = None
  /\ client = [c \in Clients |-> "idle"] /\ queue = [c \in Clients |-> <<>>]
  /\ sent = [c \in Clients |-> 0] /\ got = <<>>

----------------------------------------------------------------------------
\* Clients

\* connect(2) finds the socket under its name, or fails with ENOENT.
ConnectBegin(c) ==
  /\ client[c] = "idle"
  /\ client' = [client EXCEPT ![c] = IF path THEN "connecting" ELSE "refused"]
  /\ UNCHANGED <<serverVars, sent, queue>>

\* It waits while the backlog is full.
Connect(c) ==
  /\ client[c] = "connecting" /\ listening /\ Len(backlog) <= Backlog
  /\ client' = [client EXCEPT ![c] = "connected"]
  /\ backlog' = Append(backlog, c)
  /\ UNCHANGED <<server, result, listening, path, conn, got, sent, queue>>

\* ECONNREFUSED
ConnectRefused(c) ==
  /\ client[c] = "connecting" /\ ~listening
  /\ client' = [client EXCEPT ![c] = "refused"]
  /\ UNCHANGED <<serverVars, sent, queue>>

Pending(c) == \E i \in DOMAIN backlog : backlog[i] = c

\* The other end of c's connection exists.
Attached(c) == Pending(c) \/ (c = conn /\ result \notin {"err", "failed"})

Send(c) ==
  /\ client[c] = "connected" /\ Attached(c) /\ sent[c] < MaxMessages
  /\ sent' = [sent EXCEPT ![c] = @ + 1]
  /\ queue' = [queue EXCEPT ![c] = Append(@, sent[c] + 1)]
  /\ UNCHANGED <<serverVars, client>>

Close(c) ==
  /\ client[c] = "connected"
  /\ client' = [client EXCEPT ![c] = "closed"]
  /\ UNCHANGED <<serverVars, sent, queue>>

----------------------------------------------------------------------------
\* The server

Goto(state) == server' = state

\* The call of accept(), or the drop of a server without one.
AcceptBegin ==
  /\ server = "ready" /\ Goto("accepting")
  /\ UNCHANGED <<result, listening, path, backlog, conn, got, clientVars, queue>>

DropServer ==
  /\ server = "ready" /\ Goto("closing")
  /\ UNCHANGED <<result, listening, path, backlog, conn, got, clientVars, queue>>

\* accept(2)
Accept ==
  /\ server = "accepting" /\ backlog # <<>>
  /\ conn' = Head(backlog)
  /\ backlog' = Tail(backlog)
  /\ Goto("receiving")
  /\ UNCHANGED <<result, listening, path, got, clientVars, queue>>

AcceptFails ==
  /\ Interrupts /\ server = "accepting"
  /\ result' = "err" /\ Goto("closing")
  /\ UNCHANGED <<listening, path, backlog, conn, got, clientVars, queue>>

\* make_socket_lingering fails: nobody owns the descriptor of the connection, which stays
\* open.
AcceptLeaks ==
  /\ Interrupts /\ server = "accepting" /\ backlog # <<>>
  /\ conn' = Head(backlog)
  /\ backlog' = Tail(backlog)
  /\ result' = "leaked" /\ Goto("closing")
  /\ UNCHANGED <<listening, path, got, clientVars, queue>>

Take(c) ==
  /\ queue[c] # <<>>
  /\ got' = Append(got, <<c, Head(queue[c])>>)
  /\ queue' = [queue EXCEPT ![c] = Tail(@)]

\* receiver.recv(): the first message, or the end of a client that sent none.
AcceptRecv ==
  /\ server = "receiving" /\ Take(conn)
  /\ result' = "ok" /\ Goto("closing")
  /\ UNCHANGED <<listening, path, backlog, conn, clientVars>>

\* It fails: the receiver is dropped with what it holds.
AcceptRecvFails ==
  /\ Interrupts /\ server = "receiving"
  /\ queue' = [queue EXCEPT ![conn] = <<>>]
  /\ result' = "failed" /\ Goto("closing")
  /\ UNCHANGED <<listening, path, backlog, conn, got, clientVars>>

AcceptEnd ==
  /\ server = "receiving" /\ queue[conn] = <<>> /\ client[conn] = "closed"
  /\ result' = "err" /\ Goto("closing")
  /\ UNCHANGED <<listening, path, backlog, conn, got, clientVars, queue>>

\* Mutant: the socket stays open.
CloseSocketNot ==
  /\ server = "closing"
  /\ Goto("removing")
  /\ UNCHANGED <<result, listening, path, backlog, conn, got, clientVars, queue>>

\* Drop for OsIpcOneShotServer: connections in the backlog are reset, with what
\* was sent on them.
CloseSocket ==
  /\ server = "closing"
  /\ listening' = FALSE /\ backlog' = <<>>
  /\ queue' = [c \in Clients |-> IF Pending(c) THEN <<>> ELSE queue[c]]
  /\ Goto("removing")
  /\ UNCHANGED <<result, path, conn, got, clientVars>>

\* Drop for TempDir
RemoveDir ==
  /\ server = "removing"
  /\ path' = FALSE /\ Goto("done")
  /\ UNCHANGED <<result, listening, backlog, conn, got, clientVars, queue>>

\* The receiver that accept() returned.
Recv ==
  /\ server = "done" /\ result = "ok" /\ Take(conn)
  /\ UNCHANGED <<server, result, listening, path, backlog, conn, clientVars>>

----------------------------------------------------------------------------
AcceptStep == Accept \/ AcceptRecv \/ AcceptEnd \/ CloseSocket \/ RemoveDir

Next ==
  \/ \E c \in Clients : ConnectBegin(c) \/ Connect(c) \/ ConnectRefused(c) \/ Send(c) \/ Close(c)
  \/ AcceptBegin \/ DropServer \/ AcceptStep \/ Recv
  \/ AcceptFails \/ AcceptLeaks \/ AcceptRecvFails

Spec == Init /\ [][Next]_vars

\* The server is accepted or dropped, calls return when they can, and a client that
\* is connected sends or ends.
FairSpec ==
  /\ Spec
  /\ WF_vars(AcceptBegin) /\ WF_vars(AcceptStep) /\ WF_vars(Recv)
  /\ \A c \in Clients : /\ WF_vars(ConnectBegin(c) \/ Connect(c) \/ ConnectRefused(c))
                          /\ WF_vars(Send(c) \/ Close(c))

----------------------------------------------------------------------------
\* Properties

\* Every variable has its type.
TypeOK ==
  /\ server \in {"ready", "accepting", "receiving", "closing", "removing", "done"}
  /\ result \in {"none", "ok", "err", "leaked", "failed"} /\ listening \in BOOLEAN /\ path \in BOOLEAN
  /\ backlog \in Seq(Clients) /\ Len(backlog) <= Backlog + 1 /\ conn \in Clients \cup {None}
  /\ client \in [Clients -> {"idle", "connecting", "connected", "refused", "closed"}]
  /\ queue \in [Clients -> Seq(Nat)] /\ sent \in [Clients -> 0 .. MaxMessages]
  /\ got \in Seq(Clients \X Nat)

\* The messages of the accepted client are returned or waiting, none lost and none
\* twice, though they were sent before, during and after accept(), unless its recv()
\* fails; and no message of another client is ever returned (accept, drop).
AcceptedStream ==
  /\ \A i \in DOMAIN got : got[i] = <<conn, i>>
  /\ conn # None /\ result # "failed" =>
       /\ Len(got) + Len(queue[conn]) = sent[conn]
       /\ \A i \in DOMAIN queue[conn] : queue[conn][i] = Len(got) + i

\* No connect() hangs for ever: with a full backlog it is refused when the server goes.
ConnectReturns == []<>(\A c \in Clients : client[c] \notin {"idle", "connecting"})

\* What the accepted client sent is received, in the end, unless a system call of accept()
\* fails after accept(2): such a failure alone loses a message; sends are bounded (accept,
\* recv).
Delivered ==
  []<>(conn # None => Len(got) = sent[conn] \/ result \in {"leaked", "failed"})
=============================================================================
