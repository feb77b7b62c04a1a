----------------------------- MODULE MacServer ------------------------------
(***************************************************************************)
(* A one-shot server of the macOS back-end (OsIpcOneShotServer,             *)
(* register_bootstrap_name and OsIpcSender::connect in                      *)
(* platform/macos/mod.rs): a port whose send right is registered with the   *)
(* bootstrap server under a random name.  Everybody who looks the name up   *)
(* gets a send right to the one port; accept() takes the port's first       *)
(* message, and the name goes when accept() returns.                        *)
(*                                                                         *)
(* A name that was used is not drawn again.                                 *)
(***************************************************************************)
EXTENDS Naturals, Sequences

CONSTANTS
  Clients,
  MaxMessages    \* bound: messages sent by each client

MacServerAssumption == MaxMessages \in Nat

VARIABLES
  server,      \* "ready", "accepting", "received", "accepted", "dropping", "dropped"
  registered,  \* the bootstrap server knows the name
  queue,       \* messages of the port: <<client, number>>
  client,      \* of each client: "idle", "connected", "unknown", "closed"
  sent,        \* of each client: messages whose send() returned Ok
  sentAll,     \* these messages, in the order they were sent
  got          \* messages returned, by accept() and by its receiver

serverVars == <<server, registered, got>>
clientVars == <<client, sent, sentAll>>
vars == <<serverVars, clientVars, queue>>

\* new(): the port, and its registration.
Init ==
  /\ server = "ready" /\ registered = TRUE /\ queue = <<>> /\ got = <<>>
  /\ client = [c \in Clients |-> "idle"] /\ sent = [c \in Clients |-> 0] /\ sentAll = <<>>

----------------------------------------------------------------------------
\* OsIpcSender::connect: bootstrap_look_up
Connect(c) ==
  /\ client[c] = "idle"
  /\ client' = [client EXCEPT ![c] = IF registered THEN "connected" ELSE "unknown"]
  /\ UNCHANGED <<serverVars, sent, sentAll, queue>>

\* Without the port, MACH_SEND_INVALID_DEST.
Send(c) ==
  /\ client[c] = "connected" /\ sent[c] < MaxMessages /\ server # "dropped"
  /\ sent' = [sent EXCEPT ![c] = @ + 1]
  /\ sentAll' = Append(sentAll, <<c, sent[c] + 1>>)
  /\ queue' = Append(queue, <<c, sent[c] + 1>>)
  /\ UNCHANGED <<serverVars, client>>

Close(c) ==
  /\ client[c] = "connected"
  /\ client' = [client EXCEPT ![c] = "closed"]
  /\ UNCHANGED <<serverVars, sent, sentAll, queue>>

----------------------------------------------------------------------------
\* The call of accept(), and the drop of a server without one.
AcceptBegin ==
  /\ server = "ready" /\ server' = "accepting"
  /\ UNCHANGED <<registered, got, clientVars, queue>>

DropBegin ==
  /\ server = "ready" /\ server' = "dropping"
  /\ UNCHANGED <<registered, got, clientVars, queue>>

Take ==
  /\ queue # <<>>
  /\ got' = Append(got, Head(queue)) /\ queue' = Tail(queue)

\* self.receiver.recv() and consume()
AcceptRecv ==
  /\ server = "accepting" /\ Take /\ server' = "received"
  /\ UNCHANGED <<registered, clientVars>>

\* recv() fails: the server is dropped with its receiver.
AcceptFails ==
  /\ server = "accepting" /\ server' = "dropping"
  /\ UNCHANGED <<registered, got, clientVars, queue>>

\* Drop for OsIpcOneShotServer, whose receiver is null: unregister_global_name.
AcceptEnd ==
  /\ server = "received"
  /\ registered' = FALSE /\ server' = "accepted"
  /\ UNCHANGED <<got, clientVars, queue>>

\* The same with a receiver: the name goes first, then the port.
DropUnregister ==
  /\ server = "dropping" /\ registered
  /\ registered' = FALSE
  /\ UNCHANGED <<server, got, clientVars, queue>>

DropPort ==
  /\ server = "dropping" /\ ~registered
  /\ server' = "dropped" /\ queue' = <<>>
  /\ UNCHANGED <<registered, got, clientVars>>

\* The receiver that accept() returned.
Recv ==
  /\ server = "accepted" /\ Take
  /\ UNCHANGED <<server, registered, clientVars>>

----------------------------------------------------------------------------
ServerStep == AcceptRecv \/ AcceptEnd \/ DropUnregister \/ DropPort \/ Recv

Next ==
  \/ \E c \in Clients : Connect(c) \/ Send(c) \/ Close(c)
  \/ AcceptBegin \/ AcceptFails \/ DropBegin \/ ServerStep

Spec == Init /\ [][Next]_vars

----------------------------------------------------------------------------
\* Properties

\* Every variable has its type.
TypeOK ==
  /\ server \in {"ready", "accepting", "received", "accepted", "dropping", "dropped"}
  /\ registered \in BOOLEAN /\ queue \in Seq(Clients \X Nat) /\ got \in Seq(Clients \X Nat)
  /\ client \in [Clients -> {"idle", "connected", "unknown", "closed"}]
  /\ sent \in [Clients -> 0 .. MaxMessages] /\ sentAll \in Seq(Clients \X Nat)

\* Every message is returned or waiting, in the order of the sends, though the port
\* changes hands when accept() returns, until a server that was not accepted from, or
\* whose recv() failed, is dropped (consume in accept).
NothingLost == server # "dropped" => got \o queue = sentAll

\* The name is of use only until accept() has returned: a client that comes later is
\* told so (drop).
NameGone ==
  [][(server \in {"accepted", "dropped"}) =>
       \A c \in Clients : client'[c] = "connected" => client[c] = "connected"]_vars

\* A server has one client (README.md:23).
OneClient == \A i, j \in DOMAIN got : got[i][1] = got[j][1]
=============================================================================
