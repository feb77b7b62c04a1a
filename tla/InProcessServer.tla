--------------------------- MODULE InProcessServer ---------------------------
(***************************************************************************)
(* One-shot servers of the in-process transport: new(), accept() and       *)
(* OsIpcSender::connect() in src/platform/inprocess/mod.rs.  They share a  *)
(* table of records, ONE_SHOT_SERVERS, behind a mutex.  A record has a     *)
(* sender of the server's channel and both ends of a second channel on     *)
(* which connect() tells accept() that a client is there.                  *)
(*                                                                         *)
(* The mutex is held within single statements only, so each is a step.  A  *)
(* panic while it is held poisons it, and then every use of it panics.     *)
(***************************************************************************)
EXTENDS Naturals, Sequences, FiniteSets

CONSTANTS
  Servers,     \* the servers, named
  Clients,     \* threads that connect to one server each
  MaxMessages  \* bound: messages sent by each client

ServerAssumption == MaxMessages \in Nat

VARIABLES
  table,       \* names that ONE_SHOT_SERVERS has a record for
  poisoned,    \* whether its mutex is
  conns,       \* number of connections announced to each server
  queue,       \* messages on each server's channel: <<client, number>>
  \* OsIpcOneShotServer:
  server,      \* "none", "ready", then in accept(): "waiting", "removing",
               \* "receiving"; finally "accepted", "dropped", "panicked"
  first,       \* the message that accept() returned
  \* OsIpcSender::connect():
  client,      \* "idle", "cloned" (the record), "connected", "closed", "panicked"
  target,      \* the server each client names
  sent         \* number of messages that each client sent

tableVars == <<table, poisoned>>
serverVars == <<server, first>>
clientVars == <<client, target, sent>>
vars == <<tableVars, conns, queue, serverVars, clientVars>>

Init ==
  /\ table = {}
  /\ poisoned = FALSE
  /\ conns = [s \in Servers |-> 0]
  /\ queue = [s \in Servers |-> <<>>]
  /\ server = [s \in Servers |-> "none"]
  /\ first = [s \in Servers |-> <<>>]
  /\ client = [c \in Clients |-> "idle"]
  /\ target \in [Clients -> Servers]
  /\ sent = [c \in Clients |-> 0]

Goto(s, state) == server' = [server EXCEPT ![s] = state]

\* The receiver of the server's channel exists.
Receiving(s) == server[s] \in {"ready", "waiting", "removing", "receiving", "accepted"}

\* Clones of the channel's sender that no client has: in the table, and in the
\* record that accept() has cloned.
HiddenSender(s) == s \in table \/ server[s] \in {"waiting", "removing", "receiving"}

-----------------------------------------------------------------------------
(* OsIpcOneShotServer *)

New(s) ==
  /\ server[s] = "none"
  /\ ~poisoned
  /\ table' = table \cup {s}
  /\ Goto(s, "ready")
  /\ UNCHANGED <<poisoned, conns, queue, first, clientVars>>

\* accept() clones its record and waits for a connection.
AcceptBegin(s) ==
  /\ server[s] = "ready"
  /\ ~poisoned
  /\ s \in table
  /\ Goto(s, "waiting")
  /\ UNCHANGED <<tableVars, conns, queue, first, clientVars>>

AcceptConnection(s) ==
  /\ server[s] = "waiting"
  /\ conns[s] > 0
  /\ conns' = [conns EXCEPT ![s] = @ - 1]
  /\ Goto(s, "removing")
  /\ UNCHANGED <<tableVars, queue, first, clientVars>>

\* Mutant: the table is cleared.
RemoveAllRecords(s) ==
  /\ server[s] = "removing"
  /\ ~poisoned
  /\ table' = {}
  /\ Goto(s, "receiving")
  /\ UNCHANGED <<poisoned, conns, queue, first, clientVars>>

RemoveRecord(s) ==
  /\ server[s] = "removing"
  /\ ~poisoned
  /\ s \in table
  /\ table' = table \ {s}
  /\ Goto(s, "receiving")
  /\ UNCHANGED <<poisoned, conns, queue, first, clientVars>>

\* recv() of the first message; then the cloned record is dropped.
AcceptReceives(s) ==
  /\ server[s] = "receiving"
  /\ queue[s] # <<>>
  /\ first' = [first EXCEPT ![s] = Head(queue[s])]
  /\ queue' = [queue EXCEPT ![s] = Tail(@)]
  /\ Goto(s, "accepted")
  /\ UNCHANGED <<tableVars, conns, clientVars>>

\* A poisoned mutex makes new() and accept() panic; the receiver is dropped.
ServerPanics(s) ==
  /\ poisoned
  /\ server[s] \in {"none", "ready", "removing"}
  /\ Goto(s, "panicked")
  /\ queue' = [queue EXCEPT ![s] = <<>>]
  /\ UNCHANGED <<tableVars, conns, first, clientVars>>

\* The server, or the receiver that accept() returned, is dropped.  The record of
\* a server that never accepted stays in the table.
DropServer(s) ==
  /\ server[s] \in {"ready", "accepted"}
  /\ Goto(s, "dropped")
  /\ queue' = [queue EXCEPT ![s] = <<>>]
  /\ UNCHANGED <<tableVars, conns, first, clientVars>>

\* The receiver that accept() returned gets another message.
ReceiveMore(s) ==
  /\ server[s] = "accepted"
  /\ queue[s] # <<>>
  /\ queue' = [queue EXCEPT ![s] = Tail(@)]
  /\ UNCHANGED <<tableVars, conns, serverVars, clientVars>>

-----------------------------------------------------------------------------
(* OsIpcSender::connect, send *)

\* A client knows a name only after new() returned it.
Knows(c) == client[c] = "idle" /\ server[target[c]] # "none"

Lookup(c) ==
  /\ Knows(c)
  /\ ~poisoned
  /\ target[c] \in table
  /\ client' = [client EXCEPT ![c] = "cloned"]
  /\ UNCHANGED <<tableVars, conns, queue, serverVars, target, sent>>

\* No record of that name: get().unwrap() panics while the mutex is held.
LookupPanics(c) ==
  /\ Knows(c)
  /\ poisoned \/ target[c] \notin table
  /\ poisoned' = TRUE
  /\ client' = [client EXCEPT ![c] = "panicked"]
  /\ UNCHANGED <<table, conns, queue, serverVars, target, sent>>

\* record.connect(); it cannot fail, as the record owns the receiver as well.
Announce(c) ==
  /\ client[c] = "cloned"
  /\ conns' = [conns EXCEPT ![target[c]] = @ + 1]
  /\ client' = [client EXCEPT ![c] = "connected"]
  /\ UNCHANGED <<tableVars, queue, serverVars, target, sent>>

Send(c) ==
  /\ client[c] = "connected"
  /\ sent[c] < MaxMessages
  /\ Receiving(target[c])
  /\ queue' = [queue EXCEPT ![target[c]] = Append(@, <<c, sent[c] + 1>>)]
  /\ sent' = [sent EXCEPT ![c] = @ + 1]
  /\ UNCHANGED <<tableVars, conns, serverVars, client, target>>

DropSender(c) ==
  /\ client[c] = "connected"
  /\ client' = [client EXCEPT ![c] = "closed"]
  /\ UNCHANGED <<tableVars, conns, queue, serverVars, target, sent>>

-----------------------------------------------------------------------------

AcceptStep(s) ==
  \/ AcceptConnection(s)
  \/ RemoveRecord(s)
  \/ AcceptReceives(s)
  \/ ServerPanics(s)

Next ==
  \/ \E s \in Servers :
       New(s) \/ AcceptBegin(s) \/ AcceptStep(s) \/ DropServer(s) \/ ReceiveMore(s)
  \/ \E c \in Clients :
       Lookup(c) \/ LookupPanics(c) \/ Announce(c) \/ Send(c) \/ DropSender(c)

Spec == Init /\ [][Next]_vars

\* Threads inside accept() and connect() keep running.
FairSpec ==
  /\ Spec
  /\ \A s \in Servers : WF_vars(AcceptStep(s))
  /\ \A c \in Clients : WF_vars(Announce(c))

-----------------------------------------------------------------------------
(* Properties *)

\* Every variable has its type.
TypeOK ==
  /\ table \subseteq Servers
  /\ poisoned \in BOOLEAN
  /\ conns \in [Servers -> Nat]
  /\ queue \in [Servers -> Seq(Clients \X Nat)]
  /\ server \in [Servers -> {"none", "ready", "waiting", "removing", "receiving", "accepted",
                             "dropped", "panicked"}]
  /\ first \in [Servers -> {<<>>} \cup (Clients \X Nat)]
  /\ client \in [Clients -> {"idle", "cloned", "connected", "closed", "panicked"}]
  /\ target \in [Clients -> Servers]
  /\ sent \in [Clients -> Nat]

\* The unwrap()s of accept() fail only after a client connected too late, to a
\* server that had already taken its record out; servers never take each other's.
PanicsOnlyIfLate ==
  /\ \A s \in Servers : server[s] \in {"ready", "waiting", "removing"} => s \in table
  /\ (poisoned \/ \E s \in Servers : server[s] = "panicked") =>
       \E c \in Clients : client[c] = "panicked" /\ target[c] \notin table

\* The senders left once accept() returns are the clients': none stays in the
\* table or in a clone of the record, so the receiver that accept() returned sees
\* the end of its channel when the clients are gone.
AcceptedChannelCloses == \A s \in Servers : server[s] = "accepted" => ~HiddenSender(s)

\* accept() returns the first message of a client that connected to this server.
AcceptsFirstMessage ==
  \A s \in Servers :
    server[s] = "accepted" => target[first[s][1]] = s /\ first[s][2] = 1

\* accept() returns once a client has sent, unless the mutex was poisoned.
AcceptReturns ==
  \A s \in Servers :
    (server[s] = "waiting" /\ queue[s] # <<>>) ~> server[s] \in {"accepted", "dropped", "panicked"}

\* README.md:23: "Servers only accept one client at a time."
OneClient ==
  \A s \in Servers :
    server[s] = "accepted" => Cardinality({c \in Clients : target[c] = s /\ client[c] = "connected"}) <= 1

=============================================================================
