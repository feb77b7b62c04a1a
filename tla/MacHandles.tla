----------------------------- MODULE MacHandles -----------------------------
(***************************************************************************)
(* The port rights behind senders and receivers on macOS (OsIpcReceiver,   *)
(* OsIpcSender, OsIpcChannel and OsOpaqueIpcChannel in                     *)
(* platform/macos/mod.rs).  A task knows a port by one name, under which   *)
(* the kernel keeps its receive right and counts its send rights; every    *)
(* sender value is one of that count.  A message moves rights from one     *)
(* task to another.                                                        *)
(*                                                                         *)
(* Names are used again when the last right under them is gone.  Threads   *)
(* of several tasks make, clone, send and drop values; a task may end at   *)
(* any time.  When a receive right is gone the send rights of its port are *)
(* dead names, which are still counted.  The contents of messages are in   *)
(* MacChannel.                                                             *)
(*                                                                         *)
(* A send right that dies in a message arrives as MACH_PORT_DEAD, which is *)
(* no name of a table.  What the kernel answers to calls on it cannot be   *)
(* read from this code: values that have it take no further part.          *)
(***************************************************************************)
EXTENDS Naturals, Sequences, FiniteSets

CONSTANTS
  Tasks,
  Ports,
  Values,      \* names of senders, receivers and opaque channels, in all tasks
  Names,       \* bound: names of a task
  MaxQueue,    \* bound: messages of a port
  MaxLost,     \* bound: send rights under a name that nobody releases
  Null, Dead,  \* MACH_PORT_NULL, MACH_PORT_DEAD
  None

MacHandlesAssumption ==
  /\ MaxQueue \in Nat /\ MaxLost \in Nat \ {0}
  /\ Null # Dead /\ {Null, Dead} \cap Names = {} /\ None \notin Tasks \cup Ports

VARIABLES
  value,     \* senders, receivers and opaque channels
  alive,     \* the tasks that run
  table,     \* of each task and name: the port and its rights
  queue,     \* of each port: the rights that its messages carry, oldest first
  lost       \* of each task and name: rights that nothing will release

vars == <<value, alive, table, queue, lost>>

NoEntry == [port |-> None, recv |-> FALSE, send |-> 0]

NoRights == [recv |-> FALSE, send |-> 0]

\* use: "held" by the program, or "listed" as an OsIpcChannel of a message to be sent.
\* port and right are history: what the value was made for.
NoValue ==
  [kind |-> "none", task |-> None, name |-> Null, use |-> "held", port |-> None, right |-> "none"]

Value(kind, t, nm, p, right) ==
  [kind |-> kind, task |-> t, name |-> nm, use |-> "held", port |-> p, right |-> right]

\* Some task is the client of another one's one-shot server.  The send right that was
\* registered under the server's name stays in the server's task.
Init ==
  /\ alive = Tasks /\ queue = [p \in Ports |-> <<>>]
  /\ \E t, u \in Tasks, p \in Ports, nm \in Names, v, w \in Values :
       /\ t # u /\ v # w
       /\ table = [[x \in Tasks |-> [m \in Names |-> NoEntry]]
                    EXCEPT ![t][nm] = [port |-> p, recv |-> TRUE, send |-> 1],
                           ![u][nm] = [port |-> p, recv |-> FALSE, send |-> 1]]
       /\ lost = [[x \in Tasks |-> [m \in Names |-> NoRights]] EXCEPT ![t][nm].send = 1]
       /\ value = [[x \in Values |-> NoValue] EXCEPT
                     ![v] = Value("receiver", t, nm, p, "recv"),
                     ![w] = Value("sender", u, nm, p, "send")]

----------------------------------------------------------------------------
\* The kernel

FreeNames(t) == {nm \in Names : table[t][nm] = NoEntry}

\* With these tables and queues a port lives: a task has its receive right, or a message
\* of a port that lives has it.
LivesIn(tables, queues, p) ==
  \A kept \in SUBSET Ports :
    (/\ \A t \in Tasks, nm \in Names : tables[t][nm].recv => tables[t][nm].port \in kept
     /\ \A d \in kept : \A i \in DOMAIN queues[d] :
          queues[d][i].right = "recv" => queues[d][i].port \in kept)
    => p \in kept

Live(p) == LivesIn(table, queue, p)

\* The messages of ports that do not live are destroyed, and the rights in them.
Kept(tables, queues) == [p \in Ports |-> IF LivesIn(tables, queues, p) THEN queues[p] ELSE <<>>]

\* Nothing refers to the port any more, not even a dead name.
Gone(p) ==
  /\ ~Live(p)
  /\ \A t \in Tasks, nm \in Names : table[t][nm].port # p
  /\ \A d \in Ports : \A i \in DOMAIN queue[d] : queue[d][i].port # p

\* The entry without one right; a name without rights is free.
Without(e, right) ==
  LET rest == IF right = "recv" THEN [e EXCEPT !.recv = FALSE] ELSE [e EXCEPT !.send = @ - 1]
  IN  IF ~rest.recv /\ rest.send = 0 THEN NoEntry ELSE rest

With(e, p, right) ==
  IF right = "recv" THEN [e EXCEPT !.port = p, !.recv = TRUE] ELSE [e EXCEPT !.port = p, !.send = @ + 1]

\* The names under which task t may get a right to port p: the one it has, or any.
NamesFor(t, p) ==
  LET has == {nm \in Names : table[t][nm].port = p} IN IF has # {} THEN has ELSE FreeNames(t)

----------------------------------------------------------------------------
\* Senders and receivers

Unused(v) == value[v].kind = "none"

EntryOf(v) == table[value[v].task][value[v].name]

\* channel(): allocate a receive right, extract a send right under the same name.
Channel(t, p, v, w) ==
  /\ t \in alive /\ v # w /\ Unused(v) /\ Unused(w) /\ Gone(p)
  /\ \E nm \in FreeNames(t) :
       /\ table' = [table EXCEPT ![t][nm] = [port |-> p, recv |-> TRUE, send |-> 1]]
       /\ value' = [value EXCEPT ![v] = Value("sender", t, nm, p, "send"),
                                 ![w] = Value("receiver", t, nm, p, "recv")]
  /\ UNCHANGED <<alive, queue, lost>>

\* Mutant: the result of adding a reference to a dead name is ignored.
CloneUnchecked(v, w) ==
  /\ value[v].kind = "sender" /\ value[v].use = "held" /\ value[v].name # Dead /\ Unused(w)
  /\ \E use \in {"held", "listed"} : value' = [value EXCEPT ![w] = [value[v] EXCEPT !.use = use]]
  /\ table' = IF value[v].name # Null /\ Live(EntryOf(v).port)
              THEN [table EXCEPT ![value[v].task][value[v].name].send = @ + 1] ELSE table
  /\ UNCHANGED <<alive, queue, lost>>

\* OsIpcSender::clone: one more send right.  A dead name has none to add to, and the
\* clone is null.
Clone(v, w) ==
  /\ value[v].kind = "sender" /\ value[v].use = "held" /\ value[v].name # Dead /\ Unused(w)
  /\ LET good == value[v].name # Null /\ Live(EntryOf(v).port)
     IN  /\ \E use \in {"held", "listed"} :
              value' = [value EXCEPT ![w] =
                          IF good THEN [value[v] EXCEPT !.use = use]
                                  ELSE [value[v] EXCEPT !.use = use, !.name = Null, !.port = None]]
         /\ table' = IF good THEN [table EXCEPT ![value[v].task][value[v].name].send = @ + 1]
                             ELSE table
  /\ UNCHANGED <<alive, queue, lost>>

Usable(v) == value[v].kind = "receiver" /\ value[v].name # Null /\ value[v].use = "held"

\* OsIpcReceiver::consume: the name moves to a new value.
Consume(v, w) ==
  /\ Usable(v) /\ Unused(w)
  /\ \E use \in {"held", "listed"} :
       value' = [value EXCEPT ![w] = [value[v] EXCEPT !.use = use], ![v].name = Null, ![v].port = None]
  /\ UNCHANGED <<alive, table, queue, lost>>

----------------------------------------------------------------------------
\* Drops

Forget(v) == value' = [value EXCEPT ![v] = NoValue]

Release(v, right) ==
  table' = [table EXCEPT ![value[v].task][value[v].name] = Without(@, right)]

\* Drop for OsIpcReceiver: unless null, the receive right is released.  With it goes the
\* port, and its send rights become dead names.
DropReceiver(v) ==
  /\ value[v].kind = "receiver" /\ Forget(v)
  /\ IF value[v].name = Null THEN UNCHANGED table ELSE Release(v, "recv")
  /\ queue' = Kept(table', queue)
  /\ UNCHANGED <<alive, lost>>

\* Drop for OsIpcSender: unless null, mach_port_deallocate, for a dead name as well.
DropSender(v) ==
  /\ value[v].kind = "sender" /\ value[v].name # Dead /\ Forget(v)
  /\ IF value[v].name = Null THEN UNCHANGED table ELSE Release(v, "send")
  /\ UNCHANGED <<alive, queue, lost>>

\* Drop for OsOpaqueIpcChannel, of one that was never decoded: nothing is released.
DropOpaque(v) ==
  /\ value[v].kind = "opaque" /\ value[v].name \in Names /\ Forget(v)
  /\ lost[value[v].task][value[v].name].send < MaxLost
  /\ lost' = [lost EXCEPT ![value[v].task][value[v].name] =
                IF value[v].right = "recv" THEN [@ EXCEPT !.recv = TRUE] ELSE [@ EXCEPT !.send = @ + 1]]
  /\ UNCHANGED <<alive, table, queue>>

\* OsOpaqueIpcChannel::to_sender and to_receiver, as the data of the message says; the
\* opaque channel is left without name.
ToSender(v) ==
  /\ value[v].kind = "opaque" /\ value[v].right = "send"
  /\ value' = [value EXCEPT ![v].kind = "sender"]
  /\ UNCHANGED <<alive, table, queue, lost>>

ToReceiver(v) ==
  /\ value[v].kind = "opaque" /\ value[v].right = "recv"
  /\ value' = [value EXCEPT ![v].kind = "receiver"]
  /\ UNCHANGED <<alive, table, queue, lost>>

----------------------------------------------------------------------------
\* Messages

CanSend(v, w) ==
  /\ value[v].kind = "sender" /\ value[v].use = "held" /\ value[v].name \in Names
  /\ value[w].use = "listed" /\ value[w].task = value[v].task
  /\ Live(EntryOf(v).port) /\ Len(queue[EntryOf(v).port]) < MaxQueue

\* What a port descriptor makes of a value: the right under its name, or nothing.
RightOf(w) ==
  [port |-> IF value[w].name = Null THEN None ELSE EntryOf(w).port,
   right |-> IF value[w].kind = "sender" THEN "send" ELSE "recv"]

\* OsIpcSender::send of a message with the channel w, when mach_msg succeeds: MOVE_SEND
\* or MOVE_RECEIVE takes the right out of the task, and the value is forgotten.  When it
\* fails, or serialization does, w is dropped by DropSender or DropReceiver.
Send(v, w) ==
  /\ CanSend(v, w)
  /\ IF value[w].name = Null THEN UNCHANGED table ELSE Release(w, RightOf(w).right)
  /\ queue' = Kept(table', [queue EXCEPT ![EntryOf(v).port] = Append(@, RightOf(w))])
  /\ Forget(w)
  /\ UNCHANGED <<alive, lost>>

\* recv(): the kernel puts the right of the message into the table.  Nothing arrives as
\* null, a right of a dead port as MACH_PORT_DEAD.
Recv(v, w) ==
  /\ Usable(v) /\ Unused(w)
  /\ LET t == value[v].task
         d == EntryOf(v).port
         m == Head(queue[d])
     IN  /\ queue[d] # <<>>
         /\ IF m.port = None \/ ~Live(m.port)
            THEN /\ value' = [value EXCEPT ![w] =
                                Value("opaque", t, IF m.port = None THEN Null ELSE Dead, None, m.right)]
                 /\ UNCHANGED table
            ELSE \E nm \in NamesFor(t, m.port) :
                   /\ table' = [table EXCEPT ![t][nm] = With(@, m.port, m.right)]
                   /\ value' = [value EXCEPT ![w] = Value("opaque", t, nm, m.port, m.right)]
         /\ queue' = [queue EXCEPT ![d] = Tail(@)]
  /\ UNCHANGED <<alive, lost>>

\* The end of a task, at any point.
Exit(t) ==
  /\ t \in alive /\ alive' = alive \ {t}
  /\ value' = [v \in Values |-> IF value[v].task = t THEN NoValue ELSE value[v]]
  /\ table' = [table EXCEPT ![t] = [nm \in Names |-> NoEntry]]
  /\ lost' = [lost EXCEPT ![t] = [nm \in Names |-> NoRights]]
  /\ queue' = Kept(table', queue)

----------------------------------------------------------------------------
Next ==
  \/ \E t \in Tasks : (\E p \in Ports, v, w \in Values : Channel(t, p, v, w)) \/ Exit(t)
  \/ \E v, w \in Values : Clone(v, w) \/ Consume(v, w) \/ Send(v, w) \/ Recv(v, w)
  \/ \E v \in Values :
       DropReceiver(v) \/ DropSender(v) \/ DropOpaque(v) \/ ToReceiver(v) \/ ToSender(v)

Spec == Init /\ [][Next]_vars

----------------------------------------------------------------------------
\* Properties

\* Every variable has its type.
TypeOK ==
  /\ value \in [Values -> [kind : {"none", "sender", "receiver", "opaque"}, task : Tasks \cup {None},
                           name : Names \cup {Null, Dead}, use : {"held", "listed"},
                           port : Ports \cup {None}, right : {"send", "recv", "none"}]]
  /\ alive \subseteq Tasks
  /\ table \in [Tasks -> [Names -> [port : Ports \cup {None}, recv : BOOLEAN, send : Nat]]]
  /\ queue \in [Ports -> Seq([port : Ports \cup {None}, right : {"send", "recv"}])]
  /\ lost \in [Tasks -> [Names -> [recv : BOOLEAN, send : Nat]]]

Owners(t, nm, right) ==
  {v \in Values : value[v].task = t /\ value[v].name = nm /\ value[v].right = right}

\* Every right under a name belongs to one value, live or dead: no drop releases the right
\* of another value or panics, and none leaks but those of opaque channels that nobody
\* decodes and of the server's registration.
RightsOwned ==
  \A t \in Tasks, nm \in Names :
    /\ table[t][nm].send = Cardinality(Owners(t, nm, "send")) + lost[t][nm].send
    /\ Cardinality(Owners(t, nm, "recv")) + (IF lost[t][nm].recv THEN 1 ELSE 0)
         = (IF table[t][nm].recv THEN 1 ELSE 0)

\* A value stands for the port it was made for as long as it has a name, although names
\* are used again and the rights to a port gather under one name.
RightPort ==
  \A v \in Values : value[v].name \in Names => EntryOf(v).port = value[v].port

SendRights(p) ==
  \/ \E t \in Tasks, nm \in Names : table[t][nm].port = p /\ table[t][nm].send > 0
  \/ \E d \in Ports : \E i \in DOMAIN queue[d] : queue[d][i] = [port |-> p, right |-> "send"]

\* The kernel finds a port without senders exactly when no sender value is left that
\* could send on it, no message that can still be received has one, and none is lost.
EndExact ==
  \A p \in Ports : Live(p) =>
    (SendRights(p) <=>
       \/ \E v \in Values : value[v].right = "send" /\ value[v].port = p /\ value[v].name \in Names
       \/ \E d \in Ports : \E i \in DOMAIN queue[d] : queue[d][i] = [port |-> p, right |-> "send"]
       \/ \E t \in Tasks, nm \in Names : table[t][nm].port = p /\ lost[t][nm].send > 0)

\* A port has one receive right, and one value or one message has it: a sender never
\* reaches two receivers.
OneReceiver ==
  \A p \in Ports :
    Cardinality({v \in Values : value[v].right = "recv" /\ value[v].port = p /\ value[v].name # Null})
    + Cardinality({k \in Ports \X (1 .. MaxQueue) :
                     /\ k[2] \in DOMAIN queue[k[1]]
                     /\ queue[k[1]][k[2]] = [port |-> p, right |-> "recv"]}) <= 1
=============================================================================
