------------------------------- MODULE Router -------------------------------
(***************************************************************************)
(* The router (src/router.rs): a thread that owns a set of receivers and   *)
(* calls a handler for each message, and the RouterProxy through which     *)
(* other threads, or the handlers themselves, add routes and shut it down. *)
(*                                                                         *)
(* The proxy talks to the thread over two channels: RouterMsgs travel on a *)
(* crossbeam channel, and a wakeup on an IPC channel that is a member of   *)
(* the receiver set makes the thread look for one RouterMsg.  add_route()  *)
(* sends the message before the wakeup, shutdown() the wakeup before the   *)
(* message, both with the proxy's lock held.                               *)
(*                                                                         *)
(* A channel is named by its route, and so is its id in the set; messages  *)
(* are numbered per channel.                                               *)
(***************************************************************************)
EXTENDS Integers, Sequences, FiniteSets, Functions

CONSTANTS
  Clients,          \* threads that use the proxy
  Routes,           \* channels whose receivers they hand to the router
  MaxMessages,      \* bound: messages sent on each channel
  Events,           \* how many events one poll() reports
  WakeupCapacity,   \* wakeups the socket buffers before a send blocks
  HandlersCall      \* whether handlers call the proxy themselves

ASSUME RouterAssumption ==
  /\ MaxMessages \in Nat
  /\ Events \in Nat \ {0}
  /\ WakeupCapacity \in Nat \ {0}
  /\ HandlersCall \in BOOLEAN
  /\ "wakeup" \notin Routes
  /\ Clients \cap {"router", "free"} = {}

Threads == Clients \cup {"router"}

VARIABLES
  \* RouterProxy and the calls in progress:
  lock,       \* who holds the mutex around comm, or "free"
  poisoned,   \* a thread panicked while it held the mutex
  shutdown,   \* comm.shutdown
  pc,         \* where each thread is in add_route() or shutdown()
  arg,        \* the route that its add_route() is about
  given,      \* routes whose receiver was handed to add_route()
  dropped,    \* the proxy was dropped
  \* The two channels to the router:
  msgs,       \* RouterMsgs
  wakeups,    \* number of wakeups
  acks,       \* threads whose Shutdown was acknowledged
  \* The router thread:
  fate,       \* "alive", "stopped" or "panicked", "aborted" for the panic of a handler
              \* or over a receiver that the set does not take
  phase,      \* "select", "dispatch" or "handler"
  members,    \* channels in ipc_receiver_set
  handlers,   \* routes with an entry in the map of handlers
  results,    \* what is left of the batch that select() returned
  \* The channels that are routed:
  sent,       \* number of messages sent so far
  queue,      \* messages not received yet
  closed,     \* channels whose senders are all gone
  \* History:
  called,     \* messages each handler was called with
  accepted,   \* routes whose add_route() sent them to the router
  registered  \* routes that the router added to its set

proxyVars == <<lock, poisoned, shutdown, pc, arg, given, dropped>>
commVars == <<msgs, wakeups, acks>>
routerVars == <<fate, phase, members, handlers, results>>
channelVars == <<sent, queue, closed>>
historyVars == <<called, accepted, registered>>
vars == <<proxyVars, commVars, routerVars, channelVars, historyVars>>

Alive == fate = "alive"

RouterMsg == [type : {"AddRoute"}, route : Routes] \cup [type : {"Shutdown"}, sender : Threads]

SelectionResult ==
  [type : {"MessageReceived"}, id : Routes \cup {"wakeup"}, message : Nat]
    \cup [type : {"ChannelClosed"}, id : Routes \cup {"wakeup"}]

\* RouterProxy::new() and Router::new(): the set holds the wakeup receiver.
Init ==
  /\ lock = "free"
  /\ poisoned = FALSE
  /\ shutdown = FALSE
  /\ pc = [t \in Threads |-> "idle"]
  /\ arg = [t \in Threads |-> "none"]
  /\ given = {}
  /\ dropped = FALSE
  /\ msgs = <<>>
  /\ wakeups = 0
  /\ acks = {}
  /\ fate = "alive"
  /\ phase = "select"
  /\ members = {"wakeup"}
  /\ handlers = {}
  /\ results = <<>>
  /\ sent = [r \in Routes |-> 0]
  /\ queue = [r \in Routes |-> <<>>]
  /\ closed = {}
  /\ called = [r \in Routes |-> <<>>]
  /\ accepted = {}
  /\ registered = {}

-----------------------------------------------------------------------------
(* RouterProxy *)

Goto(t, label) == pc' = [pc EXCEPT ![t] = label]

\* The router thread is inside a handler, which may call the proxy.
InHandler == Alive /\ phase = "handler"

MayCall(t) ==
  /\ pc[t] = "idle"
  /\ ~dropped
  /\ t = "router" => InHandler /\ HandlersCall

CallAddRoute(t, r) ==
  /\ MayCall(t)
  /\ r \notin given
  /\ given' = given \cup {r}
  /\ arg' = [arg EXCEPT ![t] = r]
  /\ Goto(t, "add_lock")
  /\ UNCHANGED <<lock, poisoned, shutdown, dropped, commVars, routerVars, channelVars, historyVars>>

CallShutdown(t) ==
  /\ MayCall(t)
  /\ Goto(t, "shutdown_lock")
  /\ UNCHANGED <<lock, poisoned, shutdown, arg, given, dropped, commVars, routerVars, channelVars,
                 historyVars>>

\* lock(); a call returns at once after shutdown(), and drops its arguments.
AddRouteLock(t) ==
  /\ pc[t] = "add_lock"
  /\ lock = "free"
  /\ ~poisoned
  /\ IF shutdown
     THEN Goto(t, "idle") /\ UNCHANGED lock
     ELSE Goto(t, "add_msg") /\ lock' = t
  /\ UNCHANGED <<poisoned, shutdown, arg, given, dropped, commVars, routerVars, channelVars,
                 historyVars>>

AddRouteSend(t) ==
  /\ pc[t] = "add_msg"
  /\ Alive
  /\ msgs' = Append(msgs, [type |-> "AddRoute", route |-> arg[t]])
  /\ accepted' = accepted \cup {arg[t]}
  /\ Goto(t, "add_wakeup")
  /\ UNCHANGED <<lock, poisoned, shutdown, arg, given, dropped, wakeups, acks, routerVars,
                 channelVars, called, registered>>

\* wakeup_sender.send() blocks while the socket is full.
Wakeup ==
  /\ Alive
  /\ wakeups < WakeupCapacity
  /\ wakeups' = wakeups + 1

\* Mutant: add_route() does not wake the router up.
AddRouteNoWakeup(t) ==
  /\ pc[t] = "add_wakeup"
  /\ Alive
  /\ Goto(t, "idle")
  /\ lock' = "free"
  /\ UNCHANGED <<poisoned, shutdown, arg, given, dropped, commVars, routerVars, channelVars,
                 historyVars>>

\* Mutant: the lock is never released.
AddRouteKeepsLock(t) ==
  /\ pc[t] = "add_wakeup"
  /\ Wakeup
  /\ Goto(t, "idle")
  /\ UNCHANGED <<lock, poisoned, shutdown, arg, given, dropped, msgs, acks, routerVars, channelVars,
                 historyVars>>

AddRouteWakeup(t) ==
  /\ pc[t] = "add_wakeup"
  /\ Wakeup
  /\ Goto(t, "idle")
  /\ lock' = "free"
  /\ UNCHANGED <<poisoned, shutdown, arg, given, dropped, msgs, acks, routerVars, channelVars,
                 historyVars>>

\* Mutant: the flag is not set.
ShutdownNoFlag(t) ==
  /\ pc[t] = "shutdown_lock"
  /\ lock = "free"
  /\ ~poisoned
  /\ Goto(t, "shutdown_wakeup")
  /\ lock' = t
  /\ UNCHANGED <<poisoned, shutdown, arg, given, dropped, commVars, routerVars, channelVars,
                 historyVars>>

ShutdownLock(t) ==
  /\ pc[t] = "shutdown_lock"
  /\ lock = "free"
  /\ ~poisoned
  /\ shutdown' = TRUE
  /\ IF shutdown
     THEN Goto(t, "idle") /\ UNCHANGED lock
     ELSE Goto(t, "shutdown_wakeup") /\ lock' = t
  /\ UNCHANGED <<poisoned, arg, given, dropped, commVars, routerVars, channelVars, historyVars>>

ShutdownWakeup(t) ==
  /\ pc[t] = "shutdown_wakeup"
  /\ Wakeup
  /\ Goto(t, "shutdown_msg")
  /\ UNCHANGED <<lock, poisoned, shutdown, arg, given, dropped, msgs, acks, routerVars, channelVars,
                 historyVars>>

ShutdownSend(t) ==
  /\ pc[t] = "shutdown_msg"
  /\ Alive
  /\ msgs' = Append(msgs, [type |-> "Shutdown", sender |-> t])
  /\ Goto(t, "shutdown_ack")
  /\ UNCHANGED <<lock, poisoned, shutdown, arg, given, dropped, wakeups, acks, routerVars,
                 channelVars, historyVars>>

ShutdownAck(t) ==
  /\ pc[t] = "shutdown_ack"
  /\ t \in acks
  /\ Goto(t, "idle")
  /\ lock' = "free"
  /\ UNCHANGED <<poisoned, shutdown, arg, given, dropped, commVars, routerVars, channelVars,
                 historyVars>>

\* An unwrap() of the proxy fails: the router thread is gone, so neither a RouterMsg nor
\* a wakeup nor the ACK gets through, or an earlier panic poisoned the lock.
ProxyPanics(t) ==
  /\ t \in Clients
  /\ \/ pc[t] \in {"add_lock", "shutdown_lock"} /\ lock = "free" /\ poisoned
     \/ pc[t] \in {"add_msg", "add_wakeup", "shutdown_wakeup", "shutdown_msg"} /\ ~Alive
     \/ pc[t] = "shutdown_ack" /\ ~Alive /\ t \notin acks
  /\ Goto(t, "panicked")
  /\ lock' = IF lock = t THEN "free" ELSE lock
  /\ poisoned' = (poisoned \/ lock = t)
  /\ UNCHANGED <<shutdown, arg, given, dropped, commVars, routerVars, channelVars, historyVars>>

\* The proxy goes out of scope when no thread uses it any more, and takes the
\* sending ends of both channels with it.
DropProxy ==
  /\ ~dropped
  /\ ~HandlersCall
  /\ \A t \in Clients : pc[t] \in {"idle", "panicked"}
  /\ dropped' = TRUE
  /\ UNCHANGED <<lock, poisoned, shutdown, pc, arg, given, commVars, routerVars, channelVars,
                 historyVars>>

-----------------------------------------------------------------------------
(* The channels that are routed *)

SendMessage(r) ==
  /\ r \notin closed
  /\ sent[r] < MaxMessages
  /\ sent' = [sent EXCEPT ![r] = @ + 1]
  /\ queue' = [queue EXCEPT ![r] = Append(@, sent[r] + 1)]
  /\ UNCHANGED <<closed, proxyVars, commVars, routerVars, historyVars>>

CloseSenders(r) ==
  /\ r \notin closed
  /\ closed' = closed \cup {r}
  /\ UNCHANGED <<sent, queue, proxyVars, commVars, routerVars, historyVars>>

-----------------------------------------------------------------------------
(* The receiver set: what one select() returns *)

Pending(c) == IF c = "wakeup" THEN wakeups > 0 ELSE queue[c] # <<>>

\* Mutant: a closed channel is reported before it is drained.
AtEndEager(c) == IF c = "wakeup" THEN dropped /\ wakeups = 0 ELSE c \in closed

AtEnd(c) == ~Pending(c) /\ (IF c = "wakeup" THEN dropped ELSE c \in closed)

Ready == {c \in members : Pending(c) \/ AtEnd(c)}

\* poll() reports all that is ready, up to the capacity of its list of events.
Polled == {S \in SUBSET Ready : Cardinality(S) = Events \/ (S = Ready /\ Cardinality(S) < Events)}

\* The list that poll() fills with S, in any order.
Orders(S) == UNION {Bijection(1 .. n, S) : n \in 0 .. Events}

\* One message is received from each receiver that was reported.
Result(c) ==
  IF AtEnd(c)
  THEN [type |-> "ChannelClosed", id |-> c]
  ELSE [type |-> "MessageReceived", id |-> c, message |-> IF c = "wakeup" THEN 0 ELSE Head(queue[c])]

-----------------------------------------------------------------------------
(* Router::run() *)

Select ==
  /\ Alive
  /\ phase = "select"
  /\ Ready # {}
  /\ \E S \in Polled :
       /\ \E order \in Orders(S) : results' = [i \in DOMAIN order |-> Result(order[i])]
       /\ queue' = [r \in Routes |-> IF r \in S /\ Pending(r) THEN Tail(queue[r]) ELSE queue[r]]
       /\ wakeups' = IF "wakeup" \in S /\ Pending("wakeup") THEN wakeups - 1 ELSE wakeups
       /\ members' = members \ {c \in S : AtEnd(c)}
  /\ phase' = "dispatch"
  /\ UNCHANGED <<proxyVars, msgs, acks, fate, handlers, sent, closed, historyVars>>

\* The thread ends, and everything it owns is dropped.
Ends(how) ==
  /\ fate' = how
  /\ members' = {}
  /\ handlers' = {}
  /\ results' = <<>>
  /\ msgs' = <<>>
  /\ wakeups' = 0
  /\ UNCHANGED <<proxyVars, acks, phase, channelVars, historyVars>>

\* select() fails because one recv() does; the loop ends.
SelectFails ==
  /\ Alive
  /\ phase = "select"
  /\ Ready # {}
  /\ Ends("stopped")

\* The next result of the batch is of this type, from the wakeup channel or not.
Dispatching(type, wakeup) ==
  /\ Alive
  /\ phase = "dispatch"
  /\ results # <<>>
  /\ Head(results).type = type
  /\ (Head(results).id = "wakeup") = wakeup

Dispatched == results' = Tail(results)

\* Mutant: the handler is not inserted.
AddRouteNoHandler ==
  /\ Dispatching("MessageReceived", TRUE)
  /\ msgs # <<>>
  /\ Head(msgs).type = "AddRoute"
  /\ members' = members \cup {Head(msgs).route}
  /\ registered' = registered \cup {Head(msgs).route}
  /\ msgs' = Tail(msgs)
  /\ Dispatched
  /\ UNCHANGED <<proxyVars, wakeups, acks, fate, phase, handlers, channelVars, called, accepted>>

\* Mutant: one wakeup takes all the messages there are.
AddRouteDrains ==
  /\ Dispatching("MessageReceived", TRUE)
  /\ msgs # <<>>
  /\ \A i \in DOMAIN msgs : msgs[i].type = "AddRoute"
  /\ LET all == {msgs[i].route : i \in DOMAIN msgs} IN
       /\ members' = members \cup all
       /\ handlers' = handlers \cup all
       /\ registered' = registered \cup all
  /\ msgs' = <<>>
  /\ Dispatched
  /\ UNCHANGED <<proxyVars, wakeups, acks, fate, phase, channelVars, called, accepted>>

\* A wakeup: take one message, waiting for it if need be, and register a route.
AddRoute ==
  /\ Dispatching("MessageReceived", TRUE)
  /\ msgs # <<>>
  /\ Head(msgs).type = "AddRoute"
  /\ LET r == Head(msgs).route IN
       /\ members' = members \cup {r}
       /\ handlers' = handlers \cup {r}
       /\ registered' = registered \cup {r}
  /\ msgs' = Tail(msgs)
  /\ Dispatched
  /\ UNCHANGED <<proxyVars, wakeups, acks, fate, phase, channelVars, called, accepted>>

\* add_opaque(receiver).unwrap() fails: the set refuses the receiver (a failing system
\* call, or on Windows a receiver that was polled before), and the thread panics.
AddRouteFails ==
  /\ Dispatching("MessageReceived", TRUE)
  /\ msgs # <<>>
  /\ Head(msgs).type = "AddRoute"
  /\ Ends("aborted")

\* Shutdown: acknowledge it; the break leaves the loop over the batch.
Shutdown ==
  /\ Dispatching("MessageReceived", TRUE)
  /\ msgs # <<>>
  /\ Head(msgs).type = "Shutdown"
  /\ acks' = acks \cup {Head(msgs).sender}
  /\ msgs' = Tail(msgs)
  /\ results' = <<>>
  /\ UNCHANGED <<proxyVars, wakeups, fate, phase, members, handlers, channelVars, historyVars>>

CallHandler ==
  /\ Dispatching("MessageReceived", FALSE)
  /\ LET r == Head(results).id IN
       /\ r \in handlers
       /\ called' = [called EXCEPT ![r] = Append(@, Head(results).message)]
  /\ Dispatched
  /\ phase' = "handler"
  /\ UNCHANGED <<proxyVars, commVars, fate, members, handlers, channelVars, accepted, registered>>

HandlerReturns ==
  /\ InHandler
  /\ pc["router"] = "idle"
  /\ phase' = "dispatch"
  /\ UNCHANGED <<proxyVars, commVars, fate, members, handlers, results, channelVars, historyVars>>

\* For instance because the message does not deserialise.
HandlerPanics ==
  /\ InHandler
  /\ pc["router"] = "idle"
  /\ Ends("aborted")

RemoveHandler ==
  /\ Dispatching("ChannelClosed", FALSE)
  /\ Head(results).id \in handlers
  /\ handlers' = handlers \ {Head(results).id}
  /\ Dispatched
  /\ UNCHANGED <<proxyVars, commVars, fate, phase, members, channelVars, historyVars>>

BatchDone ==
  /\ Alive
  /\ phase = "dispatch"
  /\ results = <<>>
  /\ phase' = "select"
  /\ UNCHANGED <<proxyVars, commVars, fate, members, handlers, results, channelVars, historyVars>>

\* Another unwrap() of the router fails: no message will come for a wakeup, or there is
\* no handler for a result.
RouterPanics ==
  /\ Alive
  /\ phase = "dispatch"
  /\ results # <<>>
  /\ IF Head(results).type = "MessageReceived" /\ Head(results).id = "wakeup"
     THEN msgs = <<>> /\ dropped
     ELSE Head(results).id \notin handlers
  /\ Ends("panicked")

-----------------------------------------------------------------------------

ProxyStep(t) ==
  \/ AddRouteLock(t)
  \/ AddRouteSend(t)
  \/ AddRouteWakeup(t)
  \/ ShutdownLock(t)
  \/ ShutdownWakeup(t)
  \/ ShutdownSend(t)
  \/ ShutdownAck(t)
  \/ ProxyPanics(t)

RouterStep ==
  \/ Select
  \/ AddRoute
  \/ Shutdown
  \/ CallHandler
  \/ HandlerReturns
  \/ RemoveHandler
  \/ BatchDone
  \/ RouterPanics

Next ==
  \/ \E t \in Threads :
       \/ \E r \in Routes : CallAddRoute(t, r)
       \/ CallShutdown(t)
       \/ ProxyStep(t)
  \/ DropProxy
  \/ \E r \in Routes : SendMessage(r) \/ CloseSenders(r)
  \/ RouterStep
  \/ SelectFails
  \/ HandlerPanics
  \/ AddRouteFails

Spec == Init /\ [][Next]_vars

\* Every thread keeps running inside the library, and handlers return.
Fairness ==
  /\ \A t \in Threads : WF_vars(ProxyStep(t))
  /\ WF_vars(RouterStep)

FairSpec == Spec /\ Fairness

-----------------------------------------------------------------------------
(* Properties *)

\* Every variable keeps the shape that the proxy and the router give it.
TypeOK ==
  /\ lock \in Threads \cup {"free"}
  /\ poisoned \in BOOLEAN
  /\ shutdown \in BOOLEAN
  /\ pc \in [Threads -> {"idle", "add_lock", "add_msg", "add_wakeup", "shutdown_lock",
                         "shutdown_wakeup", "shutdown_msg", "shutdown_ack", "panicked"}]
  /\ arg \in [Threads -> Routes \cup {"none"}]
  /\ given \in SUBSET Routes
  /\ dropped \in BOOLEAN
  /\ msgs \in Seq(RouterMsg)
  /\ wakeups \in 0 .. WakeupCapacity
  /\ acks \in SUBSET Threads
  /\ fate \in {"alive", "stopped", "panicked", "aborted"}
  /\ phase \in {"select", "dispatch", "handler"}
  /\ members \in SUBSET (Routes \cup {"wakeup"})
  /\ handlers \in SUBSET Routes
  /\ results \in Seq(SelectionResult)
  /\ sent \in [Routes -> 0 .. MaxMessages]
  /\ queue \in [Routes -> Seq(Nat)]
  /\ closed \in SUBSET Routes
  /\ called \in [Routes -> Seq(Nat)]
  /\ accepted \in SUBSET Routes
  /\ registered \in SUBSET Routes

\* Of the unwrap()s of run() only the one of add_opaque() may fail while the proxy exists:
\* there is a message for every wakeup and a handler for every result, whatever the
\* interleaving of add_route(), shutdown() and the end of channels.
UnwrapsHold == fate = "panicked" => dropped

\* The router waits for a message that a wakeup announced only while shutdown()
\* is between its two sends.
MessageFollowsWakeup ==
  Dispatching("MessageReceived", TRUE) /\ msgs = <<>> =>
    lock # "free" /\ pc[lock] = "shutdown_msg"

\* How many messages of route r the batch at hand holds.
Batched(r) ==
  IF \E k \in DOMAIN results : results[k].type = "MessageReceived" /\ results[k].id = r THEN 1 ELSE 0

\* Handlers get the messages of their channel in order.  Until a shutdown they get every one
\* of them: the i-th call is for message i, and what was not sent to a handler yet is in the
\* batch or in the channel.
HandlersInOrder ==
  \A r \in Routes :
    /\ \A i, j \in DOMAIN called[r] : i < j => called[r][i] < called[r][j]
    /\ acks = {} => \A i \in DOMAIN called[r] : called[r][i] = i
    /\ Alive /\ acks = {} =>
         Len(called[r]) + Batched(r) + Len(queue[r]) = sent[r]

\* When a shutdown is acknowledged, every route accepted before it was registered,
\* and none is accepted after it.
ShutdownIsLast == acks # {} => accepted \subseteq registered

\* An accepted route gets registered, unless the router ends first.
RoutesRegistered == \A r \in Routes : r \in accepted ~> (r \in registered \/ ~Alive)

\* shutdown() returns, if only by a panic when the router thread is gone.
ShutdownReturns ==
  \A t \in Clients : pc[t] = "shutdown_ack" ~> pc[t] \in {"idle", "panicked"}

\* The router thread waits for itself: a handler's call needs a lock whose holder
\* waits for the router, room for a wakeup that only the router makes, or the ACK.
WaitsForItself ==
  LET waits == {"shutdown_ack"} \cup
               (IF wakeups = WakeupCapacity THEN {"add_wakeup", "shutdown_wakeup"} ELSE {})
  IN \/ pc["router"] \in waits
     \/ pc["router"] \in {"add_lock", "shutdown_lock"} /\ lock \in Clients /\ pc[lock] \in waits

\* Nothing else keeps a handler's call of the proxy from returning.
StuckOnlyOnItself == <>[](pc["router"] # "idle") => <>[]WaitsForItself

\* router.rs:211 says of the Shutdown message "Shutdown the router": no handler is
\* called any more once it was acknowledged.
NoCallAfterShutdown == [][acks # {} => called' = called]_vars

\* router.rs:166: "Remove handler once channel closes."
HandlersRemoved ==
  \A r \in Routes :
    (r \in registered /\ r \in closed) ~> (r \notin handlers)

=============================================================================
