----------------------------- MODULE AsyncRouter -----------------------------
(***************************************************************************)
(* The router behind IpcReceiver::to_stream() (src/asynch.rs): one thread  *)
(* per process moves messages from IPC receivers to the unbounded queues   *)
(* of IpcStreams.  Any thread converts a receiver into a stream: it queues *)
(* the route, then wakes the routing thread up.  The thread drains the     *)
(* queue of routes after each batch of results, whatever the batch was     *)
(* about.                                                                  *)
(***************************************************************************)
EXTENDS Integers, Sequences, FiniteSets

CONSTANTS
  Clients,         \* threads that call to_stream()
  Routes,          \* receivers they convert, one stream each
  MaxMessages,     \* bound: messages sent on each route
  Events,          \* results that one select() returns at most
  WakeupCapacity   \* wakeups that the socket of the wakeup channel holds

ASSUME AsyncAssumption ==
  /\ "wakeup" \notin Routes
  /\ "free" \notin Clients
  /\ MaxMessages \in Nat
  /\ {Events, WakeupCapacity} \subseteq Nat \ {0}

VARIABLES
  \* to_stream():
  pc,          \* of each client: "idle", "lock" or "wake"
  arg,         \* the route it converts
  lock,        \* who holds the mutex around the waker, or "free"
  \* The channels of Router:
  routes,      \* add_route: routes not taken yet
  wakeups,     \* messages on the wakeup channel
  \* The routing thread:
  phase,       \* "select", "dispatch", "drain", or "ended"
  receivers,   \* members of its receiver set
  senders,     \* keys of its map of senders
  results,     \* selections not handled yet, at most one per receiver
  \* The routed channels:
  sent,        \* messages sent on each route
  queue,       \* messages in each route's receiver
  closed,      \* routes all of whose IpcSenders are gone
  \* The streams:
  stream,      \* "none", "open", "dropped"
  buffer,      \* messages in the stream's queue
  \* History:
  got,         \* items that poll_next() returned
  ended,       \* streams that returned None
  unwoken,     \* whether a wakeup failed
  refused      \* routes that add_opaque() failed for

clientVars == <<pc, arg, lock>>
commVars == <<routes, wakeups>>
threadVars == <<phase, receivers, senders, results>>
channelVars == <<sent, queue, closed>>
streamVars == <<stream, buffer>>
historyVars == <<got, ended, unwoken, refused>>
vars == <<clientVars, commVars, threadVars, channelVars, streamVars, historyVars>>

SelectionResult == [id : Routes \cup {"wakeup"}, message : Nat]

\* The message number 0 stands for ChannelClosed and for a wakeup.
Closed(id) == [id |-> id, message |-> 0]

\* ROUTER is initialised by its first use, and lives as long as the process.  Its thread
\* panics if it cannot create the set; that the wakeup receiver cannot be added goes
\* unnoticed.
Init ==
  /\ pc = [c \in Clients |-> "idle"]
  /\ arg = [c \in Clients |-> "none"]
  /\ lock = "free"
  /\ routes = <<>>
  /\ wakeups = 0
  /\ \/ phase = "select" /\ receivers \in {{"wakeup"}, {}}
     \/ phase = "ended" /\ receivers = {}
  /\ senders = {}
  /\ results = {}
  /\ sent = [r \in Routes |-> 0]
  /\ queue = [r \in Routes |-> <<>>]
  /\ closed = {}
  /\ stream = [r \in Routes |-> "none"]
  /\ buffer = [r \in Routes |-> <<>>]
  /\ got = [r \in Routes |-> <<>>]
  /\ ended = {}
  /\ unwoken = FALSE
  /\ refused = {}

Alive == phase # "ended"

-----------------------------------------------------------------------------
(* IpcReceiver::to_stream *)

\* The route is queued, or dropped with its receiver if the thread has ended.
ToStream(c, r) ==
  /\ pc[c] = "idle"
  /\ stream[r] = "none"
  /\ \A d \in Clients : pc[d] # "idle" => arg[d] # r
  /\ routes' = IF Alive THEN Append(routes, r) ELSE routes
  /\ pc' = [pc EXCEPT ![c] = "lock"]
  /\ arg' = [arg EXCEPT ![c] = r]
  /\ UNCHANGED <<lock, wakeups, threadVars, channelVars, streamVars, historyVars>>

Lock(c) ==
  /\ pc[c] = "lock"
  /\ lock = "free"
  /\ lock' = c
  /\ pc' = [pc EXCEPT ![c] = "wake"]
  /\ UNCHANGED <<arg, commVars, threadVars, channelVars, streamVars, historyVars>>

\* to_stream() unlocks and returns the stream, whatever became of the wakeup.
Return(c) ==
  /\ pc[c] = "wake"
  /\ pc' = [pc EXCEPT ![c] = "idle"]
  /\ lock' = "free"
  /\ stream' = [stream EXCEPT ![arg[c]] = "open"]

\* Mutant: no wakeup is sent.
WakeForgotten(c) ==
  /\ Return(c)
  /\ Alive
  /\ UNCHANGED <<arg, routes, wakeups, threadVars, channelVars, buffer, got, ended, unwoken, refused>>

\* waker.send() blocks while the socket is full; its receiver is in the set.
Wake(c) ==
  /\ Return(c)
  /\ "wakeup" \in receivers
  /\ wakeups < WakeupCapacity
  /\ wakeups' = wakeups + 1
  /\ UNCHANGED <<arg, routes, threadVars, channelVars, buffer, got, ended, unwoken, refused>>

\* waker.send() fails, and the error is ignored.
WakeFails(c) ==
  /\ Return(c)
  /\ unwoken' = TRUE
  /\ UNCHANGED <<arg, routes, wakeups, threadVars, channelVars, buffer, got, ended, refused>>

-----------------------------------------------------------------------------
(* The routed channels *)

SendMessage(r) ==
  /\ r \notin closed
  /\ sent[r] < MaxMessages
  /\ sent' = [sent EXCEPT ![r] = @ + 1]
  /\ queue' = [queue EXCEPT ![r] = Append(@, sent[r] + 1)]
  /\ UNCHANGED <<closed, clientVars, commVars, threadVars, streamVars, historyVars>>

CloseSenders(r) ==
  /\ r \notin closed
  /\ closed' = closed \cup {r}
  /\ UNCHANGED <<sent, queue, clientVars, commVars, threadVars, streamVars, historyVars>>

-----------------------------------------------------------------------------
(* The routing thread *)

Pending(id) == IF id = "wakeup" THEN wakeups > 0 ELSE queue[id] # <<>>

\* The waker lives in a static, so the wakeup channel never ends.
AtEnd(id) == id \in closed /\ ~Pending(id)

Ready == {id \in receivers : Pending(id) \/ AtEnd(id)}

Result(id) ==
  IF AtEnd(id) \/ id = "wakeup" THEN Closed(id) ELSE [id |-> id, message |-> Head(queue[id])]

\* select() returns one result for each of S, and removes what is at its end.
Select(S) ==
  /\ phase = "select"
  /\ S # {}
  /\ S \subseteq Ready
  /\ Cardinality(S) <= Events
  /\ results' = {Result(id) : id \in S}
  /\ queue' = [r \in Routes |-> IF r \in S /\ Pending(r) THEN Tail(queue[r]) ELSE queue[r]]
  /\ wakeups' = IF "wakeup" \in S THEN wakeups - 1 ELSE wakeups
  /\ receivers' = receivers \ {id \in S : AtEnd(id)}
  /\ phase' = "dispatch"
  /\ UNCHANGED <<clientVars, routes, senders, sent, closed, streamVars, historyVars>>

\* select() fails: the thread ends and everything it owns is dropped.
SelectFails ==
  /\ phase = "select"
  /\ Ready # {}
  /\ phase' = "ended"
  /\ receivers' = {}
  /\ senders' = {}
  /\ routes' = <<>>
  /\ wakeups' = 0
  /\ UNCHANGED <<clientVars, results, channelVars, streamVars, historyVars>>

\* Mutant: what arrives before to_stream() returns is dropped.
ForwardToOpen(result) ==
  /\ phase = "dispatch"
  /\ result \in results
  /\ result.message # 0
  /\ results' = results \ {result}
  /\ buffer' = [buffer EXCEPT ![result.id] =
                  IF result.id \in senders /\ stream[result.id] = "open"
                  THEN Append(@, result.message) ELSE @]
  /\ UNCHANGED <<clientVars, commVars, phase, receivers, senders, channelVars, stream, historyVars>>

\* A message goes to the stream's queue; it is dropped if the stream is.
Forward(result) ==
  /\ phase = "dispatch"
  /\ result \in results
  /\ result.message # 0
  /\ results' = results \ {result}
  /\ buffer' = [buffer EXCEPT ![result.id] =
                  IF result.id \in senders /\ stream[result.id] # "dropped"
                  THEN Append(@, result.message) ELSE @]
  /\ UNCHANGED <<clientVars, commVars, phase, receivers, senders, channelVars, stream, historyVars>>

\* Mutant: the sender stays in the map.
RemoveKeeps(result) ==
  /\ phase = "dispatch"
  /\ result \in results
  /\ result.message = 0
  /\ results' = results \ {result}
  /\ UNCHANGED <<clientVars, commVars, phase, receivers, senders, channelVars, streamVars, historyVars>>

\* The end of a channel drops its sender.  A wakeup has no sender to forward to.
Remove(result) ==
  /\ phase = "dispatch"
  /\ result \in results
  /\ result.message = 0
  /\ results' = results \ {result}
  /\ senders' = senders \ {result.id}
  /\ UNCHANGED <<clientVars, commVars, phase, receivers, channelVars, streamVars, historyVars>>

BatchDone ==
  /\ phase = "dispatch"
  /\ results = {}
  /\ phase' = "drain"
  /\ UNCHANGED <<clientVars, commVars, receivers, senders, results, channelVars, streamVars, historyVars>>

AddRoute ==
  /\ phase = "drain"
  /\ routes # <<>>
  /\ routes' = Tail(routes)
  /\ receivers' = receivers \cup {Head(routes)}
  /\ senders' = senders \cup {Head(routes)}
  /\ UNCHANGED <<clientVars, wakeups, phase, results, channelVars, streamVars, historyVars>>

\* add_opaque() fails: receiver and sender are dropped.
AddRouteFails ==
  /\ phase = "drain"
  /\ routes # <<>>
  /\ routes' = Tail(routes)
  /\ refused' = refused \cup {Head(routes)}
  /\ UNCHANGED <<clientVars, wakeups, threadVars, channelVars, streamVars, got, ended, unwoken>>

DrainDone ==
  /\ phase = "drain"
  /\ routes = <<>>
  /\ phase' = "select"
  /\ UNCHANGED <<clientVars, commVars, receivers, senders, results, channelVars, streamVars, historyVars>>

-----------------------------------------------------------------------------
(* IpcStream *)

\* Some sender of the stream's queue exists.
Fed(r) == r \in senders \/ \E i \in DOMAIN routes : routes[i] = r

PollItem(r) ==
  /\ stream[r] = "open"
  /\ buffer[r] # <<>>
  /\ got' = [got EXCEPT ![r] = Append(@, Head(buffer[r]))]
  /\ buffer' = [buffer EXCEPT ![r] = Tail(@)]
  /\ UNCHANGED <<clientVars, commVars, threadVars, channelVars, stream, ended, unwoken, refused>>

\* Mutant: an empty queue ends the stream.
PollEndWhenEmpty(r) ==
  /\ stream[r] = "open"
  /\ buffer[r] = <<>>
  /\ ended' = ended \cup {r}
  /\ UNCHANGED <<clientVars, commVars, threadVars, channelVars, streamVars, got, unwoken, refused>>

\* Ready(None); when the queue is empty and Fed, the result is Pending.
PollEnd(r) ==
  /\ stream[r] = "open"
  /\ buffer[r] = <<>>
  /\ ~Fed(r)
  /\ ended' = ended \cup {r}
  /\ UNCHANGED <<clientVars, commVars, threadVars, channelVars, streamVars, got, unwoken, refused>>

DropStream(r) ==
  /\ stream[r] = "open"
  /\ stream' = [stream EXCEPT ![r] = "dropped"]
  /\ buffer' = [buffer EXCEPT ![r] = <<>>]
  /\ UNCHANGED <<clientVars, commVars, threadVars, channelVars, historyVars>>

-----------------------------------------------------------------------------

ClientStep(c) == Lock(c) \/ Wake(c) \/ WakeFails(c)

ThreadStep ==
  \/ \E S \in SUBSET receivers : Select(S)
  \/ \E result \in results : Forward(result) \/ Remove(result)
  \/ BatchDone
  \/ AddRoute
  \/ AddRouteFails
  \/ DrainDone

StreamStep(r) == PollItem(r) \/ PollEnd(r)

Next ==
  \/ \E c \in Clients : ClientStep(c) \/ \E r \in Routes : ToStream(c, r)
  \/ ThreadStep
  \/ SelectFails
  \/ \E r \in Routes : SendMessage(r) \/ CloseSenders(r) \/ StreamStep(r) \/ DropStream(r)

Spec == Init /\ [][Next]_vars

\* Threads inside to_stream() and the routing thread keep running, mutexes are
\* granted in turn, executors keep polling streams, and poll() does not overlook a
\* receiver for ever.
FairSpec ==
  /\ Spec
  /\ \A c \in Clients : SF_vars(ClientStep(c))
  /\ WF_vars(ThreadStep)
  /\ \A r \in Routes \cup {"wakeup"} : SF_vars(\E S \in SUBSET receivers : r \in S /\ Select(S))
  /\ \A r \in Routes : WF_vars(StreamStep(r))

-----------------------------------------------------------------------------
(* Properties *)

\* Every variable has its type.
TypeOK ==
  /\ pc \in [Clients -> {"idle", "lock", "wake"}]
  /\ arg \in [Clients -> Routes \cup {"none"}]
  /\ lock \in Clients \cup {"free"}
  /\ routes \in Seq(Routes)
  /\ wakeups \in 0 .. WakeupCapacity
  /\ phase \in {"select", "dispatch", "drain", "ended"}
  /\ receivers \subseteq Routes \cup {"wakeup"}
  /\ senders \subseteq Routes
  /\ results \subseteq SelectionResult
  /\ sent \in [Routes -> Nat]
  /\ queue \in [Routes -> Seq(Nat)]
  /\ closed \subseteq Routes
  /\ stream \in [Routes -> {"none", "open", "dropped"}]
  /\ buffer \in [Routes -> Seq(Nat)]
  /\ got \in [Routes -> Seq(Nat)]
  /\ ended \subseteq Routes
  /\ unwoken \in BOOLEAN
  /\ refused \subseteq Routes

\* When the routing thread goes to sleep with a route in its queue, a wakeup is
\* on its way: one is in the channel, or its client has still to send it.  (The
\* order of the two sends in to_stream(), and draining after every batch.)
RouteFollowsWakeup ==
  phase = "select" /\ routes # <<>> =>
    \/ wakeups > 0
    \/ \E c \in Clients : pc[c] \in {"lock", "wake"}
    \/ unwoken

\* A stream yields the messages of its channel, each once, in order, although
\* they pass through a batch, a map of senders and a second queue.
StreamInOrder ==
  \A r \in Routes : \A i \in DOMAIN got[r] : got[r][i] = i

\* The end of a stream is the end of its channel: everything sent was yielded.
\* Only the end of the thread or a receiver that could not be added cut it short.
EndIsEnd ==
  \A r \in ended :
    \/ r \in closed /\ Len(got[r]) = sent[r]
    \/ stream[r] = "dropped"
    \/ r \in refused
    \/ ~Alive

\* What an open stream has still to yield: messages, unless its receiver was refused or the
\* thread has ended, and its end.
Owes(r) ==
  /\ stream[r] = "open"
  /\ \/ Len(got[r]) < sent[r] /\ Alive /\ r \notin refused
     \/ r \in closed /\ r \notin ended

\* The program that polls a stream gets all its messages and then its end, unless a wakeup
\* failed; sends are bounded (run, poll_next).
StreamProgress == []<>(unwoken \/ \A r \in Routes : ~Owes(r))

=============================================================================
