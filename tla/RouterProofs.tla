---------------------------- MODULE RouterProofs ----------------------------
(***************************************************************************)
(* Proofs about Router, for any number of threads, routes and messages and *)
(* any capacity of the wakeup channel.                                     *)
(***************************************************************************)
EXTENDS Router, SequenceTheorems, TLAPS

\* Leaves are first-order reasoning about sets and functions, but where they name SMT.
USE Zenon

-----------------------------------------------------------------------------
(* The inductive invariant *)

\* The steps of add_route() and shutdown() that run with the lock held.
Critical == {"add_msg", "add_wakeup", "shutdown_wakeup", "shutdown_msg", "shutdown_ack"}

LockInv == \A t \in Threads : lock = t <=> pc[t] \in Critical

\* A route goes from a call of add_route() to msgs to the receiver set, once.
Adding(t) == pc[t] \in {"add_lock", "add_msg"}

IsAddRoute(m) == m.type = "AddRoute"

RouteInv ==
  /\ registered \subseteq accepted
  /\ accepted \subseteq given
  /\ \A t \in Threads : Adding(t) => arg[t] \in given \ accepted
  /\ \A t, u \in Threads : Adding(t) /\ Adding(u) /\ arg[t] = arg[u] => t = u
  /\ \A k \in DOMAIN msgs : IsAddRoute(msgs[k]) => msgs[k].route \in accepted \ registered
  /\ \A j, k \in DOMAIN msgs :
       IsAddRoute(msgs[j]) /\ IsAddRoute(msgs[k]) /\ msgs[j].route = msgs[k].route => j = k

\* The batch holds one result per receiver, and its handler is still there.
BatchInv ==
  Alive =>
    /\ phase = "select" => results = <<>>
    /\ members \ {"wakeup"} \subseteq handlers
    /\ handlers \subseteq registered
    /\ \A k \in DOMAIN results :
         /\ results[k].id # "wakeup" => results[k].id \in handlers
         /\ results[k].type = "ChannelClosed" => results[k].id \notin members
         /\ results[k].type = "ChannelClosed" /\ results[k].id = "wakeup" => dropped
    /\ \A j, k \in DOMAIN results : results[j].id = results[k].id => j = k

\* Wakeups and messages balance, but for the call that is between its two sends.
IsWakeup(r) == r.type = "MessageReceived" /\ r.id = "wakeup"

Woken(res) == IF \E k \in DOMAIN res : IsWakeup(res[k]) THEN 1 ELSE 0

At(label, p) == IF \E t \in Threads : p[t] = label THEN 1 ELSE 0

Balanced ==
  Alive => wakeups + Woken(results) + At("add_wakeup", pc) = Len(msgs) + At("shutdown_msg", pc)

\* Shutdown is the last message, and what was accepted before it comes before it.
ShutdownInv ==
  /\ shutdown => \A t \in Threads : pc[t] \notin {"add_msg", "add_wakeup"}
  /\ ~shutdown =>
       /\ acks = {}
       /\ \A k \in DOMAIN msgs : IsAddRoute(msgs[k])
       /\ \A t \in Threads : pc[t] \notin {"shutdown_wakeup", "shutdown_msg", "shutdown_ack"}
  /\ \A k \in DOMAIN msgs : ~IsAddRoute(msgs[k]) =>
       /\ k = Len(msgs)
       /\ \A t \in Threads : pc[t] \notin {"shutdown_wakeup", "shutdown_msg"}
  /\ Alive => \A r \in accepted \ registered :
       \E k \in DOMAIN msgs : IsAddRoute(msgs[k]) /\ msgs[k].route = r
  /\ ShutdownIsLast
  /\ acks # {} => \A t \in Threads : pc[t] \notin {"shutdown_wakeup", "shutdown_msg"}

IInv == TypeOK /\ LockInv /\ RouteInv /\ BatchInv /\ Balanced /\ UnwrapsHold /\ ShutdownInv

-----------------------------------------------------------------------------
(* The lock *)

\* The names of threads and receivers are apart.
LEMMA NamesDiffer ==
  /\ "router" \in Threads
  /\ "free" \notin Threads
  /\ "wakeup" \notin Routes
BY RouterAssumption DEF Threads

\* The steps of a call of the proxy, those that enter it included.
CallStep(t) == (\E r \in Routes : CallAddRoute(t, r)) \/ CallShutdown(t) \/ ProxyStep(t)

\* All other steps leave the calls in progress alone.
LEMMA OtherSteps ==
  ASSUME [Next]_vars, ~ \E t \in Threads : CallStep(t)
  PROVE  UNCHANGED <<lock, poisoned, shutdown, pc, arg, given, accepted>>
<1>1. CASE UNCHANGED vars
  BY <1>1 DEF vars, proxyVars, historyVars
<1>2. CASE DropProxy
  BY <1>2 DEF DropProxy, historyVars
<1>3. CASE \E r \in Routes : SendMessage(r) \/ CloseSenders(r)
  BY <1>3 DEF SendMessage, CloseSenders, proxyVars, historyVars
<1>4. CASE RouterStep
  BY <1>4, Zenon DEF RouterStep, Select, AddRoute, Shutdown, CallHandler, HandlerReturns, RemoveHandler,
              BatchDone, RouterPanics, Ends, proxyVars, historyVars
<1>5. CASE SelectFails \/ HandlerPanics \/ AddRouteFails
  BY <1>5 DEF SelectFails, HandlerPanics, AddRouteFails, Ends, proxyVars, historyVars
<1> QED BY <1>1, <1>2, <1>3, <1>4, <1>5 DEF Next, CallStep

\* What a step of a call does to the position of its thread and to the lock.
LEMMA CallMoves ==
  ASSUME TypeOK, LockInv, NEW t \in Threads, CallStep(t)
  PROVE  /\ pc' = [pc EXCEPT ![t] = pc'[t]]
         /\ \/ pc[t] \notin Critical /\ pc'[t] \notin Critical /\ lock' = lock
            \/ pc[t] \notin Critical /\ pc'[t] \in Critical /\ lock = "free" /\ lock' = t
            \/ pc[t] \in Critical /\ pc'[t] \in Critical /\ lock' = lock
            \/ pc[t] \in Critical /\ pc'[t] \notin Critical /\ lock' = "free"
<1> USE DEF Goto, Critical
<1>0. pc \in [Threads -> {"idle", "add_lock", "add_msg", "add_wakeup", "shutdown_lock",
                         "shutdown_wakeup", "shutdown_msg", "shutdown_ack", "panicked"}]
  BY DEF TypeOK
<1>1. CASE \E r \in Routes : CallAddRoute(t, r)
  BY <1>0, <1>1 DEF CallAddRoute, MayCall
<1>2. CASE CallShutdown(t)
  BY <1>0, <1>2 DEF CallShutdown, MayCall
<1>3. CASE AddRouteLock(t)
  BY <1>0, <1>3 DEF AddRouteLock
<1>4. CASE AddRouteSend(t)
  BY <1>0, <1>4 DEF AddRouteSend
<1>5. CASE AddRouteWakeup(t)
  BY <1>0, <1>5 DEF AddRouteWakeup
<1>6. CASE ShutdownLock(t)
  BY <1>0, <1>6 DEF ShutdownLock
<1>7. CASE ShutdownWakeup(t)
  BY <1>0, <1>7 DEF ShutdownWakeup
<1>8. CASE ShutdownSend(t)
  BY <1>0, <1>8 DEF ShutdownSend
<1>9. CASE ShutdownAck(t)
  BY <1>0, <1>9 DEF ShutdownAck
<1>10. CASE ProxyPanics(t)
  BY <1>0, <1>10 DEF ProxyPanics, LockInv
<1> QED BY <1>1, <1>2, <1>3, <1>4, <1>5, <1>6, <1>7, <1>8, <1>9, <1>10 DEF CallStep, ProxyStep

\* Every step keeps LockInv.
LEMMA LockStep == TypeOK /\ LockInv /\ [Next]_vars => LockInv'
<1> SUFFICES ASSUME TypeOK, LockInv, [Next]_vars, NEW u \in Threads
             PROVE  (lock = u)' <=> (pc[u] \in Critical)'
  BY DEF LockInv
<1>0. lock = u <=> pc[u] \in Critical
  BY DEF LockInv
<1>1. CASE \E t \in Threads : CallStep(t)
  <2> PICK t \in Threads : CallStep(t)
    BY <1>1
  <2>1. lock = t <=> pc[t] \in Critical
    BY DEF LockInv
  <2>2. DOMAIN pc = Threads
    BY DEF TypeOK
  <2> QED BY <1>0, <2>1, <2>2, CallMoves, NamesDiffer
<1>2. CASE ~ \E t \in Threads : CallStep(t)
  BY <1>0, <1>2, OtherSteps
<1> QED BY <1>1, <1>2

-----------------------------------------------------------------------------
(* Types *)

\* What select() builds: one result for each channel of a set, in some order.
LEMMA BatchOf ==
  ASSUME TypeOK, NEW S \in Polled, NEW order \in Orders(S)
  PROVE  LET res == [i \in DOMAIN order |-> Result(order[i])] IN
         /\ S \subseteq Ready
         /\ res \in Seq(SelectionResult)
         /\ \A i \in DOMAIN res : order[i] \in S /\ res[i] = Result(order[i]) /\ res[i].id = order[i]
         /\ \A c \in S : \E i \in DOMAIN res : res[i] = Result(c)
         /\ \A i, j \in DOMAIN res : res[i].id = res[j].id => i = j
<1> DEFINE res == [i \in DOMAIN order |-> Result(order[i])]
<1>1. S \subseteq Ready /\ Ready \subseteq Routes \cup {"wakeup"}
  BY DEF Polled, Ready, TypeOK
<1>2. PICK n \in 0 .. Events : order \in Bijection(1 .. n, S)
  BY DEF Orders
<1>3. /\ n \in Nat
      /\ order \in [1 .. n -> S]
      /\ \A i, j \in 1 .. n : order[i] = order[j] => i = j
      /\ \A c \in S : \E i \in 1 .. n : order[i] = c
  BY SMT, <1>2, RouterAssumption DEF Bijection, Injection, Surjection, IsInjective
<1>4. ASSUME NEW c \in S
      PROVE  Result(c) \in SelectionResult /\ Result(c).id = c
  <2>1. CASE AtEnd(c)
    BY <1>1, <2>1 DEF Result, SelectionResult
  <2>2. CASE ~AtEnd(c) /\ c = "wakeup"
    BY <2>2 DEF Result, SelectionResult
  <2>3. CASE ~AtEnd(c) /\ c # "wakeup"
    <3>1. c \in Routes /\ queue[c] \in Seq(Nat) /\ queue[c] # <<>>
      BY <1>1, <2>3 DEF Ready, Pending, TypeOK
    <3>2. Head(queue[c]) \in Nat
      BY SMT, <3>1
    <3> QED BY <2>3, <3>1, <3>2 DEF Result, SelectionResult
  <2> QED BY <2>1, <2>2, <2>3
<1>5. res \in [1 .. n -> SelectionResult]
  BY <1>3, <1>4
<1>6. res \in Seq(SelectionResult)
  BY SMT, <1>3, <1>5, SeqDef
<1>7. DOMAIN res = 1 .. n
  BY <1>3
<1>8. \A i \in DOMAIN res : order[i] \in S /\ res[i] = Result(order[i]) /\ res[i].id = order[i]
  BY <1>3, <1>4, <1>7
<1>9. \A c \in S : \E i \in DOMAIN res : res[i] = Result(c)
  BY <1>3, <1>7
<1>10. \A i, j \in DOMAIN res : res[i].id = res[j].id => i = j
  BY SMT, <1>3, <1>7, <1>8
<1> HIDE DEF res
<1> QED BY <1>1, <1>6, <1>8, <1>9, <1>10 DEF res

\* A route in msgs, or one that a call is about, is a route.
LEMMA RouteTypes ==
  ASSUME TypeOK, RouteInv
  PROVE  /\ \A t \in Threads : Adding(t) => arg[t] \in Routes
         /\ msgs # <<>> =>
              /\ Head(msgs) \in RouterMsg
              /\ Tail(msgs) \in Seq(RouterMsg)
              /\ IsAddRoute(Head(msgs)) => Head(msgs).route \in Routes
              /\ ~IsAddRoute(Head(msgs)) => Head(msgs).sender \in Threads
BY SMT DEF TypeOK, RouteInv, RouterMsg, IsAddRoute

\* The next result of the batch.
LEMMA ResultTypes ==
  ASSUME TypeOK, results # <<>>
  PROVE  /\ Head(results) \in SelectionResult
         /\ Head(results).id \in Routes \cup {"wakeup"}
         /\ Head(results).type \in {"MessageReceived", "ChannelClosed"}
         /\ Head(results).type = "MessageReceived" => Head(results).message \in Nat
         /\ Tail(results) \in Seq(SelectionResult)
<1>1. Head(results) \in SelectionResult /\ Tail(results) \in Seq(SelectionResult)
  BY SMT DEF TypeOK
<1> QED BY <1>1 DEF SelectionResult

\* The calls of the proxy keep the types.
LEMMA TypeCallStep ==
  ASSUME TypeOK, LockInv, RouteInv, NEW t \in Threads, CallStep(t)
  PROVE  TypeOK'
<1> USE DEF TypeOK, Goto
<1>1. CASE \E r \in Routes : CallAddRoute(t, r)
  BY SMT, <1>1 DEF CallAddRoute, commVars, routerVars, channelVars, historyVars
<1>2. CASE CallShutdown(t)
  BY <1>2 DEF CallShutdown, commVars, routerVars, channelVars, historyVars
<1>3. CASE AddRouteLock(t)
  BY <1>3 DEF AddRouteLock, commVars, routerVars, channelVars, historyVars
<1>4. CASE AddRouteSend(t)
  <2>1. arg[t] \in Routes
    BY <1>4, RouteTypes DEF AddRouteSend, Adding
  <2>2. [type |-> "AddRoute", route |-> arg[t]] \in RouterMsg
    BY <2>1 DEF RouterMsg
  <2>3. msgs' \in Seq(RouterMsg)
    BY SMT, <1>4, <2>2 DEF AddRouteSend
  <2> QED BY <1>4, <2>1, <2>3 DEF AddRouteSend, routerVars, channelVars
<1>5. CASE AddRouteWakeup(t)
  BY SMT, <1>5, RouterAssumption DEF AddRouteWakeup, Wakeup, routerVars, channelVars, historyVars
<1>6. CASE ShutdownLock(t)
  BY <1>6, Zenon DEF ShutdownLock, commVars, routerVars, channelVars, historyVars
<1>7. CASE ShutdownWakeup(t)
  BY SMT, <1>7, RouterAssumption DEF ShutdownWakeup, Wakeup, routerVars, channelVars, historyVars
<1>8. CASE ShutdownSend(t)
  <2>1. [type |-> "Shutdown", sender |-> t] \in RouterMsg
    BY DEF RouterMsg
  <2>2. msgs' \in Seq(RouterMsg)
    BY SMT, <1>8, <2>1 DEF ShutdownSend
  <2> QED BY <1>8, <2>2 DEF ShutdownSend, routerVars, channelVars, historyVars
<1>9. CASE ShutdownAck(t)
  BY <1>9 DEF ShutdownAck, commVars, routerVars, channelVars, historyVars
<1>10. CASE ProxyPanics(t)
  BY <1>10 DEF ProxyPanics, commVars, routerVars, channelVars, historyVars
<1> QED BY <1>1, <1>2, <1>3, <1>4, <1>5, <1>6, <1>7, <1>8, <1>9, <1>10 DEF CallStep, ProxyStep

\* The steps of the router keep the types.
LEMMA TypeRouterStep ==
  ASSUME TypeOK, RouteInv, RouterStep \/ SelectFails \/ HandlerPanics \/ AddRouteFails
  PROVE  TypeOK'
<1>1. CASE Select
  <2> PICK S \in Polled :
        /\ \E order \in Orders(S) : results' = [i \in DOMAIN order |-> Result(order[i])]
        /\ queue' = [r \in Routes |-> IF r \in S /\ Pending(r) THEN Tail(queue[r]) ELSE queue[r]]
        /\ wakeups' = IF "wakeup" \in S /\ Pending("wakeup") THEN wakeups - 1 ELSE wakeups
        /\ members' = members \ {c \in S : AtEnd(c)}
    BY <1>1 DEF Select
  <2>1. results' \in Seq(SelectionResult)
    BY SMT, BatchOf
  <2>2. queue' \in [Routes -> Seq(Nat)]
    BY SMT, NamesDiffer DEF TypeOK, Pending
  <2>3. wakeups' \in 0 .. WakeupCapacity
    BY SMT, RouterAssumption DEF TypeOK, Pending
  <2>4. members' \in SUBSET (Routes \cup {"wakeup"})
    BY DEF TypeOK
  <2> QED BY <1>1, <2>1, <2>2, <2>3, <2>4 DEF Select, TypeOK, proxyVars, historyVars
<1>2. CASE AddRoute
  <2>1. msgs' \in Seq(RouterMsg) /\ Head(msgs).route \in Routes
    BY <1>2, RouteTypes DEF AddRoute, IsAddRoute
  <2>2. results' \in Seq(SelectionResult)
    BY <1>2, ResultTypes DEF AddRoute, Dispatched, Dispatching
  <2> QED BY <1>2, <2>1, <2>2 DEF AddRoute, TypeOK, proxyVars, channelVars
<1>3. CASE Shutdown
  <2>1. msgs' \in Seq(RouterMsg) /\ Head(msgs).sender \in Threads
    BY <1>3, RouteTypes DEF Shutdown, IsAddRoute
  <2> QED BY SMT, <1>3, <2>1 DEF Shutdown, TypeOK, proxyVars, channelVars, historyVars
<1>4. CASE CallHandler
  <2>1. results' \in Seq(SelectionResult) /\ Head(results).message \in Nat
    BY <1>4, ResultTypes DEF CallHandler, Dispatched, Dispatching
  <2>2. called' \in [Routes -> Seq(Nat)]
    BY SMT, <1>4, <2>1 DEF CallHandler, TypeOK
  <2> QED BY <1>4, <2>1, <2>2, SMTT(30) DEF CallHandler, TypeOK, proxyVars, commVars, channelVars
<1>5. CASE HandlerReturns
  BY <1>5 DEF HandlerReturns, TypeOK, proxyVars, commVars, channelVars, historyVars
<1>6. CASE RemoveHandler
  <2>1. results' \in Seq(SelectionResult)
    BY <1>6, ResultTypes DEF RemoveHandler, Dispatched, Dispatching
  <2> QED BY <1>6, <2>1 DEF RemoveHandler, TypeOK, proxyVars, commVars, channelVars, historyVars
<1>7. CASE BatchDone
  BY <1>7 DEF BatchDone, TypeOK, proxyVars, commVars, channelVars, historyVars
<1>8. CASE \E how \in {"stopped", "panicked", "aborted"} : Ends(how)
  BY SMT, <1>8, RouterAssumption DEF Ends, TypeOK, proxyVars, channelVars, historyVars
<1> QED BY <1>1, <1>2, <1>3, <1>4, <1>5, <1>6, <1>7, <1>8
        DEF RouterStep, SelectFails, HandlerPanics, AddRouteFails, RouterPanics

\* Every step keeps the types.
LEMMA TypeStep == TypeOK /\ LockInv /\ RouteInv /\ [Next]_vars => TypeOK'
<1> SUFFICES ASSUME TypeOK, LockInv, RouteInv, [Next]_vars PROVE TypeOK'
  OBVIOUS
<1>1. CASE \E t \in Threads : CallStep(t)
  BY <1>1, TypeCallStep
<1>2. CASE RouterStep \/ SelectFails \/ HandlerPanics \/ AddRouteFails
  BY <1>2, TypeRouterStep
<1>3. CASE DropProxy
  BY <1>3 DEF DropProxy, TypeOK, commVars, routerVars, channelVars, historyVars
<1>4. ASSUME NEW r \in Routes, SendMessage(r) PROVE TypeOK'
  <2>1. sent' \in [Routes -> 0 .. MaxMessages] /\ queue' \in [Routes -> Seq(Nat)]
    BY SMT, <1>4, RouterAssumption DEF SendMessage, TypeOK
  <2> QED BY <1>4, <2>1 DEF SendMessage, TypeOK, proxyVars, commVars, routerVars, historyVars
<1>5. ASSUME NEW r \in Routes, CloseSenders(r) PROVE TypeOK'
  BY <1>5 DEF CloseSenders, TypeOK, proxyVars, commVars, routerVars, historyVars
<1>6. CASE UNCHANGED vars
  BY <1>6 DEF vars, TypeOK, proxyVars, commVars, routerVars, channelVars, historyVars
<1> QED BY <1>1, <1>2, <1>3, <1>4, <1>5, <1>6 DEF Next, CallStep

-----------------------------------------------------------------------------
(* Routes *)

\* Elements of a sequence of messages after Append and Tail.
LEMMA MsgsAppend ==
  ASSUME NEW q \in Seq(RouterMsg), NEW m \in RouterMsg
  PROVE  /\ DOMAIN Append(q, m) = 1 .. Len(q) + 1
         /\ DOMAIN q = 1 .. Len(q)
         /\ Len(Append(q, m)) = Len(q) + 1
         /\ Append(q, m)[Len(q) + 1] = m
         /\ \A k \in 1 .. Len(q) : Append(q, m)[k] = q[k]
BY SMT

\* The rest of a sequence after its head.
LEMMA TailElements ==
  ASSUME NEW S, NEW q \in Seq(S), q # <<>>
  PROVE  /\ DOMAIN q = 1 .. Len(q)
         /\ Len(q) \in Nat /\ 1 \in DOMAIN q
         /\ Head(q) = q[1]
         /\ DOMAIN Tail(q) = 1 .. Len(q) - 1
         /\ Len(Tail(q)) = Len(q) - 1
         /\ \A k \in 1 .. Len(q) - 1 : k + 1 \in DOMAIN q /\ Tail(q)[k] = q[k + 1]
BY SMT

\* RouteInv depends on the messages, the calls and these sets.
routeVars == <<pc, arg, given, msgs, accepted, registered>>

\* A step that touches no route keeps RouteInv.
LEMMA RouteUnchanged ==
  ASSUME RouteInv, UNCHANGED routeVars
  PROVE  RouteInv'
BY DEF RouteInv, routeVars, Adding, IsAddRoute

\* Calls that neither begin nor send: a thread may stop adding a route.
LEMMA RouteFewerAdding ==
  ASSUME RouteInv, UNCHANGED <<arg, given, msgs, accepted, registered>>,
         \A t \in Threads : Adding(t)' => Adding(t)
  PROVE  RouteInv'
BY DEF RouteInv, IsAddRoute

\* A step of a proxy call keeps RouteInv.
LEMMA RouteCallStep ==
  ASSUME TypeOK, LockInv, RouteInv, NEW t \in Threads, CallStep(t)
  PROVE  RouteInv'
<1>1. CASE \E r \in Routes : CallAddRoute(t, r)
  <2> PICK r \in Routes : CallAddRoute(t, r)
    BY <1>1
  <2>1. /\ r \notin given /\ given' = given \cup {r} /\ pc[t] = "idle"
        /\ arg' = [arg EXCEPT ![t] = r] /\ pc' = [pc EXCEPT ![t] = "add_lock"]
        /\ UNCHANGED <<msgs, accepted, registered>>
    BY DEF CallAddRoute, MayCall, Goto, commVars, historyVars
  <2>2. \A u \in Threads : u # t => (Adding(u)' <=> Adding(u)) /\ arg'[u] = arg[u]
    BY <2>1 DEF Adding, TypeOK
  <2>3. arg'[t] = r /\ r \notin accepted
    BY <2>1 DEF TypeOK, RouteInv
  <2>4. \A u \in Threads : Adding(u)' => arg'[u] \in given' \ accepted'
    BY SMT, <2>1, <2>2, <2>3 DEF RouteInv
  <2>5. \A u, v \in Threads : Adding(u)' /\ Adding(v)' /\ arg'[u] = arg'[v] => u = v
    BY SMT, <2>1, <2>2, <2>3 DEF RouteInv
  <2> QED BY <2>1, <2>4, <2>5 DEF RouteInv, IsAddRoute
<1>2. CASE AddRouteSend(t)
  <2> DEFINE m == [type |-> "AddRoute", route |-> arg[t]]
  <2>1. /\ pc[t] = "add_msg" /\ pc' = [pc EXCEPT ![t] = "add_wakeup"]
        /\ msgs' = Append(msgs, m) /\ accepted' = accepted \cup {arg[t]}
        /\ UNCHANGED <<arg, given, registered>>
    BY <1>2 DEF AddRouteSend, Goto
  <2>2. Adding(t) /\ arg[t] \in Routes /\ arg[t] \in given \ accepted
    BY <2>1, RouteTypes DEF Adding, RouteInv
  <2>3. m \in RouterMsg /\ IsAddRoute(m) /\ m.route = arg[t] /\ msgs \in Seq(RouterMsg)
    BY <2>2 DEF RouterMsg, IsAddRoute, TypeOK
  <2> HIDE DEF m
  <2>4. /\ DOMAIN msgs' = 1 .. Len(msgs) + 1 /\ DOMAIN msgs = 1 .. Len(msgs) /\ Len(msgs) \in Nat
        /\ msgs'[Len(msgs) + 1] = m
        /\ \A k \in 1 .. Len(msgs) : msgs'[k] = msgs[k]
    BY SMT, <2>1, <2>3, MsgsAppend
  <2>5. ~Adding(t)' /\ \A u \in Threads : Adding(u)' => Adding(u)
    BY <2>1 DEF Adding, TypeOK
  <2>6. \A u \in Threads : Adding(u)' => arg'[u] \in given' \ accepted'
    BY <2>1, <2>2, <2>5 DEF RouteInv
  <2>7. \A k \in DOMAIN msgs' : IsAddRoute(msgs'[k]) => msgs'[k].route \in accepted' \ registered'
    <3> TAKE k \in DOMAIN msgs'
    <3>1. CASE k = Len(msgs) + 1
      BY <2>1, <2>2, <2>3, <2>4, <3>1 DEF RouteInv
    <3>2. CASE k # Len(msgs) + 1
      BY SMT, <2>1, <2>4, <3>2 DEF RouteInv
    <3> QED BY <3>1, <3>2
  <2>8. ASSUME NEW j \in DOMAIN msgs', NEW k \in DOMAIN msgs', IsAddRoute(msgs'[j]),
               IsAddRoute(msgs'[k]), msgs'[j].route = msgs'[k].route
        PROVE  j = k
    <3>1. \A i \in DOMAIN msgs : IsAddRoute(msgs[i]) => msgs[i].route # arg[t]
      BY <2>2 DEF RouteInv
    <3>2. CASE j \in DOMAIN msgs /\ k \in DOMAIN msgs
      BY <2>4, <2>8, <3>2 DEF RouteInv
    <3>3. CASE ~(j \in DOMAIN msgs /\ k \in DOMAIN msgs)
      BY SMT, <2>3, <2>4, <2>8, <3>1, <3>3
    <3> QED BY <3>2, <3>3
  <2>9. registered' \subseteq accepted' /\ accepted' \subseteq given'
    BY <2>1, <2>2 DEF RouteInv
  <2>10. \A u, v \in Threads : Adding(u)' /\ Adding(v)' /\ arg'[u] = arg'[v] => u = v
    BY <2>1, <2>5 DEF RouteInv
  <2> QED BY <2>6, <2>7, <2>8, <2>9, <2>10 DEF RouteInv, IsAddRoute
<1>3. CASE ShutdownSend(t)
  <2> DEFINE m == [type |-> "Shutdown", sender |-> t]
  <2>1. /\ pc[t] = "shutdown_msg" /\ pc' = [pc EXCEPT ![t] = "shutdown_ack"]
        /\ msgs' = Append(msgs, m) /\ UNCHANGED <<arg, given, accepted, registered>>
    BY <1>3 DEF ShutdownSend, Goto, historyVars
  <2>2. m \in RouterMsg /\ ~IsAddRoute(m) /\ msgs \in Seq(RouterMsg)
    BY DEF RouterMsg, IsAddRoute, TypeOK
  <2> HIDE DEF m
  <2>3. /\ DOMAIN msgs' = 1 .. Len(msgs) + 1 /\ DOMAIN msgs = 1 .. Len(msgs) /\ Len(msgs) \in Nat
        /\ msgs'[Len(msgs) + 1] = m
        /\ \A k \in 1 .. Len(msgs) : msgs'[k] = msgs[k]
    BY SMT, <2>1, <2>2, MsgsAppend
  <2>4. \A k \in DOMAIN msgs' : IsAddRoute(msgs'[k]) => k \in DOMAIN msgs /\ msgs'[k] = msgs[k]
    BY SMT, <2>2, <2>3
  <2>5. \A u \in Threads : Adding(u)' => Adding(u)
    BY <2>1 DEF Adding, TypeOK
  <2> QED BY SMT, <2>1, <2>4, <2>5 DEF RouteInv, IsAddRoute
<1>4. CASE CallShutdown(t) \/ (ProxyStep(t) /\ ~AddRouteSend(t) /\ ~ShutdownSend(t))
  <2>1. UNCHANGED <<arg, given, msgs, accepted, registered>>
    BY <1>4 DEF CallShutdown, ProxyStep, AddRouteLock, AddRouteWakeup, ShutdownLock, ShutdownWakeup,
                ShutdownAck, ProxyPanics, commVars, historyVars
  <2>2. \A u \in Threads : Adding(u)' => Adding(u)
    BY <1>4 DEF CallShutdown, ProxyStep, AddRouteLock, AddRouteWakeup, ShutdownLock, ShutdownWakeup,
                ShutdownAck, ProxyPanics, Goto, Adding, TypeOK
  <2> QED BY <2>1, <2>2, RouteFewerAdding
<1> QED BY <1>1, <1>2, <1>3, <1>4 DEF CallStep

\* Messages that are taken from the front.
LEMMA RouteTakes ==
  ASSUME TypeOK, RouteInv, msgs # <<>>, msgs' = Tail(msgs), UNCHANGED <<pc, arg, given, accepted>>,
         registered' = IF IsAddRoute(Head(msgs)) THEN registered \cup {Head(msgs).route} ELSE registered
  PROVE  RouteInv'
<1>1. msgs \in Seq(RouterMsg)
  BY DEF TypeOK
<1>2. /\ Head(msgs) = msgs[1] /\ 1 \in DOMAIN msgs /\ DOMAIN msgs = 1 .. Len(msgs) /\ Len(msgs) \in Nat
      /\ DOMAIN msgs' = 1 .. Len(msgs) - 1
      /\ \A k \in 1 .. Len(msgs) - 1 : k + 1 \in DOMAIN msgs /\ msgs'[k] = msgs[k + 1]
  BY <1>1, TailElements
<1>3. registered' \subseteq accepted'
  BY SMT, <1>2 DEF RouteInv
<1>4. \A k \in DOMAIN msgs' : IsAddRoute(msgs'[k]) => msgs'[k].route \in accepted' \ registered'
  <2> TAKE k \in DOMAIN msgs'
  <2> HAVE IsAddRoute(msgs'[k])
  <2>1. k + 1 \in DOMAIN msgs /\ msgs'[k] = msgs[k + 1] /\ k + 1 # 1
    BY SMT, <1>2
  <2>2. msgs[k + 1].route \in accepted \ registered
    BY <2>1 DEF RouteInv
  <2>3. IsAddRoute(msgs[1]) => msgs[1].route # msgs[k + 1].route
    BY <1>2, <2>1 DEF RouteInv
  <2> QED BY <1>2, <2>1, <2>2, <2>3
<1>5. ASSUME NEW j \in DOMAIN msgs', NEW k \in DOMAIN msgs', IsAddRoute(msgs'[j]),
             IsAddRoute(msgs'[k]), msgs'[j].route = msgs'[k].route
      PROVE  j = k
  <2>1. j + 1 = k + 1
    BY SMT, <1>2, <1>5 DEF RouteInv
  <2> QED BY SMT, <1>2, <2>1
<1> QED BY <1>3, <1>4, <1>5 DEF RouteInv, Adding, IsAddRoute

\* Every step keeps RouteInv.
LEMMA RouteStep == TypeOK /\ LockInv /\ RouteInv /\ [Next]_vars => RouteInv'
<1> SUFFICES ASSUME TypeOK, LockInv, RouteInv, [Next]_vars PROVE RouteInv'
  OBVIOUS
<1>1. CASE \E t \in Threads : CallStep(t)
  BY <1>1, RouteCallStep
<1>2. CASE AddRoute
  BY <1>2, RouteTakes DEF AddRoute, IsAddRoute, proxyVars
<1>3. CASE Shutdown
  BY <1>3, RouteTakes DEF Shutdown, IsAddRoute, proxyVars, historyVars
<1>4. CASE \E how \in {"stopped", "panicked", "aborted"} : Ends(how)
  <2>1. msgs' = <<>> /\ UNCHANGED <<pc, arg, given, accepted, registered>>
    BY <1>4 DEF Ends, proxyVars, historyVars
  <2> QED BY SMT, <2>1 DEF RouteInv, Adding, IsAddRoute
<1>5. CASE Select \/ CallHandler \/ HandlerReturns \/ RemoveHandler \/ BatchDone \/ DropProxy
  BY <1>5, RouteUnchanged, Zenon
  DEF Select, CallHandler, HandlerReturns, RemoveHandler, BatchDone, DropProxy, routeVars, proxyVars,
      commVars, historyVars
<1>6. CASE (\E r \in Routes : SendMessage(r) \/ CloseSenders(r)) \/ UNCHANGED vars
  BY <1>6, RouteUnchanged
  DEF SendMessage, CloseSenders, routeVars, proxyVars, commVars, historyVars, vars
<1> QED BY <1>1, <1>2, <1>3, <1>4, <1>5, <1>6
        DEF Next, CallStep, RouterStep, SelectFails, HandlerPanics, AddRouteFails, RouterPanics

-----------------------------------------------------------------------------
(* The batch *)

batchVars == <<fate, phase, members, handlers, results>>

\* Steps that leave the router alone; the proxy may be dropped.
LEMMA BatchUnchanged ==
  ASSUME BatchInv, UNCHANGED batchVars, dropped => dropped', registered \subseteq registered'
  PROVE  BatchInv'
BY DEF BatchInv, batchVars, Alive

\* A result is dispatched: new routes come in, or its handler goes if its channel is closed.
LEMMA BatchDispatched ==
  ASSUME TypeOK, BatchInv, Alive, phase = "dispatch", results # <<>>, results' = Tail(results),
         phase' # "select", UNCHANGED <<fate, dropped>>,
         NEW new, new \cap registered = {}, "wakeup" \notin new,
         \/ /\ members' = members \cup new
            /\ handlers' = handlers \cup new
            /\ registered' = registered \cup new
         \/ /\ Head(results).type = "ChannelClosed"
            /\ Head(results).id # "wakeup"
            /\ handlers' = handlers \ {Head(results).id}
            /\ UNCHANGED <<members, registered>>
  PROVE  BatchInv'
<1>1. /\ Head(results) = results[1] /\ 1 \in DOMAIN results
      /\ DOMAIN results = 1 .. Len(results) /\ Len(results) \in Nat
      /\ DOMAIN results' = 1 .. Len(results) - 1
      /\ \A k \in 1 .. Len(results) - 1 : k + 1 \in DOMAIN results /\ results'[k] = results[k + 1]
  BY TailElements DEF TypeOK
<1>2. /\ members \ {"wakeup"} \subseteq handlers
      /\ handlers \subseteq registered
      /\ \A k \in DOMAIN results :
           /\ results[k].id # "wakeup" => results[k].id \in handlers
           /\ results[k].type = "ChannelClosed" => results[k].id \notin members
           /\ results[k].type = "ChannelClosed" /\ results[k].id = "wakeup" => dropped
      /\ \A j, k \in DOMAIN results : results[j].id = results[k].id => j = k
  BY DEF BatchInv
<1>3. members' \ {"wakeup"} \subseteq handlers' /\ handlers' \subseteq registered'
  BY SMT, <1>1, <1>2
<1>4. ASSUME NEW k \in DOMAIN results'
      PROVE  /\ results'[k].id # "wakeup" => results'[k].id \in handlers'
             /\ results'[k].type = "ChannelClosed" => results'[k].id \notin members'
             /\ results'[k].type = "ChannelClosed" /\ results'[k].id = "wakeup" => dropped'
  <2>1. k + 1 \in DOMAIN results /\ results'[k] = results[k + 1] /\ k + 1 # 1
    BY SMT, <1>1
  <2>2. results[k + 1].id # results[1].id
    BY <1>1, <1>2, <2>1
  <2>3. results[k + 1].id \notin new
    BY <1>2, <2>1
  <2> QED BY <1>1, <1>2, <2>1, <2>2, <2>3
<1>5. ASSUME NEW j \in DOMAIN results', NEW k \in DOMAIN results', results'[j].id = results'[k].id
      PROVE  j = k
  <2>1. j + 1 = k + 1
    BY SMT, <1>1, <1>2, <1>5
  <2> QED BY SMT, <1>1, <2>1
<1> QED BY <1>3, <1>4, <1>5 DEF BatchInv, Alive

\* A new batch satisfies BatchInv.
LEMMA BatchSelect ==
  ASSUME TypeOK, BatchInv, Select
  PROVE  BatchInv'
<1> PICK S \in Polled :
      /\ \E order \in Orders(S) : results' = [i \in DOMAIN order |-> Result(order[i])]
      /\ members' = members \ {c \in S : AtEnd(c)}
  BY DEF Select
<1> PICK order \in Orders(S) : results' = [i \in DOMAIN order |-> Result(order[i])]
  OBVIOUS
<1>1. /\ S \subseteq members
      /\ \A i \in DOMAIN results' :
           order[i] \in S /\ results'[i] = Result(order[i]) /\ results'[i].id = order[i]
      /\ \A i, j \in DOMAIN results' : results'[i].id = results'[j].id => i = j
  BY SMT, BatchOf DEF Ready
<1>2. Alive /\ phase' = "dispatch" /\ UNCHANGED <<fate, handlers, registered, dropped>>
  BY DEF Select, proxyVars, historyVars
<1>3. \A i \in DOMAIN results' : results'[i].type = "ChannelClosed" => AtEnd(order[i])
  BY <1>1 DEF Result
<1>4. AtEnd("wakeup") => dropped
  BY DEF AtEnd
<1> QED BY SMT, <1>1, <1>2, <1>3, <1>4 DEF BatchInv, Alive

\* Every step keeps BatchInv.
LEMMA BatchStep == TypeOK /\ RouteInv /\ BatchInv /\ [Next]_vars => BatchInv'
<1> SUFFICES ASSUME TypeOK, RouteInv, BatchInv, [Next]_vars PROVE BatchInv'
  OBVIOUS
<1>1. CASE \E t \in Threads : CallStep(t)
  BY SMT, <1>1, BatchUnchanged
  DEF CallStep, ProxyStep, CallAddRoute, CallShutdown, AddRouteLock, AddRouteSend, AddRouteWakeup,
      ShutdownLock, ShutdownWakeup, ShutdownSend, ShutdownAck, ProxyPanics, routerVars, batchVars,
      historyVars
<1>2. CASE DropProxy \/ (\E r \in Routes : SendMessage(r) \/ CloseSenders(r)) \/ UNCHANGED vars
  BY SMT, <1>2, BatchUnchanged
  DEF DropProxy, SendMessage, CloseSenders, vars, proxyVars, routerVars, batchVars, historyVars
<1>3. CASE Select
  BY <1>3, BatchSelect
<1>4. CASE AddRoute
  <2> DEFINE new == {Head(msgs).route}
  <2>1. new \cap registered = {} /\ new \subseteq Routes
    <3>1. msgs # <<>> /\ IsAddRoute(Head(msgs))
      BY <1>4 DEF AddRoute, IsAddRoute
    <3>2. Head(msgs) = msgs[1] /\ 1 \in DOMAIN msgs
      BY <3>1, TailElements, Zenon DEF TypeOK
    <3>3. Head(msgs).route \in Routes
      BY <3>1, RouteTypes, ZenonT(30)
    <3>4. Head(msgs).route \notin registered
      BY <3>1, <3>2 DEF RouteInv
    <3> QED BY <3>3, <3>4
  <2>2. "wakeup" \notin new
    BY <2>1, NamesDiffer
  <2> HIDE DEF new
  <2>3. /\ Alive /\ phase = "dispatch" /\ results # <<>> /\ results' = Tail(results)
        /\ phase' # "select" /\ UNCHANGED <<fate, dropped>>
        /\ members' = members \cup new
        /\ handlers' = handlers \cup new
        /\ registered' = registered \cup new
    BY <1>4, ZenonT(60) DEF AddRoute, Dispatching, Dispatched, proxyVars, new
  <2> QED BY <2>1, <2>2, <2>3, BatchDispatched, ZenonT(60)
<1>5. CASE CallHandler \/ RemoveHandler
  <2> DEFINE new == {}
  <2>1. /\ Alive /\ phase = "dispatch" /\ results # <<>> /\ results' = Tail(results)
        /\ phase' # "select" /\ UNCHANGED <<fate, dropped, members, registered>>
        /\ \/ handlers' = handlers
           \/ /\ Head(results).type = "ChannelClosed"
              /\ Head(results).id # "wakeup"
              /\ handlers' = handlers \ {Head(results).id}
    BY <1>5, Zenon DEF CallHandler, RemoveHandler, Dispatching, Dispatched, proxyVars, historyVars
  <2>2. /\ new \cap registered = {} /\ "wakeup" \notin new
        /\ members' = members \cup new /\ registered' = registered \cup new
        /\ handlers' = handlers => handlers' = handlers \cup new
    BY <2>1
  <2> HIDE DEF new
  <2> QED BY <2>1, <2>2, BatchDispatched, ZenonT(60)
<1>6. CASE Shutdown
  <2>1. /\ results' = <<>> /\ members' = members /\ handlers' = handlers /\ registered' = registered
        /\ Alive' = Alive
    BY <1>6 DEF Shutdown, Alive, proxyVars, historyVars
  <2>2. DOMAIN results' = {}
    BY SMT, <2>1
  <2>3. QED
    BY <2>1, <2>2 DEF BatchInv
<1>7. CASE HandlerReturns \/ BatchDone
  BY SMT, <1>7 DEF HandlerReturns, BatchDone, BatchInv, Alive, proxyVars, historyVars
<1>8. CASE \E how \in {"stopped", "panicked", "aborted"} : Ends(how)
  BY <1>8 DEF Ends, BatchInv, Alive
<1> QED BY <1>1, <1>2, <1>3, <1>4, <1>5, <1>6, <1>7, <1>8
        DEF Next, CallStep, RouterStep, SelectFails, HandlerPanics, AddRouteFails, RouterPanics

-----------------------------------------------------------------------------
(* Wakeups and messages *)

\* Only the holder of the lock is at a critical step.
LEMMA AtMoves ==
  ASSUME TypeOK, LockInv, NEW t \in Threads, pc' = [pc EXCEPT ![t] = pc'[t]], NEW label \in Critical
  PROVE  /\ pc[t] # label /\ pc'[t] # label => At(label, pc') = At(label, pc)
         /\ pc[t] = label /\ pc'[t] # label => At(label, pc) = 1 /\ At(label, pc') = 0
         /\ pc[t] \in Critical /\ pc[t] # label => At(label, pc) = 0
         /\ pc'[t] = label => At(label, pc') = 1
<1>1. DOMAIN pc = Threads /\ \A u \in Threads : u # t => pc'[u] = pc[u]
  BY DEF TypeOK
<1>2. pc[t] \in Critical => \A u \in Threads : u # t => pc[u] # label
  BY DEF LockInv
<1> QED BY <1>1, <1>2 DEF At

\* Dispatching a result takes the wakeup from the batch, or leaves it there.
LEMMA WokenTail ==
  ASSUME TypeOK, BatchInv, Alive, results # <<>>
  PROVE  /\ IsWakeup(Head(results)) => Woken(results) = 1 /\ Woken(Tail(results)) = 0
         /\ ~IsWakeup(Head(results)) => Woken(Tail(results)) = Woken(results)
<1>1. /\ Head(results) = results[1] /\ 1 \in DOMAIN results
      /\ DOMAIN results = 1 .. Len(results) /\ Len(results) \in Nat
      /\ DOMAIN Tail(results) = 1 .. Len(results) - 1
      /\ \A k \in 1 .. Len(results) - 1 :
           k + 1 \in DOMAIN results /\ Tail(results)[k] = results[k + 1]
  BY TailElements DEF TypeOK
<1>2. \A j, k \in DOMAIN results : results[j].id = results[k].id => j = k
  BY DEF BatchInv
<1>3. CASE IsWakeup(Head(results))
  <2>1. \A k \in DOMAIN Tail(results) : ~IsWakeup(Tail(results)[k])
    BY SMT, <1>1, <1>2, <1>3 DEF IsWakeup
  <2> QED BY <1>1, <1>3, <2>1 DEF Woken
<1>4. CASE ~IsWakeup(Head(results))
  <2>1. ASSUME NEW k \in DOMAIN results, IsWakeup(results[k])
        PROVE  \E i \in DOMAIN Tail(results) : IsWakeup(Tail(results)[i])
    <3>1. k - 1 \in 1 .. Len(results) - 1 /\ Tail(results)[k - 1] = results[k]
      BY SMT, <1>1, <1>4, <2>1
    <3> QED BY <1>1, <2>1, <3>1
  <2>2. ASSUME NEW k \in DOMAIN Tail(results), IsWakeup(Tail(results)[k])
        PROVE  \E i \in DOMAIN results : IsWakeup(results[i])
    BY <1>1, <2>2
  <2> QED BY <1>4, <2>1, <2>2 DEF Woken
<1> QED BY <1>3, <1>4

\* select() takes as many wakeups from the channel as it puts into the batch.
LEMMA WokenSelect ==
  ASSUME TypeOK, BatchInv, Select
  PROVE  wakeups' + Woken(results') = wakeups + Woken(results)
<1> PICK S \in Polled :
      /\ \E order \in Orders(S) : results' = [i \in DOMAIN order |-> Result(order[i])]
      /\ wakeups' = IF "wakeup" \in S /\ Pending("wakeup") THEN wakeups - 1 ELSE wakeups
  BY DEF Select
<1> PICK order \in Orders(S) : results' = [i \in DOMAIN order |-> Result(order[i])]
  OBVIOUS
<1>1. /\ \A i \in DOMAIN results' :
           order[i] \in S /\ results'[i] = Result(order[i]) /\ results'[i].id = order[i]
      /\ \A c \in S : \E i \in DOMAIN results' : results'[i] = Result(c)
      /\ S \subseteq Ready
  BY SMT, BatchOf
<1>2. Woken(results) = 0
  BY SMT DEF Select, BatchInv, Woken
<1>3. IsWakeup(Result("wakeup")) <=> ~AtEnd("wakeup")
  BY DEF IsWakeup, Result
<1>4. "wakeup" \in S => (Pending("wakeup") <=> ~AtEnd("wakeup"))
  BY <1>1 DEF Ready, AtEnd
<1>5. CASE "wakeup" \in S /\ Pending("wakeup")
  <2>1. Woken(results') = 1
    BY <1>1, <1>3, <1>4, <1>5 DEF Woken
  <2> QED BY SMT, <1>2, <1>5, <2>1 DEF TypeOK
<1>6. CASE ~("wakeup" \in S /\ Pending("wakeup"))
  <2>1. \A i \in DOMAIN results' : ~IsWakeup(results'[i])
    <3> TAKE i \in DOMAIN results'
    <3>1. CASE order[i] = "wakeup"
      BY <1>1, <1>3, <1>4, <1>6, <3>1
    <3>2. CASE order[i] # "wakeup"
      BY <1>1, <3>2 DEF IsWakeup
    <3> QED BY <3>1, <3>2
  <2> QED BY <1>2, <1>6, <2>1 DEF Woken
<1> QED BY <1>5, <1>6

\* A step of a proxy call keeps wakeups and messages balanced.
LEMMA BalancedCallStep ==
  ASSUME TypeOK, LockInv, RouteInv, Balanced, NEW t \in Threads, CallStep(t)
  PROVE  Balanced'
<1> SUFFICES ASSUME Alive, UNCHANGED <<fate, results>>
             PROVE  wakeups' + Woken(results) + At("add_wakeup", pc')
                      = Len(msgs') + At("shutdown_msg", pc')
  <2>1. UNCHANGED <<fate, results>>
    BY DEF CallStep, ProxyStep, CallAddRoute, CallShutdown, AddRouteLock, AddRouteSend,
           AddRouteWakeup, ShutdownLock, ShutdownWakeup, ShutdownSend, ShutdownAck, ProxyPanics,
           routerVars
  <2> QED BY <2>1 DEF Balanced, Alive
<1> DEFINE w == Woken(results)
           a == At("add_wakeup", pc)
           a1 == At("add_wakeup", pc')
           s == At("shutdown_msg", pc)
           s1 == At("shutdown_msg", pc')
<1>1. /\ wakeups \in Nat /\ w \in Nat /\ a \in Nat /\ a1 \in Nat /\ s \in Nat /\ s1 \in Nat
      /\ msgs \in Seq(RouterMsg) /\ Len(msgs) \in Nat
  BY SMT DEF TypeOK, Woken, At
<1>2. wakeups + w + a = Len(msgs) + s
  BY DEF Balanced
<1>3. pc' = [pc EXCEPT ![t] = pc'[t]]
  BY CallMoves
<1>4. /\ pc[t] # "add_wakeup" /\ pc'[t] # "add_wakeup" => a1 = a
      /\ pc[t] = "add_wakeup" /\ pc'[t] # "add_wakeup" => a = 1 /\ a1 = 0
      /\ pc[t] = "add_msg" => a = 0
      /\ pc'[t] = "add_wakeup" => a1 = 1
  BY <1>3, AtMoves DEF Critical
<1>5. /\ pc[t] # "shutdown_msg" /\ pc'[t] # "shutdown_msg" => s1 = s
      /\ pc[t] = "shutdown_msg" /\ pc'[t] # "shutdown_msg" => s = 1 /\ s1 = 0
      /\ pc[t] = "shutdown_wakeup" => s = 0
      /\ pc'[t] = "shutdown_msg" => s1 = 1
  BY <1>3, AtMoves DEF Critical
<1>6. DOMAIN pc = Threads
  BY DEF TypeOK
<1> HIDE DEF w, a, a1, s, s1
<1>7. CASE AddRouteSend(t)
  <2>1. arg[t] \in Routes
    BY <1>7, RouteTypes DEF AddRouteSend, Adding
  <2>2. Len(msgs') = Len(msgs) + 1
    BY SMT, <1>1, <1>7, <2>1 DEF AddRouteSend, RouterMsg
  <2>3. pc[t] = "add_msg" /\ pc'[t] = "add_wakeup" /\ wakeups' = wakeups
    BY <1>6, <1>7 DEF AddRouteSend, Goto
  <2>4. wakeups' + w + a1 = Len(msgs') + s1
    BY SMT, <1>1, <1>2, <1>4, <1>5, <2>2, <2>3
  <2> QED BY <2>4 DEF w, a1, s1
<1>8. CASE AddRouteWakeup(t)
  <2>1. pc[t] = "add_wakeup" /\ pc'[t] = "idle" /\ wakeups' = wakeups + 1 /\ msgs' = msgs
    BY <1>6, <1>8 DEF AddRouteWakeup, Wakeup, Goto
  <2>2. wakeups' + w + a1 = Len(msgs') + s1
    BY SMT, <1>1, <1>2, <1>4, <1>5, <2>1
  <2> QED BY <2>2 DEF w, a1, s1
<1>9. CASE ShutdownWakeup(t)
  <2>1. pc[t] = "shutdown_wakeup" /\ pc'[t] = "shutdown_msg" /\ wakeups' = wakeups + 1 /\ msgs' = msgs
    BY <1>6, <1>9 DEF ShutdownWakeup, Wakeup, Goto
  <2>2. wakeups' + w + a1 = Len(msgs') + s1
    BY SMT, <1>1, <1>2, <1>4, <1>5, <2>1
  <2> QED BY <2>2 DEF w, a1, s1
<1>10. CASE ShutdownSend(t)
  <2>1. Len(msgs') = Len(msgs) + 1
    BY SMT, <1>1, <1>10 DEF ShutdownSend, RouterMsg
  <2>2. pc[t] = "shutdown_msg" /\ pc'[t] = "shutdown_ack" /\ wakeups' = wakeups
    BY <1>6, <1>10 DEF ShutdownSend, Goto
  <2>3. wakeups' + w + a1 = Len(msgs') + s1
    BY SMT, <1>1, <1>2, <1>4, <1>5, <2>1, <2>2
  <2> QED BY <2>3 DEF w, a1, s1
<1>11. CASE \/ \E r \in Routes : CallAddRoute(t, r)
            \/ CallShutdown(t) \/ AddRouteLock(t) \/ ShutdownLock(t) \/ ShutdownAck(t)
            \/ ProxyPanics(t)
  <2>1. /\ pc[t] \notin {"add_wakeup", "shutdown_msg"} /\ pc'[t] \notin {"add_wakeup", "shutdown_msg"}
        /\ UNCHANGED <<msgs, wakeups>>
    BY <1>6, <1>11, SMTT(30)
    DEF CallAddRoute, CallShutdown, MayCall, AddRouteLock, ShutdownLock, ShutdownAck, ProxyPanics,
        Goto, Alive, commVars
  <2>2. wakeups' + w + a1 = Len(msgs') + s1
    BY <1>1, <1>2, <1>4, <1>5, <2>1
  <2> QED BY <2>2 DEF w, a1, s1
<1> QED BY <1>7, <1>8, <1>9, <1>10, <1>11 DEF CallStep, ProxyStep

\* Every step keeps wakeups and messages balanced.
LEMMA BalancedStep ==
  TypeOK /\ LockInv /\ RouteInv /\ BatchInv /\ Balanced /\ [Next]_vars => Balanced'
<1> SUFFICES ASSUME TypeOK, LockInv, RouteInv, BatchInv, Balanced, [Next]_vars PROVE Balanced'
  OBVIOUS
<1>1. CASE \E t \in Threads : CallStep(t)
  BY <1>1, BalancedCallStep
<1>2. CASE Select
  <2>1. wakeups' + Woken(results') = wakeups + Woken(results)
    BY <1>2, WokenSelect
  <2>2. Alive /\ UNCHANGED <<msgs, pc>>
    BY <1>2 DEF Select, proxyVars
  <2> QED BY <2>1, <2>2 DEF Balanced
<1>3. CASE AddRoute \/ Shutdown
  <2>1. /\ Alive /\ results # <<>> /\ msgs # <<>> /\ IsWakeup(Head(results))
        /\ msgs' = Tail(msgs) /\ results' \in {Tail(results), <<>>} /\ UNCHANGED <<pc, wakeups>>
    BY <1>3 DEF AddRoute, Shutdown, Dispatching, Dispatched, IsWakeup, proxyVars
  <2>2. Woken(results) = 1 /\ Woken(results') = 0
    BY SMT, <2>1, WokenTail DEF Woken
  <2>3. Len(msgs') = Len(msgs) - 1 /\ Len(msgs) \in Nat
    BY <2>1, TailElements DEF TypeOK
  <2>4. At("add_wakeup", pc) \in Nat /\ At("shutdown_msg", pc) \in Nat /\ wakeups \in Nat
    BY SMT DEF At, TypeOK
  <2> QED BY SMT, <2>1, <2>2, <2>3, <2>4 DEF Balanced
<1>4. CASE CallHandler \/ RemoveHandler
  <2>1. /\ Alive /\ results # <<>> /\ ~IsWakeup(Head(results))
        /\ results' = Tail(results) /\ UNCHANGED <<pc, wakeups, msgs>>
    BY <1>4 DEF CallHandler, RemoveHandler, Dispatching, Dispatched, IsWakeup, proxyVars, commVars
  <2> QED BY <2>1, WokenTail DEF Balanced
<1>5. CASE HandlerReturns \/ BatchDone \/ DropProxy
  BY <1>5 DEF HandlerReturns, BatchDone, DropProxy, Balanced, Alive, proxyVars, commVars, routerVars
<1>6. CASE (\E r \in Routes : SendMessage(r) \/ CloseSenders(r)) \/ UNCHANGED vars
  BY <1>6 DEF SendMessage, CloseSenders, vars, Balanced, Alive, proxyVars, commVars, routerVars
<1>7. CASE \E how \in {"stopped", "panicked", "aborted"} : Ends(how)
  BY <1>7 DEF Ends, Balanced, Alive
<1> QED BY <1>1, <1>2, <1>3, <1>4, <1>5, <1>6, <1>7
        DEF Next, CallStep, RouterStep, SelectFails, HandlerPanics, AddRouteFails, RouterPanics

-----------------------------------------------------------------------------
(* Shutdown *)

\* What is accepted and not registered is in the messages.
Queued(r) == \E k \in DOMAIN msgs : IsAddRoute(msgs[k]) /\ msgs[k].route = r

\* A call that moves without a message: it comes to no step where it would send one
\* after the shutdown, or from nowhere.
LEMMA ShutdownMoves ==
  ASSUME ShutdownInv, UNCHANGED <<shutdown, msgs, acks, fate, accepted, registered>>,
         \A u \in Threads :
           /\ pc'[u] \in {"add_msg", "add_wakeup"} => pc[u] = pc'[u] \/ ~shutdown
           /\ pc'[u] \in {"shutdown_wakeup", "shutdown_msg"} =>
                pc[u] \in {"shutdown_wakeup", "shutdown_msg"}
           /\ pc'[u] = "shutdown_ack" => pc[u] = "shutdown_ack"
  PROVE  ShutdownInv'
<1>1. shutdown' => \A t \in Threads : pc'[t] \notin {"add_msg", "add_wakeup"}
  BY DEF ShutdownInv
<1>2. (\A t \in Threads : pc[t] \notin {"shutdown_wakeup", "shutdown_msg"}) =>
        \A t \in Threads : pc'[t] \notin {"shutdown_wakeup", "shutdown_msg"}
  OBVIOUS
<1>3. ~shutdown => \A t \in Threads : pc'[t] \notin {"shutdown_wakeup", "shutdown_msg", "shutdown_ack"}
  BY DEF ShutdownInv
<1> QED BY <1>1, <1>2, <1>3, Zenon DEF ShutdownInv, ShutdownIsLast, IsAddRoute, Alive

\* A step of a proxy call keeps ShutdownInv.
LEMMA ShutdownCallStep ==
  ASSUME TypeOK, LockInv, RouteInv, ShutdownInv, NEW t \in Threads, CallStep(t)
  PROVE  ShutdownInv'
<1>1. CASE AddRouteSend(t)
  <2> DEFINE m == [type |-> "AddRoute", route |-> arg[t]]
  <2>1. /\ pc[t] = "add_msg" /\ pc' = [pc EXCEPT ![t] = "add_wakeup"] /\ Alive
        /\ msgs' = Append(msgs, m) /\ accepted' = accepted \cup {arg[t]}
        /\ UNCHANGED <<shutdown, acks, fate, registered>>
    BY <1>1 DEF AddRouteSend, Goto, routerVars
  <2>2. arg[t] \in Routes
    BY <2>1, RouteTypes, ZenonT(60) DEF Adding
  <2>3. m \in RouterMsg /\ IsAddRoute(m) /\ m.route = arg[t] /\ msgs \in Seq(RouterMsg)
    <3>1. m \in RouterMsg /\ m.type = "AddRoute" /\ m.route = arg[t]
      BY <2>2 DEF RouterMsg
    <3> QED BY <3>1, ZenonT(30) DEF IsAddRoute, TypeOK
  <2> HIDE DEF m
  <2>4. /\ DOMAIN msgs' = 1 .. Len(msgs) + 1 /\ DOMAIN msgs = 1 .. Len(msgs) /\ Len(msgs) \in Nat
        /\ msgs'[Len(msgs) + 1] = m
        /\ \A k \in 1 .. Len(msgs) : msgs'[k] = msgs[k]
    <3>1. msgs' = Append(msgs, m)
      BY <2>1, Zenon
    <3>2. Len(msgs) \in Nat
      BY <2>3, LenProperties, Zenon
    <3> QED BY <2>3, <3>1, <3>2, MsgsAppend, Zenon
  <2>5. ~shutdown /\ acks = {} /\ \A k \in DOMAIN msgs : IsAddRoute(msgs[k])
    BY <2>1, Zenon DEF ShutdownInv
  <2>6. \A k \in DOMAIN msgs' : IsAddRoute(msgs'[k])
    BY SMT, <2>3, <2>4, <2>5
  <2>7. \A u \in Threads : pc'[u] \notin {"shutdown_wakeup", "shutdown_msg", "shutdown_ack"}
    BY <2>1, <2>5, Zenon DEF ShutdownInv, TypeOK
  <2>8. ASSUME NEW r \in accepted' \ registered' PROVE Queued(r)'
    <3>1. CASE r = arg[t]
      <4>1. Len(msgs) + 1 \in DOMAIN msgs' /\ msgs'[Len(msgs) + 1].route = r
        BY SMT, <2>3, <2>4, <3>1
      <4> QED BY <2>6, <4>1 DEF Queued, IsAddRoute
    <3>2. CASE r # arg[t]
      <4>1. PICK k \in DOMAIN msgs : IsAddRoute(msgs[k]) /\ msgs[k].route = r
        BY <2>1, <3>2 DEF ShutdownInv
      <4>2. k \in DOMAIN msgs' /\ msgs'[k] = msgs[k]
        BY SMT, <2>4
      <4> QED BY <4>1, <4>2 DEF Queued, IsAddRoute
    <3> QED BY <3>1, <3>2
  <2> QED BY <2>1, <2>5, <2>6, <2>7, <2>8 DEF ShutdownInv, ShutdownIsLast, Queued, IsAddRoute
<1>2. CASE ShutdownSend(t)
  <2> DEFINE m == [type |-> "Shutdown", sender |-> t]
  <2>1. /\ pc[t] = "shutdown_msg" /\ pc' = [pc EXCEPT ![t] = "shutdown_ack"] /\ Alive
        /\ msgs' = Append(msgs, m) /\ UNCHANGED <<shutdown, acks, fate, accepted, registered>>
    BY <1>2 DEF ShutdownSend, Goto, routerVars, historyVars
  <2>2. m \in RouterMsg /\ ~IsAddRoute(m) /\ msgs \in Seq(RouterMsg)
    BY DEF RouterMsg, IsAddRoute, TypeOK
  <2> HIDE DEF m
  <2>3. /\ DOMAIN msgs' = 1 .. Len(msgs) + 1 /\ DOMAIN msgs = 1 .. Len(msgs) /\ Len(msgs) \in Nat
        /\ Len(msgs') = Len(msgs) + 1
        /\ msgs'[Len(msgs) + 1] = m
        /\ \A k \in 1 .. Len(msgs) : msgs'[k] = msgs[k]
    <3>1. msgs' = Append(msgs, m)
      BY <2>1, Zenon
    <3>2. Len(msgs) \in Nat
      BY <2>2, LenProperties, Zenon
    <3> QED BY <2>2, <3>1, <3>2, MsgsAppend, Zenon
  <2>4. shutdown /\ acks = {} /\ \A k \in DOMAIN msgs : IsAddRoute(msgs[k])
    BY <2>1 DEF ShutdownInv
  <2>5. \A u \in Threads : pc'[u] \notin {"add_msg", "add_wakeup", "shutdown_wakeup", "shutdown_msg"}
    BY <2>1 DEF LockInv, Critical, TypeOK
  <2>6. \A k \in DOMAIN msgs' : ~IsAddRoute(msgs'[k]) => k = Len(msgs')
    BY SMT, <2>3, <2>4
  <2>7. ASSUME NEW r \in accepted' \ registered' PROVE Queued(r)'
    <3>1. PICK k \in DOMAIN msgs : IsAddRoute(msgs[k]) /\ msgs[k].route = r
      BY <2>1 DEF ShutdownInv
    <3>2. k \in DOMAIN msgs' /\ msgs'[k] = msgs[k]
      BY SMT, <2>3
    <3> QED BY <3>1, <3>2 DEF Queued, IsAddRoute
  <2> QED BY SMT, <2>1, <2>4, <2>5, <2>6, <2>7 DEF ShutdownInv, ShutdownIsLast, Queued, IsAddRoute
<1>3. CASE ShutdownLock(t)
  <2>1. /\ lock = "free" /\ shutdown' /\ UNCHANGED <<msgs, acks, fate, accepted, registered>>
        /\ IF shutdown THEN pc' = [pc EXCEPT ![t] = "idle"]
                       ELSE pc' = [pc EXCEPT ![t] = "shutdown_wakeup"]
    BY <1>3 DEF ShutdownLock, Goto, commVars, routerVars, historyVars
  <2>2. \A u \in Threads : pc[u] \notin Critical
    BY <2>1, NamesDiffer DEF LockInv
  <2>3. \A u \in Threads : pc'[u] \notin {"add_msg", "add_wakeup"}
    BY <2>1, <2>2 DEF Critical, TypeOK
  <2>4. CASE shutdown
    <3>1. \A u \in Threads : pc'[u] \notin {"shutdown_wakeup", "shutdown_msg"}
      BY <2>1, <2>2, <2>4 DEF Critical, TypeOK
    <3> QED BY <2>1, <2>3, <2>4, <3>1 DEF ShutdownInv, ShutdownIsLast, IsAddRoute, Alive
  <2>5. CASE ~shutdown
    BY <2>1, <2>3, <2>5 DEF ShutdownInv, ShutdownIsLast, IsAddRoute, Alive
  <2> QED BY <2>4, <2>5
<1>4. CASE AddRouteLock(t)
  <2>1. /\ UNCHANGED <<shutdown, msgs, acks, fate, accepted, registered>>
        /\ IF shutdown THEN pc' = [pc EXCEPT ![t] = "idle"] ELSE pc' = [pc EXCEPT ![t] = "add_msg"]
    BY <1>4 DEF AddRouteLock, Goto, commVars, routerVars, historyVars
  <2>2. \A u \in Threads :
          /\ pc'[u] \in {"add_msg", "add_wakeup"} => pc[u] = pc'[u] \/ ~shutdown
          /\ pc'[u] \in {"shutdown_wakeup", "shutdown_msg"} =>
               pc[u] \in {"shutdown_wakeup", "shutdown_msg"}
          /\ pc'[u] = "shutdown_ack" => pc[u] = "shutdown_ack"
    BY <2>1 DEF TypeOK
  <2> QED BY <2>1, <2>2, ShutdownMoves
<1>5. CASE ShutdownWakeup(t)
  <2>1. /\ UNCHANGED <<shutdown, msgs, acks, fate, accepted, registered>>
        /\ pc[t] = "shutdown_wakeup" /\ pc' = [pc EXCEPT ![t] = "shutdown_msg"]
    BY <1>5 DEF ShutdownWakeup, Goto, routerVars, historyVars
  <2>2. \A u \in Threads :
          /\ pc'[u] \in {"add_msg", "add_wakeup"} => pc[u] = pc'[u] \/ ~shutdown
          /\ pc'[u] \in {"shutdown_wakeup", "shutdown_msg"} =>
               pc[u] \in {"shutdown_wakeup", "shutdown_msg"}
          /\ pc'[u] = "shutdown_ack" => pc[u] = "shutdown_ack"
    BY <2>1 DEF TypeOK
  <2> QED BY <2>1, <2>2, ShutdownMoves
<1>6. CASE \/ \E r \in Routes : CallAddRoute(t, r)
           \/ CallShutdown(t) \/ AddRouteWakeup(t) \/ ShutdownAck(t) \/ ProxyPanics(t)
  <2>1. /\ UNCHANGED <<shutdown, msgs, acks, fate, accepted, registered>>
        /\ \E label \in {"add_lock", "shutdown_lock", "idle", "panicked"} :
             pc' = [pc EXCEPT ![t] = label]
    BY <1>6 DEF CallAddRoute, CallShutdown, AddRouteWakeup, ShutdownAck, ProxyPanics, Goto, commVars,
                routerVars, historyVars
  <2>2. \A u \in Threads :
          /\ pc'[u] \in {"add_msg", "add_wakeup"} => pc[u] = pc'[u] \/ ~shutdown
          /\ pc'[u] \in {"shutdown_wakeup", "shutdown_msg"} =>
               pc[u] \in {"shutdown_wakeup", "shutdown_msg"}
          /\ pc'[u] = "shutdown_ack" => pc[u] = "shutdown_ack"
    BY <2>1 DEF TypeOK
  <2> QED BY <2>1, <2>2, ShutdownMoves
<1> QED BY <1>1, <1>2, <1>3, <1>4, <1>5, <1>6 DEF CallStep, ProxyStep

\* Steps that leave all of this alone; the router may end.
LEMMA ShutdownUnchanged ==
  ASSUME ShutdownInv, UNCHANGED <<pc, shutdown, acks, accepted, registered>>,
         (msgs' = <<>> /\ ~Alive') \/ UNCHANGED <<msgs, fate>>
  PROVE  ShutdownInv'
<1>1. CASE msgs' = <<>> /\ ~Alive'
  BY SMT, <1>1 DEF ShutdownInv, ShutdownIsLast, IsAddRoute
<1>2. CASE UNCHANGED <<msgs, fate>>
  BY <1>2 DEF ShutdownInv, ShutdownIsLast, IsAddRoute, Alive
<1> QED BY <1>1, <1>2

\* The router takes messages and keeps ShutdownInv.
LEMMA ShutdownTakes ==
  ASSUME TypeOK, RouteInv, ShutdownInv, AddRoute \/ Shutdown
  PROVE  ShutdownInv'
<1>1. /\ Alive /\ msgs # <<>> /\ msgs' = Tail(msgs)
      /\ UNCHANGED <<pc, shutdown, accepted, fate>> /\ msgs \in Seq(RouterMsg)
  BY DEF AddRoute, Shutdown, Dispatching, proxyVars, historyVars, TypeOK
<1>2. /\ Head(msgs) = msgs[1] /\ 1 \in DOMAIN msgs /\ DOMAIN msgs = 1 .. Len(msgs) /\ Len(msgs) \in Nat
      /\ DOMAIN msgs' = 1 .. Len(msgs) - 1 /\ Len(msgs') = Len(msgs) - 1
      /\ \A k \in 1 .. Len(msgs) - 1 : k + 1 \in DOMAIN msgs /\ msgs'[k] = msgs[k + 1]
  BY <1>1, TailElements
<1>3. \A k \in DOMAIN msgs' : ~IsAddRoute(msgs'[k]) =>
        /\ k = Len(msgs')
        /\ \A t \in Threads : pc'[t] \notin {"shutdown_wakeup", "shutdown_msg"}
  <2> TAKE k \in DOMAIN msgs'
  <2> HAVE ~IsAddRoute(msgs'[k])
  <2>1. k + 1 \in DOMAIN msgs /\ ~IsAddRoute(msgs[k + 1]) /\ k \in Nat
    BY SMT, <1>2
  <2>2. k + 1 = Len(msgs) /\ \A t \in Threads : pc[t] \notin {"shutdown_wakeup", "shutdown_msg"}
    BY <2>1 DEF ShutdownInv
  <2> QED BY SMT, <1>1, <1>2, <2>1, <2>2
<1>4. ~shutdown => \A k \in DOMAIN msgs' : IsAddRoute(msgs'[k])
  BY <1>2 DEF ShutdownInv
<1>5. CASE AddRoute
  <2>1. /\ IsAddRoute(Head(msgs)) /\ registered' = registered \cup {Head(msgs).route}
        /\ UNCHANGED acks
    BY <1>5 DEF AddRoute, IsAddRoute
  <2>2. ASSUME NEW r \in accepted' \ registered' PROVE Queued(r)'
    <3>1. PICK k \in DOMAIN msgs : IsAddRoute(msgs[k]) /\ msgs[k].route = r
      BY <1>1, <2>1 DEF ShutdownInv
    <3>2. k # 1
      BY <1>2, <2>1, <3>1
    <3>3. k - 1 \in DOMAIN msgs' /\ msgs'[k - 1] = msgs[k]
      BY SMT, <1>2, <3>2
    <3> QED BY <3>1, <3>3 DEF Queued, IsAddRoute
  <2>3. ShutdownIsLast'
    BY <1>1, <2>1 DEF ShutdownInv, ShutdownIsLast
  <2> QED BY <1>1, <1>3, <1>4, <2>1, <2>2, <2>3, ZenonT(60) DEF ShutdownInv, Queued, IsAddRoute
<1>6. CASE Shutdown
  <2>1. ~IsAddRoute(Head(msgs)) /\ UNCHANGED registered
    BY <1>6 DEF Shutdown, IsAddRoute, historyVars
  <2>2. /\ Len(msgs) = 1 /\ shutdown
        /\ \A t \in Threads : pc[t] \notin {"shutdown_wakeup", "shutdown_msg"}
    BY SMT, <1>2, <2>1 DEF ShutdownInv
  <2>3. accepted \subseteq registered
    <3> SUFFICES ASSUME NEW r \in accepted \ registered PROVE FALSE
      OBVIOUS
    <3>1. PICK k \in DOMAIN msgs : IsAddRoute(msgs[k]) /\ msgs[k].route = r
      BY <1>1 DEF ShutdownInv
    <3> QED BY SMT, <1>2, <2>1, <2>2, <3>1
  <2> QED BY <1>1, <1>3, <2>1, <2>2, <2>3 DEF ShutdownInv, ShutdownIsLast, IsAddRoute
<1> QED BY <1>5, <1>6

\* Every step keeps ShutdownInv.
LEMMA ShutdownStep ==
  TypeOK /\ LockInv /\ RouteInv /\ ShutdownInv /\ [Next]_vars => ShutdownInv'
<1> SUFFICES ASSUME TypeOK, LockInv, RouteInv, ShutdownInv, [Next]_vars PROVE ShutdownInv'
  OBVIOUS
<1>1. CASE \E t \in Threads : CallStep(t)
  BY <1>1, ShutdownCallStep
<1>2. CASE AddRoute \/ Shutdown
  BY <1>2, ShutdownTakes
<1>3. CASE \E how \in {"stopped", "panicked", "aborted"} : Ends(how)
  BY <1>3, ShutdownUnchanged DEF Ends, Alive, proxyVars, historyVars
<1>4. CASE Select \/ CallHandler \/ HandlerReturns \/ RemoveHandler \/ BatchDone \/ DropProxy
  BY <1>4, ShutdownUnchanged, Zenon
  DEF Select, CallHandler, HandlerReturns, RemoveHandler, BatchDone, DropProxy, proxyVars, commVars,
      routerVars, historyVars
<1>5. CASE (\E r \in Routes : SendMessage(r) \/ CloseSenders(r)) \/ UNCHANGED vars
  BY <1>5, ShutdownUnchanged
  DEF SendMessage, CloseSenders, vars, proxyVars, commVars, routerVars, historyVars
<1> QED BY <1>1, <1>2, <1>3, <1>4, <1>5
        DEF Next, CallStep, RouterStep, SelectFails, HandlerPanics, AddRouteFails, RouterPanics

-----------------------------------------------------------------------------
(* The router's unwrap()s *)

\* Every step keeps the unwraps of the router good.
LEMMA UnwrapsStep == TypeOK /\ BatchInv /\ UnwrapsHold /\ [Next]_vars => UnwrapsHold'
<1> SUFFICES ASSUME TypeOK, BatchInv, UnwrapsHold, [Next]_vars, fate' = "panicked" PROVE dropped'
  BY DEF UnwrapsHold
<1>1. CASE RouterPanics
  <2>1. Alive /\ results # <<>> /\ dropped' = dropped
    BY <1>1 DEF RouterPanics, Ends, proxyVars
  <2>2. Head(results) = results[1] /\ 1 \in DOMAIN results
    BY <2>1, TailElements DEF TypeOK
  <2>3. Head(results).type \in {"MessageReceived", "ChannelClosed"}
    BY <2>1, ResultTypes
  <2>4. /\ Head(results).id # "wakeup" => Head(results).id \in handlers
        /\ Head(results).type = "ChannelClosed" /\ Head(results).id = "wakeup" => dropped
    BY <2>1, <2>2 DEF BatchInv
  <2> QED BY <1>1, <2>1, <2>3, <2>4 DEF RouterPanics
<1>2. CASE ~RouterPanics
  <2>1. CASE fate' = fate
    <3>1. dropped
      BY <2>1 DEF UnwrapsHold
    <3>2. dropped => dropped'
      BY <1>2, ZenonT(60) DEF Next, RouterStep, ProxyStep, CallAddRoute, CallShutdown, AddRouteLock, AddRouteSend,
        AddRouteWakeup, ShutdownLock, ShutdownWakeup, ShutdownSend, ShutdownAck, ProxyPanics,
        DropProxy, SendMessage, CloseSenders, Select, AddRoute, Shutdown, CallHandler, HandlerReturns,
        RemoveHandler, BatchDone, SelectFails, HandlerPanics, AddRouteFails, Ends, vars, proxyVars
    <3> QED BY <3>1, <3>2
  <2>2. CASE fate' # fate
    BY <1>2, <2>2, Zenon DEF Next, RouterStep, ProxyStep, CallAddRoute, CallShutdown, AddRouteLock,
        AddRouteSend, AddRouteWakeup, ShutdownLock, ShutdownWakeup, ShutdownSend, ShutdownAck,
        ProxyPanics, DropProxy, SendMessage, CloseSenders, Select, AddRoute, Shutdown, CallHandler,
        HandlerReturns, RemoveHandler, BatchDone, SelectFails, HandlerPanics, AddRouteFails, Ends, vars, routerVars
  <2> QED BY <2>1, <2>2
<1> QED BY <1>1, <1>2

-----------------------------------------------------------------------------
(* The order of messages *)

IsMessage(res, r) == res.type = "MessageReceived" /\ res.id = r

InBatch(r) == \E k \in DOMAIN results : IsMessage(results[k], r)

\* The number of messages that were received from channel r.
Taken(r) == sent[r] - Len(queue[r])

\* The channel holds the last messages, and the batch the one before them.
SourceInv(r) ==
  /\ Taken(r) \in Nat
  /\ \A i \in DOMAIN queue[r] : queue[r][i] = Taken(r) + i
  /\ \A k \in DOMAIN results : IsMessage(results[k], r) => results[k].message = Taken(r)

\* The handler was called with messages that come before those.
CalledInv(r) ==
  /\ \A i \in DOMAIN called[r] : called[r][i] <= Taken(r)
  /\ InBatch(r) => \A i \in DOMAIN called[r] : called[r][i] < Taken(r)
  /\ \A i, j \in DOMAIN called[r] : i < j => called[r][i] < called[r][j]

\* Until a shutdown nothing is passed over.
CompleteInv(r) ==
  acks = {} => /\ \A i \in DOMAIN called[r] : called[r][i] = i
               /\ Alive => Len(called[r]) + Batched(r) = Taken(r)

OrderInv == \A r \in Routes : SourceInv(r) /\ CalledInv(r) /\ CompleteInv(r)

\* What the types say of one route.
LEMMA OfRoute ==
  ASSUME TypeOK, NEW r \in Routes
  PROVE  /\ sent[r] \in Nat
         /\ queue[r] \in Seq(Nat) /\ Len(queue[r]) \in Nat /\ DOMAIN queue[r] = 1 .. Len(queue[r])
         /\ called[r] \in Seq(Nat) /\ Len(called[r]) \in Nat /\ DOMAIN called[r] = 1 .. Len(called[r])
         /\ \A i \in DOMAIN called[r] : called[r][i] \in Nat
<1>1. sent[r] \in 0 .. MaxMessages /\ queue[r] \in Seq(Nat) /\ called[r] \in Seq(Nat)
  BY DEF TypeOK
<1>2. sent[r] \in Nat
  BY SMT, <1>1, RouterAssumption
<1>3. QED
  BY SMT, <1>1, <1>2

\* A step that leaves a route's messages alone, and may take results of others from the
\* batch, keeps its order.
LEMMA OrderKept ==
  ASSUME NEW r \in Routes, SourceInv(r), CalledInv(r), CompleteInv(r),
         queue'[r] = queue[r], sent'[r] = sent[r], called'[r] = called[r],
         acks' = acks, fate' = fate, InBatch(r)' <=> InBatch(r),
         \A k \in DOMAIN results' : \E j \in DOMAIN results : results'[k] = results[j]
  PROVE  SourceInv(r)' /\ CalledInv(r)' /\ CompleteInv(r)'
<1>1. Taken(r)' = Taken(r)
  BY DEF Taken
<1>2. SourceInv(r)'
  BY <1>1 DEF SourceInv, IsMessage
<1>3. CalledInv(r)'
  BY <1>1 DEF CalledInv
<1>4. Batched(r)' = Batched(r)
  BY DEF Batched, InBatch, IsMessage
<1>5. CompleteInv(r)'
  BY <1>1, <1>4, Zenon DEF CompleteInv, Alive
<1>6. QED
  BY <1>2, <1>3, <1>5

\* A step that empties the batch, after which nothing more need be complete.
LEMMA OrderDropped ==
  ASSUME NEW r \in Routes, SourceInv(r), CalledInv(r), CompleteInv(r),
         queue'[r] = queue[r], sent'[r] = sent[r], called'[r] = called[r],
         results' = <<>>, acks' # {} \/ (~Alive' /\ acks' = acks)
  PROVE  SourceInv(r)' /\ CalledInv(r)' /\ CompleteInv(r)'
<1>1. Taken(r)' = Taken(r)
  BY DEF Taken
<1>2. ~InBatch(r)' /\ DOMAIN results' = {}
  BY SMT DEF InBatch
<1>3. SourceInv(r)'
  BY <1>1, <1>2 DEF SourceInv
<1>4. CalledInv(r)'
  BY <1>1, <1>2 DEF CalledInv
<1>5. CompleteInv(r)'
  <2>1. CASE acks' # {}
    BY <2>1, Zenon DEF CompleteInv
  <2>2. CASE ~Alive' /\ acks' = acks
    BY <2>2, Zenon DEF CompleteInv
  <2>3. QED
    BY <2>1, <2>2
<1>6. QED
  BY <1>3, <1>4, <1>5

\* What dispatching the first result leaves of the batch.
LEMMA OrderTail ==
  ASSUME TypeOK, results # <<>>, results' = Tail(results), NEW r \in Routes
  PROVE  /\ \A k \in DOMAIN results' : \E j \in DOMAIN results : j # 1 /\ results'[k] = results[j]
         /\ ~IsMessage(Head(results), r) => (InBatch(r)' <=> InBatch(r))
         /\ Head(results) = results[1] /\ 1 \in DOMAIN results
<1>1. /\ Head(results) = results[1] /\ 1 \in DOMAIN results
      /\ DOMAIN results = 1 .. Len(results) /\ Len(results) \in Nat
      /\ DOMAIN results' = 1 .. Len(results) - 1
      /\ \A k \in 1 .. Len(results) - 1 : k + 1 \in DOMAIN results /\ results'[k] = results[k + 1]
  BY TailElements DEF TypeOK
<1>2. \A k \in DOMAIN results' : \E j \in DOMAIN results : j # 1 /\ results'[k] = results[j]
  BY SMT, <1>1
<1>3. ASSUME ~IsMessage(Head(results), r), NEW j \in DOMAIN results, IsMessage(results[j], r)
      PROVE  InBatch(r)'
  <2>1. j - 1 \in DOMAIN results' /\ results'[j - 1] = results[j]
    BY SMT, <1>1, <1>3
  <2>2. QED
    BY <1>3, <2>1 DEF InBatch, IsMessage
<1>4. InBatch(r)' => InBatch(r)
  BY <1>2 DEF InBatch
<1>5. QED
  BY <1>1, <1>2, <1>3, <1>4 DEF InBatch, IsMessage

\* A message is sent on a channel.
LEMMA OrderSend ==
  ASSUME TypeOK, NEW r \in Routes, SourceInv(r), CalledInv(r), CompleteInv(r), SendMessage(r)
  PROVE  SourceInv(r)' /\ CalledInv(r)' /\ CompleteInv(r)'
<1>1. /\ sent'[r] = sent[r] + 1 /\ queue'[r] = Append(queue[r], sent[r] + 1)
      /\ UNCHANGED <<called, results, acks, fate>>
  BY DEF SendMessage, TypeOK, commVars, routerVars, historyVars
<1>2. /\ sent[r] \in Nat /\ queue[r] \in Seq(Nat) /\ Len(queue[r]) \in Nat
      /\ DOMAIN queue[r] = 1 .. Len(queue[r])
  BY OfRoute
<1>3. /\ Len(queue'[r]) = Len(queue[r]) + 1 /\ DOMAIN queue'[r] = 1 .. Len(queue[r]) + 1
      /\ queue'[r][Len(queue[r]) + 1] = sent[r] + 1
      /\ \A i \in 1 .. Len(queue[r]) : queue'[r][i] = queue[r][i]
  BY SMT, <1>1, <1>2
<1>4. Taken(r)' = Taken(r) /\ sent[r] = Taken(r) + Len(queue[r]) /\ Taken(r) \in Nat
  BY SMT, <1>1, <1>2, <1>3 DEF Taken, SourceInv
<1>5. (InBatch(r)' <=> InBatch(r)) /\ Batched(r)' = Batched(r)
  BY <1>1 DEF InBatch, Batched, IsMessage
<1>6. \A i \in DOMAIN queue'[r] : queue'[r][i] = Taken(r) + i
  <2> TAKE i \in DOMAIN queue'[r]
  <2>1. CASE i = Len(queue[r]) + 1
    BY SMT, <1>2, <1>3, <1>4, <2>1
  <2>2. CASE i # Len(queue[r]) + 1
    <3>1. i \in DOMAIN queue[r] /\ queue'[r][i] = queue[r][i]
      BY SMT, <1>2, <1>3, <2>2
    <3>2. QED
      BY <3>1 DEF SourceInv
  <2>3. QED
    BY <2>1, <2>2
<1>7. SourceInv(r)'
  BY <1>1, <1>4, <1>6 DEF SourceInv, IsMessage
<1>8. CalledInv(r)' /\ CompleteInv(r)'
  BY <1>1, <1>4, <1>5, Zenon DEF CalledInv, CompleteInv, Alive
<1>9. QED
  BY <1>7, <1>8

\* select() takes the first message of each channel that poll() reported.
LEMMA OrderSelect ==
  ASSUME TypeOK, BatchInv, NEW r \in Routes, SourceInv(r), CalledInv(r), CompleteInv(r), Select
  PROVE  SourceInv(r)' /\ CalledInv(r)' /\ CompleteInv(r)'
<1> PICK S \in Polled :
      /\ \E order \in Orders(S) : results' = [i \in DOMAIN order |-> Result(order[i])]
      /\ queue' = [c \in Routes |-> IF c \in S /\ Pending(c) THEN Tail(queue[c]) ELSE queue[c]]
  BY DEF Select
<1> PICK order \in Orders(S) : results' = [i \in DOMAIN order |-> Result(order[i])]
  OBVIOUS
<1>1. /\ \A i \in DOMAIN results' :
           order[i] \in S /\ results'[i] = Result(order[i]) /\ results'[i].id = order[i]
      /\ \A c \in S : \E i \in DOMAIN results' : results'[i] = Result(c)
      /\ S \subseteq Ready
  BY SMT, BatchOf
<1>2. results = <<>> /\ UNCHANGED <<sent, called, acks, fate>> /\ Alive
  BY DEF Select, BatchInv, historyVars
<1>3. ~InBatch(r) /\ Batched(r) = 0
  BY SMT, <1>2 DEF InBatch, Batched
<1>4. /\ sent[r] \in Nat /\ queue[r] \in Seq(Nat) /\ Len(queue[r]) \in Nat
      /\ DOMAIN queue[r] = 1 .. Len(queue[r]) /\ Len(called[r]) \in Nat
      /\ \A i \in DOMAIN called[r] : called[r][i] \in Nat
  BY OfRoute
<1>5. r # "wakeup" /\ (Pending(r) <=> queue[r] # <<>>)
  BY NamesDiffer DEF Pending
<1>6. CASE r \in S /\ Pending(r)
  <2>1. queue'[r] = Tail(queue[r]) /\ queue[r] # <<>>
    BY <1>5, <1>6
  <2>2. /\ Len(queue'[r]) = Len(queue[r]) - 1 /\ DOMAIN queue'[r] = 1 .. Len(queue[r]) - 1
        /\ Head(queue[r]) = queue[r][1] /\ 1 \in DOMAIN queue[r]
        /\ \A i \in 1 .. Len(queue[r]) - 1 : i + 1 \in DOMAIN queue[r] /\ queue'[r][i] = queue[r][i + 1]
    <3> PICK q \in Seq(Nat) : q = queue[r]
      BY <1>4
    <3>1. q # <<>> /\ queue'[r] = Tail(q)
      BY <2>1
    <3>2. /\ Len(Tail(q)) = Len(q) - 1 /\ DOMAIN Tail(q) = 1 .. Len(q) - 1
          /\ Head(q) = q[1] /\ 1 \in DOMAIN q
          /\ \A i \in 1 .. Len(q) - 1 : i + 1 \in DOMAIN q /\ Tail(q)[i] = q[i + 1]
      BY <3>1, TailElements
    <3>3. QED
      BY <3>1, <3>2, Zenon
  <2>3. Taken(r) \in Nat /\ Taken(r)' = Taken(r) + 1 /\ Head(queue[r]) = Taken(r) + 1
    <3>1. Taken(r) \in Nat /\ queue[r][1] = Taken(r) + 1
      BY <2>2 DEF SourceInv
    <3>2. Taken(r)' = Taken(r) + 1
      BY SMT, <1>2, <1>4, <2>2 DEF Taken
    <3>3. QED
      BY <2>2, <3>1, <3>2
  <2>4. Result(r) = [type |-> "MessageReceived", id |-> r, message |-> Head(queue[r])]
    BY <1>5, <1>6 DEF Result, AtEnd
  <2>5. Batched(r)' = 1
    <3>1. PICK i \in DOMAIN results' : results'[i] = Result(r)
      BY <1>1, <1>6
    <3>2. QED
      BY SMT, <2>4, <3>1 DEF Batched
  <2>6. \A k \in DOMAIN results' : IsMessage(results'[k], r) => results'[k].message = Taken(r)'
    BY SMT, <1>1, <2>3, <2>4 DEF IsMessage
  <2>7. \A i \in DOMAIN queue'[r] : queue'[r][i] = Taken(r)' + i
    <3> TAKE i \in DOMAIN queue'[r]
    <3>1. i + 1 \in DOMAIN queue[r] /\ queue'[r][i] = queue[r][i + 1] /\ i \in Nat
      BY SMT, <1>4, <2>2
    <3>2. queue[r][i + 1] = Taken(r) + (i + 1)
      BY <3>1 DEF SourceInv
    <3>3. QED
      BY SMT, <2>3, <3>1, <3>2
  <2>8. SourceInv(r)'
    BY SMT, <2>3, <2>6, <2>7 DEF SourceInv, IsMessage
  <2>9. CalledInv(r)'
    <3>1. \A i \in DOMAIN called[r] : called[r][i] < Taken(r)'
      BY SMT, <1>4, <2>3 DEF CalledInv
    <3>2. \A a, b \in Nat : a < b => a <= b
      BY SMT
    <3>3. Taken(r)' \in Nat /\ called'[r] = called[r]
      BY SMT, <1>2, <2>3
    <3>4. \A i \in DOMAIN called[r] : called[r][i] <= Taken(r)'
      BY <1>4, <3>1, <3>2, <3>3
    <3>5. QED
      BY <3>1, <3>3, <3>4 DEF CalledInv
  <2>10. CompleteInv(r)'
    <3> SUFFICES ASSUME acks = {}
                 PROVE  /\ \A i \in DOMAIN called[r] : called[r][i] = i
                        /\ Len(called[r]) + 1 = Taken(r) + 1
      BY <1>2, <2>3, <2>5 DEF CompleteInv
    <3>1. Len(called[r]) + 0 = Taken(r) /\ \A i \in DOMAIN called[r] : called[r][i] = i
      BY <1>2, <1>3, Zenon DEF CompleteInv
    <3>2. QED
      BY SMT, <1>4, <2>3, <3>1
  <2>11. QED
    BY <2>8, <2>9, <2>10
<1>7. CASE ~(r \in S /\ Pending(r))
  <2>1. queue'[r] = queue[r] /\ Taken(r)' = Taken(r)
    BY <1>2, <1>7 DEF Taken
  <2>2. \A k \in DOMAIN results' : ~IsMessage(results'[k], r)
    <3> SUFFICES ASSUME NEW k \in DOMAIN results', results'[k].id = r
                 PROVE  results'[k].type # "MessageReceived"
      BY DEF IsMessage
    <3>1. r \in S /\ results'[k] = Result(r)
      BY <1>1
    <3>2. AtEnd(r)
      BY <1>1, <1>7, <3>1 DEF Ready
    <3>3. QED
      BY <3>1, <3>2 DEF Result
  <2>3. ~InBatch(r)' /\ Batched(r)' = 0
    BY <2>2 DEF InBatch, Batched, IsMessage
  <2>4. SourceInv(r)'
    <3>1. \A k \in DOMAIN results' : IsMessage(results[k], r)' => results'[k].message = Taken(r)'
      BY <2>2 DEF IsMessage
    <3>2. QED
      BY <2>1, <3>1, Zenon DEF SourceInv
  <2>5. CalledInv(r)' /\ CompleteInv(r)'
    BY <1>2, <1>3, <2>1, <2>3, Zenon DEF CalledInv, CompleteInv, Alive
  <2>6. QED
    BY <2>4, <2>5
<1>8. QED
  BY <1>6, <1>7

\* The handler of r is called with the message of r that the batch held.
LEMMA OrderCall ==
  ASSUME TypeOK, BatchInv, NEW r \in Routes, SourceInv(r), CalledInv(r), CompleteInv(r),
         CallHandler, Head(results).id = r
  PROVE  SourceInv(r)' /\ CalledInv(r)' /\ CompleteInv(r)'
<1>1. /\ Alive /\ results # <<>> /\ results' = Tail(results) /\ IsMessage(Head(results), r)
      /\ called'[r] = Append(called[r], Head(results).message)
      /\ UNCHANGED <<sent, queue, acks, fate>>
  BY DEF CallHandler, Dispatching, Dispatched, IsMessage, TypeOK, channelVars, commVars
<1>2. /\ Head(results) = results[1] /\ 1 \in DOMAIN results
      /\ \A k \in DOMAIN results' : \E j \in DOMAIN results : j # 1 /\ results'[k] = results[j]
  BY <1>1, OrderTail
<1>3. InBatch(r) /\ Head(results).message = Taken(r) /\ Taken(r)' = Taken(r) /\ Taken(r) \in Nat
  BY <1>1, <1>2 DEF InBatch, IsMessage, SourceInv, Taken
<1>4. \A k \in DOMAIN results' : ~IsMessage(results'[k], r)
  BY SMT, <1>1, <1>2 DEF BatchInv, IsMessage
<1>5. ~InBatch(r)' /\ Batched(r)' = 0 /\ Batched(r) = 1
  BY <1>3, <1>4 DEF InBatch, Batched, IsMessage
<1>6. /\ called[r] \in Seq(Nat) /\ Len(called[r]) \in Nat /\ DOMAIN called[r] = 1 .. Len(called[r])
      /\ \A i \in DOMAIN called[r] : called[r][i] \in Nat
  BY OfRoute
<1>7. /\ Len(called'[r]) = Len(called[r]) + 1 /\ DOMAIN called'[r] = 1 .. Len(called[r]) + 1
      /\ called'[r][Len(called[r]) + 1] = Taken(r)
      /\ \A i \in 1 .. Len(called[r]) : called'[r][i] = called[r][i]
  BY SMT, <1>1, <1>3, <1>6
<1>8. SourceInv(r)'
  BY <1>1, <1>3, <1>4 DEF SourceInv, IsMessage
<1>9. \A i \in DOMAIN called[r] : called[r][i] < Taken(r)
  BY <1>3 DEF CalledInv
<1>10. \A i \in DOMAIN called'[r] : called'[r][i] <= Taken(r)
  BY SMTT(30), <1>3, <1>6, <1>7, <1>9
<1>11. ASSUME NEW i \in DOMAIN called'[r], NEW j \in DOMAIN called'[r], i < j
       PROVE  called'[r][i] < called'[r][j]
  <2>1. i \in DOMAIN called[r] /\ called'[r][i] = called[r][i]
    BY SMT, <1>6, <1>7, <1>11
  <2>2. CASE j = Len(called[r]) + 1
    BY <1>7, <1>9, <2>1, <2>2
  <2>3. CASE j # Len(called[r]) + 1
    <3>1. j \in DOMAIN called[r] /\ called'[r][j] = called[r][j]
      BY SMT, <1>6, <1>7, <2>3
    <3>2. QED
      BY <1>11, <2>1, <3>1 DEF CalledInv
  <2>4. QED
    BY <2>2, <2>3
<1>12. CalledInv(r)'
  BY <1>3, <1>5, <1>10, <1>11 DEF CalledInv
<1>13. CompleteInv(r)'
  <2> SUFFICES ASSUME acks = {}
               PROVE  /\ \A i \in DOMAIN called'[r] : called'[r][i] = i
                      /\ Len(called'[r]) = Taken(r)
    BY SMT, <1>1, <1>3, <1>5, <1>6, <1>7 DEF CompleteInv
  <2>1. Len(called[r]) + 1 = Taken(r) /\ \A i \in DOMAIN called[r] : called[r][i] = i
    BY <1>1, <1>5, Zenon DEF CompleteInv
  <2>2. QED
    BY SMT, <1>6, <1>7, <2>1
<1>14. QED
  BY <1>8, <1>12, <1>13

\* Every step keeps the order.
LEMMA OrderStep == TypeOK /\ BatchInv /\ OrderInv /\ [Next]_vars => OrderInv'
<1> SUFFICES ASSUME TypeOK, BatchInv, OrderInv, [Next]_vars, NEW r \in Routes
             PROVE  SourceInv(r)' /\ CalledInv(r)' /\ CompleteInv(r)'
  BY DEF OrderInv
<1>0. SourceInv(r) /\ CalledInv(r) /\ CompleteInv(r)
  BY DEF OrderInv
<1>1. CASE UNCHANGED <<sent, queue, called, results, acks, fate>>
  BY <1>0, <1>1, OrderKept DEF InBatch
<1>2. CASE \E c \in Routes : SendMessage(c)
  <2> PICK c \in Routes : SendMessage(c)
    BY <1>2
  <2>1. CASE c = r
    BY <1>0, <2>1, OrderSend
  <2>2. CASE c # r
    <3>1. /\ queue'[r] = queue[r] /\ sent'[r] = sent[r]
          /\ UNCHANGED <<called, results, acks, fate>>
      BY <2>2 DEF SendMessage, TypeOK, commVars, routerVars, historyVars
    <3>2. QED
      BY <1>0, <3>1, OrderKept DEF InBatch
  <2>3. QED
    BY <2>1, <2>2
<1>3. CASE Select
  BY <1>0, <1>3, OrderSelect
<1>4. CASE AddRoute \/ RemoveHandler
  <2>1. /\ results # <<>> /\ results' = Tail(results) /\ ~IsMessage(Head(results), r)
        /\ UNCHANGED <<sent, queue, called, acks, fate>>
    BY <1>4, NamesDiffer, Zenon
    DEF AddRoute, RemoveHandler, Dispatching, Dispatched, IsMessage, channelVars, commVars, historyVars
  <2>2. QED
    BY <1>0, <2>1, OrderTail, OrderKept
<1>5. CASE Shutdown
  BY <1>0, <1>5, OrderDropped DEF Shutdown, channelVars, historyVars
<1>6. CASE CallHandler
  <2>1. CASE Head(results).id = r
    BY <1>0, <1>6, <2>1, OrderCall
  <2>2. CASE Head(results).id # r
    <3>1. /\ results # <<>> /\ results' = Tail(results) /\ ~IsMessage(Head(results), r)
          /\ called'[r] = called[r] /\ UNCHANGED <<sent, queue, acks, fate>>
      BY <1>6, <2>2
      DEF CallHandler, Dispatching, Dispatched, IsMessage, TypeOK, channelVars, commVars
    <3>2. QED
      BY <1>0, <3>1, OrderTail, OrderKept
  <2>3. QED
    BY <2>1, <2>2
<1>7. CASE \E how \in {"stopped", "panicked", "aborted"} : Ends(how)
  BY <1>0, <1>7, OrderDropped DEF Ends, Alive, channelVars, historyVars
<1>8. CASE \/ \E t \in Threads : CallStep(t)
           \/ DropProxy \/ (\E c \in Routes : CloseSenders(c))
           \/ HandlerReturns \/ BatchDone \/ UNCHANGED vars
  <2>1. UNCHANGED <<sent, queue, called, results, acks, fate>>
    BY <1>8, Zenon
    DEF CallStep, ProxyStep, CallAddRoute, CallShutdown, AddRouteLock, AddRouteSend, AddRouteWakeup,
        ShutdownLock, ShutdownWakeup, ShutdownSend, ShutdownAck, ProxyPanics, DropProxy, CloseSenders,
        HandlerReturns, BatchDone, vars, commVars, routerVars, channelVars, historyVars
  <2>2. QED
    BY <1>1, <2>1
<1>9. QED
  BY <1>2, <1>3, <1>4, <1>5, <1>6, <1>7, <1>8
  DEF Next, CallStep, RouterStep, SelectFails, HandlerPanics, AddRouteFails, RouterPanics

-----------------------------------------------------------------------------
(* Theorems *)

\* The invariant holds initially.
LEMMA InitIInv == Init => IInv
<1> SUFFICES ASSUME Init PROVE IInv
  OBVIOUS
<1>1. TypeOK
  <2>1. wakeups \in 0 .. WakeupCapacity /\ sent \in [Routes -> 0 .. MaxMessages]
    BY SMT, RouterAssumption DEF Init
  <2>2. pc \in [Threads -> {"idle"}] /\ arg \in [Threads -> {"none"}]
    BY DEF Init
  <2>3. /\ msgs \in Seq(RouterMsg) /\ results \in Seq(SelectionResult)
        /\ queue \in [Routes -> Seq(Nat)] /\ called \in [Routes -> Seq(Nat)]
    BY SMT DEF Init
  <2> QED BY <2>1, <2>2, <2>3, Zenon DEF Init, TypeOK
<1>2. LockInv /\ RouteInv
  BY SMT, NamesDiffer DEF Init, LockInv, Critical, RouteInv, Adding
<1>3. BatchInv /\ UnwrapsHold
  BY SMT DEF Init, BatchInv, UnwrapsHold
<1>4. Balanced
  BY SMT DEF Init, Balanced, Woken, At
<1>5. ShutdownInv
  BY SMT DEF Init, ShutdownInv, ShutdownIsLast
<1> QED BY <1>1, <1>2, <1>3, <1>4, <1>5 DEF IInv

\* Every step keeps the invariant.
LEMMA StepIInv == IInv /\ [Next]_vars => IInv'
BY TypeStep, LockStep, RouteStep, BatchStep, BalancedStep, UnwrapsStep, ShutdownStep DEF IInv

\* When the router waits for a message behind a wakeup, the balance says who owes it.
LEMMA MessageOwed == IInv => MessageFollowsWakeup
<1> SUFFICES ASSUME IInv, Dispatching("MessageReceived", TRUE), msgs = <<>>
             PROVE  lock # "free" /\ pc[lock] = "shutdown_msg"
  BY DEF MessageFollowsWakeup
<1>1. Alive /\ results # <<>> /\ IsWakeup(Head(results))
  BY DEF Dispatching, IsWakeup
<1>2. Woken(results) = 1
  BY <1>1, WokenTail DEF IInv
<1>3. wakeups + 1 + At("add_wakeup", pc) = At("shutdown_msg", pc)
  BY SMT, <1>1, <1>2 DEF IInv, Balanced, At
<1>4. At("shutdown_msg", pc) = 1
  BY SMT, <1>3 DEF At, IInv, TypeOK
<1>5. PICK t \in Threads : pc[t] = "shutdown_msg"
  BY SMT, <1>4 DEF At
<1> QED BY <1>5, NamesDiffer DEF IInv, LockInv, Critical

\* The invariant holds in every behaviour of the router.
THEOREM RouterInvariant == Spec => []IInv
BY InitIInv, StepIInv, PTL DEF Spec

\* While the proxy exists, the router panics in run() only when add_opaque() refuses a
\* receiver: every wakeup finds its message, and every result finds its handler.
THEOREM RouterUnwrapsHold == Spec => [](TypeOK /\ UnwrapsHold)
<1>1. IInv => TypeOK /\ UnwrapsHold
  BY DEF IInv
<1> QED BY <1>1, RouterInvariant, PTL

\* The router never waits in msg_receiver.recv() for a message that nobody is about
\* to send: it comes from the shutdown() that holds the lock.
THEOREM RouterNeverWaitsInVain == Spec => []MessageFollowsWakeup
BY MessageOwed, RouterInvariant, PTL

\* An acknowledged shutdown() comes after all the routes that were accepted.
THEOREM ShutdownAfterRoutes == Spec => []ShutdownIsLast
<1>1. IInv => ShutdownIsLast
  BY DEF IInv, ShutdownInv
<1> QED BY <1>1, RouterInvariant, PTL

\* In every behaviour the messages of a channel reach its handler in order, and until a
\* shutdown all of them do (run).
THEOREM HandlersGetEverythingInOrder == Spec => []HandlersInOrder
<1>1. Init => OrderInv
  BY SMT DEF Init, OrderInv, SourceInv, CalledInv, CompleteInv, Taken, InBatch, Batched
<1>2. IInv /\ OrderInv /\ [Next]_vars => OrderInv'
  BY OrderStep DEF IInv
<1>3. IInv /\ OrderInv => HandlersInOrder
  <2> SUFFICES ASSUME IInv, OrderInv, NEW r \in Routes
               PROVE  /\ \A i, j \in DOMAIN called[r] : i < j => called[r][i] < called[r][j]
                      /\ acks = {} => \A i \in DOMAIN called[r] : called[r][i] = i
                      /\ Alive /\ acks = {} =>
                           Len(called[r]) + Batched(r) + Len(queue[r]) = sent[r]
    BY Zenon DEF HandlersInOrder
  <2>1. /\ \A i, j \in DOMAIN called[r] : i < j => called[r][i] < called[r][j]
        /\ acks = {} => \A i \in DOMAIN called[r] : called[r][i] = i
        /\ Alive /\ acks = {} => Len(called[r]) + Batched(r) = Taken(r)
    BY Zenon DEF OrderInv, CalledInv, CompleteInv
  <2>2. sent[r] \in Nat /\ Len(queue[r]) \in Nat /\ Len(called[r]) \in Nat /\ Batched(r) \in Nat
    BY OfRoute DEF IInv, Batched
  <2>3. Len(called[r]) + Batched(r) = Taken(r) => Len(called[r]) + Batched(r) + Len(queue[r]) = sent[r]
    BY SMT, <2>2 DEF Taken
  <2>4. QED
    BY <2>1, <2>3, Zenon
<1>4. QED
  BY <1>1, <1>2, <1>3, RouterInvariant, PTL DEF Spec

=============================================================================
