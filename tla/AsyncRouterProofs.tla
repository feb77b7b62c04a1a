------------------------- MODULE AsyncRouterProofs -------------------------
(***************************************************************************)
(* Proofs about AsyncRouter, for any number of clients, routes and         *)
(* messages and any capacities: no wakeup is lost (RouteFollowsWakeup), a  *)
(* stream yields the messages of its channel in order (StreamInOrder), and *)
(* its end is the end of its channel (EndIsEnd).                           *)
(***************************************************************************)
EXTENDS AsyncRouter, SequenceFacts, TLAPS

\* Leaves are first-order reasoning about sets and functions, but where they name SMT.
USE Zenon

\* A client in to_stream() has a route of its own whose stream does not exist yet.
Busy ==
  /\ \A c \in Clients : pc[c] # "idle" => arg[c] \in Routes /\ stream[arg[c]] = "none"
  /\ \A c, d \in Clients : (pc[c] # "idle" /\ pc[d] # "idle" /\ arg[c] = arg[d]) => c = d

\* A route is queued once.
QueuedOnce == \A i, j \in DOMAIN routes : routes[i] = routes[j] => i = j

\* A batch has one result for each receiver.
Batch ==
  /\ phase # "dispatch" => results = {}
  /\ \A x, y \in results : x.id = y.id => x = y

(* What holds of each route r. *)

Converted(r) == stream[r] # "none" \/ \E c \in Clients : pc[c] # "idle" /\ arg[c] = r

Queued(r) == \E i \in DOMAIN routes : routes[i] = r

\* A route that the thread has not taken yet is untouched.
Untouched(r) ==
  /\ Queued(r) => Converted(r)
  /\ (Queued(r) \/ ~Converted(r)) =>
       /\ r \notin receivers /\ r \notin senders /\ r \notin ended
       /\ got[r] = <<>> /\ buffer[r] = <<>> /\ Len(queue[r]) = sent[r]
       /\ \A x \in results : x.id # r

\* The number of messages of r that select() has taken.
Taken(r) == sent[r] - Len(queue[r])

\* A message of r is in the batch that is being dispatched.
InBatch(r) == \E x \in results : x.id = r /\ x.message # 0

\* What is in the queues is numbered on from what was taken.
Numbered(r) ==
  /\ Len(queue[r]) <= sent[r]
  /\ \A i \in DOMAIN queue[r] : queue[r][i] = Taken(r) + i
  /\ \A i \in DOMAIN buffer[r] : buffer[r][i] = Len(got[r]) + i
  /\ \A i \in DOMAIN got[r] : got[r][i] = i

\* A result of r is its latest message taken, or its end.
Reported(r) ==
  /\ r \in receivers => r \in senders
  /\ \A x \in results : x.id = r =>
       /\ r \in senders
       /\ x.message # 0 => x.message = Taken(r)
       /\ x.message = 0 => r \in closed /\ queue[r] = <<>> /\ r \notin receivers

\* Everything taken of r is in the batch, in its stream's queue, or was yielded.
Accounted(r) ==
  Len(got[r]) + Len(buffer[r]) = IF InBatch(r) THEN Taken(r) - 1 ELSE Taken(r)

Forwarded(r) == r \in senders /\ stream[r] # "dropped" => Accounted(r)

\* A route leaves the map at its end, with everything forwarded.
Settled(r) ==
  (Converted(r) /\ ~Queued(r) /\ r \notin senders) =>
    \/ ~Alive \/ r \in refused
    \/ /\ r \in closed /\ queue[r] = <<>>
       /\ stream[r] # "dropped" => Accounted(r)

Ended(r) == r \in ended => Converted(r) /\ r \notin senders /\ ~Queued(r) /\ buffer[r] = <<>>

RouteOK(r) ==
  Untouched(r) /\ Numbered(r) /\ Reported(r) /\ Forwarded(r) /\ Settled(r) /\ Ended(r)

IInv ==
  /\ TypeOK /\ Busy /\ QueuedOnce /\ Batch /\ RouteFollowsWakeup
  /\ \A r \in Routes : RouteOK(r)

----------------------------------------------------------------------------
\* The invariant holds before the first route.
LEMMA InitIInv == Init => IInv
<1>1. SUFFICES ASSUME Init PROVE IInv
  OBVIOUS
<1>2. TypeOK
  <2>1. 0 \in 0 .. WakeupCapacity /\ <<>> \in Seq(Routes) /\ <<>> \in Seq(Nat)
    BY SMT, AsyncAssumption
  <2>2. QED
    BY <1>1, <2>1 DEF Init, TypeOK
<1>3. Busy /\ QueuedOnce /\ Batch /\ RouteFollowsWakeup
  BY SMT, <1>1 DEF Init, Busy, QueuedOnce, Batch, RouteFollowsWakeup
<1>4. ASSUME NEW r \in Routes PROVE RouteOK(r)
  <2>1. /\ sent[r] = 0 /\ queue[r] = <<>> /\ buffer[r] = <<>> /\ got[r] = <<>> /\ stream[r] = "none"
        /\ receivers \subseteq {"wakeup"} /\ senders = {} /\ results = {} /\ ended = {} /\ routes = <<>>
        /\ \A c \in Clients : pc[c] = "idle"
    BY <1>1 DEF Init
  <2>2. r # "wakeup" /\ r \notin receivers
    BY <2>1, AsyncAssumption
  <2>3. ~Converted(r) /\ ~Queued(r)
    BY SMT, <2>1 DEF Converted, Queued
  <2>4. QED
    BY SMTT(30), <2>1, <2>2, <2>3
    DEF RouteOK, Untouched, Numbered, Reported, Forwarded, Settled, Ended, Taken
<1>5. QED
  BY <1>2, <1>3, <1>4 DEF IInv

\* A step that does not concern r leaves what is known of r.  Its senders may go, the
\* thread may end.
SameQueues(r) ==
  /\ sent'[r] = sent[r] /\ queue'[r] = queue[r] /\ buffer'[r] = buffer[r] /\ got'[r] = got[r]
  /\ stream'[r] = "dropped" <=> stream[r] = "dropped"

SamePlace(r) ==
  /\ Converted(r)' <=> Converted(r)
  /\ Queued(r)' <=> Queued(r)
  /\ r \in receivers' <=> r \in receivers
  /\ r \in senders' <=> r \in senders
  /\ \A x \in SelectionResult : x.id = r => (x \in results' <=> x \in results)

SameFate(r) ==
  /\ r \in ended' <=> r \in ended
  /\ r \in closed => r \in closed'
  /\ r \in refused => r \in refused'
  /\ ~Alive => ~Alive'

\* What is known of a route follows from its own state.
LEMMA Elsewhere ==
  ASSUME TypeOK, TypeOK', NEW r \in Routes, RouteOK(r), SameQueues(r), SamePlace(r), SameFate(r)
  PROVE  RouteOK(r)'
<1>1. results \subseteq SelectionResult /\ results' \subseteq SelectionResult
  BY DEF TypeOK
<1>2. /\ Taken(r)' = Taken(r)
      /\ InBatch(r)' <=> InBatch(r)
  BY <1>1 DEF Taken, InBatch, SameQueues, SamePlace
<1>3. Accounted(r)' <=> Accounted(r)
  BY <1>2 DEF Accounted, SameQueues
<1>4. Untouched(r)'
  BY <1>1 DEF RouteOK, Untouched, SameQueues, SamePlace, SameFate
<1>5. Numbered(r)'
  BY <1>2 DEF RouteOK, Numbered, SameQueues
<1>6. Reported(r)'
  BY <1>1, <1>2 DEF RouteOK, Reported, SameQueues, SamePlace, SameFate
<1>7. Forwarded(r)'
  BY <1>3 DEF RouteOK, Forwarded, SameQueues, SamePlace
<1>8. Settled(r)'
  BY <1>3 DEF RouteOK, Settled, SameQueues, SamePlace, SameFate
<1>9. Ended(r)'
  BY DEF RouteOK, Ended, SameQueues, SamePlace, SameFate
<1>10. QED
  BY <1>4, <1>5, <1>6, <1>7, <1>8, <1>9 DEF RouteOK

----------------------------------------------------------------------------
(* to_stream() *)

\* Queueing a route that was not converted before.
LEMMA ToStreamIInv ==
  ASSUME IInv, NEW c \in Clients, NEW r \in Routes, ToStream(c, r) PROVE IInv'
<1>1. /\ pc[c] = "idle" /\ stream[r] = "none"
      /\ \A d \in Clients : pc[d] # "idle" => arg[d] # r
      /\ routes' = IF Alive THEN Append(routes, r) ELSE routes
      /\ pc' = [pc EXCEPT ![c] = "lock"] /\ arg' = [arg EXCEPT ![c] = r]
  BY DEF ToStream
<1>2. /\ lock' = lock /\ wakeups' = wakeups /\ phase' = phase /\ receivers' = receivers
      /\ senders' = senders /\ results' = results /\ sent' = sent /\ queue' = queue
      /\ closed' = closed /\ stream' = stream /\ buffer' = buffer /\ got' = got
      /\ ended' = ended /\ unwoken' = unwoken /\ refused' = refused
  BY DEF ToStream, threadVars, channelVars, streamVars, historyVars
<1>3. TypeOK
  BY DEF IInv
<1>4. /\ pc'[c] = "lock" /\ arg'[c] = r
      /\ \A d \in Clients \ {c} : pc'[d] = pc[d] /\ arg'[d] = arg[d]
  BY <1>1, <1>3 DEF TypeOK
<1>5. routes \in Seq(Routes)
  BY <1>3 DEF TypeOK
<1>6. /\ Append(routes, r) \in Seq(Routes) /\ Len(Append(routes, r)) = Len(routes) + 1
      /\ \A i \in DOMAIN routes : Append(routes, r)[i] = routes[i]
      /\ Append(routes, r)[Len(routes) + 1] = r
      /\ \A i \in DOMAIN Append(routes, r) :
           (i \in DOMAIN routes /\ Append(routes, r)[i] = routes[i]) \/ Append(routes, r)[i] = r
  BY SMT, <1>5, Appended
<1>7. TypeOK'
  BY <1>1, <1>2, <1>3, <1>6 DEF TypeOK
<1>8. ~Converted(r) /\ ~Queued(r)
  <2>1. ~Converted(r)
    BY <1>1 DEF Converted
  <2>2. QED
    BY <2>1 DEF IInv, RouteOK, Untouched
<1>9. Busy'
  BY SMT, <1>1, <1>2, <1>4 DEF Busy, IInv
<1>10. QueuedOnce'
  <2>1. CASE ~Alive
    BY <1>1, <2>1 DEF QueuedOnce, IInv
  <2>2. CASE Alive
    <3>1. routes' = Append(routes, r)
      BY <1>1, <2>2
    <3>2. Len(routes) \in Nat /\ DOMAIN routes = 1 .. Len(routes) /\ DOMAIN routes' = 1 .. Len(routes) + 1
      BY SMT, <1>5, <1>6, <3>1
    <3>3. \A i \in DOMAIN routes' : i \in DOMAIN routes \/ i = Len(routes) + 1
      BY SMT, <3>2
    <3>4. \A i \in DOMAIN routes : routes[i] # r
      BY <1>8 DEF Queued
    <3>5. \A i \in DOMAIN routes : routes'[i] = routes[i]
      BY <1>6, <3>1
    <3>6. routes'[Len(routes) + 1] = r
      BY <1>6, <3>1
    <3>7. QED
      BY <3>3, <3>4, <3>5, <3>6 DEF QueuedOnce, IInv
  <2>3. QED
    BY <2>1, <2>2
<1>11. Batch'
  BY <1>2 DEF Batch, IInv
<1>12. RouteFollowsWakeup'
  BY <1>4 DEF RouteFollowsWakeup
<1>13. ASSUME NEW q \in Routes PROVE RouteOK(q)'
  <2>1. CASE q # r
    <3>1. Converted(q)' <=> Converted(q)
      BY <1>1, <1>2, <1>4, <2>1 DEF Converted
    <3>2. Queued(q)' <=> Queued(q)
      <4>1. CASE ~Alive
        BY <1>1, <4>1 DEF Queued
      <4>2. CASE Alive
        <5>1. routes' = Append(routes, r)
          BY <1>1, <4>2
        <5>2. \A i \in DOMAIN routes : i \in DOMAIN routes'
          BY SMT, <1>5, <1>6, <5>1
        <5>3. QED
          BY <1>6, <2>1, <5>1, <5>2 DEF Queued
      <4>3. QED
        BY <4>1, <4>2
    <3>3. SameQueues(q) /\ SamePlace(q) /\ SameFate(q)
      BY <1>2, <3>1, <3>2 DEF SameQueues, SamePlace, SameFate, Alive
    <3>4. QED
      BY <1>3, <1>7, <3>3, Elsewhere DEF IInv
  <2>2. CASE q = r
    <3>1. Converted(r)'
      BY <1>4 DEF Converted
    <3>2. /\ r \notin receivers /\ r \notin senders /\ r \notin ended
          /\ got[r] = <<>> /\ buffer[r] = <<>> /\ Len(queue[r]) = sent[r]
          /\ \A x \in results : x.id # r
      BY <1>8 DEF IInv, RouteOK, Untouched
    <3>3. Untouched(r)'
      BY <1>2, <3>1, <3>2 DEF Untouched
    <3>4. Numbered(r)'
      BY <1>2 DEF IInv, RouteOK, Numbered, Taken
    <3>5. Reported(r)' /\ Forwarded(r)' /\ Ended(r)'
      BY <1>2, <3>2 DEF Reported, Forwarded, Ended
    <3>6. Settled(r)'
      <4>1. CASE Alive
        <5>1. routes' = Append(routes, r)
          BY <1>1, <4>1
        <5>2. Len(routes) + 1 \in DOMAIN routes'
          BY SMT, <1>5, <1>6, <5>1
        <5>3. Queued(r)'
          BY <1>6, <5>1, <5>2 DEF Queued
        <5>4. QED
          BY <5>3 DEF Settled
      <4>2. CASE ~Alive
        BY <1>2, <4>2 DEF Settled, Alive
      <4>3. QED
        BY <4>1, <4>2
    <3>7. QED
      BY <2>2, <3>3, <3>4, <3>5, <3>6 DEF RouteOK
  <2>3. QED
    BY <2>1, <2>2
<1>14. QED
  BY <1>7, <1>9, <1>10, <1>11, <1>12, <1>13 DEF IInv

\* Only the mutex changes hands.
LEMMA LockIInv ==
  ASSUME IInv, NEW c \in Clients, Lock(c) PROVE IInv'
<1>1. pc[c] = "lock" /\ lock' = c /\ pc' = [pc EXCEPT ![c] = "wake"]
  BY DEF Lock
<1>2. /\ arg' = arg /\ routes' = routes /\ wakeups' = wakeups /\ phase' = phase
      /\ receivers' = receivers /\ senders' = senders /\ results' = results /\ sent' = sent
      /\ queue' = queue /\ closed' = closed /\ stream' = stream /\ buffer' = buffer /\ got' = got
      /\ ended' = ended /\ unwoken' = unwoken /\ refused' = refused
  BY DEF Lock, commVars, threadVars, channelVars, streamVars, historyVars
<1>3. TypeOK
  BY DEF IInv
<1>4. pc'[c] = "wake" /\ \A d \in Clients \ {c} : pc'[d] = pc[d]
  BY <1>1, <1>3 DEF TypeOK
<1>5. TypeOK'
  BY <1>1, <1>2, <1>3 DEF TypeOK
<1>6. Busy' /\ QueuedOnce' /\ Batch'
  BY SMT, <1>1, <1>2, <1>4 DEF Busy, QueuedOnce, Batch, IInv
<1>7. RouteFollowsWakeup'
  BY <1>4 DEF RouteFollowsWakeup
<1>8. ASSUME NEW q \in Routes PROVE RouteOK(q)'
  <2>1. (Converted(q)' <=> Converted(q)) /\ (Queued(q)' <=> Queued(q))
    BY <1>1, <1>2, <1>4 DEF Converted, Queued
  <2>2. SameQueues(q) /\ SamePlace(q) /\ SameFate(q)
    BY <1>2, <2>1 DEF SameQueues, SamePlace, SameFate, Alive
  <2>3. QED
    BY <1>3, <1>5, <2>2, Elsewhere DEF IInv
<1>9. QED
  BY <1>5, <1>6, <1>7, <1>8 DEF IInv

\* to_stream() returns: its route is converted all the same.
LEMMA ReturnIInv ==
  ASSUME IInv, NEW c \in Clients, Wake(c) \/ WakeFails(c) PROVE IInv'
<1>1. /\ pc[c] = "wake" /\ lock' = "free" /\ pc' = [pc EXCEPT ![c] = "idle"]
      /\ stream' = [stream EXCEPT ![arg[c]] = "open"]
      /\ \/ wakeups < WakeupCapacity /\ wakeups' = wakeups + 1 /\ unwoken' = unwoken
         \/ wakeups' = wakeups /\ unwoken' = TRUE
  BY DEF Wake, WakeFails, Return
<1>2. /\ arg' = arg /\ routes' = routes /\ phase' = phase
      /\ receivers' = receivers /\ senders' = senders /\ results' = results /\ sent' = sent
      /\ queue' = queue /\ closed' = closed /\ buffer' = buffer /\ got' = got
      /\ ended' = ended /\ refused' = refused
  BY DEF Wake, WakeFails, threadVars, channelVars
<1>3. TypeOK
  BY DEF IInv
<1>4. pc'[c] = "idle" /\ \A d \in Clients \ {c} : pc'[d] = pc[d]
  BY <1>1, <1>3 DEF TypeOK
<1>5. /\ arg[c] \in Routes /\ stream[arg[c]] = "none"
      /\ \A d \in Clients \ {c} : pc[d] # "idle" => arg[d] # arg[c]
  BY <1>1 DEF IInv, Busy
<1>6. /\ stream'[arg[c]] = "open"
      /\ \A q \in Routes : q # arg[c] => stream'[q] = stream[q]
  BY <1>1, <1>3, <1>5 DEF TypeOK
<1>7. wakeups' \in 0 .. WakeupCapacity /\ unwoken' \in BOOLEAN
  <2>1. wakeups \in 0 .. WakeupCapacity /\ unwoken \in BOOLEAN /\ WakeupCapacity \in Nat
    BY <1>3, AsyncAssumption DEF TypeOK
  <2>2. wakeups' \in 0 .. WakeupCapacity
    BY SMT, <1>1, <2>1
  <2>3. unwoken' \in BOOLEAN
    BY <1>1, <2>1
  <2>4. QED
    BY <2>2, <2>3
<1>8. TypeOK'
  BY <1>1, <1>2, <1>3, <1>5, <1>7 DEF TypeOK
<1>9. Busy' /\ QueuedOnce' /\ Batch'
  BY SMT, <1>1, <1>2, <1>4, <1>5, <1>6 DEF Busy, QueuedOnce, Batch, IInv
<1>10. RouteFollowsWakeup'
  <2>1. wakeups' > 0 \/ unwoken'
    BY SMT, <1>1, <1>3 DEF TypeOK
  <2>2. QED
    BY <2>1 DEF RouteFollowsWakeup
<1>11. ASSUME NEW q \in Routes PROVE RouteOK(q)'
  <2>1. Queued(q)' <=> Queued(q)
    BY <1>2 DEF Queued
  <2>2. Converted(q)' <=> Converted(q)
    <3>1. CASE q = arg[c]
      BY <1>1, <1>6, <3>1 DEF Converted
    <3>2. CASE q # arg[c]
      BY <1>2, <1>4, <1>6, <3>2 DEF Converted
    <3>3. QED
      BY <3>1, <3>2
  <2>3. SameQueues(q) /\ SamePlace(q) /\ SameFate(q)
    BY <1>2, <1>5, <1>6, <2>1, <2>2 DEF SameQueues, SamePlace, SameFate, Alive
  <2>4. QED
    BY <1>3, <1>8, <2>3, Elsewhere DEF IInv
<1>12. QED
  BY <1>8, <1>9, <1>10, <1>11 DEF IInv

----------------------------------------------------------------------------
(* The routed channels *)

\* A message is queued behind the others.
LEMMA SendMessageIInv ==
  ASSUME IInv, NEW r \in Routes, SendMessage(r) PROVE IInv'
<1>1. /\ r \notin closed
      /\ sent' = [sent EXCEPT ![r] = @ + 1]
      /\ queue' = [queue EXCEPT ![r] = Append(@, sent[r] + 1)]
  BY DEF SendMessage
<1>2. /\ pc' = pc /\ arg' = arg /\ lock' = lock /\ routes' = routes /\ wakeups' = wakeups
      /\ phase' = phase /\ receivers' = receivers /\ senders' = senders /\ results' = results
      /\ closed' = closed /\ stream' = stream /\ buffer' = buffer /\ got' = got
      /\ ended' = ended /\ unwoken' = unwoken /\ refused' = refused
  BY DEF SendMessage, clientVars, commVars, threadVars, streamVars, historyVars
<1>3. TypeOK
  BY DEF IInv
<1>4. sent[r] \in Nat /\ queue[r] \in Seq(Nat)
  BY <1>3 DEF TypeOK
<1>5. sent[r] + 1 \in Nat
  BY SMT, <1>4
<1>6. /\ sent'[r] = sent[r] + 1 /\ queue'[r] = Append(queue[r], sent[r] + 1)
      /\ \A q \in Routes \ {r} : sent'[q] = sent[q] /\ queue'[q] = queue[q]
  BY <1>1, <1>3 DEF TypeOK
<1>7. /\ queue'[r] \in Seq(Nat) /\ Len(queue'[r]) = Len(queue[r]) + 1
      /\ \A i \in DOMAIN queue[r] : queue'[r][i] = queue[r][i]
      /\ queue'[r][Len(queue[r]) + 1] = sent[r] + 1
  BY SMT, <1>4, <1>5, <1>6, Appended
<1>8. TypeOK'
  <2>1. sent' \in [Routes -> Nat] /\ queue' \in [Routes -> Seq(Nat)]
    BY <1>1, <1>3, <1>5, <1>6, <1>7 DEF TypeOK
  <2>2. QED
    BY <1>2, <1>3, <2>1 DEF TypeOK
<1>9. Busy' /\ QueuedOnce' /\ Batch' /\ RouteFollowsWakeup'
  BY <1>2 DEF Busy, QueuedOnce, Batch, RouteFollowsWakeup, IInv
<1>10. ASSUME NEW q \in Routes PROVE RouteOK(q)'
  <2>1. (Converted(q)' <=> Converted(q)) /\ (Queued(q)' <=> Queued(q))
    BY <1>2 DEF Converted, Queued
  <2>2. RouteOK(q)
    BY DEF IInv
  <2>3. CASE q # r
    <3>1. SameQueues(q) /\ SamePlace(q) /\ SameFate(q)
      BY <1>2, <1>6, <2>1, <2>3 DEF SameQueues, SamePlace, SameFate, Alive
    <3>2. QED
      BY <1>3, <1>8, <2>2, <3>1, Elsewhere
  <2>4. CASE q = r
    <3>1. Len(queue[r]) \in Nat /\ DOMAIN queue[r] = 1 .. Len(queue[r])
          /\ DOMAIN queue'[r] = 1 .. Len(queue[r]) + 1
      BY SMT, <1>4, <1>7
    <3>2. Taken(r)' = Taken(r) /\ Taken(r) \in Int /\ Taken(r) = sent[r] - Len(queue[r])
      <4>1. sent'[r] - Len(queue'[r]) = (sent[r] + 1) - (Len(queue[r]) + 1)
        BY <1>6, <1>7
      <4>2. \A a, b \in Nat : (a + 1) - (b + 1) = a - b /\ a - b \in Int
        BY SMT
      <4>3. sent[r] \in Nat /\ Len(queue[r]) \in Nat
        BY <1>4, <3>1
      <4>4. QED
        BY <4>1, <4>2, <4>3 DEF Taken
    <3>3. Untouched(r)'
      <4>1. Untouched(r)
        BY <2>2, <2>4 DEF RouteOK
      <4>2. Len(queue[r]) = sent[r] => Len(queue'[r]) = sent'[r]
        BY <1>6, <1>7
      <4>3. QED
        BY <1>2, <2>1, <2>4, <4>1, <4>2 DEF Untouched
    <3>4. Numbered(r)'
      <4>1. Numbered(r)
        BY <2>2, <2>4 DEF RouteOK
      <4>2. Len(queue'[r]) <= sent'[r]
        BY SMT, <1>4, <1>6, <1>7, <3>1, <4>1 DEF Numbered
      <4>3. ASSUME NEW i \in DOMAIN queue'[r] PROVE queue'[r][i] = Taken(r) + i
        <5>1. CASE i \in DOMAIN queue[r]
          BY <1>7, <4>1, <5>1 DEF Numbered
        <5>2. CASE i = Len(queue[r]) + 1
          BY SMT, <1>4, <1>7, <3>1, <3>2, <5>2
        <5>3. QED
          BY SMT, <3>1, <5>1, <5>2
      <4>4. QED
        BY <1>2, <3>2, <4>1, <4>2, <4>3 DEF Numbered
    <3>5. Accounted(r)' <=> Accounted(r)
      BY <1>2, <3>2 DEF Accounted, InBatch
    <3>6. Reported(r)'
      BY <1>1, <1>2, <2>2, <2>4, <3>2 DEF RouteOK, Reported
    <3>7. Forwarded(r)' /\ Ended(r)'
      BY <1>2, <2>1, <2>2, <2>4, <3>5 DEF RouteOK, Forwarded, Ended
    <3>8. Settled(r)'
      BY <1>1, <1>2, <2>1, <2>2, <2>4 DEF RouteOK, Settled, Alive
    <3>9. QED
      BY <2>4, <3>3, <3>4, <3>6, <3>7, <3>8 DEF RouteOK
  <2>5. QED
    BY <2>3, <2>4
<1>11. QED
  BY <1>8, <1>9, <1>10 DEF IInv

\* The senders of a route go.
LEMMA CloseSendersIInv ==
  ASSUME IInv, NEW r \in Routes, CloseSenders(r) PROVE IInv'
<1>1. closed' = closed \cup {r}
  BY DEF CloseSenders
<1>2. /\ pc' = pc /\ arg' = arg /\ lock' = lock /\ routes' = routes /\ wakeups' = wakeups
      /\ phase' = phase /\ receivers' = receivers /\ senders' = senders /\ results' = results
      /\ sent' = sent /\ queue' = queue /\ stream' = stream /\ buffer' = buffer /\ got' = got
      /\ ended' = ended /\ unwoken' = unwoken /\ refused' = refused
  BY DEF CloseSenders, clientVars, commVars, threadVars, streamVars, historyVars
<1>3. TypeOK
  BY DEF IInv
<1>4. TypeOK'
  BY <1>1, <1>2, <1>3 DEF TypeOK
<1>5. Busy' /\ QueuedOnce' /\ Batch' /\ RouteFollowsWakeup'
  BY <1>2 DEF Busy, QueuedOnce, Batch, RouteFollowsWakeup, IInv
<1>6. ASSUME NEW q \in Routes PROVE RouteOK(q)'
  <2>1. (Converted(q)' <=> Converted(q)) /\ (Queued(q)' <=> Queued(q))
    BY <1>2 DEF Converted, Queued
  <2>2. SameQueues(q) /\ SamePlace(q) /\ SameFate(q)
    BY <1>1, <1>2, <2>1 DEF SameQueues, SamePlace, SameFate, Alive
  <2>3. QED
    BY <1>3, <1>4, <2>2, Elsewhere DEF IInv
<1>7. QED
  BY <1>4, <1>5, <1>6 DEF IInv

----------------------------------------------------------------------------
(* The routing thread *)

\* select() takes the next message of each route of S, or reports its end.
LEMMA SelectIInv ==
  ASSUME IInv, NEW S \in SUBSET receivers, Select(S) PROVE IInv'
<1>1. /\ phase = "select" /\ S \subseteq Ready
      /\ results' = {Result(id) : id \in S}
      /\ queue' = [r \in Routes |-> IF r \in S /\ Pending(r) THEN Tail(queue[r]) ELSE queue[r]]
      /\ wakeups' = IF "wakeup" \in S THEN wakeups - 1 ELSE wakeups
      /\ receivers' = receivers \ {id \in S : AtEnd(id)}
      /\ phase' = "dispatch"
  BY DEF Select
<1>2. /\ pc' = pc /\ arg' = arg /\ lock' = lock /\ routes' = routes /\ senders' = senders
      /\ sent' = sent /\ closed' = closed /\ stream' = stream /\ buffer' = buffer /\ got' = got
      /\ ended' = ended /\ unwoken' = unwoken /\ refused' = refused
  BY DEF Select, clientVars, streamVars, historyVars
<1>3. TypeOK
  BY DEF IInv
<1>4. results = {}
  BY <1>1 DEF IInv, Batch
<1>5. S \subseteq Routes \cup {"wakeup"} /\ \A r \in Routes : r # "wakeup"
  BY <1>3, AsyncAssumption DEF TypeOK
<1>6. ASSUME NEW r \in Routes
      PROVE  /\ queue[r] \in Seq(Nat)
             /\ Pending(r) <=> queue[r] # <<>>
             /\ Pending(r) => /\ Head(queue[r]) \in Nat /\ Tail(queue[r]) \in Seq(Nat)
                              /\ Len(queue[r]) \in Nat \ {0}
                              /\ Len(Tail(queue[r])) = Len(queue[r]) - 1
                              /\ 1 \in DOMAIN queue[r] /\ Head(queue[r]) = queue[r][1]
                              /\ \A i \in DOMAIN Tail(queue[r]) :
                                   i + 1 \in DOMAIN queue[r] /\ Tail(queue[r])[i] = queue[r][i + 1]
  <2>1. queue[r] \in Seq(Nat)
    BY <1>3 DEF TypeOK
  <2>2. Pending(r) <=> queue[r] # <<>>
    BY <1>5 DEF Pending
  <2>3. QED
    BY <2>1, <2>2, TailOf
<1>7. ASSUME NEW id \in S
      PROVE  /\ Result(id) \in SelectionResult /\ Result(id).id = id
             /\ id \in Routes /\ AtEnd(id) => Result(id).message = 0
             /\ id \in Routes /\ ~AtEnd(id) => Pending(id) /\ Result(id).message = Head(queue[id])
  <2>1. id \in Ready
    BY <1>1
  <2>2. CASE AtEnd(id) \/ id = "wakeup"
    <3>1. Result(id) = [id |-> id, message |-> 0]
      BY <2>2 DEF Result, Closed
    <3>2. QED
      BY SMT, <1>5, <2>2, <3>1 DEF SelectionResult
  <2>3. CASE ~AtEnd(id) /\ id # "wakeup"
    <3>1. id \in Routes /\ Pending(id)
      BY <1>5, <2>1, <2>3 DEF Ready
    <3>2. Result(id) = [id |-> id, message |-> Head(queue[id])]
      BY <2>3 DEF Result
    <3>3. Head(queue[id]) \in Nat
      BY <1>6, <3>1
    <3>4. QED
      BY SMT, <2>3, <3>1, <3>2, <3>3 DEF SelectionResult
  <2>4. QED
    BY <2>2, <2>3
<1>8. ASSUME NEW r \in Routes
      PROVE  queue'[r] = IF r \in S /\ Pending(r) THEN Tail(queue[r]) ELSE queue[r]
  BY <1>1
<1>9. TypeOK'
  <2>1. queue' \in [Routes -> Seq(Nat)]
    <3>1. \A r \in Routes : (IF r \in S /\ Pending(r) THEN Tail(queue[r]) ELSE queue[r]) \in Seq(Nat)
      BY <1>6
    <3>2. QED
      BY <1>1, <3>1
  <2>2. results' \subseteq SelectionResult
    BY <1>1, <1>7
  <2>3. wakeups' \in 0 .. WakeupCapacity
    <3>1. wakeups \in 0 .. WakeupCapacity /\ WakeupCapacity \in Nat
      BY <1>3, AsyncAssumption DEF TypeOK
    <3>2. "wakeup" \in S => wakeups > 0
      <4>1. "wakeup" \notin closed
        BY <1>3, <1>5 DEF TypeOK
      <4>2. QED
        BY <1>1, <4>1 DEF Ready, AtEnd, Pending
    <3>3. QED
      BY SMT, <1>1, <3>1, <3>2
  <2>4. QED
    BY <1>1, <1>2, <1>3, <2>1, <2>2, <2>3 DEF TypeOK
<1>10. Busy' /\ QueuedOnce' /\ RouteFollowsWakeup'
  BY <1>1, <1>2 DEF Busy, QueuedOnce, RouteFollowsWakeup, IInv
<1>11. Batch'
  <2>1. ASSUME NEW x \in results', NEW y \in results', x.id = y.id PROVE x = y
    <3>1. PICK a \in S : x = Result(a)
      BY <1>1
    <3>2. PICK b \in S : y = Result(b)
      BY <1>1
    <3>3. a = b
      BY <1>7, <2>1, <3>1, <3>2
    <3>4. QED
      BY <3>1, <3>2, <3>3
  <2>2. QED
    BY <1>1, <2>1 DEF Batch
<1>12. ASSUME NEW r \in Routes PROVE RouteOK(r)'
  <2>1. (Converted(r)' <=> Converted(r)) /\ (Queued(r)' <=> Queued(r))
    BY <1>2 DEF Converted, Queued
  <2>2. RouteOK(r)
    BY DEF IInv
  <2>3. CASE r \notin S
    <3>1. \A x \in results' : x.id # r
      BY <1>1, <1>7, <2>3
    <3>2. SameQueues(r) /\ SameFate(r)
      BY <1>1, <1>2, <1>8, <2>3 DEF SameQueues, SameFate, Alive
    <3>3. SamePlace(r)
      BY <1>1, <1>2, <1>4, <2>1, <2>3, <3>1 DEF SamePlace
    <3>4. QED
      BY <1>3, <1>9, <2>2, <3>2, <3>3, Elsewhere
  <2>4. CASE r \in S
    <3>1. r \in receivers /\ r \in senders
      BY <2>2, <2>4 DEF RouteOK, Reported
    <3>2. Converted(r) /\ ~Queued(r) /\ r \notin ended
      BY <2>2, <3>1 DEF RouteOK, Untouched, Ended
    <3>3. Untouched(r)' /\ Settled(r)' /\ Ended(r)'
      BY <1>2, <2>1, <3>1, <3>2 DEF Untouched, Settled, Ended
    <3>4. \A x \in results' : x.id = r => x = Result(r)
      BY <1>1, <1>7
    <3>5. Result(r) \in results' /\ Result(r).id = r
      BY <1>1, <1>7, <2>4
    <3>6. /\ sent[r] \in Nat /\ Len(queue[r]) \in Nat /\ queue[r] \in Seq(Nat)
          /\ Len(got[r]) \in Nat /\ Len(buffer[r]) \in Nat
      BY SMT, <1>3 DEF TypeOK
    <3>7. stream[r] # "dropped" => Len(got[r]) + Len(buffer[r]) = Taken(r)
      BY <1>4, <2>2, <3>1 DEF RouteOK, Forwarded, Accounted, InBatch
    <3>8. CASE AtEnd(r)
      <4>1. r \in closed /\ queue[r] = <<>> /\ queue'[r] = <<>> /\ r \notin receivers'
        BY <1>1, <1>6, <1>8, <2>4, <3>8 DEF AtEnd
      <4>2. Result(r).message = 0
        BY <1>7, <2>4, <3>8
      <4>3. Taken(r)' = Taken(r)
        BY <1>2, <4>1 DEF Taken
      <4>4. Numbered(r)'
        BY <1>2, <2>2, <4>1, <4>3 DEF RouteOK, Numbered
      <4>5. Reported(r)'
        BY <1>2, <3>1, <3>4, <4>1, <4>2 DEF Reported
      <4>6. ~InBatch(r)'
        BY <3>4, <4>2 DEF InBatch
      <4>7. Forwarded(r)'
        BY <1>2, <3>7, <4>3, <4>6 DEF Forwarded, Accounted
      <4>8. QED
        BY <3>3, <4>4, <4>5, <4>7 DEF RouteOK
    <3>9. CASE ~AtEnd(r)
      <4>1. Pending(r) /\ Result(r).message = Head(queue[r])
        BY <1>7, <2>4, <3>9
      <4>2. queue'[r] = Tail(queue[r]) /\ r \in receivers'
        BY <1>1, <1>8, <2>4, <3>1, <3>9, <4>1
      <4>3. /\ Len(queue[r]) \in Nat \ {0} /\ Len(queue'[r]) = Len(queue[r]) - 1
            /\ 1 \in DOMAIN queue[r] /\ Head(queue[r]) = queue[r][1]
            /\ \A i \in DOMAIN queue'[r] : i + 1 \in DOMAIN queue[r] /\ queue'[r][i] = queue[r][i + 1]
            /\ queue'[r] \in Seq(Nat)
        BY <1>6, <4>1, <4>2
      <4>4. Taken(r) \in Int /\ Taken(r)' = Taken(r) + 1
        BY SMT, <1>2, <3>6, <4>3 DEF Taken
      <4>5. Taken(r) >= 0
        BY SMT, <2>2, <3>6 DEF RouteOK, Numbered, Taken
      <4>6. Result(r).message = Taken(r)' /\ Result(r).message # 0
        <5>1. queue[r][1] = Taken(r) + 1
          BY <2>2, <4>3 DEF RouteOK, Numbered
        <5>2. QED
          BY SMT, <4>1, <4>3, <4>4, <4>5, <5>1
      <4>7. Numbered(r)'
        <5>1. Numbered(r)
          BY <2>2 DEF RouteOK
        <5>2. Len(queue'[r]) <= sent'[r]
          BY SMT, <1>2, <3>6, <4>3, <5>1 DEF Numbered
        <5>3. ASSUME NEW i \in DOMAIN queue'[r] PROVE queue'[r][i] = Taken(r)' + i
          <6>1. i \in Int
            BY SMT, <4>3
          <6>2. queue'[r][i] = Taken(r) + (i + 1)
            BY <4>3, <5>1 DEF Numbered
          <6>3. QED
            BY SMT, <4>4, <6>1, <6>2
        <5>4. QED
          BY <1>2, <5>1, <5>2, <5>3 DEF Numbered
      <4>8. Reported(r)'
        BY <1>2, <3>1, <3>4, <4>2, <4>6 DEF Reported
      <4>9. InBatch(r)'
        BY <3>5, <4>6 DEF InBatch
      <4>10. Forwarded(r)'
        <5>1. Taken(r)' - 1 = Taken(r)
          BY SMT, <4>4
        <5>2. QED
          BY <1>2, <3>7, <4>9, <5>1 DEF Forwarded, Accounted
      <4>11. QED
        BY <3>3, <4>7, <4>8, <4>10 DEF RouteOK
    <3>10. QED
      BY <3>8, <3>9
  <2>5. QED
    BY <2>3, <2>4
<1>13. QED
  BY <1>9, <1>10, <1>11, <1>12 DEF IInv

\* The thread ends, and nothing it owned is left.
LEMMA SelectFailsIInv ==
  ASSUME IInv, SelectFails PROVE IInv'
<1>1. /\ phase = "select" /\ phase' = "ended" /\ receivers' = {} /\ senders' = {}
      /\ routes' = <<>> /\ wakeups' = 0
  BY DEF SelectFails
<1>2. /\ pc' = pc /\ arg' = arg /\ lock' = lock /\ results' = results /\ sent' = sent
      /\ queue' = queue /\ closed' = closed /\ stream' = stream /\ buffer' = buffer /\ got' = got
      /\ ended' = ended /\ unwoken' = unwoken /\ refused' = refused
  BY DEF SelectFails, clientVars, channelVars, streamVars, historyVars
<1>3. TypeOK
  BY DEF IInv
<1>4. results = {}
  BY <1>1 DEF IInv, Batch
<1>5. TypeOK'
  <2>1. 0 \in 0 .. WakeupCapacity /\ <<>> \in Seq(Routes)
    BY SMT, AsyncAssumption
  <2>2. QED
    BY <1>1, <1>2, <1>3, <2>1 DEF TypeOK
<1>6. Busy' /\ QueuedOnce' /\ Batch' /\ RouteFollowsWakeup'
  BY SMT, <1>1, <1>2, <1>4 DEF Busy, QueuedOnce, Batch, RouteFollowsWakeup, IInv
<1>7. ASSUME NEW r \in Routes PROVE RouteOK(r)'
  <2>1. (Converted(r)' <=> Converted(r)) /\ ~Queued(r)'
    BY SMT, <1>1, <1>2 DEF Converted, Queued
  <2>2. RouteOK(r)
    BY DEF IInv
  <2>3. Untouched(r)'
    BY <1>1, <1>2, <2>1, <2>2 DEF RouteOK, Untouched
  <2>4. Numbered(r)'
    BY <1>2, <2>2 DEF RouteOK, Numbered, Taken
  <2>5. Reported(r)' /\ Forwarded(r)' /\ Settled(r)' /\ Ended(r)'
    BY <1>1, <1>2, <1>4, <2>1, <2>2 DEF RouteOK, Reported, Forwarded, Settled, Ended, Alive
  <2>6. QED
    BY <2>3, <2>4, <2>5 DEF RouteOK
<1>8. QED
  BY <1>5, <1>6, <1>7 DEF IInv

\* A message goes from the batch to its stream's queue, or is dropped with the stream.
LEMMA ForwardIInv ==
  ASSUME IInv, NEW result \in results, Forward(result) PROVE IInv'
<1>1. /\ phase = "dispatch" /\ result.message # 0
      /\ results' = results \ {result}
      /\ buffer' = [buffer EXCEPT ![result.id] =
                      IF result.id \in senders /\ stream[result.id] # "dropped"
                      THEN Append(@, result.message) ELSE @]
  BY DEF Forward
<1>2. /\ pc' = pc /\ arg' = arg /\ lock' = lock /\ routes' = routes /\ wakeups' = wakeups
      /\ phase' = phase /\ receivers' = receivers /\ senders' = senders /\ sent' = sent
      /\ queue' = queue /\ closed' = closed /\ stream' = stream /\ got' = got
      /\ ended' = ended /\ unwoken' = unwoken /\ refused' = refused
  BY DEF Forward, clientVars, commVars, channelVars, historyVars
<1>3. TypeOK
  BY DEF IInv
<1>4. result \in SelectionResult /\ result.message \in Nat
  BY <1>3 DEF TypeOK, SelectionResult
<1>5. \A q \in Routes : buffer[q] \in Seq(Nat)
  BY <1>3 DEF TypeOK
<1>6. \A q \in Routes : Append(buffer[q], result.message) \in Seq(Nat)
  BY SMT, <1>4, <1>5
<1>7. \A q \in Routes :
        buffer'[q] = IF q = result.id /\ q \in senders /\ stream[q] # "dropped"
                     THEN Append(buffer[q], result.message) ELSE buffer[q]
  BY <1>1, <1>3 DEF TypeOK
<1>8. TypeOK'
  <2>1. buffer' \in [Routes -> Seq(Nat)]
    <3>1. DOMAIN buffer' = Routes /\ buffer' = [q \in DOMAIN buffer' |-> buffer'[q]]
      BY <1>1, <1>3 DEF TypeOK
    <3>2. \A q \in Routes : buffer'[q] \in Seq(Nat)
      BY <1>5, <1>6, <1>7
    <3>3. QED
      BY <3>1, <3>2
  <2>2. QED
    BY <1>1, <1>2, <1>3, <2>1 DEF TypeOK
<1>9. Busy' /\ QueuedOnce' /\ Batch' /\ RouteFollowsWakeup'
  BY <1>1, <1>2 DEF Busy, QueuedOnce, Batch, RouteFollowsWakeup, IInv
<1>10. ASSUME NEW r \in Routes PROVE RouteOK(r)'
  <2>1. (Converted(r)' <=> Converted(r)) /\ (Queued(r)' <=> Queued(r))
    BY <1>2 DEF Converted, Queued
  <2>2. RouteOK(r)
    BY DEF IInv
  <2>3. CASE r # result.id
    <3>1. SameQueues(r) /\ SamePlace(r) /\ SameFate(r)
      BY <1>1, <1>2, <1>7, <2>1, <2>3 DEF SameQueues, SamePlace, SameFate, Alive
    <3>2. QED
      BY <1>3, <1>8, <2>2, <3>1, Elsewhere
  <2>4. CASE r = result.id
    <3>1. r \in senders /\ result.message = Taken(r)
      BY <1>1, <2>2, <2>4 DEF RouteOK, Reported
    <3>2. Converted(r) /\ ~Queued(r) /\ r \notin ended
      BY <2>2, <3>1 DEF RouteOK, Untouched, Ended
    <3>3. Untouched(r)' /\ Settled(r)' /\ Ended(r)'
      BY <1>2, <2>1, <3>1, <3>2 DEF Untouched, Settled, Ended
    <3>4. \A x \in results' : x.id # r
      BY <1>1, <2>4 DEF IInv, Batch
    <3>5. InBatch(r) /\ ~InBatch(r)'
      BY <1>1, <2>4, <3>4 DEF InBatch
    <3>6. Reported(r)'
      BY <1>2, <2>2, <3>1, <3>4 DEF RouteOK, Reported
    <3>7. Taken(r)' = Taken(r)
      BY <1>2 DEF Taken
    <3>8. Numbered(r)
      BY <2>2 DEF RouteOK
    <3>9. CASE stream[r] = "dropped"
      <4>1. buffer'[r] = buffer[r]
        BY <1>7, <3>9
      <4>2. Numbered(r)'
        BY <1>2, <3>7, <3>8, <4>1 DEF Numbered
      <4>3. Forwarded(r)'
        BY <1>2, <3>9 DEF Forwarded
      <4>4. QED
        BY <3>3, <3>6, <4>2, <4>3 DEF RouteOK
    <3>10. CASE stream[r] # "dropped"
      <4>1. buffer'[r] = Append(buffer[r], result.message)
        BY <1>7, <2>4, <3>1, <3>10
      <4>2. /\ Len(buffer'[r]) = Len(buffer[r]) + 1
            /\ \A i \in DOMAIN buffer[r] : buffer'[r][i] = buffer[r][i]
            /\ buffer'[r][Len(buffer[r]) + 1] = result.message
        BY SMT, <1>4, <1>5, <4>1, Appended
      <4>3. /\ Len(buffer[r]) \in Nat /\ DOMAIN buffer[r] = 1 .. Len(buffer[r])
            /\ DOMAIN buffer'[r] = 1 .. Len(buffer[r]) + 1 /\ Len(got[r]) \in Nat
        BY SMT, <1>3, <1>5, <1>6, <4>1, <4>2 DEF TypeOK
      <4>4. Len(got[r]) + Len(buffer[r]) = Taken(r) - 1
        BY <2>2, <3>1, <3>5, <3>10 DEF RouteOK, Forwarded, Accounted
      <4>5. Taken(r) \in Int
        BY SMT, <1>4, <3>1
      <4>6. Len(got[r]) + Len(buffer'[r]) = Taken(r)
        <5> DEFINE yielded == Len(got[r])
                   before == Len(buffer[r])
                   taken == Taken(r)
        <5>1. yielded \in Nat /\ before \in Nat /\ taken \in Int /\ yielded + before = taken - 1
          BY <4>3, <4>4, <4>5
        <5>2. Len(buffer'[r]) = before + 1
          BY <4>2
        <5> HIDE DEF yielded, before, taken
        <5>3. yielded + (before + 1) = taken
          BY SMT, <5>1
        <5>4. yielded + Len(buffer'[r]) = taken
          BY <5>2, <5>3
        <5>5. QED
          BY <5>4 DEF yielded, taken
      <4>7. Forwarded(r)'
        BY <1>2, <3>5, <3>7, <4>6 DEF Forwarded, Accounted
      <4>8. ASSUME NEW i \in DOMAIN buffer'[r] PROVE buffer'[r][i] = Len(got[r]) + i
        <5>1. CASE i \in DOMAIN buffer[r]
          BY <3>8, <4>2, <5>1 DEF Numbered
        <5>2. CASE i = Len(buffer[r]) + 1
          BY <3>1, <4>2, <4>6, <5>2
        <5>3. QED
          BY SMT, <4>3, <5>1, <5>2
      <4>9. Numbered(r)'
        BY <1>2, <3>7, <3>8, <4>8 DEF Numbered
      <4>10. QED
        BY <3>3, <3>6, <4>7, <4>9 DEF RouteOK
    <3>11. QED
      BY <3>9, <3>10
  <2>5. QED
    BY <2>3, <2>4
<1>11. QED
  BY <1>8, <1>9, <1>10 DEF IInv

\* The end of a channel takes its sender out of the map, with everything forwarded.
LEMMA RemoveIInv ==
  ASSUME IInv, NEW result \in results, Remove(result) PROVE IInv'
<1>1. /\ phase = "dispatch" /\ result.message = 0
      /\ results' = results \ {result} /\ senders' = senders \ {result.id}
  BY DEF Remove
<1>2. /\ pc' = pc /\ arg' = arg /\ lock' = lock /\ routes' = routes /\ wakeups' = wakeups
      /\ phase' = phase /\ receivers' = receivers /\ sent' = sent /\ queue' = queue
      /\ closed' = closed /\ stream' = stream /\ buffer' = buffer /\ got' = got
      /\ ended' = ended /\ unwoken' = unwoken /\ refused' = refused
  BY DEF Remove, clientVars, commVars, channelVars, streamVars, historyVars
<1>3. TypeOK
  BY DEF IInv
<1>4. TypeOK'
  BY <1>1, <1>2, <1>3 DEF TypeOK
<1>5. Busy' /\ QueuedOnce' /\ Batch' /\ RouteFollowsWakeup'
  BY <1>1, <1>2 DEF Busy, QueuedOnce, Batch, RouteFollowsWakeup, IInv
<1>6. ASSUME NEW r \in Routes PROVE RouteOK(r)'
  <2>1. (Converted(r)' <=> Converted(r)) /\ (Queued(r)' <=> Queued(r))
    BY <1>2 DEF Converted, Queued
  <2>2. RouteOK(r)
    BY DEF IInv
  <2>3. CASE r # result.id
    <3>1. SameQueues(r) /\ SamePlace(r) /\ SameFate(r)
      BY <1>1, <1>2, <2>1, <2>3 DEF SameQueues, SamePlace, SameFate, Alive
    <3>2. QED
      BY <1>3, <1>4, <2>2, <3>1, Elsewhere
  <2>4. CASE r = result.id
    <3>1. r \in senders /\ r \in closed /\ queue[r] = <<>> /\ r \notin receivers
      BY <1>1, <2>2, <2>4 DEF RouteOK, Reported
    <3>2. Converted(r) /\ ~Queued(r) /\ r \notin ended
      BY <2>2, <3>1 DEF RouteOK, Untouched, Ended
    <3>3. \A x \in results' : x.id # r
      BY <1>1, <2>4 DEF IInv, Batch
    <3>4. ~InBatch(r) /\ ~InBatch(r)'
      BY <1>1, <2>4, <3>3 DEF InBatch, IInv, Batch
    <3>5. Taken(r)' = Taken(r)
      BY <1>2 DEF Taken
    <3>6. stream[r] # "dropped" => Accounted(r)'
      BY <1>2, <2>2, <3>1, <3>4, <3>5 DEF RouteOK, Forwarded, Accounted
    <3>7. Untouched(r)' /\ Ended(r)'
      BY <1>2, <2>1, <3>2 DEF Untouched, Ended
    <3>8. Numbered(r)'
      BY <1>2, <2>2, <3>5 DEF RouteOK, Numbered
    <3>9. Reported(r)' /\ Forwarded(r)'
      BY <1>1, <1>2, <2>4, <3>1, <3>3 DEF Reported, Forwarded
    <3>10. Settled(r)'
      BY <1>2, <3>1, <3>6 DEF Settled
    <3>11. QED
      BY <3>7, <3>8, <3>9, <3>10 DEF RouteOK
  <2>5. QED
    BY <2>3, <2>4
<1>7. QED
  BY <1>4, <1>5, <1>6 DEF IInv

\* The batch is done, or the queue of routes is drained: only the phase changes.
LEMMA PhaseIInv ==
  ASSUME IInv, BatchDone \/ DrainDone PROVE IInv'
<1>1. \/ results = {} /\ phase' = "drain"
      \/ phase = "drain" /\ routes = <<>> /\ phase' = "select"
  BY DEF BatchDone, DrainDone
<1>2. phase # "ended" /\ phase' # "ended"
  BY DEF BatchDone, DrainDone
<1>3. /\ pc' = pc /\ arg' = arg /\ lock' = lock /\ routes' = routes /\ wakeups' = wakeups
      /\ receivers' = receivers /\ senders' = senders /\ results' = results /\ sent' = sent
      /\ queue' = queue /\ closed' = closed /\ stream' = stream /\ buffer' = buffer /\ got' = got
      /\ ended' = ended /\ unwoken' = unwoken /\ refused' = refused
  BY DEF BatchDone, DrainDone, clientVars, commVars, channelVars, streamVars, historyVars
<1>4. TypeOK
  BY DEF IInv
<1>5. TypeOK'
  BY <1>1, <1>3, <1>4 DEF TypeOK
<1>6. Busy' /\ QueuedOnce' /\ Batch' /\ RouteFollowsWakeup'
  BY <1>1, <1>3 DEF Busy, QueuedOnce, Batch, RouteFollowsWakeup, IInv
<1>7. ASSUME NEW r \in Routes PROVE RouteOK(r)'
  <2>1. (Converted(r)' <=> Converted(r)) /\ (Queued(r)' <=> Queued(r))
    BY <1>3 DEF Converted, Queued
  <2>2. SameQueues(r) /\ SamePlace(r) /\ SameFate(r)
    BY <1>2, <1>3, <2>1 DEF SameQueues, SamePlace, SameFate, Alive
  <2>3. QED
    BY <1>4, <1>5, <2>2, Elsewhere DEF IInv
<1>8. QED
  BY <1>5, <1>6, <1>7 DEF IInv

\* The first queued route leaves the queue, and no other does.
LEMMA RouteTaken ==
  ASSUME TypeOK, QueuedOnce, routes # <<>>, routes' = Tail(routes)
  PROVE  /\ Head(routes) \in Routes /\ Queued(Head(routes))
         /\ Tail(routes) \in Seq(Routes) /\ QueuedOnce'
         /\ \A q \in Routes : Queued(q)' <=> (Queued(q) /\ q # Head(routes))
<1>1. routes \in Seq(Routes)
  BY DEF TypeOK
<1>2. /\ Len(routes) \in Nat \ {0} /\ Len(Tail(routes)) = Len(routes) - 1
      /\ Tail(routes) \in Seq(Routes) /\ Head(routes) \in Routes
      /\ 1 \in DOMAIN routes /\ Head(routes) = routes[1]
      /\ \A i \in DOMAIN Tail(routes) : i + 1 \in DOMAIN routes /\ Tail(routes)[i] = routes[i + 1]
      /\ \A i \in DOMAIN routes :
           i = 1 \/ (i - 1 \in DOMAIN Tail(routes) /\ Tail(routes)[i - 1] = routes[i])
  BY <1>1, TailOf
<1>3. \A i \in DOMAIN Tail(routes) : i \in Int /\ i + 1 # 1
  BY SMT, <1>2
<1>4. ASSUME NEW q \in Routes PROVE Queued(q)' <=> (Queued(q) /\ q # Head(routes))
  <2>1. Queued(q)' => Queued(q)
    BY <1>2 DEF Queued
  <2>2. Queued(q)' => q # Head(routes)
    BY <1>2, <1>3 DEF Queued, QueuedOnce
  <2>3. Queued(q) /\ q # Head(routes) => Queued(q)'
    BY <1>2 DEF Queued
  <2>4. QED
    BY <2>1, <2>2, <2>3
<1>5. QueuedOnce'
  <2>1. ASSUME NEW i \in DOMAIN Tail(routes), NEW j \in DOMAIN Tail(routes),
               Tail(routes)[i] = Tail(routes)[j]
        PROVE  i = j
    <3>1. i + 1 = j + 1
      BY SMT, <1>2, <2>1 DEF QueuedOnce
    <3>2. QED
      BY SMT, <1>3, <3>1
  <2>2. QED
    BY <2>1 DEF QueuedOnce
<1>6. QED
  BY <1>2, <1>4, <1>5 DEF Queued

\* A queued route enters the receiver set and the map together.
LEMMA AddRouteIInv ==
  ASSUME IInv, AddRoute PROVE IInv'
<1>1. /\ phase = "drain" /\ routes # <<>> /\ routes' = Tail(routes)
      /\ receivers' = receivers \cup {Head(routes)} /\ senders' = senders \cup {Head(routes)}
  BY DEF AddRoute
<1>2. /\ pc' = pc /\ arg' = arg /\ lock' = lock /\ wakeups' = wakeups /\ phase' = phase
      /\ results' = results /\ sent' = sent /\ queue' = queue /\ closed' = closed
      /\ stream' = stream /\ buffer' = buffer /\ got' = got /\ ended' = ended
      /\ unwoken' = unwoken /\ refused' = refused
  BY DEF AddRoute, clientVars, channelVars, streamVars, historyVars
<1>3. TypeOK /\ QueuedOnce
  BY DEF IInv
<1>4. /\ Head(routes) \in Routes /\ Queued(Head(routes))
      /\ Tail(routes) \in Seq(Routes) /\ QueuedOnce'
      /\ \A q \in Routes : Queued(q)' <=> (Queued(q) /\ q # Head(routes))
  BY <1>1, <1>3, RouteTaken
<1>5. TypeOK'
  BY <1>1, <1>2, <1>3, <1>4 DEF TypeOK
<1>6. Busy' /\ Batch' /\ RouteFollowsWakeup'
  BY <1>1, <1>2 DEF Busy, Batch, RouteFollowsWakeup, IInv
<1>7. ASSUME NEW r \in Routes PROVE RouteOK(r)'
  <2>1. Converted(r)' <=> Converted(r)
    BY <1>2 DEF Converted
  <2>2. RouteOK(r)
    BY DEF IInv
  <2>3. CASE r # Head(routes)
    <3>1. SameQueues(r) /\ SamePlace(r) /\ SameFate(r)
      BY <1>1, <1>2, <1>4, <2>1, <2>3 DEF SameQueues, SamePlace, SameFate, Alive
    <3>2. QED
      BY <1>3, <1>5, <2>2, <3>1, Elsewhere
  <2>4. CASE r = Head(routes)
    <3>1. /\ Converted(r) /\ r \notin ended
          /\ got[r] = <<>> /\ buffer[r] = <<>> /\ Len(queue[r]) = sent[r]
          /\ \A x \in results : x.id # r
      BY <1>4, <2>2, <2>4 DEF RouteOK, Untouched
    <3>2. Untouched(r)' /\ Ended(r)' /\ Settled(r)'
      BY <1>1, <1>2, <1>4, <2>1, <2>4, <3>1 DEF Untouched, Ended, Settled
    <3>3. Numbered(r)'
      BY <1>2, <2>2 DEF RouteOK, Numbered, Taken
    <3>4. Reported(r)'
      BY <1>1, <1>2, <2>4, <3>1 DEF Reported
    <3>5. Forwarded(r)'
      <4>1. sent[r] \in Nat
        BY <1>3 DEF TypeOK
      <4>2. Taken(r)' = 0
        BY SMT, <1>2, <3>1, <4>1 DEF Taken
      <4>3. ~InBatch(r)'
        BY <1>2, <3>1 DEF InBatch
      <4>4. Len(got'[r]) + Len(buffer'[r]) = 0
        BY SMT, <1>2, <3>1
      <4>5. QED
        BY <4>2, <4>3, <4>4 DEF Forwarded, Accounted
    <3>6. QED
      BY <3>2, <3>3, <3>4, <3>5 DEF RouteOK
  <2>5. QED
    BY <2>3, <2>4
<1>8. QED
  BY <1>4, <1>5, <1>6, <1>7 DEF IInv

\* A queued route whose receiver cannot be added is dropped.
LEMMA AddRouteFailsIInv ==
  ASSUME IInv, AddRouteFails PROVE IInv'
<1>1. /\ phase = "drain" /\ routes # <<>> /\ routes' = Tail(routes)
      /\ refused' = refused \cup {Head(routes)}
  BY DEF AddRouteFails
<1>2. /\ pc' = pc /\ arg' = arg /\ lock' = lock /\ wakeups' = wakeups /\ phase' = phase
      /\ receivers' = receivers /\ senders' = senders /\ results' = results /\ sent' = sent
      /\ queue' = queue /\ closed' = closed /\ stream' = stream /\ buffer' = buffer /\ got' = got
      /\ ended' = ended /\ unwoken' = unwoken
  BY DEF AddRouteFails, clientVars, threadVars, channelVars, streamVars
<1>3. TypeOK /\ QueuedOnce
  BY DEF IInv
<1>4. /\ Head(routes) \in Routes /\ Queued(Head(routes))
      /\ Tail(routes) \in Seq(Routes) /\ QueuedOnce'
      /\ \A q \in Routes : Queued(q)' <=> (Queued(q) /\ q # Head(routes))
  BY <1>1, <1>3, RouteTaken
<1>5. TypeOK'
  BY <1>1, <1>2, <1>3, <1>4 DEF TypeOK
<1>6. Busy' /\ Batch' /\ RouteFollowsWakeup'
  BY <1>1, <1>2 DEF Busy, Batch, RouteFollowsWakeup, IInv
<1>7. ASSUME NEW r \in Routes PROVE RouteOK(r)'
  <2>1. Converted(r)' <=> Converted(r)
    BY <1>2 DEF Converted
  <2>2. RouteOK(r)
    BY DEF IInv
  <2>3. CASE r # Head(routes)
    <3>1. SameQueues(r) /\ SamePlace(r) /\ SameFate(r)
      BY <1>1, <1>2, <1>4, <2>1, <2>3 DEF SameQueues, SamePlace, SameFate, Alive
    <3>2. QED
      BY <1>3, <1>5, <2>2, <3>1, Elsewhere
  <2>4. CASE r = Head(routes)
    <3>1. Converted(r) /\ r \notin ended /\ r \notin senders /\ r \notin receivers
          /\ \A x \in results : x.id # r
      BY <1>4, <2>2, <2>4 DEF RouteOK, Untouched
    <3>2. Untouched(r)' /\ Ended(r)' /\ Settled(r)' /\ Reported(r)' /\ Forwarded(r)'
      BY <1>1, <1>2, <1>4, <2>1, <2>4, <3>1 DEF Untouched, Ended, Settled, Reported, Forwarded
    <3>3. Numbered(r)'
      BY <1>2, <2>2 DEF RouteOK, Numbered, Taken
    <3>4. QED
      BY <3>2, <3>3 DEF RouteOK
  <2>5. QED
    BY <2>3, <2>4
<1>8. QED
  BY <1>4, <1>5, <1>6, <1>7 DEF IInv

----------------------------------------------------------------------------
(* IpcStream *)

\* poll_next() takes the first item of the stream's queue.
LEMMA PollItemIInv ==
  ASSUME IInv, NEW r \in Routes, PollItem(r) PROVE IInv'
<1>1. /\ stream[r] = "open" /\ buffer[r] # <<>>
      /\ got' = [got EXCEPT ![r] = Append(@, Head(buffer[r]))]
      /\ buffer' = [buffer EXCEPT ![r] = Tail(@)]
  BY DEF PollItem
<1>2. /\ pc' = pc /\ arg' = arg /\ lock' = lock /\ routes' = routes /\ wakeups' = wakeups
      /\ phase' = phase /\ receivers' = receivers /\ senders' = senders /\ results' = results
      /\ sent' = sent /\ queue' = queue /\ closed' = closed /\ stream' = stream
      /\ ended' = ended /\ unwoken' = unwoken /\ refused' = refused
  BY DEF PollItem, clientVars, commVars, threadVars, channelVars
<1>3. TypeOK
  BY DEF IInv
<1>4. got[r] \in Seq(Nat) /\ buffer[r] \in Seq(Nat)
  BY <1>3 DEF TypeOK
<1>5. /\ got'[r] = Append(got[r], Head(buffer[r])) /\ buffer'[r] = Tail(buffer[r])
      /\ \A q \in Routes \ {r} : got'[q] = got[q] /\ buffer'[q] = buffer[q]
  <2>1. got \in [Routes -> Seq(Nat)] /\ buffer \in [Routes -> Seq(Nat)]
    BY <1>3 DEF TypeOK
  <2>2. QED
    BY <1>1, <2>1
<1>6. /\ Len(buffer[r]) \in Nat \ {0} /\ Len(buffer'[r]) = Len(buffer[r]) - 1
      /\ buffer'[r] \in Seq(Nat) /\ Head(buffer[r]) \in Nat
      /\ 1 \in DOMAIN buffer[r] /\ Head(buffer[r]) = buffer[r][1]
      /\ \A i \in DOMAIN buffer'[r] : i + 1 \in DOMAIN buffer[r] /\ buffer'[r][i] = buffer[r][i + 1]
  <2> DEFINE old == buffer[r]
             new == buffer'[r]
  <2>1. old \in Seq(Nat) /\ old # <<>> /\ new = Tail(old)
    BY <1>1, <1>4, <1>5
  <2> HIDE DEF old, new
  <2>2. /\ Len(old) \in Nat \ {0} /\ Len(new) = Len(old) - 1
        /\ new \in Seq(Nat) /\ Head(old) \in Nat /\ 1 \in DOMAIN old /\ Head(old) = old[1]
        /\ \A i \in DOMAIN new : i + 1 \in DOMAIN old /\ new[i] = old[i + 1]
    BY <2>1, TailOf
  <2>3. QED
    BY <2>2 DEF old, new
<1>7. /\ got'[r] \in Seq(Nat) /\ Len(got'[r]) = Len(got[r]) + 1
      /\ \A i \in DOMAIN got[r] : got'[r][i] = got[r][i]
      /\ got'[r][Len(got[r]) + 1] = buffer[r][1]
  BY SMT, <1>4, <1>5, <1>6, Appended
<1>8. TypeOK'
  <2>1. got' \in [Routes -> Seq(Nat)] /\ buffer' \in [Routes -> Seq(Nat)]
    BY <1>1, <1>3, <1>5, <1>6, <1>7 DEF TypeOK
  <2>2. QED
    BY <1>2, <1>3, <2>1 DEF TypeOK
<1>9. Busy' /\ QueuedOnce' /\ Batch' /\ RouteFollowsWakeup'
  BY <1>2 DEF Busy, QueuedOnce, Batch, RouteFollowsWakeup, IInv
<1>10. ASSUME NEW q \in Routes PROVE RouteOK(q)'
  <2>1. (Converted(q)' <=> Converted(q)) /\ (Queued(q)' <=> Queued(q))
    BY <1>2 DEF Converted, Queued
  <2>2. RouteOK(q)
    BY DEF IInv
  <2>3. CASE q # r
    <3>1. SameQueues(q) /\ SamePlace(q) /\ SameFate(q)
      BY <1>2, <1>5, <2>1, <2>3 DEF SameQueues, SamePlace, SameFate, Alive
    <3>2. QED
      BY <1>3, <1>8, <2>2, <3>1, Elsewhere
  <2>4. CASE q = r
    <3>1. Converted(r) /\ ~Queued(r) /\ r \notin ended
      BY <1>1, <2>2, <2>4 DEF RouteOK, Untouched, Ended
    <3>2. Untouched(r)' /\ Ended(r)'
      BY <1>2, <2>1, <2>4, <3>1 DEF Untouched, Ended
    <3>3. Taken(r)' = Taken(r) /\ (InBatch(r)' <=> InBatch(r))
      BY <1>2 DEF Taken, InBatch
    <3>4. Len(got[r]) \in Nat /\ DOMAIN got[r] = 1 .. Len(got[r])
          /\ DOMAIN got'[r] = 1 .. Len(got[r]) + 1
      BY SMT, <1>4, <1>7
    <3>5. Len(got'[r]) + Len(buffer'[r]) = Len(got[r]) + Len(buffer[r])
      <4>1. \A a, b \in Nat : (a + 1) + (b - 1) = a + b
        BY SMT
      <4>2. Len(got[r]) \in Nat /\ Len(buffer[r]) \in Nat
        BY <1>6, <3>4
      <4>3. (Len(got[r]) + 1) + (Len(buffer[r]) - 1) = Len(got[r]) + Len(buffer[r])
        BY <4>1, <4>2, Zenon
      <4>4. QED
        BY <1>6, <1>7, <4>3
    <3>6. Accounted(r)' <=> Accounted(r)
      BY <3>3, <3>5 DEF Accounted
    <3>7. Numbered(r)'
      <4>1. Numbered(r)
        BY <2>2, <2>4 DEF RouteOK
      <4>2. ASSUME NEW i \in DOMAIN buffer'[r] PROVE buffer'[r][i] = Len(got'[r]) + i
        <5>1. i \in Int
          BY SMT, <1>6
        <5>2. buffer'[r][i] = Len(got[r]) + (i + 1)
          BY <1>6, <4>1 DEF Numbered
        <5>3. PICK n \in Nat : n = Len(got[r])
          BY <3>4
        <5>4. n + (i + 1) = (n + 1) + i
          BY SMT, <5>1
        <5>5. QED
          BY <1>7, <5>2, <5>3, <5>4
      <4>3. ASSUME NEW i \in DOMAIN got'[r] PROVE got'[r][i] = i
        <5>1. CASE i \in DOMAIN got[r]
          BY <1>7, <4>1, <5>1 DEF Numbered
        <5>2. CASE i = Len(got[r]) + 1
          BY <1>6, <1>7, <4>1, <5>2 DEF Numbered
        <5>3. QED
          BY SMT, <3>4, <5>1, <5>2
      <4>4. QED
        BY <1>2, <3>3, <4>1, <4>2, <4>3 DEF Numbered
    <3>8. Reported(r)'
      BY <1>2, <2>2, <2>4, <3>3 DEF RouteOK, Reported
    <3>9. Forwarded(r)' /\ Settled(r)'
      BY <1>2, <2>1, <2>2, <2>4, <3>6 DEF RouteOK, Forwarded, Settled, Alive
    <3>10. QED
      BY <2>4, <3>2, <3>7, <3>8, <3>9 DEF RouteOK
  <2>5. QED
    BY <2>3, <2>4
<1>11. QED
  BY <1>8, <1>9, <1>10 DEF IInv

\* poll_next() finds its queue empty and without a sender.
LEMMA PollEndIInv ==
  ASSUME IInv, NEW r \in Routes, PollEnd(r) PROVE IInv'
<1>1. /\ stream[r] = "open" /\ buffer[r] = <<>> /\ ~Fed(r) /\ ended' = ended \cup {r}
  BY DEF PollEnd
<1>2. /\ pc' = pc /\ arg' = arg /\ lock' = lock /\ routes' = routes /\ wakeups' = wakeups
      /\ phase' = phase /\ receivers' = receivers /\ senders' = senders /\ results' = results
      /\ sent' = sent /\ queue' = queue /\ closed' = closed /\ stream' = stream
      /\ buffer' = buffer /\ got' = got /\ unwoken' = unwoken /\ refused' = refused
  BY DEF PollEnd, clientVars, commVars, threadVars, channelVars, streamVars
<1>3. TypeOK
  BY DEF IInv
<1>4. TypeOK'
  BY <1>1, <1>2, <1>3 DEF TypeOK
<1>5. Busy' /\ QueuedOnce' /\ Batch' /\ RouteFollowsWakeup'
  BY <1>2 DEF Busy, QueuedOnce, Batch, RouteFollowsWakeup, IInv
<1>6. ASSUME NEW q \in Routes PROVE RouteOK(q)'
  <2>1. (Converted(q)' <=> Converted(q)) /\ (Queued(q)' <=> Queued(q))
    BY <1>2 DEF Converted, Queued
  <2>2. RouteOK(q)
    BY DEF IInv
  <2>3. CASE q # r
    <3>1. SameQueues(q) /\ SamePlace(q) /\ SameFate(q)
      BY <1>1, <1>2, <2>1, <2>3 DEF SameQueues, SamePlace, SameFate, Alive
    <3>2. QED
      BY <1>3, <1>4, <2>2, <3>1, Elsewhere
  <2>4. CASE q = r
    <3>1. Converted(r) /\ ~Queued(r) /\ r \notin senders
      BY <1>1 DEF Fed, Queued, Converted
    <3>2. Untouched(r)' /\ Ended(r)'
      BY <1>1, <1>2, <2>1, <2>4, <3>1 DEF Untouched, Ended
    <3>3. Taken(r)' = Taken(r) /\ (Accounted(r)' <=> Accounted(r))
      BY <1>2 DEF Taken, InBatch, Accounted
    <3>4. Numbered(r)' /\ Reported(r)'
      BY <1>2, <2>2, <2>4, <3>3 DEF RouteOK, Numbered, Reported
    <3>5. Forwarded(r)' /\ Settled(r)'
      BY <1>2, <2>1, <2>2, <2>4, <3>3 DEF RouteOK, Forwarded, Settled, Alive
    <3>6. QED
      BY <2>4, <3>2, <3>4, <3>5 DEF RouteOK
  <2>5. QED
    BY <2>3, <2>4
<1>7. QED
  BY <1>4, <1>5, <1>6 DEF IInv

\* A stream is dropped, and its queue with it.
LEMMA DropStreamIInv ==
  ASSUME IInv, NEW r \in Routes, DropStream(r) PROVE IInv'
<1>1. /\ stream[r] = "open"
      /\ stream' = [stream EXCEPT ![r] = "dropped"] /\ buffer' = [buffer EXCEPT ![r] = <<>>]
  BY DEF DropStream
<1>2. /\ pc' = pc /\ arg' = arg /\ lock' = lock /\ routes' = routes /\ wakeups' = wakeups
      /\ phase' = phase /\ receivers' = receivers /\ senders' = senders /\ results' = results
      /\ sent' = sent /\ queue' = queue /\ closed' = closed /\ got' = got
      /\ ended' = ended /\ unwoken' = unwoken /\ refused' = refused
  BY DEF DropStream, clientVars, commVars, threadVars, channelVars, historyVars
<1>3. TypeOK
  BY DEF IInv
<1>4. /\ stream'[r] = "dropped" /\ buffer'[r] = <<>>
      /\ \A q \in Routes \ {r} : stream'[q] = stream[q] /\ buffer'[q] = buffer[q]
  BY <1>1, <1>3 DEF TypeOK
<1>5. TypeOK'
  <2>1. <<>> \in Seq(Nat)
    BY SMT
  <2>2. QED
    BY <1>1, <1>2, <1>3, <2>1 DEF TypeOK
<1>6. Busy'
  <2>1. \A c \in Clients : pc[c] # "idle" => arg[c] # r
    BY <1>1 DEF IInv, Busy
  <2>2. QED
    BY <1>2, <1>4, <2>1 DEF IInv, Busy
<1>7. QueuedOnce' /\ Batch' /\ RouteFollowsWakeup'
  BY <1>2 DEF QueuedOnce, Batch, RouteFollowsWakeup, IInv
<1>8. ASSUME NEW q \in Routes PROVE RouteOK(q)'
  <2>1. Queued(q)' <=> Queued(q)
    BY <1>2 DEF Queued
  <2>2. RouteOK(q)
    BY DEF IInv
  <2>3. CASE q # r
    <3>1. Converted(q)' <=> Converted(q)
      BY <1>2, <1>4, <2>3 DEF Converted
    <3>2. SameQueues(q) /\ SamePlace(q) /\ SameFate(q)
      BY <1>2, <1>4, <2>1, <2>3, <3>1 DEF SameQueues, SamePlace, SameFate, Alive
    <3>3. QED
      BY <1>3, <1>5, <2>2, <3>2, Elsewhere
  <2>4. CASE q = r
    <3>1. Converted(r) /\ Converted(r)'
      BY <1>1, <1>4 DEF Converted
    <3>2. Untouched(r)' /\ Ended(r)'
      BY <1>2, <1>4, <2>1, <2>2, <2>4, <3>1 DEF RouteOK, Untouched, Ended
    <3>3. Taken(r)' = Taken(r)
      BY <1>2 DEF Taken
    <3>4. Numbered(r)' /\ Reported(r)'
      BY SMT, <1>2, <1>4, <2>2, <2>4, <3>3 DEF RouteOK, Numbered, Reported
    <3>5. Forwarded(r)' /\ Settled(r)'
      BY <1>2, <1>4, <2>1, <2>2, <2>4, <3>1 DEF RouteOK, Forwarded, Settled, Alive
    <3>6. QED
      BY <2>4, <3>2, <3>4, <3>5 DEF RouteOK
  <2>5. QED
    BY <2>3, <2>4
<1>9. QED
  BY <1>5, <1>6, <1>7, <1>8 DEF IInv

----------------------------------------------------------------------------
(* The theorems *)

\* A step that changes nothing keeps the invariant.
LEMMA StutterIInv == IInv /\ UNCHANGED vars => IInv'
<1>1. SUFFICES ASSUME IInv, UNCHANGED vars PROVE IInv'
  OBVIOUS
<1>2. /\ pc' = pc /\ arg' = arg /\ lock' = lock /\ routes' = routes /\ wakeups' = wakeups
      /\ phase' = phase /\ receivers' = receivers /\ senders' = senders /\ results' = results
      /\ sent' = sent /\ queue' = queue /\ closed' = closed /\ stream' = stream
      /\ buffer' = buffer /\ got' = got /\ ended' = ended /\ unwoken' = unwoken
      /\ refused' = refused
  BY <1>1 DEF vars, clientVars, commVars, threadVars, channelVars, streamVars, historyVars
<1>3. TypeOK /\ TypeOK'
  BY <1>1, <1>2 DEF IInv, TypeOK
<1>4. Busy' /\ QueuedOnce' /\ Batch' /\ RouteFollowsWakeup'
  BY <1>1, <1>2 DEF Busy, QueuedOnce, Batch, RouteFollowsWakeup, IInv
<1>5. ASSUME NEW q \in Routes PROVE RouteOK(q)'
  <2>1. (Converted(q)' <=> Converted(q)) /\ (Queued(q)' <=> Queued(q))
    BY <1>2 DEF Converted, Queued
  <2>2. SameQueues(q) /\ SamePlace(q) /\ SameFate(q)
    BY <1>2, <2>1 DEF SameQueues, SamePlace, SameFate, Alive
  <2>3. QED
    BY <1>1, <1>3, <2>2, Elsewhere DEF IInv
<1>6. QED
  BY <1>3, <1>4, <1>5 DEF IInv

\* The invariant holds in every state.
LEMMA Invariance == Spec => []IInv
<1>1. ASSUME IInv, Next PROVE IInv'
  <2>1. CASE \E c \in Clients : ClientStep(c) \/ \E r \in Routes : ToStream(c, r)
    BY <1>1, <2>1, ToStreamIInv, LockIInv, ReturnIInv DEF ClientStep
  <2>2. CASE ThreadStep
    BY <1>1, <2>2, SelectIInv, ForwardIInv, RemoveIInv, PhaseIInv, AddRouteIInv, AddRouteFailsIInv
    DEF ThreadStep
  <2>3. CASE SelectFails
    BY <1>1, <2>3, SelectFailsIInv
  <2>4. CASE \E r \in Routes : SendMessage(r) \/ CloseSenders(r) \/ StreamStep(r) \/ DropStream(r)
    BY <1>1, <2>4, SendMessageIInv, CloseSendersIInv, PollItemIInv, PollEndIInv, DropStreamIInv
    DEF StreamStep
  <2>5. QED
    BY <1>1, <2>1, <2>2, <2>3, <2>4 DEF Next
<1>2. IInv /\ [Next]_vars => IInv'
  BY <1>1, StutterIInv
<1>3. QED
  BY InitIInv, <1>2, PTL DEF Spec

\* The routing thread never sleeps on a queued route without a wakeup on its way,
\* because to_stream() queues the route before it sends the wakeup.
THEOREM NoRouteIsForgotten == Spec => []RouteFollowsWakeup
<1>1. IInv => RouteFollowsWakeup
  BY DEF IInv
<1>2. QED
  BY <1>1, Invariance, PTL

\* A stream yields the messages of its channel, each once and in order.
THEOREM StreamsKeepTheOrder == Spec => []StreamInOrder
<1>1. IInv => StreamInOrder
  BY DEF IInv, RouteOK, Numbered, StreamInOrder
<1>2. QED
  BY <1>1, Invariance, PTL

\* A stream that ended has yielded everything sent on its closed channel, unless the
\* thread ended, its receiver was refused, or the stream was dropped.
THEOREM StreamsEndWithTheirChannel == Spec => []EndIsEnd
<1>1. ASSUME IInv PROVE EndIsEnd
  <2>1. SUFFICES ASSUME NEW r \in ended, stream[r] # "dropped", r \notin refused, Alive
                 PROVE  r \in closed /\ Len(got[r]) = sent[r]
    BY DEF EndIsEnd
  <2>2. TypeOK /\ r \in Routes /\ RouteOK(r)
    BY <1>1 DEF IInv, TypeOK
  <2>3. Converted(r) /\ r \notin senders /\ ~Queued(r) /\ buffer[r] = <<>>
    BY <2>1, <2>2 DEF RouteOK, Ended
  <2>4. r \in closed /\ queue[r] = <<>> /\ Accounted(r)
    BY <2>1, <2>2, <2>3 DEF RouteOK, Settled
  <2>5. ~InBatch(r)
    BY <2>2, <2>3 DEF RouteOK, Reported, InBatch
  <2>6. sent[r] \in Nat /\ Len(got[r]) \in Nat
    BY SMT, <2>2 DEF TypeOK
  <2>7. Len(got[r]) + 0 = sent[r] - 0
    BY <2>3, <2>4, <2>5 DEF Accounted, Taken
  <2>8. QED
    BY SMT, <2>4, <2>6, <2>7
<1>2. QED
  BY <1>1, Invariance, PTL
=============================================================================
