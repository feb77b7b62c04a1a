-------------------------- MODULE InProcessProofs --------------------------
(***************************************************************************)
(* Proofs about the in-process transport, for any number of threads,       *)
(* channels and messages: a receiver is in one place however it travels,   *)
(* the vectors of the receiver set stay aligned, closure is final, and     *)
(* every channel implements the queue of IpcChannel.                       *)
(***************************************************************************)
EXTENDS InProcess, SequenceFacts, TLAPS

\* Leaves are first-order reasoning about sets and functions, but where they name SMT.
USE Zenon

\* What is left of a sequence when its i-th element is removed.
LEMMA Removed ==
  ASSUME NEW S, NEW s \in Seq(S), NEW i \in DOMAIN s
  PROVE  /\ remove(s, i) \in Seq(S) /\ Len(remove(s, i)) = Len(s) - 1
         /\ \A j \in DOMAIN remove(s, i) :
              \/ j < i /\ j \in DOMAIN s /\ remove(s, i)[j] = s[j]
              \/ j >= i /\ j + 1 \in DOMAIN s /\ remove(s, i)[j] = s[j + 1]
         /\ \A j \in DOMAIN s : j # i => \E k \in DOMAIN remove(s, i) : remove(s, i)[k] = s[j]
<1> DEFINE a == SubSeq(s, 1, i - 1)
           b == SubSeq(s, i + 1, Len(s))
           r == a \o b
<1>1. i \in 1 .. Len(s) /\ Len(s) \in Nat
  BY SMT
<1>2. a \in Seq(S) /\ Len(a) = i - 1 /\ \A j \in 1 .. i - 1 : a[j] = s[j]
  BY SMT, <1>1
<1>3. b \in Seq(S) /\ Len(b) = Len(s) - i /\ \A j \in 1 .. Len(s) - i : b[j] = s[i + j]
  BY SMT, <1>1
<1>4. /\ r \in Seq(S) /\ Len(r) = Len(s) - 1
      /\ \A j \in 1 .. Len(s) - 1 : r[j] = IF j < i THEN a[j] ELSE b[j - (i - 1)]
  <2>1. PICK u \in Seq(S) : u = a
    BY <1>2
  <2>2. PICK v \in Seq(S) : v = b
    BY <1>3
  <2>3. u \o v \in Seq(S) /\ Len(u \o v) = Len(u) + Len(v)
    BY SMT
  <2>4. \A j \in 1 .. Len(u) + Len(v) : (u \o v)[j] = IF j <= Len(u) THEN u[j] ELSE v[j - Len(u)]
    BY SMT
  <2>5. r = u \o v
    BY <2>1, <2>2
  <2> HIDE DEF a, b, r
  <2>6. Len(u) = i - 1 /\ Len(v) = Len(s) - i
    BY <1>2, <1>3, <2>1, <2>2
  <2>7. PICK n \in Nat : n = Len(s) /\ i \in 1 .. n
    BY <1>1
  <2>8. (i - 1) + (n - i) = n - 1 /\ \A j \in 1 .. n - 1 : j <= i - 1 <=> j < i
    <3>1. \A m \in Nat : \A k \in 1 .. m : (k - 1) + (m - k) = m - 1
      BY SMT
    <3>2. \A m \in Nat : \A k \in 1 .. m : \A j \in 1 .. m - 1 : j <= k - 1 <=> j < k
      BY SMT
    <3>3. QED
      BY <2>7, <3>1, <3>2
  <2>9. Len(r) = n - 1
    BY <2>3, <2>5, <2>6, <2>7, <2>8
  <2>10. \A j \in 1 .. n - 1 : r[j] = IF j <= i - 1 THEN u[j] ELSE v[j - (i - 1)]
    BY <2>4, <2>5, <2>6, <2>7, <2>8
  <2>11. QED
    BY <2>1, <2>2, <2>3, <2>5, <2>7, <2>8, <2>9, <2>10
<1>5. r = remove(s, i)
  BY DEF remove
<1> HIDE DEF a, b, r
<1>6. \A j \in 1 .. Len(s) - 1 : r[j] = IF j < i THEN s[j] ELSE s[j + 1]
  <2> SUFFICES ASSUME NEW j \in 1 .. Len(s) - 1 PROVE r[j] = IF j < i THEN s[j] ELSE s[j + 1]
    OBVIOUS
  <2>1. CASE j < i
    BY SMT, <1>1, <1>2, <1>4, <2>1
  <2>2. CASE ~(j < i)
    <3>1. j - (i - 1) \in 1 .. Len(s) - i /\ i + (j - (i - 1)) = j + 1
      BY SMT, <1>1, <2>2
    <3>2. QED
      BY <1>3, <1>4, <2>2, <3>1
  <2>3. QED
    BY <2>1, <2>2
<1>7. DOMAIN r = 1 .. Len(s) - 1 /\ DOMAIN s = 1 .. Len(s)
  BY SMT, <1>4
<1>8. ASSUME NEW j \in DOMAIN s, j # i
      PROVE  \E k \in DOMAIN r : r[k] = s[j]
  <2>1. CASE j < i
    <3>1. j \in 1 .. Len(s) - 1
      BY SMT, <1>1, <1>7, <2>1
    <3>2. QED
      BY <1>6, <1>7, <2>1, <3>1
  <2>2. CASE j > i
    <3>1. j - 1 \in 1 .. Len(s) - 1 /\ ~(j - 1 < i) /\ (j - 1) + 1 = j
      BY SMT, <1>1, <1>7, <2>2
    <3>2. QED
      BY <1>6, <1>7, <3>1
  <2>3. QED
    BY SMT, <1>1, <1>7, <1>8, <2>1, <2>2
<1>9. ASSUME NEW j \in DOMAIN r
      PROVE  \/ j < i /\ j \in DOMAIN s /\ r[j] = s[j]
             \/ j >= i /\ j + 1 \in DOMAIN s /\ r[j] = s[j + 1]
  BY SMT, <1>1, <1>6, <1>7
<1>10. QED
  BY <1>4, <1>5, <1>8, <1>9

-----------------------------------------------------------------------------
(* The inductive invariant *)

\* Message i of channel d carries the receiver of c.
HoldsReceiver(d, i, c) == queue[d][i].kind = "rx" /\ queue[d][i].chan = c

\* The set holds a receiver once, under an id that no other receiver ever had, and a
\* receiver that was added is in the set or gone.
SetInv ==
  /\ \A i, j \in DOMAIN receivers : receivers[i] = receivers[j] => i = j
  /\ \A c \in Chans : ids[c] # -1 => ids[c] < incrementor /\ receiver[c] \in {"set", "dropped"}
  /\ \A c, d \in Chans : ids[c] = ids[d] /\ ids[c] # -1 => c = d

\* An id that was reported closed is that of a receiver that is gone.
ClosesInv == \A i \in DOMAIN closes : \E c \in Chans : closes[i] = ids[c] /\ receiver[c] = "dropped"

\* The messages of c that were received and then those that are queued are all that
\* were sent, in order; when the receiver is gone the rest is lost.
NamesInv ==
  \A c \in Chans :
    /\ Len(got[c]) <= Len(sent[c])
    /\ \A i \in DOMAIN got[c] : got[c][i] = <<sent[c][i], i>>
    /\ receiver[c] = "dropped" => queue[c] = <<>>
    /\ receiver[c] # "dropped" => Len(got[c]) + Len(queue[c]) = Len(sent[c])
    /\ \A i \in DOMAIN queue[c] :
         /\ Len(got[c]) + i \in DOMAIN sent[c]
         /\ queue[c][i].id = <<sent[c][Len(got[c]) + i], Len(got[c]) + i>>

IInv == TypeOK /\ OneReceiver /\ IdsAligned /\ SetInv /\ ClosesInv /\ ClosedIsFinal /\ NamesInv

-----------------------------------------------------------------------------
(* What the steps do to the queues and to the ends *)

\* What the next message of thread t on c is named.
NextName(t, c) == <<t, Len(sent[c]) + 1>>

\* Message m is sent on c: the queue grows at its end, and a receiver in m moves.
SentOn(m, c) ==
  /\ queue'[c] = Append(queue[c], m)
  /\ queue' \in [Chans -> Seq(Message)]
  /\ Len(queue'[c]) = Len(queue[c]) + 1
  /\ \A i \in DOMAIN queue[c] : i \in DOMAIN queue'[c] /\ queue'[c][i] = queue[c][i]
  /\ Len(queue[c]) + 1 \in DOMAIN queue'[c] /\ queue'[c][Len(queue[c]) + 1] = m
  /\ \A i \in DOMAIN queue'[c] : i \in DOMAIN queue[c] \/ i = Len(queue[c]) + 1
  /\ \A e \in Chans \ {c} : queue'[e] = queue[e]
  /\ \A e \in Chans : receiver'[e] = IF m.kind = "rx" /\ m.chan = e THEN "moved" ELSE receiver[e]

\* Sending names the message after its sender and its place, and puts it last in the
\* queue of its channel only.
LEMMA SendEffect ==
  ASSUME TypeOK, NEW t \in Threads, NEW c \in Chans, NEW kind \in {"data", "tx", "rx"},
         NEW d \in Chans \cup {None}, Send(t, c, kind, d)
  PROVE  \E m \in Message :
           m.kind = kind /\ m.chan = d /\ m.id = NextName(t, c) /\ SentOn(m, c)
<1> DEFINE m == Named(t, c, kind, d)
<1>1. /\ queue \in [Chans -> Seq(Message)] /\ receiver \in [Chans -> Threads \cup {"new", "moved", "set", "dropped"}]
      /\ queue[c] \in Seq(Message) /\ Len(sent[c]) \in Nat
  BY SMT DEF TypeOK
<1>2. m \in Message /\ m.kind = kind /\ m.chan = d /\ m.id = NextName(t, c)
  BY SMT, <1>1 DEF Named, Message, NextName
<1> HIDE DEF m
<1>3. queue' = [queue EXCEPT ![c] = Append(queue[c], m)]
  BY DEF Send, m
<1>4. /\ queue'[c] = Append(queue[c], m) /\ queue' \in [Chans -> Seq(Message)]
      /\ \A e \in Chans \ {c} : queue'[e] = queue[e]
  BY SMT, <1>1, <1>2, <1>3
<1>5. PICK q \in Seq(Message) : q = queue[c]
  BY <1>1
<1>6. /\ Len(Append(q, m)) = Len(q) + 1 /\ Len(q) \in Nat
      /\ DOMAIN q = 1 .. Len(q) /\ DOMAIN Append(q, m) = 1 .. Len(q) + 1
      /\ \A i \in DOMAIN q : Append(q, m)[i] = q[i]
      /\ Append(q, m)[Len(q) + 1] = m
  BY SMT, <1>2
<1>7. \A e \in Chans : receiver'[e] = IF kind = "rx" /\ d = e THEN "moved" ELSE receiver[e]
  BY <1>1 DEF Send
<1>8. /\ \A i \in DOMAIN q : i \in DOMAIN Append(q, m)
      /\ Len(q) + 1 \in DOMAIN Append(q, m)
      /\ \A i \in DOMAIN Append(q, m) : i \in DOMAIN q \/ i = Len(q) + 1
  BY SMT, <1>6
<1>9. QED
  BY SMT, <1>2, <1>4, <1>5, <1>6, <1>7, <1>8 DEF SentOn

\* Thread t takes message m from c: m leaves the queue, and the end it carries goes to
\* the thread.
TakenFrom(m, t, c) ==
  /\ 1 \in DOMAIN queue[c] /\ m = queue[c][1]
  /\ queue' \in [Chans -> Seq(Message)]
  /\ Len(queue'[c]) = Len(queue[c]) - 1
  /\ \A i \in DOMAIN queue'[c] : i + 1 \in DOMAIN queue[c] /\ queue'[c][i] = queue[c][i + 1]
  /\ \A i \in DOMAIN queue[c] :
       i = 1 \/ (i - 1 \in DOMAIN queue'[c] /\ queue'[c][i - 1] = queue[c][i])
  /\ \A e \in Chans \ {c} : queue'[e] = queue[e]
  /\ got' = [got EXCEPT ![c] = Append(@, m.id)]
  /\ senders' \in [Chans -> SUBSET Threads]
  /\ \A e \in Chans : senders'[e] = IF m.kind = "tx" /\ m.chan = e THEN senders[e] \cup {t} ELSE senders[e]
  /\ receiver' \in [Chans -> Threads \cup {"new", "moved", "set", "dropped"}]
  /\ \A e \in Chans : receiver'[e] = IF m.kind = "rx" /\ m.chan = e THEN t ELSE receiver[e]

\* Receiving takes the first message of one channel and hands over the end it carries.
LEMMA TakeEffect ==
  ASSUME TypeOK, NEW t \in Threads, NEW c \in Chans, Take(t, c)
  PROVE  \E m \in Message : TakenFrom(m, t, c)
<1>1. /\ queue \in [Chans -> Seq(Message)] /\ receiver \in [Chans -> Threads \cup {"new", "moved", "set", "dropped"}]
      /\ queue[c] \in Seq(Message) /\ senders \in [Chans -> SUBSET Threads]
  BY DEF TypeOK
<1>2. PICK q \in Seq(Message) : q = queue[c]
  BY <1>1
<1>3. q # <<>>
  BY <1>2 DEF Take
<1>4. PICK m \in Message : m = Head(q)
  BY <1>3, TailOf
<1>5. /\ queue' = [queue EXCEPT ![c] = Tail(q)]
      /\ got' = [got EXCEPT ![c] = Append(@, m.id)]
      /\ senders' = IF m.kind = "tx" THEN [senders EXCEPT ![m.chan] = @ \cup {t}] ELSE senders
      /\ receiver' = IF m.kind = "rx" THEN [receiver EXCEPT ![m.chan] = t] ELSE receiver
  BY <1>2, <1>4 DEF Take
<1>6. /\ Tail(q) \in Seq(Message) /\ m = q[1] /\ 1 \in DOMAIN q
      /\ Len(Tail(q)) = Len(q) - 1
      /\ \A i \in DOMAIN Tail(q) : i + 1 \in DOMAIN q /\ Tail(q)[i] = q[i + 1]
      /\ \A i \in DOMAIN q : i = 1 \/ (i - 1 \in DOMAIN Tail(q) /\ Tail(q)[i - 1] = q[i])
  BY <1>3, <1>4, TailOf
<1>7. queue'[c] = Tail(q) /\ queue' \in [Chans -> Seq(Message)] /\ \A e \in Chans \ {c} : queue'[e] = queue[e]
  BY <1>1, <1>5, <1>6
<1>8. /\ senders' \in [Chans -> SUBSET Threads]
      /\ \A e \in Chans : senders'[e] = IF m.kind = "tx" /\ m.chan = e THEN senders[e] \cup {t} ELSE senders[e]
  BY <1>1, <1>5
<1>9. /\ receiver' \in [Chans -> Threads \cup {"new", "moved", "set", "dropped"}]
      /\ \A e \in Chans : receiver'[e] = IF m.kind = "rx" /\ m.chan = e THEN t ELSE receiver[e]
  BY <1>1, <1>5
<1>10. QED
  BY <1>2, <1>5, <1>6, <1>7, <1>8, <1>9 DEF TakenFrom

\* What is discarded with the receiver of c: c, all that its discarded messages carry,
\* and nothing else.
LEMMA DoomedEffect ==
  ASSUME NEW c \in Chans
  PROVE  /\ c \in Doomed({c})
         /\ \A d \in Doomed({c}), e \in Chans : Carries(d, "rx", e) => e \in Doomed({c})
         /\ \A e \in Doomed({c}) : e # c => \E d \in Doomed({c}) : Carries(d, "rx", e)
<1>1. c \in Doomed({c})
  BY DEF Doomed
<1>2. ASSUME NEW d \in Doomed({c}), NEW e \in Chans, Carries(d, "rx", e)
      PROVE  e \in Doomed({c})
  BY <1>2 DEF Doomed
<1>3. ASSUME NEW e \in Doomed({c}), e # c, \A d \in Doomed({c}) : ~Carries(d, "rx", e)
      PROVE  FALSE
  <2> DEFINE D == Doomed({c}) \ {e}
  <2>1. D \in SUBSET Chans /\ {c} \subseteq D
    BY <1>1, <1>3 DEF Doomed
  <2>2. \A d \in D, f \in Chans : Carries(d, "rx", f) => f \in D
    BY <1>2, <1>3
  <2>3. e \in D
    <3> HIDE DEF D
    <3>1. QED BY <1>3, <2>1, <2>2 DEF Doomed
  <2>4. QED
    BY <2>3
<1>4. QED
  BY <1>1, <1>2, <1>3

\* The receiver of c is discarded, by its thread or in a message that cannot be sent.
Discard(c) ==
  /\ receiver[c] \in Threads
  /\ DropReceivers({c})
  /\ UNCHANGED <<senders, setVars, sent, got, ids, closes>>

\* A message of c is received, by the thread that holds the receiver or through the set.
Receive(t, c) ==
  /\ receiver[c] \in {t, "set"}
  /\ Take(t, c)
  /\ UNCHANGED <<setVars, sent, ids, closes>>

\* The steps, with those that do the same to the channels taken together.
Step ==
  \/ \E t \in Threads, c \in Chans : NewChannel(t, c) \/ Add(t, c) \/ DropSender(t, c) \/ Receive(t, c)
  \/ \E t, u \in Threads, c \in Chans : CloneSender(t, u, c)
  \/ \E t \in Threads, c \in Chans, kind \in {"data", "tx", "rx"}, d \in Chans \cup {None} : Send(t, c, kind, d)
  \/ \E c \in Chans : Discard(c)
  \/ \E i \in DOMAIN receivers : SelectClosed(i)
  \/ UNCHANGED vars

\* Dropping a receiver and failing to send one discard it alike, and the set receives
\* as a thread does, so every step of the module is one of Step.
LEMMA NextIsStep ==
  ASSUME TypeOK, OneReceiver, [Next]_vars
  PROVE  Step
<1>1. ASSUME NEW t \in Threads, NEW c \in Chans, DropReceiver(t, c)
      PROVE  Discard(c)
  BY <1>1 DEF DropReceiver, Discard
<1>2. ASSUME NEW t \in Threads, NEW c \in Chans, NEW d \in Chans, SendBroken(t, c, d)
      PROVE  Discard(d)
  BY <1>2 DEF SendBroken, Owns, Discard
<1>3. ASSUME NEW t \in Threads, NEW c \in Chans, Recv(t, c)
      PROVE  Receive(t, c)
  BY <1>3 DEF Recv, Receive
<1>4. ASSUME NEW t \in Threads, NEW i \in DOMAIN receivers, SelectData(t, i)
      PROVE  receivers[i] \in Chans /\ Receive(t, receivers[i])
  <2>1. receivers[i] \in Chans
    BY SMT DEF TypeOK
  <2>2. receiver[receivers[i]] = "set"
    BY <2>1 DEF OneReceiver
  <2>3. QED
    BY <1>4, <2>1, <2>2 DEF SelectData, Receive
<1>5. QED
  BY <1>1, <1>2, <1>3, <1>4 DEF Next, Step

-----------------------------------------------------------------------------
(* Types and the places of receivers *)

\* Every step keeps the types.
LEMMA TypeStep ==
  ASSUME TypeOK, IdsAligned, Step
  PROVE  TypeOK'
<1> USE DEF TypeOK
<1>1. ASSUME NEW t \in Threads, NEW c \in Chans, NewChannel(t, c)
      PROVE  TypeOK'
  BY <1>1 DEF NewChannel, setVars
<1>2. ASSUME NEW t \in Threads, NEW c \in Chans, DropSender(t, c)
      PROVE  TypeOK'
  BY <1>2 DEF DropSender, setVars
<1>3. ASSUME NEW c \in Chans, Discard(c)
      PROVE  TypeOK'
  BY SMT, <1>3 DEF Discard, DropReceivers, setVars
<1>4. ASSUME NEW t \in Threads, NEW c \in Chans, Receive(t, c)
      PROVE  TypeOK'
  <2>1. PICK m \in Message : TakenFrom(m, t, c)
    BY <1>4, TakeEffect DEF Receive
  <2>2. m.id \in Threads \X Nat
    BY DEF Message
  <2>3. got' \in [Chans -> Seq(Threads \X Nat)]
    BY SMT, <2>1, <2>2 DEF TakenFrom
  <2>4. QED
    BY <1>4, <2>1, <2>3 DEF TakenFrom, Receive, setVars
<1>5. ASSUME NEW t \in Threads, NEW c \in Chans, Add(t, c)
      PROVE  TypeOK'
  BY SMT, <1>5 DEF Add
<1>6. ASSUME NEW t \in Threads, NEW u \in Threads, NEW c \in Chans, CloneSender(t, u, c)
      PROVE  TypeOK'
  BY <1>6 DEF CloneSender, setVars
<1>7. ASSUME NEW t \in Threads, NEW c \in Chans, NEW kind \in {"data", "tx", "rx"},
             NEW d \in Chans \cup {None}, Send(t, c, kind, d)
      PROVE  TypeOK'
  <2>1. queue' \in [Chans -> Seq(Message)]
    <3>1. PICK m \in Message : SentOn(m, c)
      BY SMT, <1>7, SendEffect
    <3>2. QED
      BY <3>1 DEF SentOn
  <2>2. sent' \in [Chans -> Seq(Threads)]
    BY SMT, <1>7 DEF Send
  <2>3. receiver' \in [Chans -> Threads \cup {"new", "moved", "set", "dropped"}]
    BY <1>7 DEF Send
  <2>4. QED
    BY <1>7, <2>1, <2>2, <2>3 DEF Send, setVars
<1>8. ASSUME NEW i \in DOMAIN receivers, SelectClosed(i)
      PROVE  TypeOK'
  <2>1. receivers' \in Seq(Chans)
    BY <1>8, Removed DEF SelectClosed
  <2>2. i \in DOMAIN receiver_ids
    BY SMT DEF IdsAligned
  <2>3. receiver_ids' \in Seq(Nat) /\ receiver_ids[i] \in Nat
    <3>1. receiver_ids' = remove(receiver_ids, i) /\ receiver_ids \in Seq(Nat)
      BY <1>8 DEF SelectClosed
    <3>2. receiver_ids[i] \in Nat
      BY SMT, <2>2, <3>1
    <3>3. QED
      BY <2>2, <3>1, <3>2, Removed
  <2>4. closes' \in Seq(Nat)
    BY SMT, <1>8, <2>3 DEF SelectClosed
  <2>5. QED
    BY <1>8, <2>1, <2>3, <2>4 DEF SelectClosed
<1>9. CASE UNCHANGED vars
  BY <1>9 DEF vars, setVars
<1>10. QED
  BY <1>1, <1>2, <1>3, <1>4, <1>5, <1>6, <1>7, <1>8, <1>9 DEF Step
\* The three parts of OneReceiver, for proofs that take them one by one.
Moved(c) == receiver[c] = "moved" <=> \E d \in Chans : \E i \in DOMAIN queue[d] : HoldsReceiver(d, i, c)
Once(c) ==
  \A d, e \in Chans : \A i \in DOMAIN queue[d], j \in DOMAIN queue[e] :
    HoldsReceiver(d, i, c) /\ HoldsReceiver(e, j, c) => d = e /\ i = j
InSet(c) == receiver[c] = "set" <=> \E i \in DOMAIN receivers : receivers[i] = c

\* OneReceiver, channel by channel.
LEMMA OneReceiverParts == OneReceiver <=> \A c \in Chans : Moved(c) /\ Once(c) /\ InSet(c)
BY DEF OneReceiver, Moved, Once, InSet, HoldsReceiver

\* Every step keeps each receiver in one place: a message that is sent takes the
\* receiver from its thread, the one that is received gives it back, and what is
\* discarded takes along the receivers in its messages.
LEMMA PlacesStep ==
  ASSUME InProcessAssumption, TypeOK, OneReceiver, SetInv, Step
  PROVE  OneReceiver'
<1>1. \A c \in Chans : Moved(c) /\ Once(c) /\ InSet(c)
  BY OneReceiverParts
<1> SUFFICES ASSUME NEW e \in Chans PROVE Moved(e)' /\ Once(e)' /\ InSet(e)'
  BY DEF OneReceiver, Moved, Once, InSet, HoldsReceiver
<1>2. /\ queue \in [Chans -> Seq(Message)] /\ receivers \in Seq(Chans)
      /\ receiver \in [Chans -> Threads \cup {"new", "moved", "set", "dropped"}]
  BY DEF TypeOK
<1>3. \A t \in Threads : t \notin {"new", "moved", "set", "dropped"}
  BY DEF InProcessAssumption
<1>4. ASSUME NEW t \in Threads, NEW c \in Chans, NewChannel(t, c)
      PROVE  Moved(e)' /\ Once(e)' /\ InSet(e)'
  BY SMT, <1>1, <1>2, <1>3, <1>4 DEF NewChannel, setVars, Moved, Once, InSet, HoldsReceiver
<1>5. CASE UNCHANGED <<queue, receiver, receivers>>
  BY SMT, <1>1, <1>5 DEF Moved, Once, InSet, HoldsReceiver
<1>6. ASSUME NEW t \in Threads, NEW c \in Chans, Add(t, c)
      PROVE  Moved(e)' /\ Once(e)' /\ InSet(e)'
  <2>1. /\ queue' = queue /\ receiver[c] = t /\ receivers' = Append(receivers, c)
        /\ receiver' = [receiver EXCEPT ![c] = "set"]
    BY <1>6 DEF Add
  <2>2. Moved(e)' /\ Once(e)'
    BY SMT, <1>1, <1>2, <1>3, <2>1 DEF Moved, Once, HoldsReceiver
  <2>3. PICK s \in Seq(Chans) : s = receivers
    BY <1>2
  <2>4. /\ \A i \in DOMAIN s : i \in DOMAIN Append(s, c) /\ Append(s, c)[i] = s[i]
        /\ Len(s) + 1 \in DOMAIN Append(s, c) /\ Append(s, c)[Len(s) + 1] = c
        /\ \A i \in DOMAIN Append(s, c) : (i \in DOMAIN s /\ Append(s, c)[i] = s[i]) \/ Append(s, c)[i] = c
    BY SMT
  <2>5. InSet(e)'
    BY SMT, <1>1, <1>2, <2>1, <2>3, <2>4 DEF InSet
  <2>6. QED
    BY <2>2, <2>5
<1>7. ASSUME NEW t \in Threads, NEW c \in Chans, Receive(t, c)
      PROVE  Moved(e)' /\ Once(e)' /\ InSet(e)'
  <2>1. PICK m \in Message : TakenFrom(m, t, c)
    BY <1>7, TakeEffect DEF Receive
  <2>2. receivers' = receivers
    BY <1>7 DEF Receive, setVars
  <2>3. /\ 1 \in DOMAIN queue[c] /\ m = queue[c][1]
        /\ \A i \in DOMAIN queue'[c] : i + 1 \in DOMAIN queue[c] /\ queue'[c][i] = queue[c][i + 1]
        /\ \A i \in DOMAIN queue[c] : i = 1 \/ (i - 1 \in DOMAIN queue'[c] /\ queue'[c][i - 1] = queue[c][i])
        /\ \A f \in Chans \ {c} : queue'[f] = queue[f]
        /\ receiver'[e] = IF m.kind = "rx" /\ m.chan = e THEN t ELSE receiver[e]
        /\ queue' \in [Chans -> Seq(Message)]
    BY <2>1 DEF TakenFrom
  <2>4. ASSUME NEW d \in Chans, NEW i \in DOMAIN queue'[d], HoldsReceiver(d, i, e)'
        PROVE  \E j \in DOMAIN queue[d] : HoldsReceiver(d, j, e) /\ j = (IF d = c THEN i + 1 ELSE i)
    BY SMT, <2>3, <2>4 DEF HoldsReceiver
  <2>5. \A d \in Chans : \A i \in DOMAIN queue'[d] : i \in Nat \ {0}
    BY SMT, <2>3
  <2>6. Once(e)'
    <3> SUFFICES ASSUME NEW d \in Chans, NEW f \in Chans, NEW i \in DOMAIN queue'[d], NEW j \in DOMAIN queue'[f],
                        HoldsReceiver(d, i, e)', HoldsReceiver(f, j, e)'
                 PROVE  d = f /\ i = j
      BY DEF Once
    <3>1. PICK k \in DOMAIN queue[d] : HoldsReceiver(d, k, e) /\ k = (IF d = c THEN i + 1 ELSE i)
      BY <2>4
    <3>2. PICK l \in DOMAIN queue[f] : HoldsReceiver(f, l, e) /\ l = (IF f = c THEN j + 1 ELSE j)
      BY <2>4
    <3>3. d = f /\ k = l
      BY <1>1, <3>1, <3>2 DEF Once
    <3>4. QED
      BY SMT, <2>5, <3>1, <3>2, <3>3
  <2>7. CASE m.kind = "rx" /\ m.chan = e
    <3>1. HoldsReceiver(c, 1, e)
      BY <2>3, <2>7 DEF HoldsReceiver
    <3>2. receiver[e] = "moved" /\ receiver'[e] = t
      BY <1>1, <2>3, <2>7, <3>1 DEF Moved
    <3>3. ASSUME NEW d \in Chans, NEW i \in DOMAIN queue'[d], HoldsReceiver(d, i, e)'
          PROVE  FALSE
      <4>1. PICK k \in DOMAIN queue[d] : HoldsReceiver(d, k, e) /\ k = (IF d = c THEN i + 1 ELSE i)
        BY <2>4, <3>3
      <4>2. d = c /\ k = 1
        BY <1>1, <2>3, <3>1, <4>1 DEF Once
      <4>3. QED
        BY SMT, <2>5, <3>3, <4>1, <4>2
    <3>4. Moved(e)'
      BY <1>3, <3>2, <3>3 DEF Moved
    <3>5. InSet(e)'
      BY <1>1, <1>3, <2>2, <3>2 DEF InSet
    <3>6. QED
      BY <2>6, <3>4, <3>5
  <2>8. CASE ~(m.kind = "rx" /\ m.chan = e)
    <3>1. receiver'[e] = receiver[e]
      BY <2>3, <2>8
    <3>2. ASSUME NEW d \in Chans, NEW i \in DOMAIN queue[d], HoldsReceiver(d, i, e)
          PROVE  \E j \in DOMAIN queue'[d] : HoldsReceiver(d, j, e)'
      <4>1. CASE d # c
        BY <2>3, <3>2, <4>1 DEF HoldsReceiver
      <4>2. CASE d = c
        <5>1. i # 1
          BY <2>3, <2>8, <3>2, <4>2 DEF HoldsReceiver
        <5>2. QED
          BY SMT, <2>3, <3>2, <4>2, <5>1 DEF HoldsReceiver
      <4>3. QED
        BY <4>1, <4>2
    <3>3. Moved(e)'
      BY <1>1, <2>4, <3>1, <3>2 DEF Moved
    <3>4. InSet(e)'
      BY <1>1, <2>2, <3>1 DEF InSet
    <3>5. QED
      BY <2>6, <3>3, <3>4
  <2>9. QED
    BY <2>7, <2>8
<1>8. ASSUME NEW t \in Threads, NEW c \in Chans, NEW kind \in {"data", "tx", "rx"},
             NEW g \in Chans \cup {None}, Send(t, c, kind, g)
      PROVE  Moved(e)' /\ Once(e)' /\ InSet(e)'
  <2>1. PICK m \in Message : m.kind = kind /\ m.chan = g /\ SentOn(m, c)
    BY SMT, <1>8, SendEffect
  <2>2. receivers' = receivers /\ (kind = "rx" => receiver[g] = t)
    BY <1>8 DEF Send, setVars, Owns
  <2>3. /\ \A i \in DOMAIN queue[c] : i \in DOMAIN queue'[c] /\ queue'[c][i] = queue[c][i]
        /\ Len(queue[c]) + 1 \in DOMAIN queue'[c] /\ queue'[c][Len(queue[c]) + 1] = m
        /\ \A i \in DOMAIN queue'[c] : i \in DOMAIN queue[c] \/ i = Len(queue[c]) + 1
        /\ \A f \in Chans \ {c} : queue'[f] = queue[f]
        /\ receiver'[e] = IF m.kind = "rx" /\ m.chan = e THEN "moved" ELSE receiver[e]
    BY <2>1 DEF SentOn
  <2>4. CASE m.kind = "rx" /\ m.chan = e
    <3>1. PICK n : n = Len(queue[c]) + 1
      OBVIOUS
    <3>2. receiver[e] = t /\ receiver'[e] = "moved"
      BY <2>1, <2>2, <2>3, <2>4
    <3>3. \A d \in Chans : \A i \in DOMAIN queue[d] : ~HoldsReceiver(d, i, e)
      BY <1>1, <1>3, <3>2 DEF Moved
    <3>4. ASSUME NEW d \in Chans, NEW i \in DOMAIN queue'[d], HoldsReceiver(d, i, e)'
          PROVE  d = c /\ i = n
      BY <2>3, <3>3, <3>4, <3>1 DEF HoldsReceiver
    <3>5. n \in DOMAIN queue'[c] /\ HoldsReceiver(c, n, e)'
      BY <2>3, <2>4, <3>1 DEF HoldsReceiver
    <3>6. Moved(e)' /\ Once(e)'
      BY <2>3, <3>2, <3>4, <3>5 DEF Moved, Once
    <3>7. InSet(e)'
      BY <1>1, <1>3, <2>2, <3>2 DEF InSet
    <3>8. QED
      BY <3>6, <3>7
  <2>5. CASE ~(m.kind = "rx" /\ m.chan = e)
    <3>1. receiver'[e] = receiver[e]
      BY <2>3, <2>5
    <3>2. ASSUME NEW d \in Chans, NEW i \in DOMAIN queue'[d], HoldsReceiver(d, i, e)'
          PROVE  i \in DOMAIN queue[d] /\ HoldsReceiver(d, i, e)
      BY <2>3, <2>5, <3>2 DEF HoldsReceiver
    <3>3. ASSUME NEW d \in Chans, NEW i \in DOMAIN queue[d], HoldsReceiver(d, i, e)
          PROVE  i \in DOMAIN queue'[d] /\ HoldsReceiver(d, i, e)'
      BY <2>3, <3>3 DEF HoldsReceiver
    <3>4. Moved(e)' /\ Once(e)'
      BY SMT, <1>1, <3>1, <3>2, <3>3 DEF Moved, Once
    <3>5. InSet(e)'
      BY <1>1, <2>2, <3>1 DEF InSet
    <3>6. QED
      BY <3>4, <3>5
  <2>6. QED
    BY <2>4, <2>5
<1>9. ASSUME NEW c \in Chans, Discard(c)
      PROVE  Moved(e)' /\ Once(e)' /\ InSet(e)'
  <2> DEFINE D == Doomed({c})
  <2>1. /\ \A d \in Chans : queue'[d] = IF d \in D THEN <<>> ELSE queue[d]
        /\ \A d \in Chans : receiver'[d] = IF d \in D THEN "dropped" ELSE receiver[d]
        /\ receivers' = receivers /\ receiver[c] \in Threads
    BY <1>9 DEF Discard, DropReceivers, setVars
  <2>2. /\ c \in D
        /\ \A d \in D, f \in Chans : Carries(d, "rx", f) => f \in D
        /\ \A f \in D : f # c => \E d \in D : Carries(d, "rx", f)
        /\ D \subseteq Chans
    BY DoomedEffect DEF Doomed
  <2> HIDE DEF D
  <2>3. \A d \in Chans : Carries(d, "rx", e) <=> \E i \in DOMAIN queue[d] : HoldsReceiver(d, i, e)
    BY DEF Carries, HoldsReceiver
  <2>4. ASSUME NEW d \in Chans, NEW i \in DOMAIN queue'[d], HoldsReceiver(d, i, e)'
        PROVE  d \notin D /\ i \in DOMAIN queue[d] /\ HoldsReceiver(d, i, e)
    BY SMT, <2>1, <2>4 DEF HoldsReceiver
  <2>5. Once(e)'
    BY <1>1, <2>4 DEF Once
  <2>6. CASE e \in D
    <3>1. receiver'[e] = "dropped"
      BY <2>1, <2>6
    <3>2. e = c \/ \E d \in D : \E i \in DOMAIN queue[d] : HoldsReceiver(d, i, e)
      BY <2>2, <2>3, <2>6
    <3>3. CASE e = c
      <4>1. receiver[e] # "moved" /\ receiver[e] # "set"
        BY <1>3, <2>1, <3>3
      <4>2. \A d \in Chans : \A i \in DOMAIN queue[d] : ~HoldsReceiver(d, i, e)
        BY <1>1, <4>1 DEF Moved
      <4>3. \A d \in Chans : \A i \in DOMAIN queue'[d] : ~HoldsReceiver(d, i, e)'
        BY <2>4, <4>2
      <4>4. QED
        BY <1>1, <2>1, <2>5, <3>1, <4>1, <4>3 DEF Moved, InSet
    <3>4. CASE e # c
      <4>1. PICK d \in D : \E i \in DOMAIN queue[d] : HoldsReceiver(d, i, e)
        BY <3>2, <3>4
      <4>2. d \in Chans /\ receiver[e] = "moved"
        BY <1>1, <2>2, <4>1 DEF Moved
      <4>3. \A f \in Chans : \A j \in DOMAIN queue[f] : HoldsReceiver(f, j, e) => f = d
        BY <1>1, <4>1, <4>2 DEF Once
      <4>4. \A f \in Chans : \A j \in DOMAIN queue'[f] : ~HoldsReceiver(f, j, e)'
        BY <2>4, <4>3
      <4>5. QED
        BY <1>1, <2>1, <2>5, <3>1, <4>2, <4>4 DEF Moved, InSet
    <3>5. QED
      BY <3>3, <3>4
  <2>7. CASE e \notin D
    <3>1. receiver'[e] = receiver[e]
      BY <2>1, <2>7
    <3>2. ASSUME NEW d \in Chans, NEW i \in DOMAIN queue[d], HoldsReceiver(d, i, e)
          PROVE  i \in DOMAIN queue'[d] /\ HoldsReceiver(d, i, e)'
      <4>1. d \notin D
        BY <2>2, <2>3, <2>7, <3>2
      <4>2. QED
        BY <2>1, <3>2, <4>1 DEF HoldsReceiver
    <3>3. QED
      BY <1>1, <2>1, <2>4, <2>5, <3>1, <3>2 DEF Moved, InSet
  <2>8. QED
    BY <2>6, <2>7
<1>10. ASSUME NEW i \in DOMAIN receivers, SelectClosed(i)
       PROVE  Moved(e)' /\ Once(e)' /\ InSet(e)'
  <2>1. PICK c \in Chans : c = receivers[i]
    BY SMT, <1>2
  <2>2. /\ queue' = queue /\ receivers' = remove(receivers, i)
        /\ receiver' = [receiver EXCEPT ![c] = "dropped"]
    BY <1>10, <2>1 DEF SelectClosed
  <2>3. receiver[c] = "set"
    BY <1>1, <2>1 DEF InSet
  <2>4. Moved(e)' /\ Once(e)'
    BY SMT, <1>1, <1>2, <2>2, <2>3 DEF Moved, Once, HoldsReceiver
  <2>5. /\ \A j \in DOMAIN receivers' : \E k \in DOMAIN receivers : k # i /\ receivers'[j] = receivers[k]
        /\ \A j \in DOMAIN receivers : j # i => \E k \in DOMAIN receivers' : receivers'[k] = receivers[j]
    <3>1. PICK s \in Seq(Chans) : s = receivers
      BY <1>2
    <3>2. remove(s, i) \in Seq(Chans) /\ i \in 1 .. Len(s)
      BY SMT, <3>1, Removed
    <3>3. \A j \in DOMAIN remove(s, i) : j \in Nat
      BY SMT, <3>2
    <3>4. \A j \in DOMAIN remove(s, i) :
            \/ j < i /\ j \in DOMAIN s /\ remove(s, i)[j] = s[j]
            \/ j >= i /\ j + 1 \in DOMAIN s /\ remove(s, i)[j] = s[j + 1]
      BY SMT, <3>1, Removed
    <3>5. \A j \in DOMAIN s : j # i => \E k \in DOMAIN remove(s, i) : remove(s, i)[k] = s[j]
      BY SMT, <3>1, Removed
    <3>6. QED
      BY SMT, <2>2, <3>1, <3>2, <3>3, <3>4, <3>5
  <2>6. \A j \in DOMAIN receivers : receivers[j] = c => j = i
    BY <2>1 DEF SetInv
  <2>7. CASE e = c
    <3>1. receiver'[e] = "dropped"
      BY <1>2, <2>2, <2>7
    <3>2. \A j \in DOMAIN receivers' : receivers'[j] # e
      BY <2>5, <2>6, <2>7
    <3>3. QED
      BY <2>4, <3>1, <3>2 DEF InSet
  <2>8. CASE e # c
    <3>1. receiver'[e] = receiver[e]
      BY <1>2, <2>2, <2>8
    <3>2. (\E j \in DOMAIN receivers' : receivers'[j] = e) <=> \E j \in DOMAIN receivers : receivers[j] = e
      BY <2>1, <2>5, <2>8
    <3>3. QED
      BY <1>1, <2>4, <3>1, <3>2 DEF InSet
  <2>9. QED
    BY <2>7, <2>8
<1>11. QED
  BY <1>4, <1>5, <1>6, <1>7, <1>8, <1>9, <1>10 DEF Step, DropSender, CloneSender, vars, setVars

-----------------------------------------------------------------------------
(* The vectors of the set *)

\* The two vectors lose the same element.
LEMMA RemovedPair ==
  ASSUME IdsAligned, TypeOK, NEW i \in DOMAIN receivers
  PROVE  LET rs == remove(receivers, i)
             ns == remove(receiver_ids, i)
         IN  /\ Len(rs) = Len(ns)
             /\ \A j \in DOMAIN rs : \E k \in DOMAIN receivers :
                  /\ rs[j] = receivers[k] /\ ns[j] = receiver_ids[k]
                  /\ k = IF j < i THEN j ELSE j + 1
             /\ \A j \in DOMAIN rs : j \in Nat
<1>1. PICK s \in Seq(Chans) : s = receivers
  BY DEF TypeOK
<1>2. PICK n \in Seq(Nat) : n = receiver_ids
  BY DEF TypeOK
<1>3. i \in DOMAIN s /\ i \in DOMAIN n /\ Len(s) = Len(n) /\ DOMAIN s = DOMAIN n
  BY SMT, <1>1, <1>2 DEF IdsAligned
<1>4. /\ remove(s, i) \in Seq(Chans) /\ remove(n, i) \in Seq(Nat)
      /\ Len(remove(s, i)) = Len(s) - 1 /\ Len(remove(n, i)) = Len(n) - 1
  BY <1>3, Removed
<1>5. /\ DOMAIN remove(s, i) = DOMAIN remove(n, i)
      /\ \A j \in DOMAIN remove(s, i) : j \in Nat
      /\ i \in Nat
  BY SMT, <1>3, <1>4
<1>6. \A j \in DOMAIN remove(s, i) :
        \/ j < i /\ j \in DOMAIN s /\ remove(s, i)[j] = s[j]
        \/ j >= i /\ j + 1 \in DOMAIN s /\ remove(s, i)[j] = s[j + 1]
  BY <1>3, Removed
<1>7. \A j \in DOMAIN remove(n, i) :
        \/ j < i /\ j \in DOMAIN n /\ remove(n, i)[j] = n[j]
        \/ j >= i /\ j + 1 \in DOMAIN n /\ remove(n, i)[j] = n[j + 1]
  BY <1>3, Removed
<1>8. ASSUME NEW j \in DOMAIN remove(s, i)
      PROVE  \E k \in DOMAIN s : /\ remove(s, i)[j] = s[k] /\ remove(n, i)[j] = n[k]
                                 /\ k = IF j < i THEN j ELSE j + 1
  BY SMT, <1>5, <1>6, <1>7, <1>8
<1>9. QED
  BY <1>1, <1>2, <1>3, <1>4, <1>5, <1>8

\* Adding appends to both vectors of the set and closing removes the same index of
\* both, so they stay aligned and ids stay unique.
LEMMA SetStep ==
  ASSUME InProcessAssumption, TypeOK, OneReceiver, IdsAligned, SetInv, Step
  PROVE  IdsAligned' /\ SetInv'
<1>1. /\ receivers \in Seq(Chans) /\ receiver_ids \in Seq(Nat) /\ incrementor \in Nat
      /\ ids \in [Chans -> Nat \cup {-1}]
      /\ receiver \in [Chans -> Threads \cup {"new", "moved", "set", "dropped"}]
  BY DEF TypeOK
<1>2. \A t \in Threads : t \notin {"new", "moved", "set", "dropped"}
  BY DEF InProcessAssumption
<1>3. ASSUME UNCHANGED <<setVars, ids>>,
             \A c \in Chans : receiver[c] \in {"set", "dropped"} => receiver'[c] \in {"set", "dropped"}
      PROVE  IdsAligned' /\ SetInv'
  BY <1>3 DEF IdsAligned, SetInv, setVars
<1>4. ASSUME NEW t \in Threads, NEW c \in Chans, NewChannel(t, c)
      PROVE  IdsAligned' /\ SetInv'
  BY <1>1, <1>3, <1>4 DEF NewChannel
<1>5. ASSUME NEW t \in Threads, NEW c \in Chans, Receive(t, c)
      PROVE  IdsAligned' /\ SetInv'
  <2>1. PICK m \in Message : TakenFrom(m, t, c)
    BY <1>5, TakeEffect DEF Receive
  <2>2. \A e \in Chans : m.kind = "rx" /\ m.chan = e => receiver[e] = "moved"
    BY SMT, <2>1 DEF TakenFrom, OneReceiver
  <2>3. \A e \in Chans : receiver[e] \in {"set", "dropped"} => receiver'[e] = receiver[e]
    BY <2>1, <2>2 DEF TakenFrom
  <2>4. QED
    BY <1>3, <1>5, <2>3 DEF Receive
<1>6. ASSUME NEW t \in Threads, NEW c \in Chans, NEW kind \in {"data", "tx", "rx"},
             NEW d \in Chans \cup {None}, Send(t, c, kind, d)
      PROVE  IdsAligned' /\ SetInv'
  <2>1. PICK m \in Message : m.kind = kind /\ m.chan = d /\ SentOn(m, c)
    BY SMT, <1>6, SendEffect
  <2>2. kind = "rx" => receiver[d] = t
    BY <1>6 DEF Send, Owns
  <2>3. \A e \in Chans : receiver[e] \in {"set", "dropped"} => receiver'[e] = receiver[e]
    BY <1>2, <2>1, <2>2 DEF SentOn
  <2>4. QED
    BY <1>3, <1>6, <2>3 DEF Send
<1>7. ASSUME NEW c \in Chans, Discard(c)
      PROVE  IdsAligned' /\ SetInv'
  <2>1. \A e \in Chans : receiver'[e] \in {receiver[e], "dropped"}
    BY <1>7 DEF Discard, DropReceivers
  <2>2. QED
    BY <1>3, <1>7, <2>1 DEF Discard
<1>8. CASE UNCHANGED <<setVars, ids, receiver>>
  BY <1>3, <1>8
<1>9. ASSUME NEW t \in Threads, NEW c \in Chans, Add(t, c)
      PROVE  IdsAligned' /\ SetInv'
  <2>1. /\ receiver[c] = t /\ receiver' = [receiver EXCEPT ![c] = "set"]
        /\ receiver_ids' = Append(receiver_ids, incrementor) /\ receivers' = Append(receivers, c)
        /\ incrementor' = incrementor + 1 /\ ids' = [ids EXCEPT ![c] = incrementor]
    BY <1>9 DEF Add
  <2>2. ids[c] = -1 /\ \A i \in DOMAIN receivers : receivers[i] # c
    BY <1>2, <2>1 DEF SetInv, OneReceiver
  <2>3. PICK s \in Seq(Chans) : s = receivers
    BY <1>1
  <2>4. PICK n \in Seq(Nat) : n = receiver_ids
    BY <1>1
  <2>5. /\ Len(Append(s, c)) = Len(s) + 1 /\ DOMAIN Append(s, c) = 1 .. Len(s) + 1
        /\ DOMAIN s = 1 .. Len(s) /\ Len(s) \in Nat
        /\ Append(s, c)[Len(s) + 1] = c /\ \A i \in 1 .. Len(s) : Append(s, c)[i] = s[i]
    BY SMT
  <2>6. /\ Len(Append(n, incrementor)) = Len(n) + 1
        /\ Append(n, incrementor)[Len(n) + 1] = incrementor
        /\ \A i \in 1 .. Len(n) : Append(n, incrementor)[i] = n[i]
    BY SMT, <1>1
  <2>7. Len(s) = Len(n) /\ \A i \in 1 .. Len(s) : n[i] = ids[s[i]] /\ s[i] \in Chans /\ s[i] # c
    BY SMT, <2>2, <2>3, <2>4, <2>5 DEF IdsAligned
  <2>8. IdsAligned'
    <3>1. Len(receiver_ids') = Len(receivers')
      BY <2>1, <2>3, <2>4, <2>5, <2>6, <2>7
    <3>2. ASSUME NEW i \in DOMAIN receivers' PROVE receiver_ids'[i] = ids'[receivers'[i]]
      <4>1. CASE i \in 1 .. Len(s)
        BY SMT, <1>1, <2>1, <2>3, <2>4, <2>5, <2>6, <2>7, <4>1
      <4>2. CASE i = Len(s) + 1
        <5>1. receiver_ids'[i] = incrementor
          BY <2>1, <2>4, <2>6, <2>7, <4>2
        <5>2. receivers'[i] = c
          BY <2>1, <2>3, <2>5, <4>2
        <5>3. QED
          BY <1>1, <2>1, <5>1, <5>2
      <4>3. i \in 1 .. Len(s) + 1
        BY <2>1, <2>3, <2>5
      <4>4. QED
        BY SMT, <2>5, <4>1, <4>2, <4>3
    <3>3. QED
      BY <3>1, <3>2 DEF IdsAligned
  <2>9. \A i, j \in DOMAIN receivers' : receivers'[i] = receivers'[j] => i = j
    <3>1. \A i, j \in 1 .. Len(s) : s[i] = s[j] => i = j
      BY <2>3, <2>5 DEF SetInv
    <3>2. \A i, j \in 1 .. Len(s) + 1 : Append(s, c)[i] = Append(s, c)[j] => i = j
      BY SMT, <2>5, <2>7, <3>1
    <3>3. QED
      BY <2>1, <2>3, <2>5, <3>2
  <2>10. \A d \in Chans : ids'[d] # -1 => ids'[d] < incrementor' /\ receiver'[d] \in {"set", "dropped"}
    BY SMT, <1>1, <2>1 DEF SetInv
  <2>11. \A d, e \in Chans : ids'[d] = ids'[e] /\ ids'[d] # -1 => d = e
    <3>1. ids'[c] = incrementor /\ \A d \in Chans \ {c} : ids'[d] = ids[d]
      BY <1>1, <2>1
    <3>2. \A d \in Chans \ {c} : ids'[d] # -1 => ids'[d] < incrementor
      BY <3>1 DEF SetInv
    <3>3. ASSUME NEW d \in Chans \ {c}, ids'[d] = incrementor PROVE FALSE
      <4>1. incrementor \in Nat
        BY <1>1
      <4>2. incrementor # -1 /\ ~(incrementor < incrementor)
        BY SMT, <4>1
      <4>3. QED
        BY <3>2, <3>3, <4>2
    <3>4. QED
      BY <3>1, <3>3 DEF SetInv
  <2>12. QED
    BY <2>8, <2>9, <2>10, <2>11 DEF SetInv
<1>10. ASSUME NEW i \in DOMAIN receivers, SelectClosed(i)
       PROVE  IdsAligned' /\ SetInv'
  <2>1. receivers[i] \in Chans /\ i \in Nat
    BY SMT, <1>1
  <2>2. /\ receivers' = remove(receivers, i) /\ receiver_ids' = remove(receiver_ids, i)
        /\ receiver' = [receiver EXCEPT ![receivers[i]] = "dropped"]
        /\ UNCHANGED <<incrementor, ids>>
    BY <1>10 DEF SelectClosed
  <2>3. /\ Len(receivers') = Len(receiver_ids')
        /\ \A j \in DOMAIN receivers' : \E k \in DOMAIN receivers :
             /\ receivers'[j] = receivers[k] /\ receiver_ids'[j] = receiver_ids[k]
             /\ k = IF j < i THEN j ELSE j + 1
        /\ \A j \in DOMAIN receivers' : j \in Nat
    BY <2>2, RemovedPair
  <2>4. IdsAligned'
    BY <2>2, <2>3 DEF IdsAligned
  <2>5. \A j, k \in DOMAIN receivers' : receivers'[j] = receivers'[k] => j = k
    <3> SUFFICES ASSUME NEW j \in DOMAIN receivers', NEW k \in DOMAIN receivers', receivers'[j] = receivers'[k]
                 PROVE  j = k
      OBVIOUS
    <3>1. PICK a \in DOMAIN receivers : receivers'[j] = receivers[a] /\ a = IF j < i THEN j ELSE j + 1
      BY <2>3
    <3>2. PICK b \in DOMAIN receivers : receivers'[k] = receivers[b] /\ b = IF k < i THEN k ELSE k + 1
      BY <2>3
    <3>3. a = b
      BY <3>1, <3>2 DEF SetInv
    <3>4. QED
      BY SMT, <2>1, <2>3, <3>1, <3>2, <3>3
  <2>6. \A c \in Chans : ids'[c] # -1 => ids'[c] < incrementor' /\ receiver'[c] \in {"set", "dropped"}
    BY <1>1, <2>1, <2>2 DEF SetInv
  <2>7. QED
    BY <2>2, <2>4, <2>5, <2>6 DEF SetInv
<1>11. QED
  BY <1>4, <1>5, <1>6, <1>7, <1>8, <1>9, <1>10 DEF Step, DropSender, CloneSender, vars

-----------------------------------------------------------------------------
(* The names of the messages *)

\* NamesInv for one channel.
NamesOf(c) ==
  /\ Len(got[c]) <= Len(sent[c])
  /\ \A i \in DOMAIN got[c] : got[c][i] = <<sent[c][i], i>>
  /\ receiver[c] = "dropped" => queue[c] = <<>>
  /\ receiver[c] # "dropped" => Len(got[c]) + Len(queue[c]) = Len(sent[c])
  /\ \A i \in DOMAIN queue[c] :
       /\ Len(got[c]) + i \in DOMAIN sent[c]
       /\ queue[c][i].id = <<sent[c][Len(got[c]) + i], Len(got[c]) + i>>

\* Every step keeps the received and then the queued messages those that were sent.
LEMMA NamesStep ==
  ASSUME InProcessAssumption, TypeOK, OneReceiver, NamesInv, Step
  PROVE  NamesInv'
<1> SUFFICES ASSUME NEW e \in Chans PROVE NamesOf(e)'
  BY DEF NamesInv, NamesOf
<1>1. NamesOf(e)
  BY DEF NamesInv, NamesOf
<1>2. /\ queue \in [Chans -> Seq(Message)] /\ sent \in [Chans -> Seq(Threads)]
      /\ got \in [Chans -> Seq(Threads \X Nat)] /\ receivers \in Seq(Chans)
      /\ receiver \in [Chans -> Threads \cup {"new", "moved", "set", "dropped"}]
  BY DEF TypeOK
<1>3. \A t \in Threads : t \notin {"new", "moved", "set", "dropped"}
  BY DEF InProcessAssumption
<1>4. ASSUME queue'[e] = queue[e], got'[e] = got[e], sent'[e] = sent[e],
             receiver'[e] = "dropped" <=> receiver[e] = "dropped"
      PROVE  NamesOf(e)'
  BY <1>1, <1>4 DEF NamesOf
<1>5. ASSUME NEW t \in Threads, NEW c \in Chans, NewChannel(t, c)
      PROVE  NamesOf(e)'
  BY <1>2, <1>3, <1>4, <1>5 DEF NewChannel
<1>6. ASSUME NEW t \in Threads, NEW c \in Chans, Add(t, c)
      PROVE  NamesOf(e)'
  BY <1>2, <1>3, <1>4, <1>6 DEF Add
<1>7. ASSUME NEW c \in Chans, Discard(c)
      PROVE  NamesOf(e)'
  <2>1. /\ got'[e] = got[e] /\ sent'[e] = sent[e]
        /\ queue'[e] = IF e \in Doomed({c}) THEN <<>> ELSE queue[e]
        /\ receiver'[e] = IF e \in Doomed({c}) THEN "dropped" ELSE receiver[e]
    BY <1>7 DEF Discard, DropReceivers
  <2>2. CASE e \in Doomed({c})
    BY SMT, <1>1, <2>1, <2>2 DEF NamesOf
  <2>3. CASE e \notin Doomed({c})
    BY <1>4, <2>1, <2>3
  <2>4. QED
    BY <2>2, <2>3
<1>8. ASSUME NEW i \in DOMAIN receivers, SelectClosed(i)
      PROVE  NamesOf(e)'
  <2>1. PICK c \in Chans : c = receivers[i]
    BY SMT, <1>2
  <2>2. /\ queue[c] = <<>> /\ queue' = queue /\ got' = got /\ sent' = sent
        /\ receiver' = [receiver EXCEPT ![c] = "dropped"]
    BY <1>8, <2>1 DEF SelectClosed
  <2>3. CASE e = c
    BY <1>1, <1>2, <2>2, <2>3 DEF NamesOf
  <2>4. CASE e # c
    BY <1>2, <1>4, <2>2, <2>4
  <2>5. QED
    BY <2>3, <2>4
<1>9. ASSUME NEW t \in Threads, NEW c \in Chans, Receive(t, c)
      PROVE  NamesOf(e)'
  <2>1. PICK m \in Message : TakenFrom(m, t, c)
    BY <1>9, TakeEffect DEF Receive
  <2>2. m.kind = "rx" /\ m.chan = e => receiver[e] = "moved"
    BY SMT, <2>1 DEF TakenFrom, OneReceiver
  <2>3. receiver'[e] = "dropped" <=> receiver[e] = "dropped"
    BY <1>3, <2>1, <2>2 DEF TakenFrom
  <2>4. sent' = sent /\ receiver[c] # "dropped"
    BY <1>3, <1>9 DEF Receive
  <2>5. CASE e # c
    <3>1. queue'[e] = queue[e] /\ got'[e] = got[e]
      BY <1>2, <2>1, <2>5 DEF TakenFrom
    <3>2. QED
      BY <1>4, <2>3, <2>4, <3>1
  <2>6. CASE e = c
    <3>1. PICK g \in Seq(Threads \X Nat) : g = got[c]
      BY <1>2
    <3>2. m.id \in Threads \X Nat
      BY DEF Message
    <3>3. got'[c] = Append(g, m.id)
      BY <1>2, <2>1, <3>1 DEF TakenFrom
    <3>4. /\ Len(got'[c]) = Len(g) + 1 /\ Len(g) \in Nat
          /\ DOMAIN got'[c] = 1 .. Len(g) + 1 /\ DOMAIN g = 1 .. Len(g)
          /\ got'[c][Len(g) + 1] = m.id /\ \A i \in 1 .. Len(g) : got'[c][i] = g[i]
      BY SMT, <3>2, <3>3
    <3>5. /\ 1 \in DOMAIN queue[c] /\ m = queue[c][1] /\ Len(queue'[c]) = Len(queue[c]) - 1
          /\ Len(queue[c]) \in Nat
          /\ \A i \in DOMAIN queue'[c] : i + 1 \in DOMAIN queue[c] /\ queue'[c][i] = queue[c][i + 1]
          /\ \A i \in DOMAIN queue'[c] : i \in Nat
      BY SMT, <1>2, <2>1 DEF TakenFrom
    <3>6. m.id = <<sent[c][Len(g) + 1], Len(g) + 1>> /\ Len(g) + 1 \in DOMAIN sent[c]
      BY <1>1, <2>6, <3>1, <3>5 DEF NamesOf
    <3>7. Len(sent[c]) \in Nat /\ DOMAIN sent[c] = 1 .. Len(sent[c])
      BY SMT, <1>2
    <3>8. Len(got'[c]) <= Len(sent'[c]) /\ Len(got'[c]) + Len(queue'[c]) = Len(sent'[c])
      <4>1. Len(g) + Len(queue[c]) = Len(sent[c])
        BY <1>1, <2>4, <2>6, <3>1 DEF NamesOf
      <4>2. Len(g) + 1 <= Len(sent[c])
        BY SMT, <3>4, <3>6, <3>7
      <4>3. Len(got'[c]) = Len(g) + 1 /\ Len(queue'[c]) = Len(queue[c]) - 1
        BY <3>4, <3>5
      <4>4. Len(g) \in Nat /\ Len(queue[c]) \in Nat /\ Len(sent[c]) \in Nat /\ Len(sent'[c]) = Len(sent[c])
        BY <2>4, <3>4, <3>5, <3>7
      <4>5. PICK a \in Nat, b \in Nat, n \in Nat :
              a = Len(g) /\ b = Len(queue[c]) /\ n = Len(sent[c]) /\ a + b = n /\ a + 1 <= n
        BY <4>1, <4>2, <4>4
      <4>6. Len(got'[c]) = a + 1 /\ Len(queue'[c]) = b - 1 /\ Len(sent'[c]) = n
        BY <4>3, <4>4, <4>5
      <4>7. a + b = n /\ a + 1 <= n
        BY <4>5
      <4>8. a + 1 <= n /\ (a + 1) + (b - 1) = n
        BY SMT, <4>7
      <4>9. QED
        BY <4>6, <4>8
    <3>9. ASSUME NEW i \in DOMAIN got'[c] PROVE got'[c][i] = <<sent'[c][i], i>>
      <4>1. CASE i \in 1 .. Len(g)
        BY <1>1, <2>4, <2>6, <3>1, <3>4, <4>1 DEF NamesOf
      <4>2. CASE i = Len(g) + 1
        BY <2>4, <3>4, <3>6, <4>2
      <4>3. i \in 1 .. Len(g) + 1 /\ Len(g) \in Nat
        BY <3>4
      <4>4. i \in 1 .. Len(g) \/ i = Len(g) + 1
        BY SMT, <4>3
      <4>5. QED
        BY <4>1, <4>2, <4>4
    <3>10. ASSUME NEW i \in DOMAIN queue'[c]
           PROVE  /\ Len(got'[c]) + i \in DOMAIN sent'[c]
                  /\ queue'[c][i].id = <<sent'[c][Len(got'[c]) + i], Len(got'[c]) + i>>
      <4>1. Len(g) + (i + 1) = Len(got'[c]) + i
        <5>1. i \in Nat /\ Len(g) \in Nat /\ Len(got'[c]) = Len(g) + 1
          BY <3>4, <3>5
        <5>2. QED
          BY SMT, <5>1
      <4>2. i + 1 \in DOMAIN queue[c] /\ queue'[c][i] = queue[c][i + 1]
        BY <3>5
      <4>3. /\ Len(g) + (i + 1) \in DOMAIN sent[c]
            /\ queue[c][i + 1].id = <<sent[c][Len(g) + (i + 1)], Len(g) + (i + 1)>>
        BY <1>1, <2>6, <3>1, <4>2 DEF NamesOf
      <4>4. QED
        BY <2>4, <4>1, <4>2, <4>3
    <3>11. QED
      BY <2>3, <2>4, <2>6, <3>8, <3>9, <3>10 DEF NamesOf
  <2>7. QED
    BY <2>5, <2>6
<1>10. ASSUME NEW t \in Threads, NEW c \in Chans, NEW kind \in {"data", "tx", "rx"},
              NEW d \in Chans \cup {None}, Send(t, c, kind, d)
       PROVE  NamesOf(e)'
  <2>1. PICK m \in Message : m.kind = kind /\ m.chan = d /\ m.id = NextName(t, c) /\ SentOn(m, c)
    BY SMT, <1>10, SendEffect
  <2>2. /\ kind = "rx" => receiver[d] = t
        /\ sent' = [sent EXCEPT ![c] = Append(sent[c], t)] /\ got' = got /\ receiver[c] # "dropped"
    BY <1>10 DEF Send, Owns
  <2>3. receiver'[e] = "dropped" <=> receiver[e] = "dropped"
    BY <1>3, <2>1, <2>2 DEF SentOn
  <2>4. CASE e # c
    <3>1. queue'[e] = queue[e] /\ sent'[e] = sent[e]
      BY <1>2, <2>1, <2>2, <2>4 DEF SentOn
    <3>2. QED
      BY <1>4, <2>2, <2>3, <3>1
  <2>5. CASE e = c
    <3>1. PICK s \in Seq(Threads) : s = sent[c]
      BY <1>2
    <3>2. sent'[c] = Append(s, t)
      BY <1>2, <2>2, <3>1
    <3>3. /\ Len(sent'[c]) = Len(s) + 1 /\ Len(s) \in Nat
          /\ DOMAIN sent'[c] = 1 .. Len(s) + 1 /\ DOMAIN s = 1 .. Len(s)
          /\ sent'[c][Len(s) + 1] = t /\ \A i \in 1 .. Len(s) : sent'[c][i] = s[i]
      BY SMT, <3>2
    <3>4. /\ Len(queue'[c]) = Len(queue[c]) + 1 /\ Len(queue[c]) \in Nat
          /\ \A i \in DOMAIN queue[c] : queue'[c][i] = queue[c][i]
          /\ queue'[c][Len(queue[c]) + 1] = m
          /\ \A i \in DOMAIN queue'[c] : i \in DOMAIN queue[c] \/ i = Len(queue[c]) + 1
      BY SMT, <1>2, <2>1 DEF SentOn
    <3>5. /\ Len(got[c]) \in Nat /\ DOMAIN got[c] = 1 .. Len(got[c])
          /\ Len(got[c]) + Len(queue[c]) = Len(s)
      BY SMT, <1>1, <1>2, <2>2, <2>5, <3>1 DEF NamesOf
    <3>6. /\ Len(got[c]) \in Nat /\ Len(queue[c]) \in Nat /\ Len(s) \in Nat
          /\ Len(got[c]) + Len(queue[c]) = Len(s)
      BY <3>3, <3>4, <3>5
    <3>7. Len(got'[c]) <= Len(sent'[c]) /\ Len(got'[c]) + Len(queue'[c]) = Len(sent'[c])
      <4>1. Len(got'[c]) = Len(got[c]) /\ Len(sent'[c]) = Len(s) + 1 /\ Len(queue'[c]) = Len(queue[c]) + 1
        BY <2>2, <3>3, <3>4
      <4>2. PICK a \in Nat, b \in Nat, n \in Nat :
              a = Len(got[c]) /\ b = Len(queue[c]) /\ n = Len(s) /\ a + b = n
        BY <3>6
      <4>3. Len(got'[c]) = a /\ Len(queue'[c]) = b + 1 /\ Len(sent'[c]) = n + 1
        BY <4>1, <4>2
      <4>4. a + b = n
        BY <4>2
      <4>5. a <= n + 1 /\ a + (b + 1) = n + 1
        BY SMT, <4>4
      <4>6. QED
        BY <4>3, <4>5
    <3>8. \A i \in DOMAIN got[c] : i \in 1 .. Len(s)
      <4>1. \A a, b, n \in Nat : a + b = n => \A i \in 1 .. a : i \in 1 .. n
        BY SMT
      <4>2. QED
        BY <3>5, <3>6, <4>1
    <3>9. \A i \in DOMAIN got'[c] : got'[c][i] = <<sent'[c][i], i>>
      BY SMT, <1>1, <2>2, <2>5, <3>1, <3>3, <3>8 DEF NamesOf
    <3>10. ASSUME NEW i \in DOMAIN queue'[c]
          PROVE  /\ Len(got[c]) + i \in DOMAIN sent'[c]
                 /\ queue'[c][i].id = <<sent'[c][Len(got[c]) + i], Len(got[c]) + i>>
      <4>1. CASE i \in DOMAIN queue[c]
        <5>1. Len(got[c]) + i \in DOMAIN s /\ queue[c][i].id = <<s[Len(got[c]) + i], Len(got[c]) + i>>
          BY <1>1, <2>5, <3>1, <4>1 DEF NamesOf
        <5>2. Len(got[c]) + i \in 1 .. Len(s) + 1
          BY SMT, <3>3, <5>1
        <5>3. QED
          BY <3>3, <3>4, <4>1, <5>1, <5>2
      <4>2. CASE i = Len(queue[c]) + 1
        <5>1. \A a, b, n \in Nat : a + b = n => a + (b + 1) = n + 1
          BY SMT
        <5>2. Len(got[c]) + i = Len(s) + 1
          BY <3>6, <4>2, <5>1
        <5>3. Len(s) + 1 \in DOMAIN sent'[c]
          BY SMT, <3>3
        <5>4. QED
          BY <2>1, <3>1, <3>3, <3>4, <4>2, <5>2, <5>3 DEF NextName
      <4>3. QED
        BY <3>4, <4>1, <4>2
    <3>11. QED
      BY <2>2, <2>3, <2>5, <3>7, <3>9, <3>10 DEF NamesOf
  <2>6. QED
    BY <2>4, <2>5
<1>11. CASE UNCHANGED <<queue, receiver, sent, got>>
  BY <1>4, <1>11
<1>12. QED
  BY <1>5, <1>6, <1>7, <1>8, <1>9, <1>10, <1>11 DEF Step, DropSender, CloneSender, vars

-----------------------------------------------------------------------------
(* Closure *)

\* A receiver that is gone stays gone, with its id, and a channel that has neither
\* receiver nor senders never changes.
LEMMA GoneStays ==
  ASSUME InProcessAssumption, TypeOK, OneReceiver, IdsAligned, Step,
         NEW c \in Chans, receiver[c] = "dropped"
  PROVE  /\ receiver'[c] = "dropped" /\ ids'[c] = ids[c] /\ got'[c] = got[c]
         /\ Disconnected(c) => Disconnected(c)' /\ sent'[c] = sent[c]
<1> DEFINE Goal == /\ receiver'[c] = "dropped" /\ ids'[c] = ids[c] /\ got'[c] = got[c]
                   /\ Disconnected(c) => Disconnected(c)' /\ sent'[c] = sent[c]
<1>1. /\ queue \in [Chans -> Seq(Message)] /\ senders \in [Chans -> SUBSET Threads]
      /\ receiver \in [Chans -> Threads \cup {"new", "moved", "set", "dropped"}]
      /\ sent \in [Chans -> Seq(Threads)] /\ got \in [Chans -> Seq(Threads \X Nat)]
      /\ ids \in [Chans -> Nat \cup {-1}] /\ receivers \in Seq(Chans)
  BY DEF TypeOK
<1>2. \A t \in Threads : t \notin {"new", "moved", "set", "dropped"}
  BY DEF InProcessAssumption
<1>3. ASSUME queue' = queue, senders'[c] \subseteq senders[c] \/ ~Disconnected(c), UNCHANGED <<sent, got>>,
             receiver'[c] = receiver[c], ids'[c] = ids[c]
      PROVE  Goal
  BY <1>3 DEF Disconnected, Carries
<1>4. ASSUME NEW t \in Threads, NEW d \in Chans, NewChannel(t, d)
      PROVE  Goal
  <2>1. d # c
    BY <1>4 DEF NewChannel
  <2>2. QED
    BY <1>1, <1>3, <1>4, <2>1 DEF NewChannel
<1>5. ASSUME NEW t \in Threads, NEW d \in Chans, Add(t, d)
      PROVE  Goal
  <2>1. d # c
    BY <1>2, <1>5 DEF Add
  <2>2. QED
    BY <1>1, <1>3, <1>5, <2>1 DEF Add
<1>6. ASSUME NEW t \in Threads, NEW d \in Chans, DropSender(t, d)
      PROVE  Goal
  BY <1>1, <1>3, <1>6 DEF DropSender
<1>7. ASSUME NEW t \in Threads, NEW u \in Threads, NEW d \in Chans, CloneSender(t, u, d)
      PROVE  Goal
  <2>1. d = c => ~Disconnected(c)
    BY <1>7 DEF CloneSender, Disconnected
  <2>2. QED
    BY <1>1, <1>3, <1>7, <2>1 DEF CloneSender
<1>8. ASSUME NEW d \in Chans, Discard(d)
      PROVE  Goal
  <2>1. /\ receiver'[c] = "dropped" /\ UNCHANGED <<senders, sent, got, ids>>
        /\ \A e \in Chans : queue'[e] = <<>> \/ queue'[e] = queue[e]
    BY <1>8 DEF Discard, DropReceivers
  <2>2. Disconnected(c) => Disconnected(c)'
    BY SMT, <2>1 DEF Disconnected, Carries
  <2>3. QED
    BY <2>1, <2>2
<1>9. ASSUME NEW i \in DOMAIN receivers, SelectClosed(i)
      PROVE  Goal
  <2>1. receivers[i] \in Chans
    BY SMT, <1>1
  <2>2. receiver'[c] = receiver[c]
    BY <1>1, <1>9, <2>1 DEF SelectClosed
  <2>3. QED
    BY <1>3, <1>9, <2>2 DEF SelectClosed
<1>10. ASSUME NEW t \in Threads, NEW d \in Chans, Receive(t, d)
       PROVE  Goal
  <2>1. PICK m \in Message : TakenFrom(m, t, d)
    BY <1>10, TakeEffect DEF Receive
  <2>2. m.kind = "rx" /\ m.chan = c => receiver[c] = "moved"
    <3>1. 1 \in DOMAIN queue[d] /\ m = queue[d][1]
      BY <2>1 DEF TakenFrom
    <3>2. QED
      BY SMT, <3>1 DEF OneReceiver
  <2>3. receiver'[c] = receiver[c]
    BY <2>1, <2>2 DEF TakenFrom
  <2>4. d # c /\ UNCHANGED <<sent, ids>>
    BY <1>2, <1>10 DEF Receive
  <2>5. got'[c] = got[c]
    BY <1>1, <2>1, <2>4 DEF TakenFrom
  <2>6. ASSUME Disconnected(c) PROVE Disconnected(c)'
    <3>1. \A e \in Chans : \A i \in DOMAIN queue[e] : ~(queue[e][i].kind = "tx" /\ queue[e][i].chan = c)
      BY <2>6 DEF Disconnected, Carries
    <3>2. senders'[c] = {}
      BY <2>1, <2>6, <3>1 DEF TakenFrom, Disconnected
    <3>3. ASSUME NEW e \in Chans, NEW i \in DOMAIN queue'[e]
          PROVE  ~(queue'[e][i].kind = "tx" /\ queue'[e][i].chan = c)
      <4>1. \E j \in DOMAIN queue[e] : queue'[e][i] = queue[e][j]
        <5>1. CASE e = d
          BY <2>1, <5>1 DEF TakenFrom
        <5>2. CASE e # d
          BY <2>1, <5>2 DEF TakenFrom
        <5>3. QED
          BY <5>1, <5>2
      <4>2. QED
        BY <3>1, <4>1
    <3>4. QED
      BY <3>2, <3>3 DEF Disconnected, Carries
  <2>7. QED
    BY <2>3, <2>4, <2>5, <2>6
<1>11. ASSUME NEW t \in Threads, NEW d \in Chans, NEW kind \in {"data", "tx", "rx"},
              NEW g \in Chans \cup {None}, Send(t, d, kind, g)
       PROVE  Goal
  <2>1. PICK m \in Message : m.kind = kind /\ m.chan = g /\ SentOn(m, d)
    BY SMT, <1>11, SendEffect
  <2>2. /\ d # c /\ UNCHANGED <<senders, got, ids>> /\ Owns(t, kind, g)
        /\ sent' = [sent EXCEPT ![d] = Append(@, t)]
    BY <1>11 DEF Send
  <2>3. receiver'[c] = receiver[c]
    BY <1>2, <2>1, <2>2 DEF SentOn, Owns
  <2>4. sent'[c] = sent[c]
    BY <1>1, <2>2
  <2>5. ASSUME Disconnected(c) PROVE Disconnected(c)'
    <3>1. \A e \in Chans : \A i \in DOMAIN queue[e] : ~(queue[e][i].kind = "tx" /\ queue[e][i].chan = c)
      BY <2>5 DEF Disconnected, Carries
    <3>2. senders'[c] = {} /\ ~(m.kind = "tx" /\ m.chan = c)
      BY <2>1, <2>2, <2>5 DEF Owns, Disconnected
    <3>3. ASSUME NEW e \in Chans, NEW i \in DOMAIN queue'[e]
          PROVE  ~(queue'[e][i].kind = "tx" /\ queue'[e][i].chan = c)
      <4>1. queue'[e][i] = m \/ (i \in DOMAIN queue[e] /\ queue'[e][i] = queue[e][i])
        BY <2>1 DEF SentOn
      <4>2. QED
        BY <3>1, <3>2, <4>1
    <3>4. QED
      BY <3>2, <3>3 DEF Disconnected, Carries
  <2>6. QED
    BY <2>2, <2>3, <2>4, <2>5
<1>12. CASE UNCHANGED vars
  BY <1>3, <1>12 DEF vars
<1>13. QED
  BY <1>4, <1>5, <1>6, <1>7, <1>8, <1>9, <1>10, <1>11, <1>12 DEF Step

\* Closure is final: what was reported closed is gone, and select() reports nothing else.
LEMMA ClosesStep ==
  ASSUME InProcessAssumption, IInv, Step
  PROVE  ClosesInv' /\ ClosedIsFinal'
<1> USE DEF IInv
<1>1. closes \in Seq(Nat) /\ ids \in [Chans -> Nat \cup {-1}]
  BY DEF TypeOK
<1>2. \A c \in Chans : receiver[c] = "dropped" =>
        /\ receiver'[c] = "dropped" /\ ids'[c] = ids[c] /\ got'[c] = got[c]
        /\ Disconnected(c) => Disconnected(c)' /\ sent'[c] = sent[c]
  BY GoneStays
\* A report of closure stays true.
<1>3. ASSUME NEW x \in Nat, NEW d \in Chans, x = ids[d], receiver[d] = "dropped",
             IdsAligned' /\ SetInv'
      PROVE  /\ x = ids'[d] /\ receiver'[d] = "dropped"
             /\ \A c \in Chans : x = ids'[c] => c = d
  <2>1. x = ids'[d] /\ receiver'[d] = "dropped"
    BY <1>2, <1>3
  <2>2. x # -1
    BY SMT, <1>3
  <2>3. QED
    BY <1>3, <2>1, <2>2 DEF SetInv
<1>4. IdsAligned' /\ SetInv'
  BY SetStep
<1>5. \A i \in DOMAIN closes : closes[i] \in Nat
  BY SMT, <1>1
<1>6. ASSUME NEW i \in DOMAIN closes
      PROVE  /\ \E d \in Chans : closes[i] = ids'[d] /\ receiver'[d] = "dropped"
             /\ \A c \in Chans : closes[i] = ids'[c] => Disconnected(c)' /\ Len(got'[c]) = Len(sent'[c])
  <2>1. PICK d \in Chans : closes[i] = ids[d] /\ receiver[d] = "dropped"
    BY DEF ClosesInv
  <2>2. Disconnected(d) /\ Len(got[d]) = Len(sent[d])
    BY <2>1 DEF ClosedIsFinal
  <2>3. /\ closes[i] = ids'[d] /\ receiver'[d] = "dropped"
        /\ \A c \in Chans : closes[i] = ids'[c] => c = d
    BY <1>3, <1>4, <1>5, <2>1
  <2>4. Disconnected(d)' /\ Len(got'[d]) = Len(sent'[d])
    BY <1>2, <2>1, <2>2
  <2>5. QED
    BY <2>3, <2>4
<1>7. CASE closes' = closes
  BY <1>6, <1>7 DEF ClosesInv, ClosedIsFinal
<1>8. ASSUME NEW i \in DOMAIN receivers, SelectClosed(i)
      PROVE  ClosesInv' /\ ClosedIsFinal'
  <2>1. PICK c \in Chans : c = receivers[i]
    BY SMT DEF TypeOK
  <2>2. /\ receiver[c] = "set" /\ receiver_ids[i] = ids[c]
    BY <2>1 DEF OneReceiver, IdsAligned
  <2>3. PICK x \in Nat : x = receiver_ids[i]
    <3>1. DOMAIN receiver_ids = 1 .. Len(receiver_ids) /\ DOMAIN receivers = 1 .. Len(receivers)
      BY SMT DEF TypeOK
    <3>2. i \in DOMAIN receiver_ids
      BY <3>1 DEF IdsAligned
    <3>3. QED
      BY SMT, <3>2 DEF TypeOK
  <2>4. /\ queue[c] = <<>> /\ Disconnected(c) /\ closes' = Append(closes, x)
        /\ receiver' = [receiver EXCEPT ![c] = "dropped"]
        /\ UNCHANGED <<queue, senders, sent, got, ids>>
    BY <1>8, <2>1, <2>3 DEF SelectClosed
  <2>5. Len(got[c]) = Len(sent[c])
    <3>1. Len(got[c]) + Len(queue[c]) = Len(sent[c]) /\ Len(queue[c]) = 0
      BY <2>2, <2>4 DEF NamesInv
    <3>2. Len(got[c]) \in Nat
      BY SMT DEF TypeOK
    <3>3. QED
      BY SMT, <3>1, <3>2
  <2>6. x = ids'[c] /\ receiver'[c] = "dropped" /\ Disconnected(c)' /\ Len(got'[c]) = Len(sent'[c])
    <3>1. Disconnected(c)'
      BY <2>4 DEF Disconnected, Carries
    <3>2. QED
      BY <2>2, <2>3, <2>4, <2>5, <3>1 DEF TypeOK
  <2>7. \A d \in Chans : x = ids'[d] => d = c
    <3>1. x # -1
      BY SMT
    <3>2. QED
      BY <1>4, <2>6, <3>1 DEF SetInv
  <2>8. \A j \in DOMAIN closes : closes[j] # x
    <3>1. ASSUME NEW j \in DOMAIN closes, closes[j] = x PROVE FALSE
      <4>1. PICK d \in Chans : closes[j] = ids[d] /\ receiver[d] = "dropped"
        BY DEF ClosesInv
      <4>2. d = c
        BY <2>4, <2>7, <3>1, <4>1
      <4>3. QED
        BY <2>2, <4>1, <4>2
    <3>2. QED
      BY <3>1
  <2>9. /\ DOMAIN closes' = DOMAIN closes \cup {Len(closes) + 1} /\ closes'[Len(closes) + 1] = x
        /\ \A j \in DOMAIN closes : closes'[j] = closes[j]
    <3>1. PICK s \in Seq(Nat) : s = closes
      BY <1>1
    <3>2. DOMAIN Append(s, x) = 1 .. Len(s) + 1 /\ DOMAIN s = 1 .. Len(s) /\ Len(s) \in Nat
      BY SMT
    <3>3. Append(s, x)[Len(s) + 1] = x /\ \A j \in DOMAIN s : Append(s, x)[j] = s[j]
      BY SMT
    <3>4. DOMAIN Append(s, x) = DOMAIN s \cup {Len(s) + 1}
      BY SMT, <3>2
    <3>5. QED
      BY <2>4, <3>1, <3>3, <3>4
  <2>10. ClosesInv'
    BY <1>6, <2>6, <2>9 DEF ClosesInv
  <2>11. \A j, k \in DOMAIN closes' : closes'[j] = closes'[k] => j = k
    BY <2>8, <2>9 DEF ClosedIsFinal
  <2>12. ASSUME NEW j \in DOMAIN closes', NEW d \in Chans, closes'[j] = ids'[d]
         PROVE  Disconnected(d)' /\ Len(got'[d]) = Len(sent'[d])
    <3>1. CASE j \in DOMAIN closes
      BY <1>6, <2>9, <2>12, <3>1
    <3>2. CASE j = Len(closes) + 1
      BY <2>6, <2>7, <2>9, <2>12, <3>2
    <3>3. QED
      BY <2>9, <3>1, <3>2
  <2>13. QED
    BY <2>10, <2>11, <2>12 DEF ClosedIsFinal
<1>9. QED
  BY <1>7, <1>8 DEF Step, NewChannel, Add, DropSender, Receive, CloneSender, Send, Discard, vars

-----------------------------------------------------------------------------
(* Invariance *)

\* The invariant holds at first.
LEMMA InitInv ==
  ASSUME InProcessAssumption, Init
  PROVE  IInv
<1>1. TypeOK
  BY SMT DEF Init, TypeOK
<1>2. OneReceiver /\ IdsAligned /\ SetInv /\ ClosesInv /\ ClosedIsFinal
  BY SMT DEF Init, OneReceiver, IdsAligned, SetInv, ClosesInv, ClosedIsFinal
<1>3. NamesInv
  BY SMT DEF Init, NamesInv
<1>4. QED
  BY <1>1, <1>2, <1>3 DEF IInv

\* Every step keeps the invariant.
LEMMA InvStep ==
  ASSUME InProcessAssumption, IInv, [Next]_vars
  PROVE  IInv'
<1>1. Step
  BY NextIsStep DEF IInv
<1>2. TypeOK' /\ OneReceiver' /\ IdsAligned' /\ SetInv' /\ NamesInv'
  BY <1>1, TypeStep, PlacesStep, SetStep, NamesStep DEF IInv
<1>3. ClosesInv' /\ ClosedIsFinal'
  BY <1>1, ClosesStep
<1>4. QED
  BY <1>2, <1>3 DEF IInv

\* The inductive invariant holds in every reachable state.
LEMMA Invariance ==
  ASSUME InProcessAssumption
  PROVE  Spec => []IInv
<1>1. Init => IInv
  BY InitInv
<1>2. IInv /\ [Next]_vars => IInv'
  BY InvStep
<1>3. QED
  BY <1>1, <1>2, PTL DEF Spec

\* A receiver is in one place at any time, however messages carry it and whatever is
\* dropped: in one message just when it was moved, and once in the set just when it was
\* added.
THEOREM ReceiversAreInOnePlace ==
  ASSUME InProcessAssumption
  PROVE  Spec => [](TypeOK /\ OneReceiver)
<1>1. IInv => TypeOK /\ OneReceiver
  BY DEF IInv
<1>2. QED
  BY <1>1, Invariance, PTL

\* The two vectors of the receiver set stay aligned, an id is reported closed once, and
\* only when no sender of its channel is left anywhere and all its messages were received.
THEOREM ClosuresAreFinal ==
  ASSUME InProcessAssumption
  PROVE  Spec => [](IdsAligned /\ ClosedIsFinal)
<1>1. IInv => IdsAligned /\ ClosedIsFinal
  BY DEF IInv
<1>2. QED
  BY <1>1, Invariance, PTL

-----------------------------------------------------------------------------
(* Every channel is a queue *)

\* What a step may do to channel c: nothing, send a message on it, take its oldest
\* message, or discard its receiver.
Quiet(c) ==
  /\ queue'[c] = queue[c] /\ got'[c] = got[c] /\ sent'[c] = sent[c]
  /\ receiver'[c] = "dropped" <=> receiver[c] = "dropped"

Grows(c, t, m) ==
  /\ receiver[c] # "dropped" /\ receiver'[c] # "dropped"
  /\ Len(sent[c]) < MaxMessages /\ m.id = NextName(t, c)
  /\ queue'[c] = Append(queue[c], m) /\ sent'[c] = Append(sent[c], t) /\ got'[c] = got[c]

Shrinks(c) ==
  /\ receiver[c] # "dropped" /\ receiver'[c] # "dropped"
  /\ queue[c] # <<>> /\ queue'[c] = Tail(queue[c])
  /\ got'[c] = Append(got[c], Head(queue[c]).id) /\ sent'[c] = sent[c]

Ends(c) ==
  /\ receiver[c] # "dropped" /\ receiver'[c] = "dropped"
  /\ queue'[c] = <<>> /\ got'[c] = got[c] /\ sent'[c] = sent[c]

ChannelStep(c) ==
  \/ Quiet(c) \/ Shrinks(c) \/ Ends(c)
  \/ \E t \in Threads, m \in Message : Grows(c, t, m)

\* Seen from one channel, every step is one of the four kinds.
LEMMA StepOfChannel ==
  ASSUME InProcessAssumption, IInv, Step, NEW c \in Chans
  PROVE  ChannelStep(c)
<1> USE DEF IInv
<1>0. \A t \in Threads : t # "dropped" /\ t # "new"
  BY DEF InProcessAssumption
<1>t. /\ queue \in [Chans -> Seq(Message)] /\ sent \in [Chans -> Seq(Threads)]
      /\ receiver \in [Chans -> Threads \cup {"new", "moved", "set", "dropped"}]
      /\ got \in [Chans -> Seq(Threads \X Nat)]
  BY DEF TypeOK
<1>1. ASSUME NEW t \in Threads, NEW d \in Chans, NewChannel(t, d) \/ Add(t, d)
      PROVE  Quiet(c)
  BY <1>0, <1>1, <1>t DEF NewChannel, Add, Quiet
<1>2. ASSUME NEW t \in Threads, NEW u \in Threads, NEW d \in Chans, DropSender(t, d) \/ CloneSender(t, u, d)
      PROVE  Quiet(c)
  BY <1>2 DEF DropSender, CloneSender, Quiet
<1>3. ASSUME NEW t \in Threads, NEW d \in Chans, Receive(t, d)
      PROVE  Quiet(c) \/ Shrinks(c)
  <2>1. PICK m \in Message : TakenFrom(m, t, d)
    BY <1>3, TakeEffect DEF Receive
  <2>2. receiver'[c] = "dropped" <=> receiver[c] = "dropped"
    <3>1. CASE m.kind = "rx" /\ m.chan = c
      <4>1. receiver[c] = "moved"
        BY <2>1, <3>1 DEF TakenFrom, OneReceiver
      <4>2. receiver'[c] = t
        BY <2>1, <3>1 DEF TakenFrom
      <4>3. QED
        BY <1>0, <4>1, <4>2
    <3>2. CASE ~(m.kind = "rx" /\ m.chan = c)
      BY <2>1, <3>2 DEF TakenFrom
    <3>3. QED
      BY <3>1, <3>2
  <2>3. sent' = sent
    BY <1>3 DEF Receive
  <2>4. CASE c # d
    <3>1. queue'[c] = queue[c] /\ got'[c] = got[c]
      BY <1>t, <2>1, <2>4 DEF TakenFrom
    <3>2. QED
      BY <2>2, <2>3, <3>1 DEF Quiet
  <2>5. CASE c = d
    <3>1. /\ queue[c] # <<>> /\ queue'[c] = Tail(queue[c])
          /\ got'[c] = Append(got[c], Head(queue[c]).id)
      BY <1>3, <1>t, <2>5 DEF Receive, Take
    <3>2. receiver[c] # "dropped"
      BY <1>0, <1>3, <2>5 DEF Receive
    <3>3. QED
      BY <2>2, <2>3, <3>1, <3>2 DEF Shrinks
  <2>6. QED
    BY <2>4, <2>5
<1>4. ASSUME NEW t \in Threads, NEW d \in Chans, NEW kind \in {"data", "tx", "rx"},
             NEW e \in Chans \cup {None}, Send(t, d, kind, e)
      PROVE  Quiet(c) \/ \E m \in Message : Grows(c, t, m)
  <2>1. PICK m \in Message : m.kind = kind /\ m.chan = e /\ m.id = NextName(t, d) /\ SentOn(m, d)
    BY SMT, <1>4, SendEffect
  <2>2. receiver'[c] = "dropped" <=> receiver[c] = "dropped"
    <3>1. CASE kind = "rx" /\ e = c
      <4>1. receiver[c] = t
        BY <1>4, <3>1 DEF Send, Owns
      <4>2. receiver'[c] = "moved"
        BY <2>1, <3>1 DEF SentOn
      <4>3. QED
        BY <1>0, <4>1, <4>2
    <3>2. CASE ~(kind = "rx" /\ e = c)
      BY <2>1, <3>2 DEF SentOn
    <3>3. QED
      BY <3>1, <3>2
  <2>3. got' = got /\ sent' = [sent EXCEPT ![d] = Append(@, t)] /\ receiver[d] # "dropped" /\ Len(sent[d]) < MaxMessages
    BY <1>4 DEF Send
  <2>4. CASE c # d
    <3>1. queue'[c] = queue[c] /\ sent'[c] = sent[c]
      BY <1>t, <2>1, <2>3, <2>4 DEF SentOn
    <3>2. QED
      BY <2>2, <2>3, <3>1 DEF Quiet
  <2>5. CASE c = d
    <3>1. queue'[c] = Append(queue[c], m) /\ sent'[c] = Append(sent[c], t)
      BY <1>t, <2>1, <2>3, <2>5 DEF SentOn
    <3>2. Grows(c, t, m)
      BY <2>1, <2>2, <2>3, <2>5, <3>1 DEF Grows
    <3>3. QED
      BY <3>2
  <2>6. QED
    BY <2>4, <2>5
<1>5. ASSUME NEW d \in Chans, Discard(d)
      PROVE  Quiet(c) \/ Ends(c)
  <2>1. got' = got /\ sent' = sent
    BY <1>5 DEF Discard
  <2>2. CASE c \notin Doomed({d})
    BY <1>5, <2>1, <2>2 DEF Discard, DropReceivers, Quiet
  <2>3. CASE c \in Doomed({d})
    <3>1. queue'[c] = <<>> /\ receiver'[c] = "dropped"
      BY <1>5, <2>3 DEF Discard, DropReceivers
    <3>2. receiver[c] = "dropped" => queue[c] = <<>>
      BY DEF NamesInv
    <3>3. QED
      BY <2>1, <3>1, <3>2 DEF Quiet, Ends
  <2>4. QED
    BY <2>2, <2>3
<1>6. ASSUME NEW i \in DOMAIN receivers, SelectClosed(i)
      PROVE  Quiet(c) \/ Ends(c)
  <2>1. PICK d \in Chans : d = receivers[i]
    BY SMT DEF TypeOK
  <2>2. receiver[d] = "set"
    BY <2>1 DEF OneReceiver
  <2>3. /\ queue[d] = <<>> /\ receiver' = [receiver EXCEPT ![d] = "dropped"]
        /\ queue' = queue /\ got' = got /\ sent' = sent
    BY <1>6, <2>1 DEF SelectClosed
  <2>4. QED
    BY <1>t, <2>2, <2>3 DEF Quiet, Ends
<1>7. CASE UNCHANGED vars
  BY <1>7 DEF vars, ChannelStep, Quiet
<1>8. QED
  BY <1>1, <1>2, <1>3, <1>4, <1>5, <1>6, <1>7 DEF Step, ChannelStep

\* What the abstract queue shows of channel c.
Names(c) == [i \in 1 .. Len(queue[c]) |-> queue[c][i].id]
Acked(c) == {<<sent[c][n], n>> : n \in DOMAIN sent[c]}

\* The names of a queue follow the queue.
LEMMA NamesFollow ==
  ASSUME NEW q \in Seq(Message)
  PROVE  /\ [i \in 1 .. Len(q) |-> q[i].id] \in Seq(Threads \X Nat)
         /\ \A m \in Message : [i \in 1 .. Len(Append(q, m)) |-> Append(q, m)[i].id]
                             = Append([i \in 1 .. Len(q) |-> q[i].id], m.id)
         /\ q # <<>> =>
              /\ [i \in 1 .. Len(q) |-> q[i].id] # <<>>
              /\ Head([i \in 1 .. Len(q) |-> q[i].id]) = Head(q).id
              /\ [i \in 1 .. Len(Tail(q)) |-> Tail(q)[i].id] = Tail([i \in 1 .. Len(q) |-> q[i].id])
<1> DEFINE N == [i \in 1 .. Len(q) |-> q[i].id]
<1>1. Len(q) \in Nat /\ \A i \in 1 .. Len(q) : q[i] \in Message /\ q[i].id \in Threads \X Nat
  <2>1. Len(q) \in Nat /\ \A i \in 1 .. Len(q) : q[i] \in Message
    BY SMT
  <2>2. \A m \in Message : m.id \in Threads \X Nat
    BY DEF Message
  <2>3. QED
    BY <2>1, <2>2
<1>2. N \in Seq(Threads \X Nat) /\ Len(N) = Len(q) /\ \A i \in 1 .. Len(q) : N[i] = q[i].id
  BY SMT, <1>1
<1> HIDE DEF N
<1>3. ASSUME NEW m \in Message
      PROVE  [i \in 1 .. Len(Append(q, m)) |-> Append(q, m)[i].id] = Append(N, m.id)
  <2>1. m.id \in Threads \X Nat
    BY DEF Message
  <2>2. PICK a \in Seq(Threads \X Nat) : a = Append(N, m.id)
    BY <1>2, <2>1, Appended
  <2>3. Len(a) = Len(q) + 1 /\ \A i \in 1 .. Len(q) + 1 : a[i] = IF i <= Len(q) THEN q[i].id ELSE m.id
    BY SMT, <1>1, <1>2, <2>1, <2>2
  <2>4. Len(Append(q, m)) = Len(q) + 1 /\ \A i \in 1 .. Len(q) + 1 : Append(q, m)[i] = IF i <= Len(q) THEN q[i] ELSE m
    BY SMT, <1>1
  <2>5. a = [i \in 1 .. Len(a) |-> a[i]]
    BY SMT
  <2>6. QED
    BY <2>2, <2>3, <2>4, <2>5
<1>4. ASSUME q # <<>>
      PROVE  /\ N # <<>> /\ Head(N) = Head(q).id
             /\ [i \in 1 .. Len(Tail(q)) |-> Tail(q)[i].id] = Tail(N)
  <2>1. Len(q) >= 1 /\ N # <<>>
    BY SMT, <1>1, <1>2, <1>4
  <2>2. Head(N) = N[1] /\ Head(q) = q[1] /\ 1 \in 1 .. Len(q)
    BY SMT, <1>1, <1>2, <1>4, <2>1
  <2>3. PICK a \in Seq(Threads \X Nat) : a = Tail(N)
    BY <1>2, <2>1, TailOf
  <2>4. Len(a) = Len(q) - 1 /\ \A i \in 1 .. Len(q) - 1 : a[i] = q[i + 1].id
    BY SMT, <1>1, <1>2, <2>1, <2>3
  <2>5. Len(Tail(q)) = Len(q) - 1 /\ \A i \in 1 .. Len(q) - 1 : Tail(q)[i] = q[i + 1]
    BY SMT, <1>1, <1>4, <2>1
  <2>6. a = [i \in 1 .. Len(a) |-> a[i]]
    BY SMT
  <2>7. Head(N) = Head(q).id
    BY <1>2, <2>2
  <2>8. [i \in 1 .. Len(Tail(q)) |-> Tail(q)[i].id] = a
    BY <2>4, <2>5, <2>6
  <2>9. QED
    BY <2>1, <2>3, <2>7, <2>8
<1>5. QED
  BY <1>2, <1>3, <1>4 DEF N

\* The messages that were queued or received carry smaller numbers than the next one.
LEMMA NamesAreOld ==
  ASSUME TypeOK, NamesInv, NEW c \in Chans
  PROVE  /\ \A i \in DOMAIN Names(c) : Names(c)[i][2] < Len(sent[c]) + 1
         /\ \A i \in DOMAIN got[c] : got[c][i][2] < Len(sent[c]) + 1
<1>1. /\ queue[c] \in Seq(Message) /\ got[c] \in Seq(Threads \X Nat) /\ sent[c] \in Seq(Threads)
  BY DEF TypeOK
<1>2. /\ DOMAIN sent[c] = 1 .. Len(sent[c]) /\ Len(sent[c]) \in Nat
      /\ DOMAIN got[c] = 1 .. Len(got[c]) /\ Len(got[c]) \in Nat
      /\ DOMAIN queue[c] = 1 .. Len(queue[c])
  BY SMT, <1>1
<1>3. DOMAIN Names(c) = DOMAIN queue[c]
  BY <1>2 DEF Names
<1>4. ASSUME NEW i \in DOMAIN Names(c)
      PROVE  Names(c)[i][2] < Len(sent[c]) + 1
  <2>1. PICK n \in DOMAIN sent[c] : n = Len(got[c]) + i /\ queue[c][i].id = <<sent[c][n], n>>
    BY <1>3 DEF NamesInv
  <2>2. Names(c)[i] = <<sent[c][n], n>>
    BY <1>2, <1>3, <2>1 DEF Names
  <2>3. Names(c)[i][2] = n
    BY SMT, <2>2
  <2>4. QED
    BY SMT, <1>2, <2>3
<1>5. ASSUME NEW i \in DOMAIN got[c]
      PROVE  got[c][i][2] < Len(sent[c]) + 1
  <2>1. got[c][i] = <<sent[c][i], i>> /\ Len(got[c]) <= Len(sent[c])
    BY DEF NamesInv
  <2>2. got[c][i][2] = i
    BY SMT, <2>1
  <2>3. QED
    BY SMT, <1>2, <2>1, <2>2
<1>6. QED
  BY <1>4, <1>5

\* The message that is sent is the only one more that was acknowledged.
LEMMA AckedGrows ==
  ASSUME NEW s \in Seq(Threads), NEW t \in Threads
  PROVE  {<<Append(s, t)[n], n>> : n \in DOMAIN Append(s, t)}
           = {<<s[n], n>> : n \in DOMAIN s} \cup {<<t, Len(s) + 1>>}
<1>1. /\ DOMAIN s = 1 .. Len(s) /\ Len(s) \in Nat /\ DOMAIN Append(s, t) = 1 .. Len(s) + 1
      /\ \A n \in DOMAIN s : Append(s, t)[n] = s[n]
      /\ Append(s, t)[Len(s) + 1] = t
  BY SMT
<1>2. DOMAIN Append(s, t) = DOMAIN s \cup {Len(s) + 1}
  BY SMT, <1>1
<1>3. QED
  BY <1>1, <1>2

\* At first every channel is an empty queue with its receiver.
LEMMA AbstractInit ==
  ASSUME NEW c \in Chans, Init
  PROVE  Abstract(c)!Init
<1>1. queue[c] = <<>> /\ got[c] = <<>> /\ sent[c] = <<>> /\ receiver[c] = "new"
  BY DEF Init
<1>2. Names(c) = <<>>
  BY SMT, <1>1 DEF Names
<1>3. Acked(c) = {}
  BY SMT, <1>1 DEF Acked
<1>4. QED
  BY <1>1, <1>2, <1>3 DEF Abstract!Init, Names, Acked

\* A step that leaves c alone leaves the queue alone; another is a step of the queue.
LEMMA AbstractStep ==
  ASSUME InProcessAssumption, TypeOK, NamesInv, NEW c \in Chans, ChannelStep(c)
  PROVE  [Abstract(c)!Next]_(Abstract(c)!vars)
<1>1. queue[c] \in Seq(Message) /\ sent[c] \in Seq(Threads) /\ MaxMessages \in Nat
  BY DEF TypeOK, InProcessAssumption
<1>2. CASE Quiet(c)
  <2>1. Names(c)' = Names(c) /\ Acked(c)' = Acked(c) /\ got'[c] = got[c]
    BY <1>2 DEF Quiet, Names, Acked
  <2>2. (receiver[c] # "dropped")' = (receiver[c] # "dropped")
    BY <1>2 DEF Quiet
  <2>3. QED
    BY <2>1, <2>2 DEF Names, Acked, Abstract!vars
<1>3. ASSUME NEW t \in Threads, NEW m \in Message, Grows(c, t, m)
      PROVE  Abstract(c)!Next
  <2>1. PICK n \in Nat : n = Len(sent[c]) + 1
    BY SMT, <1>1
  <2>2. <<t, n>> \in Threads \X (1 .. MaxMessages)
    <3>1. Len(sent[c]) \in Nat /\ Len(sent[c]) < MaxMessages
      BY SMT, <1>1, <1>3 DEF Grows
    <3>2. QED
      BY SMT, <1>1, <2>1, <3>1
  <2>3. m.id = <<t, n>>
    BY <1>3, <2>1 DEF Grows, NextName
  <2>4. Names(c)' = Append(Names(c), <<t, n>>)
    BY <1>1, <1>3, <2>3, NamesFollow DEF Grows, Names
  <2>5. Acked(c)' = Acked(c) \cup {<<t, n>>}
    BY SMT, <1>1, <1>3, <2>1, AckedGrows DEF Grows, Acked
  <2>6. /\ \A i \in DOMAIN Names(c) : Names(c)[i][2] < n
        /\ \A i \in DOMAIN got[c] : got[c][i][2] < n
    BY <2>1, NamesAreOld
  <2>7. /\ got'[c] = got[c] /\ (receiver[c] # "dropped") /\ (receiver'[c] # "dropped")
    BY <1>3 DEF Grows
  <2>8. <<t, n>>[2] = n
    OBVIOUS
  <2>9. Abstract(c)!Send(<<t, n>>)
    BY <2>4, <2>5, <2>6, <2>7, <2>8 DEF Abstract!Send, Abstract!Elements, Names, Acked
  <2>10. QED
    BY <2>2, <2>9 DEF Abstract!Next
<1>4. CASE Shrinks(c)
  <2>1. /\ Names(c) # <<>> /\ Head(Names(c)) = Head(queue[c]).id
        /\ Names(c)' = Tail(Names(c))
    BY <1>1, <1>4, NamesFollow DEF Shrinks, Names
  <2>2. got'[c] = Append(got[c], Head(Names(c))) /\ Acked(c)' = Acked(c)
    BY <1>4, <2>1 DEF Shrinks, Acked
  <2>3. (receiver[c] # "dropped") /\ (receiver'[c] # "dropped")
    BY <1>4 DEF Shrinks
  <2>4. QED
    BY <2>1, <2>2, <2>3 DEF Abstract!Next, Abstract!Recv, Names, Acked
<1>5. CASE Ends(c)
  <2>1. Names(c)' = <<>>
    BY SMT, <1>5 DEF Ends, Names
  <2>2. got'[c] = got[c] /\ Acked(c)' = Acked(c)
    BY <1>5 DEF Ends, Acked
  <2>3. (receiver[c] # "dropped") /\ ~(receiver'[c] # "dropped")
    BY <1>5 DEF Ends
  <2>4. QED
    BY <2>1, <2>2, <2>3 DEF Abstract!Next, Abstract!DropReceiver, Names, Acked
<1>6. QED
  BY <1>2, <1>3, <1>4, <1>5 DEF ChannelStep

\* Every channel is a FIFO queue of whole messages with one receiver, whatever ends its
\* messages carry and whoever holds them: sends append, receives take the oldest, and
\* only dropping the receiver loses what is queued.
THEOREM ChannelsAreQueues ==
  ASSUME InProcessAssumption, NEW c \in Chans
  PROVE  Spec => Abstract(c)!Spec
<1>1. Init => Abstract(c)!Init
  BY AbstractInit
<1>2. IInv /\ [Next]_vars => [Abstract(c)!Next]_(Abstract(c)!vars)
  <2> SUFFICES ASSUME IInv, [Next]_vars PROVE [Abstract(c)!Next]_(Abstract(c)!vars)
    OBVIOUS
  <2>1. ChannelStep(c)
    BY NextIsStep, StepOfChannel DEF IInv
  <2>2. QED
    BY <2>1, AbstractStep DEF IInv
<1>3. QED
  BY <1>1, <1>2, Invariance, PTL DEF Spec, Abstract!Spec
=============================================================================
