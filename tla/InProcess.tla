------------------------------ MODULE InProcess ------------------------------
(***************************************************************************)
(* The in-process transport (src/platform/inprocess/mod.rs): crossbeam     *)
(* channels whose messages may carry ends of other channels, and the       *)
(* receiver set over them.  Threads create channels, clone, send, receive, *)
(* hand ends over in messages, add receivers to a set and drop everything  *)
(* in any order.  Each operation is one step: it is one operation of the   *)
(* crossbeam channel, and its other work is local to the calling thread.   *)
(***************************************************************************)
EXTENDS Integers, Sequences

CONSTANTS
  Threads,      \* the threads of the process
  Chans,        \* the channels they may create
  MaxMessages,  \* bound: messages sent on each channel
  None          \* no channel

InProcessAssumption ==
  /\ {"new", "moved", "set", "dropped"} \cap Threads = {}
  /\ MaxMessages \in Nat
  /\ None \notin Chans

VARIABLES
  queue,         \* messages in each crossbeam channel
  senders,       \* threads that hold an OsIpcSender of each channel
  receiver,      \* who holds its OsIpcReceiver: a thread, "new", "moved" (in a
                 \* message), "set" or "dropped"
  \* OsIpcReceiverSet:
  incrementor,
  receiver_ids,
  receivers,
  \* History:
  sent,          \* who sent the messages of each channel, in order
  got,           \* names of the messages received from each channel
  ids,           \* what add() returned for each receiver, or -1
  closes         \* ids that select() reported closed, in order

setVars == <<incrementor, receiver_ids, receivers>>
vars == <<queue, senders, receiver, setVars, sent, got, ids, closes>>

\* A message is named by its sender and number, and carries at most one end.
Message == [id : Threads \X Nat, kind : {"data", "tx", "rx"}, chan : Chans \cup {None}]

Init ==
  /\ queue = [c \in Chans |-> <<>>]
  /\ senders = [c \in Chans |-> {}]
  /\ receiver = [c \in Chans |-> "new"]
  /\ incrementor = 0
  /\ receiver_ids = <<>>
  /\ receivers = <<>>
  /\ sent = [c \in Chans |-> <<>>]
  /\ got = [c \in Chans |-> <<>>]
  /\ ids = [c \in Chans |-> -1]
  /\ closes = <<>>

-----------------------------------------------------------------------------
(* Ends of channels *)

Carries(c, kind, d) == \E i \in DOMAIN queue[c] : queue[c][i].kind = kind /\ queue[c][i].chan = d

\* No OsIpcSender of c is left, not even in a message.
Disconnected(c) ==
  /\ senders[c] = {}
  /\ \A d \in Chans : ~Carries(d, "tx", c)

\* Dropping the receivers in S discards the messages in them, and with these the
\* receivers that the messages carry.
Doomed(S) ==
  {c \in Chans :
     \A D \in SUBSET Chans :
       S \subseteq D /\ (\A d \in D, e \in Chans : Carries(d, "rx", e) => e \in D) => c \in D}

DropReceivers(S) ==
  /\ queue' = [c \in Chans |-> IF c \in Doomed(S) THEN <<>> ELSE queue[c]]
  /\ receiver' = [c \in Chans |-> IF c \in Doomed(S) THEN "dropped" ELSE receiver[c]]

NewChannel(t, c) ==
  /\ receiver[c] = "new"
  /\ senders' = [senders EXCEPT ![c] = {t}]
  /\ receiver' = [receiver EXCEPT ![c] = t]
  /\ UNCHANGED <<queue, setVars, sent, got, ids, closes>>

\* A clone of a sender goes to another thread by other means than a message.
CloneSender(t, u, c) ==
  /\ t \in senders[c]
  /\ u \notin senders[c]
  /\ senders' = [senders EXCEPT ![c] = @ \cup {u}]
  /\ UNCHANGED <<queue, receiver, setVars, sent, got, ids, closes>>

DropSender(t, c) ==
  /\ t \in senders[c]
  /\ senders' = [senders EXCEPT ![c] = @ \ {t}]
  /\ UNCHANGED <<queue, receiver, setVars, sent, got, ids, closes>>

DropReceiver(t, c) ==
  /\ receiver[c] = t
  /\ DropReceivers({c})
  /\ UNCHANGED <<senders, setVars, sent, got, ids, closes>>

-----------------------------------------------------------------------------
(* OsIpcSender::send *)

\* Thread t may put this end in a message; None stands for no end.
Owns(t, kind, d) ==
  \/ kind = "data" /\ d = None
  \/ kind = "tx" /\ d \in Chans /\ t \in senders[d]
  \/ kind = "rx" /\ d \in Chans /\ receiver[d] = t

Named(t, c, kind, d) == [id |-> <<t, Len(sent[c]) + 1>>, kind |-> kind, chan |-> d]

\* A sender in a message is a clone; a receiver is consumed.
Send(t, c, kind, d) ==
  /\ t \in senders[c]
  /\ receiver[c] # "dropped"
  /\ Len(sent[c]) < MaxMessages
  /\ Owns(t, kind, d)
  /\ queue' = [queue EXCEPT ![c] = Append(@, Named(t, c, kind, d))]
  /\ sent' = [sent EXCEPT ![c] = Append(@, t)]
  /\ receiver' = IF kind = "rx" THEN [receiver EXCEPT ![d] = "moved"] ELSE receiver
  /\ UNCHANGED <<senders, setVars, got, ids, closes>>

\* Err(BrokenPipeError): a receiver in the message is lost with it.
SendBroken(t, c, d) ==
  /\ t \in senders[c]
  /\ receiver[c] = "dropped"
  /\ Owns(t, "rx", d)
  /\ DropReceivers({d})
  /\ UNCHANGED <<senders, setVars, sent, got, ids, closes>>

-----------------------------------------------------------------------------
(* OsIpcReceiver::recv, and what select() does with a receiver of the set *)

\* Thread t takes the oldest message of c and converts the end it carries.
Take(t, c) ==
  LET m == Head(queue[c]) IN
  /\ queue[c] # <<>>
  /\ queue' = [queue EXCEPT ![c] = Tail(@)]
  /\ got' = [got EXCEPT ![c] = Append(@, m.id)]
  /\ senders' = IF m.kind = "tx" THEN [senders EXCEPT ![m.chan] = @ \cup {t}] ELSE senders
  /\ receiver' = IF m.kind = "rx" THEN [receiver EXCEPT ![m.chan] = t] ELSE receiver

\* recv(), try_recv() and try_recv_timeout().  When the queue is empty they
\* block or report ChannelEmpty or, if Disconnected(c), ChannelClosedError.
Recv(t, c) ==
  /\ receiver[c] = t
  /\ Take(t, c)
  /\ UNCHANGED <<setVars, sent, ids, closes>>

Add(t, c) ==
  /\ receiver[c] = t
  /\ receiver' = [receiver EXCEPT ![c] = "set"]
  /\ receiver_ids' = Append(receiver_ids, incrementor)
  /\ receivers' = Append(receivers, c)
  /\ incrementor' = incrementor + 1
  /\ ids' = [ids EXCEPT ![c] = incrementor]
  /\ UNCHANGED <<queue, senders, sent, got, closes>>

\* select() picks any receiver that is ready; got and closes tell the result.
SelectData(t, i) ==
  /\ Take(t, receivers[i])
  /\ UNCHANGED <<setVars, sent, ids, closes>>

\* Vec::remove: what follows the i-th element moves up.
remove(vec, i) == SubSeq(vec, 1, i - 1) \o SubSeq(vec, i + 1, Len(vec))

\* Mutant: the id stays behind.
SelectClosedKeepsId(i) ==
  LET c == receivers[i] IN
  /\ queue[c] = <<>>
  /\ Disconnected(c)
  /\ receivers' = remove(receivers, i)
  /\ closes' = Append(closes, receiver_ids[i])
  /\ receiver' = [receiver EXCEPT ![c] = "dropped"]
  /\ UNCHANGED <<queue, senders, incrementor, receiver_ids, sent, got, ids>>

SelectClosed(i) ==
  LET c == receivers[i] IN
  /\ queue[c] = <<>>
  /\ Disconnected(c)
  /\ receivers' = remove(receivers, i)
  /\ receiver_ids' = remove(receiver_ids, i)
  /\ closes' = Append(closes, receiver_ids[i])
  /\ receiver' = [receiver EXCEPT ![c] = "dropped"]
  /\ UNCHANGED <<queue, senders, incrementor, sent, got, ids>>

-----------------------------------------------------------------------------

Next ==
  \E t \in Threads :
    \/ \E c \in Chans :
         \/ NewChannel(t, c)
         \/ DropSender(t, c)
         \/ DropReceiver(t, c)
         \/ Recv(t, c)
         \/ Add(t, c)
         \/ \E u \in Threads : CloneSender(t, u, c)
         \/ \E kind \in {"data", "tx", "rx"}, d \in Chans \cup {None} : Send(t, c, kind, d)
         \/ \E d \in Chans : SendBroken(t, c, d)
    \/ \E i \in DOMAIN receivers : SelectData(t, i) \/ SelectClosed(i)

Spec == Init /\ [][Next]_vars

-----------------------------------------------------------------------------
(* Properties *)

\* Every variable has its type.
TypeOK ==
  /\ queue \in [Chans -> Seq(Message)]
  /\ senders \in [Chans -> SUBSET Threads]
  /\ receiver \in [Chans -> Threads \cup {"new", "moved", "set", "dropped"}]
  /\ incrementor \in Nat
  /\ receiver_ids \in Seq(Nat)
  /\ receivers \in Seq(Chans)
  /\ sent \in [Chans -> Seq(Threads)]
  /\ got \in [Chans -> Seq(Threads \X Nat)]
  /\ ids \in [Chans -> Nat \cup {-1}]
  /\ closes \in Seq(Nat)

\* A receiver is in one place at any time, wherever messages carry it: it is in
\* exactly one message if and only if it was moved, and once in the set if and
\* only if it was added.  (consume(), to_receiver(), add(), select().)
OneReceiver ==
  \A c \in Chans :
    /\ receiver[c] = "moved" <=>
         \E d \in Chans : \E i \in DOMAIN queue[d] : queue[d][i].kind = "rx" /\ queue[d][i].chan = c
    /\ \A d, e \in Chans : \A i \in DOMAIN queue[d], j \in DOMAIN queue[e] :
         /\ queue[d][i].kind = "rx" /\ queue[d][i].chan = c
         /\ queue[e][j].kind = "rx" /\ queue[e][j].chan = c
         => d = e /\ i = j
    /\ receiver[c] = "set" <=> \E i \in DOMAIN receivers : receivers[i] = c

\* The two vectors of the set stay aligned while receivers are removed from the
\* middle: an index stands for the receiver that was added under its id.
IdsAligned ==
  /\ Len(receiver_ids) = Len(receivers)
  /\ \A i \in DOMAIN receivers : receiver_ids[i] = ids[receivers[i]]

\* An id is reported closed once, and only when no sender is left anywhere: a
\* sender that still travels in a message keeps its channel open.
ClosedIsFinal ==
  /\ \A i, j \in DOMAIN closes : closes[i] = closes[j] => i = j
  /\ \A i \in DOMAIN closes, c \in Chans :
       closes[i] = ids[c] => Disconnected(c) /\ Len(got[c]) = Len(sent[c])

\* Each channel seen as a queue of messages, named by their senders and numbers.
Abstract(c) == INSTANCE IpcChannel WITH
  Ids <- Threads \X (1 .. MaxMessages),
  queue <- [i \in 1 .. Len(queue[c]) |-> queue[c][i].id],
  received <- got[c],
  broken <- {},
  failed <- {},
  acked <- {<<sent[c][n], n>> : n \in DOMAIN sent[c]},
  open <- receiver[c] # "dropped"

=============================================================================
