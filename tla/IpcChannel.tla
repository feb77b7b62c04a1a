----------------------------- MODULE IpcChannel -----------------------------
(***************************************************************************)
(* What a transport of this library promises about one channel: a FIFO     *)
(* queue of whole messages with many senders and one receiver.             *)
(*                                                                         *)
(* A message enters the queue when its first byte does, so a message whose *)
(* send() has not returned, or will fail, may already be queued.  Such a   *)
(* message may turn out to be incomplete; the receiver then gets an error  *)
(* in its place.  A message whose send() returned Ok is only ever lost     *)
(* when the receiver's own system call fails while it is being read, or    *)
(* when the receiver goes away.                                            *)
(*                                                                         *)
(* A message is named <<s, n>>: the n-th send() of sender s.               *)
(***************************************************************************)
EXTENDS Naturals, Sequences

CONSTANT Ids   \* the names <<s, n>> that messages may have

VARIABLES
  queue,      \* names of the messages queued, oldest first
  received,   \* names of the messages handed to the receiver, in order
  broken,     \* names of the messages the receiver found incomplete
  failed,     \* names of the messages lost to an error of the receiver's call
  acked,      \* names of the messages whose send() returned Ok
  open        \* whether the receiver still exists

vars == <<queue, received, broken, failed, acked, open>>

Elements(q) == {q[i] : i \in DOMAIN q}

Init ==
  /\ queue = <<>>
  /\ received = <<>>
  /\ broken = {}
  /\ failed = {}
  /\ acked = {}
  /\ open = TRUE

\* A sender puts m in the queue, after all its earlier messages; its send() may
\* return at once.
Send(m) ==
  /\ open
  /\ \A e \in Elements(queue) \cup Elements(received) \cup broken \cup failed :
        e[1] = m[1] => e[2] < m[2]
  /\ queue' = Append(queue, m)
  /\ acked' \in {acked, acked \cup {m}}
  /\ UNCHANGED <<received, broken, failed, open>>

\* The send() of a message that was queued returns Ok.
Ack(m) ==
  /\ open => m \in Elements(queue) \cup Elements(received) \cup failed
  /\ m \notin broken
  /\ acked' = acked \cup {m}
  /\ UNCHANGED <<queue, received, broken, failed, open>>

Recv ==
  /\ open
  /\ queue # <<>>
  /\ received' = Append(received, Head(queue))
  /\ queue' = Tail(queue)
  /\ UNCHANGED <<broken, failed, acked, open>>

\* The oldest message is incomplete and its sender will not complete it.
RecvBroken ==
  /\ open
  /\ queue # <<>>
  /\ Head(queue) \notin acked
  /\ broken' = broken \cup {Head(queue)}
  /\ queue' = Tail(queue)
  /\ UNCHANGED <<received, failed, acked, open>>

RecvFailed ==
  /\ open
  /\ queue # <<>>
  /\ failed' = failed \cup {Head(queue)}
  /\ queue' = Tail(queue)
  /\ UNCHANGED <<received, broken, acked, open>>

DropReceiver ==
  /\ open
  /\ open' = FALSE
  /\ queue' = <<>>
  /\ UNCHANGED <<received, broken, failed, acked>>

Next ==
  \/ \E m \in Ids : Send(m) \/ Ack(m)
  \/ Recv
  \/ RecvBroken
  \/ RecvFailed
  \/ DropReceiver

Spec == Init /\ [][Next]_vars

=============================================================================
