----------------------- MODULE UnixReceiverSetProofs -----------------------
(***************************************************************************)
(* Proofs about UnixReceiverSet, for any number of channels, senders,      *)
(* descriptors and messages and any capacity of poll(): the set never      *)
(* confuses or loses a receiver although descriptors are reused            *)
(* (EntriesOwnReceivers), select() does not panic (NoPanic), and what it   *)
(* reports can be relied on (ReportsFaithful).                             *)
(*                                                                         *)
(* IInv is about the receivers: descriptors, entries, ids.  Accounted is   *)
(* about the messages: how many of each channel have left its queue, and   *)
(* that these are the ones reported, dropped or in hand.                   *)
(***************************************************************************)
EXTENDS UnixReceiverSet, SequenceFacts, TLAPS

\* Leaves are first-order reasoning about sets and functions, but where they name SMT.
USE Zenon

\* A receiver has one descriptor at most, and an open one is not closed or still to come.
OneDescriptor ==
  /\ \A f, g \in Fds : (file[f] # "free" /\ file[f] = file[g]) => f = g
  /\ \A f \in Fds : file[f] # "free" => holder[file[f]] \in {"app", "set", "leaked"}

\* The events of a batch, and the message being received, are of receivers of the set.
BatchInSet ==
  /\ events \subseteq DOMAIN pollfds
  /\ phase \in {"idle", "dropped"} => events = {}
  /\ phase # "fragment" => reading = <<>>
  /\ phase = "fragment" =>
       /\ reading \in Fds \X Packet
       /\ reading[1] \in DOMAIN pollfds \ events
       /\ reading[2].chan = file[reading[1]]

\* An id is given once, by add().
IdsFresh ==
  /\ \A c \in Channels : holder[c] \in {"none", "app", "leaked"} => ids[c] = -1
  /\ \A c \in Channels : ids[c] < incrementor
  /\ \A c, d \in Channels : (ids[c] = ids[d] /\ ids[c] # -1) => c = d

QueuedOwn == \A c \in Channels : \A i \in DOMAIN queue[c] : queue[c][i].chan = c

\* A report is under the id of its receiver.
Told(r, given, state) ==
  IF r.packet = Closed
  THEN \E c \in Channels : given[c] = r.id /\ state[c] = "closed"
  ELSE r.id = given[r.packet.chan]

AllTold ==
  /\ \A i \in DOMAIN results : Told(results[i], ids, holder)
  /\ \A i \in DOMAIN returned : Told(returned[i], ids, holder)

IInv ==
  /\ TypeOK /\ EntriesOwnReceivers /\ OneDescriptor /\ BatchInSet /\ IdsFresh /\ QueuedOwn
  /\ AllTold

----------------------------------------------------------------------------
\* The report of the end of a channel is not a message.
LEMMA ClosedIsNoPacket ==
  /\ Closed \notin Packet /\ \A p \in Packet : p # Closed /\ p.chan \in Channels
  /\ \A id \in Nat : /\ [id |-> id, packet |-> Closed] \in SelectionResult
                     /\ [id |-> id, packet |-> Closed].id = id
                     /\ [id |-> id, packet |-> Closed].packet = Closed
  /\ \A id \in Nat, p \in Packet : /\ [id |-> id, packet |-> p] \in SelectionResult
                                   /\ [id |-> id, packet |-> p].id = id
                                   /\ [id |-> id, packet |-> p].packet = p
  /\ \A r \in SelectionResult : r.id \in Nat /\ r.packet \in Packet \cup {Closed}
<1>1. \A p \in Packet : p.chan \in Channels
  BY DEF Packet
<1>2. Closed.chan = "free"
  BY DEF Closed
<1>3. Closed \notin Packet /\ \A p \in Packet : p # Closed /\ p.chan \in Channels
  BY <1>1, <1>2, SetAssumption
<1>4. \A r \in SelectionResult : r.id \in Nat /\ r.packet \in Packet \cup {Closed}
  BY DEF SelectionResult
<1>5. ASSUME NEW id \in Nat, NEW p \in Packet \cup {Closed}
      PROVE  /\ [id |-> id, packet |-> p] \in SelectionResult
             /\ [id |-> id, packet |-> p].id = id /\ [id |-> id, packet |-> p].packet = p
  BY DEF SelectionResult
<1>6. QED
  BY <1>3, <1>4, <1>5

----------------------------------------------------------------------------
\* The invariant holds initially.
LEMMA InitIInv == Init => IInv
<1>1. SUFFICES ASSUME Init PROVE IInv
  OBVIOUS
<1>2. results = <<>> /\ returned = <<>> /\ DOMAIN results = {} /\ DOMAIN returned = {}
  BY SMT, <1>1 DEF Init
<1>3. \A c \in Channels : queue[c] = <<>> /\ DOMAIN queue[c] = {}
  BY SMT, <1>1 DEF Init
<1>4. DOMAIN pollfds = {}
  BY <1>1 DEF Init
<1>5. TypeOK
  <2>1. queue \in [Channels -> Seq(Packet)] /\ results \in Seq(SelectionResult)
        /\ returned \in Seq(SelectionResult)
    BY SMT, <1>1, <1>2, <1>3 DEF Init
  <2>2. pollfds \in [DOMAIN pollfds -> [id : Nat, fd : Fds]]
    BY <1>1 DEF Init
  <2>3. QED
    BY <1>1, <1>4, <2>1, <2>2 DEF Init, TypeOK
<1>6. EntriesOwnReceivers
  BY <1>1, <1>4 DEF Init, EntriesOwnReceivers
<1>7. OneDescriptor /\ IdsFresh
  BY SMT, <1>1 DEF Init, OneDescriptor, IdsFresh
<1>8. BatchInSet
  BY <1>1, <1>4 DEF Init, BatchInSet
<1>9. QueuedOwn /\ AllTold
  BY <1>2, <1>3 DEF QueuedOwn, AllTold
<1>10. QED
  BY <1>5, <1>6, <1>7, <1>8, <1>9 DEF IInv

\* A step that leaves the set, the receivers and what is reported alone.
LEMMA SendersIInv ==
  ASSUME IInv, UNCHANGED <<file, registered, setVars, historyVars>>, TypeOK', QueuedOwn'
  PROVE  IInv'
<1>1. UNCHANGED <<file, registered, incrementor, pollfds, phase, events, results, reading, holder,
                  ids, returned>>
  BY DEF setVars, historyVars
<1>2. EntriesOwnReceivers'
  BY SMT, <1>1 DEF IInv, EntriesOwnReceivers
<1>3. OneDescriptor'
  BY <1>1 DEF IInv, OneDescriptor
<1>4. BatchInSet' /\ IdsFresh'
  BY <1>1 DEF IInv, BatchInSet, IdsFresh
<1>5. AllTold'
  BY <1>1 DEF IInv, AllTold, Told
<1>6. QED
  BY <1>2, <1>3, <1>4, <1>5 DEF IInv

\* A send keeps the invariant.
LEMMA SendIInv ==
  ASSUME IInv, NEW c \in Channels, NEW s \in Senders, NEW whole \in BOOLEAN,
         NEW channels \in Embedding, Send(c, s, whole, channels)
  PROVE  IInv'
<1> DEFINE p == [chan |-> c, n |-> sent[c] + 1, whole |-> whole, channels |-> channels]
<1>1. p \in Packet /\ p.chan = c
  BY SMT, SetAssumption DEF IInv, TypeOK, Packet
<1>2. /\ queue' = [queue EXCEPT ![c] = Append(queue[c], p)]
      /\ amid' = [amid EXCEPT ![c][s] = IF whole THEN {} ELSE {p}]
  BY DEF Send
<1> HIDE DEF p
<1>3. /\ queue[c] \in Seq(Packet) /\ Append(queue[c], p) \in Seq(Packet)
      /\ \A i \in DOMAIN Append(queue[c], p) :
           (i \in DOMAIN queue[c] /\ Append(queue[c], p)[i] = queue[c][i]) \/ Append(queue[c], p)[i] = p
  <2>1. queue[c] \in Seq(Packet)
    BY DEF IInv, TypeOK
  <2>2. QED
    BY SMT, <1>1, <2>1, Appended
<1>4. queue' \in [Channels -> Seq(Packet)]
  BY <1>2, <1>3 DEF IInv, TypeOK
<1>5. amid' \in [Channels -> [Senders -> SUBSET Packet]]
  BY <1>1, <1>2 DEF IInv, TypeOK
<1>6. sent' \in [Channels -> Nat]
  BY SMT DEF Send, IInv, TypeOK
<1>7. TypeOK'
  BY <1>4, <1>5, <1>6 DEF Send, IInv, TypeOK, setVars, historyVars
<1>8. QueuedOwn'
  <2>1. SUFFICES ASSUME NEW d \in Channels, NEW i \in DOMAIN queue'[d] PROVE queue'[d][i].chan = d
    BY DEF QueuedOwn
  <2>2. CASE d = c
    <3>1. queue'[d] = Append(queue[c], p)
      BY <1>2, <2>2 DEF IInv, TypeOK
    <3>2. QED
      BY SMT, <1>1, <1>3, <2>1, <2>2, <3>1 DEF IInv, QueuedOwn
  <2>3. CASE d # c
    <3>1. queue'[d] = queue[d]
      BY <1>2, <2>3 DEF IInv, TypeOK
    <3>2. QED
      BY <2>1, <3>1 DEF IInv, QueuedOwn
  <2>4. QED
    BY <2>2, <2>3
<1>9. QED
  BY <1>7, <1>8, SendersIInv DEF Send

\* A followup fragment keeps the invariant.
LEMMA SendFollowupIInv ==
  ASSUME IInv, NEW c \in Channels, NEW s \in Senders, SendFollowup(c, s)
  PROVE  IInv'
<1>1. /\ followups' \subseteq Packet
      /\ amid' \in [Channels -> [Senders -> SUBSET Packet]]
  BY SMT DEF SendFollowup, IInv, TypeOK
<1>2. TypeOK'
  BY <1>1 DEF SendFollowup, IInv, TypeOK, setVars, historyVars
<1>3. QueuedOwn'
  BY DEF SendFollowup, IInv, QueuedOwn
<1>4. QED
  BY <1>2, <1>3, SendersIInv DEF SendFollowup

\* The close of a sender keeps the invariant.
LEMMA CloseSenderIInv ==
  ASSUME IInv, NEW c \in Channels, NEW s \in Senders, CloseSender(c, s)
  PROVE  IInv'
<1>1. /\ ended' \in [Channels -> SUBSET Senders]
      /\ amid' \in [Channels -> [Senders -> SUBSET Packet]]
  BY DEF CloseSender, IInv, TypeOK
<1>2. TypeOK'
  BY <1>1 DEF CloseSender, IInv, TypeOK, kernelVars, setVars, historyVars
<1>3. QueuedOwn'
  BY DEF CloseSender, IInv, QueuedOwn, kernelVars
<1>4. QED
  BY <1>2, <1>3, SendersIInv DEF CloseSender, kernelVars

----------------------------------------------------------------------------
\* A descriptor of the set is in use, so a new channel gets another one.
LEMMA NewChannelIInv ==
  ASSUME IInv, NEW c \in Channels, NewChannel(c)
  PROVE  IInv'
<1>1. PICK f \in Fds : file[f] = "free" /\ file' = [file EXCEPT ![f] = c]
  BY DEF NewChannel
<1>2. /\ holder[c] = "none" /\ holder' = [holder EXCEPT ![c] = "app"]
      /\ UNCHANGED <<queue, followups, registered, ended, amid, sent, incrementor, pollfds, phase,
                     events, results, reading, ids, returned, lost, unclosed>>
  BY DEF NewChannel, senderVars, setVars
<1>3. /\ file' \in [Fds -> Channels \cup {"free"}]
      /\ file'[f] = c /\ \A g \in Fds \ {f} : file'[g] = file[g]
  BY <1>1 DEF IInv, TypeOK
<1>4. /\ holder' \in [Channels -> {"none", "app", "set", "closed", "leaked"}]
      /\ holder'[c] = "app" /\ \A d \in Channels \ {c} : holder'[d] = holder[d]
  BY <1>2 DEF IInv, TypeOK
<1>5. TypeOK'
  BY <1>2, <1>3, <1>4 DEF IInv, TypeOK
<1>6. \A t \in DOMAIN pollfds : t \in Fds /\ t # f /\ file[t] # "free"
  BY SMT, <1>1, SetAssumption DEF IInv, TypeOK, EntriesOwnReceivers
<1>7. EntriesOwnReceivers'
  <2>1. \A t \in DOMAIN pollfds : \E d \in Channels :
          file'[t] = d /\ holder'[d] = "set" /\ ids[d] = pollfds[t].id
    BY SMT, <1>2, <1>3, <1>4, <1>6 DEF IInv, EntriesOwnReceivers
  <2>2. \A d \in Channels : holder'[d] = "set" => \E t \in DOMAIN pollfds : file'[t] = d
    BY SMT, <1>3, <1>4, <1>6 DEF IInv, EntriesOwnReceivers
  <2>3. QED
    BY <1>2, <2>1, <2>2 DEF IInv, EntriesOwnReceivers
<1>8. OneDescriptor'
  <2>1. \A g \in Fds : file[g] # c
    BY <1>2, SetAssumption DEF IInv, OneDescriptor
  <2>2. \A g \in Fds : file[g] # "free" => file[g] \in Channels
    BY DEF IInv, TypeOK
  <2>3. QED
    BY SMT, <1>3, <1>4, <2>1, <2>2 DEF IInv, OneDescriptor
<1>9. BatchInSet'
  BY <1>2, <1>3, <1>6 DEF IInv, BatchInSet
<1>10. IdsFresh'
  BY <1>2, <1>4 DEF IInv, IdsFresh
<1>11. QueuedOwn'
  BY <1>2 DEF IInv, QueuedOwn
<1>12. AllTold'
  BY <1>2, <1>4 DEF IInv, AllTold, Told
<1>13. QED
  BY <1>5, <1>7, <1>8, <1>9, <1>10, <1>11, <1>12 DEF IInv

\* A receiver that its owner drops is not in the set.
LEMMA DropReceiverIInv ==
  ASSUME IInv, NEW c \in Channels, DropReceiver(c)
  PROVE  IInv'
<1>1. /\ holder[c] = "app" /\ holder' = [holder EXCEPT ![c] = "closed"]
      /\ file' = [f \in Fds |-> IF file[f] = c THEN "free" ELSE file[f]]
      /\ UNCHANGED <<queue, followups, registered, ended, amid, sent, incrementor, pollfds, phase,
                     events, results, reading, ids, returned, lost, unclosed>>
  BY DEF DropReceiver, senderVars, setVars
<1>2. /\ file' \in [Fds -> Channels \cup {"free"}]
      /\ \A f \in Fds : file'[f] = IF file[f] = c THEN "free" ELSE file[f]
  BY <1>1 DEF IInv, TypeOK
<1>3. /\ holder' \in [Channels -> {"none", "app", "set", "closed", "leaked"}]
      /\ holder'[c] = "closed" /\ \A d \in Channels \ {c} : holder'[d] = holder[d]
  BY <1>1 DEF IInv, TypeOK
<1>4. TypeOK'
  BY <1>1, <1>2, <1>3 DEF IInv, TypeOK
<1>5. \A t \in DOMAIN pollfds : t \in Fds /\ file'[t] = file[t] /\ file[t] # c
  <2>1. \A t \in DOMAIN pollfds : t \in Fds /\ file[t] # c
    BY SMT, <1>1 DEF IInv, TypeOK, EntriesOwnReceivers
  <2>2. QED
    BY <1>2, <2>1
<1>6. EntriesOwnReceivers'
  <2>1. \A t \in DOMAIN pollfds : \E d \in Channels :
          file'[t] = d /\ holder'[d] = "set" /\ ids[d] = pollfds[t].id
    BY SMT, <1>3, <1>5 DEF IInv, EntriesOwnReceivers
  <2>2. \A d \in Channels : holder'[d] = "set" => \E t \in DOMAIN pollfds : file'[t] = d
    BY SMT, <1>3, <1>5 DEF IInv, EntriesOwnReceivers
  <2>3. registered' = DOMAIN pollfds' /\ \A t \in DOMAIN pollfds : pollfds'[t].fd = t
    BY <1>1 DEF IInv, EntriesOwnReceivers
  <2>4. QED
    BY <1>1, <2>1, <2>2, <2>3 DEF EntriesOwnReceivers
<1>7. OneDescriptor'
  <2>1. \A g \in Fds : file[g] # "free" => file[g] \in Channels
    BY DEF IInv, TypeOK
  <2>2. QED
    BY SMT, <1>2, <1>3, <2>1, SetAssumption DEF IInv, OneDescriptor
<1>8. BatchInSet'
  BY <1>1, <1>5 DEF IInv, BatchInSet
<1>9. IdsFresh'
  BY <1>1, <1>3 DEF IInv, IdsFresh
<1>10. QueuedOwn'
  BY <1>1 DEF IInv, QueuedOwn
<1>11. AllTold'
  BY <1>1, <1>3 DEF IInv, AllTold, Told
<1>12. QED
  BY <1>4, <1>6, <1>7, <1>8, <1>9, <1>10, <1>11 DEF IInv

\* add(): the entry is for the receiver, under an id that no other receiver has had.
LEMMA AddIInv ==
  ASSUME IInv, NEW c \in Channels, Add(c)
  PROVE  IInv'
<1>1. PICK f \in Fds :
        /\ file[f] = c /\ registered' = registered \cup {f}
        /\ pollfds' = [t \in DOMAIN pollfds \cup {f} |->
                         IF t = f THEN [id |-> incrementor, fd |-> f] ELSE pollfds[t]]
  BY DEF Add
<1>2. /\ phase = "idle" /\ holder[c] = "app"
      /\ incrementor' = incrementor + 1 /\ ids' = [ids EXCEPT ![c] = incrementor]
      /\ holder' = [holder EXCEPT ![c] = "set"]
      /\ UNCHANGED <<file, queue, followups, ended, amid, sent, phase, events, results, reading,
                     returned, lost, unclosed>>
  BY DEF Add, senderVars
<1>3. incrementor \in Nat /\ DOMAIN pollfds \subseteq Fds
      /\ \A t \in DOMAIN pollfds : pollfds[t] \in [id : Nat, fd : Fds]
  BY DEF IInv, TypeOK
<1>4. /\ DOMAIN pollfds' = DOMAIN pollfds \cup {f} /\ pollfds'[f].id = incrementor
      /\ pollfds'[f].fd = f /\ pollfds'[f] \in [id : Nat, fd : Fds]
      /\ \A t \in DOMAIN pollfds \ {f} : pollfds'[t] = pollfds[t]
  BY <1>1, <1>3
<1>5. /\ holder' \in [Channels -> {"none", "app", "set", "closed", "leaked"}]
      /\ holder'[c] = "set" /\ \A d \in Channels \ {c} : holder'[d] = holder[d]
  BY <1>2 DEF IInv, TypeOK
<1>6. /\ ids' \in [Channels -> Nat \cup {-1}]
      /\ ids'[c] = incrementor /\ \A d \in Channels \ {c} : ids'[d] = ids[d]
  BY <1>2, <1>3 DEF IInv, TypeOK
<1>7. TypeOK'
  <2>1. pollfds' \in [DOMAIN pollfds' -> [id : Nat, fd : Fds]] /\ DOMAIN pollfds' \subseteq Fds
    BY <1>1, <1>3, <1>4
  <2>2. incrementor' \in Nat /\ registered' \subseteq Fds
    BY SMT, <1>1, <1>2, <1>3 DEF IInv, TypeOK
  <2>3. QED
    BY <1>2, <1>5, <1>6, <2>1, <2>2 DEF IInv, TypeOK
<1>8. \A t \in DOMAIN pollfds : file[t] # c /\ t # f
  BY SMT, <1>1, <1>2 DEF IInv, EntriesOwnReceivers
<1>9. EntriesOwnReceivers'
  <2>1. \A t \in DOMAIN pollfds' :
          /\ pollfds'[t].fd = t
          /\ \E d \in Channels : file'[t] = d /\ holder'[d] = "set" /\ ids'[d] = pollfds'[t].id
    <3>1. ASSUME NEW t \in DOMAIN pollfds
          PROVE  /\ pollfds'[t].fd = t
                 /\ \E d \in Channels : file'[t] = d /\ holder'[d] = "set" /\ ids'[d] = pollfds'[t].id
      <4>1. PICK d \in Channels : file[t] = d /\ holder[d] = "set" /\ ids[d] = pollfds[t].id
        BY DEF IInv, EntriesOwnReceivers
      <4>2. d # c /\ t # f /\ pollfds'[t] = pollfds[t] /\ pollfds[t].fd = t
        BY <1>4, <1>8, <4>1 DEF IInv, EntriesOwnReceivers
      <4>3. QED
        BY <1>2, <1>5, <1>6, <4>1, <4>2
    <3>2. QED
      BY <1>1, <1>2, <1>4, <1>5, <1>6, <3>1
  <2>2. \A d \in Channels : holder'[d] = "set" => \E t \in DOMAIN pollfds' : file'[t] = d
    BY SMT, <1>1, <1>2, <1>4, <1>5 DEF IInv, EntriesOwnReceivers
  <2>3. registered' = DOMAIN pollfds'
    BY <1>1, <1>4 DEF IInv, EntriesOwnReceivers
  <2>4. QED
    BY <2>1, <2>2, <2>3 DEF EntriesOwnReceivers
<1>10. OneDescriptor'
  <2>1. \A g \in Fds : file[g] # "free" => file[g] \in Channels
    BY DEF IInv, TypeOK
  <2>2. QED
    BY <1>2, <1>5, <2>1 DEF IInv, OneDescriptor
<1>11. BatchInSet'
  BY <1>2, <1>4 DEF IInv, BatchInSet
<1>12. IdsFresh'
  <2>1. \A d \in Channels : ids[d] < incrementor /\ ids[d] \in Nat \cup {-1}
    BY DEF IInv, IdsFresh, TypeOK
  <2>2. QED
    BY SMT, <1>2, <1>3, <1>5, <1>6, <2>1 DEF IInv, IdsFresh
<1>13. QueuedOwn'
  BY <1>2 DEF IInv, QueuedOwn
<1>14. \A r \in SelectionResult : Told(r, ids, holder) => Told(r, ids', holder')
  <2>1. ids[c] = -1 /\ \A r \in SelectionResult : r.id \in Nat
    BY <1>2, ClosedIsNoPacket DEF IInv, IdsFresh
  <2>2. SUFFICES ASSUME NEW r \in SelectionResult, Told(r, ids, holder) PROVE Told(r, ids', holder')
    OBVIOUS
  <2>3. CASE r.packet = Closed
    BY <1>2, <1>5, <1>6, <2>2, <2>3 DEF Told
  <2>4. CASE r.packet # Closed
    <3>1. r.packet.chan \in Channels /\ r.packet.chan # c
      BY SMT, <2>1, <2>2, <2>4, ClosedIsNoPacket DEF Told
    <3>2. QED
      BY <1>6, <2>2, <2>4, <3>1 DEF Told
  <2>5. QED
    BY <2>3, <2>4
<1>15. AllTold'
  <2>1. /\ \A i \in DOMAIN results : results[i] \in SelectionResult
        /\ \A i \in DOMAIN returned : returned[i] \in SelectionResult
    BY SMT DEF IInv, TypeOK
  <2>2. QED
    BY <1>2, <1>14, <2>1 DEF IInv, AllTold
<1>16. QED
  BY <1>7, <1>9, <1>10, <1>11, <1>12, <1>13, <1>15 DEF IInv

\* An add() that fails keeps the invariant.
LEMMA AddFailsIInv ==
  ASSUME IInv, NEW c \in Channels, AddFails(c)
  PROVE  IInv'
<1>1. /\ holder[c] = "app" /\ incrementor' = incrementor + 1
      /\ holder' = [holder EXCEPT ![c] = "leaked"]
      /\ UNCHANGED <<file, queue, followups, registered, ended, amid, sent, pollfds, phase, events,
                     results, reading, ids, returned, lost, unclosed>>
  BY DEF AddFails, kernelVars, senderVars
<1>2. /\ holder' \in [Channels -> {"none", "app", "set", "closed", "leaked"}]
      /\ holder'[c] = "leaked" /\ \A d \in Channels \ {c} : holder'[d] = holder[d]
  BY <1>1 DEF IInv, TypeOK
<1>3. TypeOK'
  <2>1. incrementor' \in Nat
    BY SMT, <1>1 DEF IInv, TypeOK
  <2>2. QED
    BY <1>1, <1>2, <2>1 DEF IInv, TypeOK
<1>4. EntriesOwnReceivers'
  BY SMT, <1>1, <1>2 DEF IInv, EntriesOwnReceivers
<1>5. OneDescriptor'
  <2>1. \A g \in Fds : file[g] # "free" =>
          file[g] \in Channels /\ holder'[file[g]] \in {"app", "set", "leaked"}
    BY SMT, <1>2 DEF IInv, TypeOK, OneDescriptor
  <2>2. QED
    BY <1>1, <2>1 DEF IInv, OneDescriptor
<1>6. BatchInSet' /\ QueuedOwn'
  BY <1>1 DEF IInv, BatchInSet, QueuedOwn
<1>7. IdsFresh'
  <2>1. incrementor \in Nat /\ \A d \in Channels : ids[d] \in Nat \cup {-1} /\ ids[d] < incrementor
    BY DEF IInv, IdsFresh, TypeOK
  <2>2. \A d \in Channels : ids[d] < incrementor + 1
    BY SMT, <2>1
  <2>3. QED
    BY <1>1, <1>2, <2>2 DEF IInv, IdsFresh
<1>8. AllTold'
  BY <1>1, <1>2 DEF IInv, AllTold, Told
<1>9. QED
  BY <1>3, <1>4, <1>5, <1>6, <1>7, <1>8 DEF IInv

\* poll() keeps the invariant.
LEMMA PollIInv ==
  ASSUME IInv, NEW S \in SUBSET registered, Poll(S)
  PROVE  IInv'
<1>1. /\ phase = "idle" /\ events' = S /\ phase' = "batch"
      /\ UNCHANGED <<file, queue, followups, registered, ended, amid, sent, incrementor, pollfds,
                     results, reading, holder, ids, returned, lost, unclosed>>
  BY DEF Poll, kernelVars, senderVars, historyVars
<1>2. TypeOK'
  BY <1>1 DEF IInv, TypeOK
<1>3. BatchInSet'
  BY <1>1 DEF IInv, BatchInSet, EntriesOwnReceivers
<1>4. EntriesOwnReceivers' /\ OneDescriptor'
  BY SMT, <1>1 DEF IInv, EntriesOwnReceivers, OneDescriptor
<1>5. IdsFresh' /\ QueuedOwn'
  BY <1>1 DEF IInv, IdsFresh, QueuedOwn
<1>6. AllTold'
  BY <1>1 DEF IInv, AllTold, Told
<1>7. QED
  BY <1>2, <1>3, <1>4, <1>5, <1>6 DEF IInv

----------------------------------------------------------------------------
\* An event's entry leads to the receiver it is about.
LEMMA EntryOf ==
  ASSUME IInv, NEW t \in DOMAIN pollfds
  PROVE  /\ t \in Fds /\ pollfds[t].fd = t /\ pollfds[t].id \in Nat
         /\ file[t] \in Channels /\ file[t] # "free"
         /\ holder[file[t]] = "set" /\ ids[file[t]] = pollfds[t].id
<1>1. t \in Fds /\ pollfds[t] \in [id : Nat, fd : Fds]
  BY DEF IInv, TypeOK
<1>2. QED
  BY SMT, <1>1, SetAssumption DEF IInv, EntriesOwnReceivers

\* Taking the first packet of a queue.
LEMMA Dequeue ==
  ASSUME IInv, NEW c \in Channels, queue[c] # <<>>, queue' = [queue EXCEPT ![c] = Tail(queue[c])]
  PROVE  /\ queue' \in [Channels -> Seq(Packet)] /\ QueuedOwn'
         /\ Head(queue[c]) \in Packet /\ Head(queue[c]).chan = c
<1>1. queue[c] \in Seq(Packet)
  BY DEF IInv, TypeOK
<1>2. /\ Tail(queue[c]) \in Seq(Packet) /\ Head(queue[c]) \in Packet /\ 1 \in DOMAIN queue[c]
      /\ Head(queue[c]) = queue[c][1]
      /\ \A i \in DOMAIN Tail(queue[c]) : i + 1 \in DOMAIN queue[c] /\ Tail(queue[c])[i] = queue[c][i + 1]
  BY <1>1, TailOf
<1>3. queue' \in [Channels -> Seq(Packet)]
  BY <1>2 DEF IInv, TypeOK
<1>4. ASSUME NEW d \in Channels, NEW i \in DOMAIN queue'[d] PROVE queue'[d][i].chan = d
  <2>1. CASE d = c
    <3>1. queue'[d] = Tail(queue[c])
      BY <2>1 DEF IInv, TypeOK
    <3>2. QED
      BY SMT, <1>2, <1>4, <2>1, <3>1 DEF IInv, QueuedOwn
  <2>2. CASE d # c
    <3>1. queue'[d] = queue[d]
      BY <2>2 DEF IInv, TypeOK
    <3>2. QED
      BY <1>4, <3>1 DEF IInv, QueuedOwn
  <2>3. QED
    BY <2>1, <2>2
<1>5. QED
  BY SMT, <1>2, <1>3, <1>4 DEF IInv, QueuedOwn

\* A step that appends a report that is told keeps the others told, if no id changes and
\* closed receivers stay closed.
LEMMA Reported ==
  ASSUME IInv, ids' = ids, \A c \in Channels : holder[c] = "closed" => holder'[c] = "closed",
         NEW r \in SelectionResult, Told(r, ids', holder'),
         results' = Append(results, r), returned' = returned
  PROVE  results' \in Seq(SelectionResult) /\ AllTold'
<1>1. results \in Seq(SelectionResult)
  BY DEF IInv, TypeOK
<1>2. /\ results' \in Seq(SelectionResult)
      /\ \A i \in DOMAIN results' : (i \in DOMAIN results /\ results'[i] = results[i]) \/ results'[i] = r
  BY SMT, <1>1, Appended
<1>3. \A x : Told(x, ids, holder) => Told(x, ids', holder')
  BY DEF Told
<1>4. \A i \in DOMAIN results' : Told(results'[i], ids', holder')
  BY <1>2, <1>3 DEF IInv, AllTold
<1>5. \A i \in DOMAIN returned' : Told(returned'[i], ids', holder')
  BY <1>3 DEF IInv, AllTold
<1>6. QED
  BY <1>2, <1>4, <1>5 DEF AllTold

\* recv() gets a message in one packet: it is of the receiver that the entry is for.
LEMMA RecvWholeIInv ==
  ASSUME IInv, NEW t \in Fds, RecvWhole(t)
  PROVE  IInv'
<1> DEFINE c == file[t]
           r == [id |-> pollfds[t].id, packet |-> Head(queue[c])]
<1>1. t \in DOMAIN pollfds /\ t \in events
  BY DEF RecvWhole, Handling
<1>2. /\ pollfds[t].fd = t /\ pollfds[t].id \in Nat /\ c \in Channels
      /\ ids[c] = pollfds[t].id
  BY <1>1, EntryOf
<1>3. /\ queue[c] # <<>> /\ queue' = [queue EXCEPT ![c] = Tail(queue[c])]
      /\ results' = Append(results, r) /\ events' = events \ {t}
      /\ UNCHANGED <<file, followups, registered, ended, amid, sent, incrementor, pollfds, phase,
                     reading, holder, ids, returned, lost, unclosed>>
  BY <1>2 DEF RecvWhole, senderVars, historyVars
<1> HIDE DEF c
<1>4. /\ queue' \in [Channels -> Seq(Packet)] /\ QueuedOwn'
      /\ Head(queue[c]) \in Packet /\ Head(queue[c]).chan = c
  BY <1>2, <1>3, Dequeue
<1>5. /\ r \in SelectionResult /\ r.id = pollfds[t].id /\ r.packet = Head(queue[c])
      /\ r.packet # Closed
  BY <1>2, <1>4, ClosedIsNoPacket
<1> HIDE DEF r
<1>6. results' \in Seq(SelectionResult) /\ AllTold'
  <2>1. Told(r, ids', holder')
    BY <1>2, <1>3, <1>4, <1>5 DEF Told
  <2>2. QED
    BY <1>3, <1>5, <2>1, Reported
<1>7. TypeOK'
  BY <1>3, <1>4, <1>6 DEF IInv, TypeOK
<1>8. EntriesOwnReceivers' /\ OneDescriptor' /\ IdsFresh'
  BY SMT, <1>3 DEF IInv, EntriesOwnReceivers, OneDescriptor, IdsFresh
<1>9. BatchInSet'
  BY <1>3 DEF IInv, BatchInSet
<1>10. QED
  BY <1>4, <1>6, <1>7, <1>8, <1>9 DEF IInv

\* recv() gets a first fragment.
LEMMA RecvFirstIInv ==
  ASSUME IInv, NEW t \in Fds, RecvFirst(t)
  PROVE  IInv'
<1> DEFINE c == file[t]
<1>1. t \in DOMAIN pollfds /\ t \in events
  BY DEF RecvFirst, Handling
<1>2. pollfds[t].fd = t /\ c \in Channels
  BY <1>1, EntryOf
<1>3. /\ queue[c] # <<>> /\ queue' = [queue EXCEPT ![c] = Tail(queue[c])]
      /\ reading' = <<t, Head(queue[c])>> /\ phase' = "fragment" /\ events' = events \ {t}
      /\ UNCHANGED <<file, followups, registered, ended, amid, sent, incrementor, pollfds, results,
                     holder, ids, returned, lost, unclosed>>
  BY <1>2 DEF RecvFirst, senderVars, historyVars
<1>4. /\ queue' \in [Channels -> Seq(Packet)] /\ QueuedOwn'
      /\ Head(queue[c]) \in Packet /\ Head(queue[c]).chan = c
  BY <1>2, <1>3, Dequeue
<1>5. /\ reading' \in Fds \X Packet /\ reading'[1] = t /\ reading'[2] = Head(queue[c])
  BY <1>3, <1>4
<1>6. TypeOK'
  BY <1>3, <1>4, <1>5 DEF IInv, TypeOK
<1>7. EntriesOwnReceivers' /\ OneDescriptor' /\ IdsFresh'
  BY SMT, <1>3 DEF IInv, EntriesOwnReceivers, OneDescriptor, IdsFresh
<1>8. BatchInSet'
  BY <1>1, <1>3, <1>4, <1>5 DEF IInv, BatchInSet
<1>9. AllTold'
  BY <1>3 DEF IInv, AllTold, Told
<1>10. QED
  BY <1>4, <1>6, <1>7, <1>8, <1>9 DEF IInv

\* recv() gets the rest: the entry has not changed during the wait.
LEMMA RecvFollowupIInv ==
  ASSUME IInv, RecvFollowup
  PROVE  IInv'
<1> DEFINE t == reading[1]
           r == [id |-> pollfds[t].id, packet |-> reading[2]]
<1>1. /\ reading \in Fds \X Packet /\ t \in DOMAIN pollfds /\ reading[2].chan = file[t]
      /\ reading[2] \in Packet
  BY DEF RecvFollowup, IInv, BatchInSet
<1>2. /\ pollfds[t].id \in Nat /\ file[t] \in Channels /\ ids[file[t]] = pollfds[t].id
  BY <1>1, EntryOf
<1>3. /\ results' = Append(results, r) /\ phase' = "batch" /\ reading' = <<>>
      /\ followups' = followups \ {reading[2]}
      /\ UNCHANGED <<file, queue, registered, ended, amid, sent, incrementor, pollfds, events,
                     holder, ids, returned, lost, unclosed>>
  BY DEF RecvFollowup, senderVars, historyVars
<1> HIDE DEF t
<1>4. /\ r \in SelectionResult /\ r.id = pollfds[t].id /\ r.packet = reading[2]
      /\ r.packet # Closed
  BY <1>1, <1>2, ClosedIsNoPacket
<1> HIDE DEF r
<1>5. results' \in Seq(SelectionResult) /\ AllTold'
  <2>1. Told(r, ids', holder')
    BY <1>1, <1>2, <1>3, <1>4 DEF Told
  <2>2. QED
    BY <1>3, <1>4, <2>1, Reported
<1>6. TypeOK'
  BY <1>3, <1>5 DEF IInv, TypeOK
<1>7. EntriesOwnReceivers' /\ OneDescriptor' /\ IdsFresh' /\ QueuedOwn'
  BY SMT, <1>3 DEF IInv, EntriesOwnReceivers, OneDescriptor, IdsFresh, QueuedOwn
<1>8. BatchInSet'
  BY <1>3 DEF IInv, BatchInSet
<1>9. QED
  BY <1>5, <1>6, <1>7, <1>8 DEF IInv

\* The end of a channel: its entry, its registration and its descriptor go together, and
\* the report is under its id.
LEMMA ReportClosedFacts ==
  ASSUME IInv, NEW t \in DOMAIN pollfds, ReportClosed(t), UNCHANGED <<ids, incrementor, returned>>
  PROVE  /\ file' \in [Fds -> Channels \cup {"free"}] /\ \A f \in Fds \ {t} : file'[f] = file[f]
         /\ holder' \in [Channels -> {"none", "app", "set", "closed", "leaked"}]
         /\ registered' \subseteq Fds
         /\ DOMAIN pollfds' = DOMAIN pollfds \ {t} /\ DOMAIN pollfds' \subseteq Fds
         /\ pollfds' \in [DOMAIN pollfds' -> [id : Nat, fd : Fds]]
         /\ results' \in Seq(SelectionResult) /\ AllTold'
         /\ EntriesOwnReceivers' /\ OneDescriptor' /\ IdsFresh'
<1> DEFINE c == file[t]
           r == [id |-> pollfds[t].id, packet |-> Closed]
<1>1. /\ t \in Fds /\ pollfds[t].fd = t /\ pollfds[t].id \in Nat /\ c \in Channels
      /\ holder[c] = "set" /\ ids[c] = pollfds[t].id /\ c # "free"
  BY EntryOf
<1>2. /\ pollfds' = [u \in DOMAIN pollfds \ {t} |-> pollfds[u]]
      /\ registered' = registered \ {t} /\ file' = [file EXCEPT ![t] = "free"]
      /\ holder' = [d \in Channels |-> IF c = d THEN "closed" ELSE holder[d]]
      /\ results' = Append(results, r)
  BY <1>1 DEF ReportClosed
<1>3. r \in SelectionResult /\ r.id = pollfds[t].id /\ r.packet = Closed
  BY <1>1, ClosedIsNoPacket
<1> HIDE DEF r
<1>4. /\ file' \in [Fds -> Channels \cup {"free"}] /\ file'[t] = "free"
      /\ \A f \in Fds \ {t} : file'[f] = file[f]
  BY <1>1, <1>2 DEF IInv, TypeOK
<1>5. /\ holder' \in [Channels -> {"none", "app", "set", "closed", "leaked"}]
      /\ holder'[c] = "closed" /\ \A d \in Channels \ {c} : holder'[d] = holder[d]
  BY <1>1, <1>2 DEF IInv, TypeOK
<1> HIDE DEF c
<1>6. /\ registered' \subseteq Fds /\ DOMAIN pollfds' = DOMAIN pollfds \ {t}
      /\ \A u \in DOMAIN pollfds' : pollfds'[u] = pollfds[u]
  BY <1>2 DEF IInv, TypeOK
<1>7. DOMAIN pollfds' \subseteq Fds /\ pollfds' \in [DOMAIN pollfds' -> [id : Nat, fd : Fds]]
  BY <1>2, <1>6 DEF IInv, TypeOK
<1>8. results' \in Seq(SelectionResult) /\ AllTold'
  <2>1. Told(r, ids', holder')
    BY <1>1, <1>3, <1>5 DEF Told
  <2>2. QED
    BY <1>2, <1>3, <1>5, <2>1, Reported
<1>9. \A f \in Fds : file[f] = c => f = t
  BY <1>1 DEF IInv, OneDescriptor, c
<1>10. EntriesOwnReceivers'
  <2>1. ASSUME NEW u \in DOMAIN pollfds'
        PROVE  /\ pollfds'[u].fd = u
               /\ \E d \in Channels : file'[u] = d /\ holder'[d] = "set" /\ ids'[d] = pollfds'[u].id
    <3>1. u \in DOMAIN pollfds /\ u # t /\ u \in Fds
      BY <1>6, <1>7
    <3>2. /\ pollfds[u].fd = u /\ file[u] \in Channels /\ holder[file[u]] = "set"
          /\ ids[file[u]] = pollfds[u].id
      BY <3>1, EntryOf
    <3>3. QED
      BY <1>4, <1>5, <1>6, <1>9, <3>1, <3>2
  <2>2. ASSUME NEW d \in Channels, holder'[d] = "set"
        PROVE  \E u \in DOMAIN pollfds' : file'[u] = d
    <3>1. d # c /\ holder[d] = "set"
      BY <1>5, <2>2
    <3>2. PICK u \in DOMAIN pollfds : file[u] = d
      BY <3>1 DEF IInv, EntriesOwnReceivers
    <3>3. u # t /\ u \in Fds
      BY <3>1, <3>2, EntryOf DEF c
    <3>4. QED
      BY <1>4, <1>6, <3>2, <3>3
  <2>3. registered' = DOMAIN pollfds'
    BY <1>2, <1>6 DEF IInv, EntriesOwnReceivers
  <2>4. QED
    BY <2>1, <2>2, <2>3 DEF EntriesOwnReceivers
<1>11. OneDescriptor'
  <2>1. \A g \in Fds : file[g] # "free" => file[g] \in Channels
    BY DEF IInv, TypeOK
  <2>2. QED
    BY SMT, <1>4, <1>5, <1>9, <2>1 DEF IInv, OneDescriptor
<1>12. IdsFresh'
  BY <1>1, <1>5 DEF IInv, IdsFresh
<1>13. QED
  BY <1>4, <1>5, <1>6, <1>7, <1>8, <1>10, <1>11, <1>12

\* The end of a channel, whose receiver leaves the set, keeps the invariant.
LEMMA RecvClosedIInv ==
  ASSUME IInv, NEW t \in Fds, RecvClosed(t)
  PROVE  IInv'
<1>1. /\ t \in DOMAIN pollfds /\ t \in events /\ phase = "batch"
      /\ ReportClosed(t) /\ events' = events \ {t}
      /\ UNCHANGED <<queue, followups, ended, amid, sent, incrementor, phase, reading, ids, returned,
                     lost, unclosed>>
  BY DEF RecvClosed, Handling, senderVars
<1>2. /\ file' \in [Fds -> Channels \cup {"free"}]
      /\ holder' \in [Channels -> {"none", "app", "set", "closed", "leaked"}]
      /\ registered' \subseteq Fds
      /\ DOMAIN pollfds' = DOMAIN pollfds \ {t} /\ DOMAIN pollfds' \subseteq Fds
      /\ pollfds' \in [DOMAIN pollfds' -> [id : Nat, fd : Fds]]
      /\ results' \in Seq(SelectionResult) /\ AllTold'
      /\ EntriesOwnReceivers' /\ OneDescriptor' /\ IdsFresh'
  BY <1>1, ReportClosedFacts
<1>3. TypeOK'
  BY <1>1, <1>2 DEF IInv, TypeOK
<1>4. BatchInSet'
  BY <1>1, <1>2 DEF IInv, BatchInSet
<1>5. QueuedOwn'
  BY <1>1 DEF IInv, QueuedOwn
<1>6. QED
  BY <1>2, <1>3, <1>4, <1>5 DEF IInv

\* What a select() that fails drops has its type; a report of an end has no channels.
LEMMA DropTyped ==
  ASSUME IInv, NEW dropped \in SUBSET SelectionResult, Drop(dropped)
  PROVE  lost' \subseteq SelectionResult /\ unclosed' \subseteq Packet
<1>1. lost' \subseteq SelectionResult
  BY DEF Drop, IInv, TypeOK
<1>2. Closed.channels = FALSE
  BY DEF Closed
<1>3. ASSUME NEW p \in {r.packet : r \in dropped}, p.channels PROVE p \in Packet
  <2>1. p \in Packet \cup {Closed}
    BY SMT, ClosedIsNoPacket
  <2>2. p # Closed
    BY <1>2, <1>3
  <2>3. QED
    BY <2>1, <2>2
<1>4. unclosed' \subseteq Packet
  BY <1>3 DEF Drop, IInv, TypeOK
<1>5. QED
  BY <1>1, <1>4

\* What a failing select() has collected are results.
LEMMA PartialTyped ==
  ASSUME IInv
  PROVE  Partial \subseteq SelectionResult
<1>1. CASE phase = "fragment"
  <2>1. reading[1] \in DOMAIN pollfds /\ reading[2] \in Packet
    BY <1>1 DEF IInv, BatchInSet
  <2>2. pollfds[reading[1]].id \in Nat
    BY <2>1, EntryOf
  <2>3. [id |-> pollfds[reading[1]].id, packet |-> reading[2]] \in SelectionResult
    BY <2>1, <2>2, ClosedIsNoPacket
  <2>4. QED
    BY <2>3 DEF Partial
<1>2. CASE phase # "fragment"
  <2>1. reading = <<>> /\ DOMAIN reading = {}
    BY SMT, <1>2 DEF IInv, BatchInSet
  <2>2. QED
    BY <2>1 DEF Partial
<1>3. QED
  BY <1>1, <1>2

\* The followup of a message never comes: the receiver is closed as at the end of its
\* channel.
LEMMA RecvBrokenIInv ==
  ASSUME IInv, RecvBroken
  PROVE  IInv'
<1> DEFINE t == reading[1]
<1>1. t \in DOMAIN pollfds \ events
  BY DEF RecvBroken, IInv, BatchInSet
<1>2. /\ ReportClosed(t) /\ phase' = "batch" /\ reading' = <<>>
      /\ UNCHANGED <<queue, followups, ended, amid, sent, incrementor, events, ids, returned>>
  BY DEF RecvBroken, senderVars
<1>3. lost' \subseteq SelectionResult /\ unclosed' \subseteq Packet
  BY PartialTyped, DropTyped DEF RecvBroken
<1> HIDE DEF t
<1>4. /\ file' \in [Fds -> Channels \cup {"free"}]
      /\ holder' \in [Channels -> {"none", "app", "set", "closed", "leaked"}]
      /\ registered' \subseteq Fds
      /\ DOMAIN pollfds' = DOMAIN pollfds \ {t} /\ DOMAIN pollfds' \subseteq Fds
      /\ pollfds' \in [DOMAIN pollfds' -> [id : Nat, fd : Fds]]
      /\ results' \in Seq(SelectionResult) /\ AllTold'
      /\ EntriesOwnReceivers' /\ OneDescriptor' /\ IdsFresh'
  BY <1>1, <1>2, ReportClosedFacts
<1>5. TypeOK'
  BY <1>2, <1>3, <1>4 DEF IInv, TypeOK
<1>6. BatchInSet'
  BY <1>1, <1>2, <1>4 DEF IInv, BatchInSet
<1>7. QueuedOwn'
  BY <1>2 DEF IInv, QueuedOwn
<1>8. QED
  BY <1>4, <1>5, <1>6, <1>7 DEF IInv

\* A select() that fails keeps the invariant.
LEMMA SelectFailsIInv ==
  ASSUME IInv, SelectFails
  PROVE  IInv'
<1>1. /\ phase' = "idle" /\ events' = {} /\ results' = <<>> /\ reading' = <<>>
      /\ UNCHANGED <<file, queue, followups, registered, ended, amid, sent, incrementor, pollfds,
                     holder, ids, returned>>
  BY DEF SelectFails, kernelVars, senderVars
<1>2. lost' \subseteq SelectionResult /\ unclosed' \subseteq Packet
  <2>1. {results[i] : i \in DOMAIN results} \subseteq SelectionResult
    BY SMT DEF IInv, TypeOK
  <2>2. Partial \cup {results[i] : i \in DOMAIN results} \in SUBSET SelectionResult
    BY <2>1, PartialTyped
  <2>3. QED
    BY <2>2, DropTyped DEF SelectFails
<1>3. results' \in Seq(SelectionResult) /\ DOMAIN results' = {}
  BY SMT, <1>1
<1>4. TypeOK'
  BY <1>1, <1>2, <1>3 DEF IInv, TypeOK
<1>5. EntriesOwnReceivers' /\ OneDescriptor' /\ IdsFresh' /\ QueuedOwn'
  BY SMT, <1>1 DEF IInv, EntriesOwnReceivers, OneDescriptor, IdsFresh, QueuedOwn
<1>6. BatchInSet'
  BY <1>1 DEF IInv, BatchInSet
<1>7. AllTold'
  BY <1>1, <1>3 DEF IInv, AllTold, Told
<1>8. QED
  BY <1>4, <1>5, <1>6, <1>7 DEF IInv

\* A select() that returns its results keeps the invariant.
LEMMA SelectReturnsIInv ==
  ASSUME IInv, SelectReturns
  PROVE  IInv'
<1>1. /\ phase = "batch" /\ events = {} /\ phase' = "idle" /\ results' = <<>>
      /\ returned' = returned \o results
      /\ UNCHANGED <<file, queue, followups, registered, ended, amid, sent, incrementor, pollfds,
                     events, reading, holder, ids, lost, unclosed>>
  BY DEF SelectReturns, kernelVars, senderVars
<1>2. results' \in Seq(SelectionResult) /\ DOMAIN results' = {}
  BY SMT, <1>1
<1>3. /\ returned' \in Seq(SelectionResult)
      /\ \A i \in DOMAIN returned' : \/ i \in DOMAIN returned /\ returned'[i] = returned[i]
                                     \/ \E j \in DOMAIN results : returned'[i] = results[j]
  <2>1. returned \in Seq(SelectionResult) /\ results \in Seq(SelectionResult)
    BY DEF IInv, TypeOK
  <2>2. QED
    BY SMT, <1>1, <2>1, Concatenated
<1>4. TypeOK'
  BY <1>1, <1>2, <1>3 DEF IInv, TypeOK
<1>5. EntriesOwnReceivers' /\ OneDescriptor' /\ IdsFresh' /\ QueuedOwn'
  BY SMT, <1>1 DEF IInv, EntriesOwnReceivers, OneDescriptor, IdsFresh, QueuedOwn
<1>6. BatchInSet'
  BY <1>1 DEF IInv, BatchInSet
<1>7. AllTold'
  BY <1>1, <1>2, <1>3 DEF IInv, AllTold
<1>8. QED
  BY <1>4, <1>5, <1>6, <1>7 DEF IInv

\* Dropping the set closes exactly its receivers.
LEMMA DropSetIInv ==
  ASSUME IInv, DropSet
  PROVE  IInv'
<1>1. /\ phase = "idle" /\ phase' = "dropped" /\ pollfds' = [t \in {} |-> 0] /\ registered' = {}
      /\ file' = [f \in Fds |-> IF f \in {pollfds[t].fd : t \in DOMAIN pollfds} THEN "free" ELSE file[f]]
      /\ holder' = [c \in Channels |-> IF holder[c] = "set" THEN "closed" ELSE holder[c]]
      /\ UNCHANGED <<queue, followups, ended, amid, sent, incrementor, events, results, reading, ids,
                     returned, lost, unclosed>>
  BY DEF DropSet, senderVars
<1>2. {pollfds[t].fd : t \in DOMAIN pollfds} = DOMAIN pollfds
  <2>1. \A t \in DOMAIN pollfds : pollfds[t].fd = t
    BY EntryOf
  <2>2. QED
    BY <2>1
<1>3. /\ file' \in [Fds -> Channels \cup {"free"}]
      /\ \A f \in Fds : file'[f] = IF f \in DOMAIN pollfds THEN "free" ELSE file[f]
  BY <1>1, <1>2 DEF IInv, TypeOK
<1>4. /\ holder' \in [Channels -> {"none", "app", "set", "closed", "leaked"}]
      /\ \A c \in Channels : holder'[c] = IF holder[c] = "set" THEN "closed" ELSE holder[c]
  BY <1>1 DEF IInv, TypeOK
<1>5. DOMAIN pollfds' = {}
  BY <1>1
<1>6. TypeOK'
  <2>1. pollfds' \in [DOMAIN pollfds' -> [id : Nat, fd : Fds]]
    BY <1>1, <1>5
  <2>2. QED
    BY <1>1, <1>3, <1>4, <1>5, <2>1 DEF IInv, TypeOK
<1>7. EntriesOwnReceivers'
  BY <1>1, <1>4, <1>5 DEF EntriesOwnReceivers
<1>8. OneDescriptor'
  <2>1. ASSUME NEW f \in Fds, file'[f] # "free" PROVE file'[f] = file[f] /\ holder'[file[f]] \in {"app", "leaked"}
    <3>1. f \notin DOMAIN pollfds /\ file'[f] = file[f] /\ file[f] \in Channels
      BY <1>3, <2>1 DEF IInv, TypeOK
    <3>2. holder[file[f]] # "set"
      BY SMT, <3>1, <2>1, EntryOf DEF IInv, EntriesOwnReceivers, OneDescriptor
    <3>3. QED
      BY <1>4, <2>1, <3>1, <3>2 DEF IInv, OneDescriptor
  <2>2. QED
    BY <2>1 DEF IInv, OneDescriptor
<1>9. BatchInSet'
  BY <1>1 DEF IInv, BatchInSet
<1>10. IdsFresh'
  BY <1>1, <1>4 DEF IInv, IdsFresh
<1>11. QueuedOwn'
  BY <1>1 DEF IInv, QueuedOwn
<1>12. AllTold'
  BY <1>1, <1>4 DEF IInv, AllTold, Told
<1>13. QED
  BY <1>6, <1>7, <1>8, <1>9, <1>10, <1>11, <1>12 DEF IInv

----------------------------------------------------------------------------
\* IInv holds in every behaviour.
LEMMA Invariance == Spec => []IInv
<1>1. IInv /\ [Next]_vars => IInv'
  <2>1. SUFFICES ASSUME IInv, [Next]_vars PROVE IInv'
    OBVIOUS
  <2>2. ASSUME NEW c \in Channels,
               \/ NewChannel(c) \/ DropReceiver(c) \/ Add(c) \/ AddFails(c)
               \/ \E s \in Senders :
                    \/ \E whole \in BOOLEAN, channels \in Embedding : Send(c, s, whole, channels)
                    \/ SendFollowup(c, s) \/ CloseSender(c, s)
        PROVE  IInv'
    BY <2>1, <2>2, NewChannelIInv, DropReceiverIInv, AddIInv, AddFailsIInv, SendIInv,
       SendFollowupIInv, CloseSenderIInv
  <2>3. CASE SelectStep
    BY <2>1, <2>3, RecvWholeIInv, RecvFirstIInv, RecvClosedIInv, RecvFollowupIInv, RecvBrokenIInv,
       SelectReturnsIInv DEF SelectStep, Recv
  <2>4. CASE \E S \in SUBSET registered : Poll(S)
    BY <2>1, <2>4, PollIInv
  <2>5. CASE SelectFails \/ DropSet
    BY <2>1, <2>5, SelectFailsIInv, DropSetIInv
  <2>6. CASE UNCHANGED vars
    <3>1. TypeOK' /\ EntriesOwnReceivers'
      BY <2>1, <2>6 DEF vars, kernelVars, senderVars, setVars, historyVars, IInv, TypeOK, EntriesOwnReceivers
    <3>2. OneDescriptor' /\ BatchInSet' /\ IdsFresh' /\ QueuedOwn'
      BY <2>1, <2>6 DEF vars, kernelVars, senderVars, setVars, historyVars, IInv, OneDescriptor,
         BatchInSet, IdsFresh, QueuedOwn
    <3>3. AllTold'
      BY <2>1, <2>6 DEF vars, kernelVars, senderVars, setVars, historyVars, IInv, AllTold, Told
    <3>4. QED
      BY <3>1, <3>2, <3>3 DEF IInv
  <2>7. QED
    BY <2>1, <2>2, <2>3, <2>4, <2>5, <2>6 DEF Next
<1>2. QED
  BY <1>1, InitIInv, PTL DEF Spec

\* OsIpcReceiverSet never confuses or loses a receiver, however descriptors are reused:
\* what poll() watches, the entries and the receivers that add() took correspond.
THEOREM SetOwnsItsReceivers == Spec => []EntriesOwnReceivers
<1>1. IInv => EntriesOwnReceivers
  BY DEF IInv
<1>2. QED
  BY <1>1, Invariance, PTL

\* The panic!() of select() for an unknown token is unreachable, and the entry of a message
\* that select() waits for stays in the set.
THEOREM SelectDoesNotPanic == Spec => []NoPanic
<1>1. IInv => NoPanic
  BY DEF IInv, NoPanic, UnknownToken, BatchInSet, EntriesOwnReceivers
<1>2. QED
  BY <1>1, Invariance, PTL

\* Everything that select() reports, returned or not yet, is under the id that add() gave
\* the receiver it is about, and no two receivers have had one id.
LEMMA ReportsCarryTheirId == Spec => []ReportsUnderId
<1>1. ASSUME IInv PROVE ReportsUnderId
  <2>1. returned \in Seq(SelectionResult) /\ results \in Seq(SelectionResult)
    BY <1>1 DEF IInv, TypeOK
  <2>2. \A i \in DOMAIN Reports : \/ i \in DOMAIN returned /\ Reports[i] = returned[i]
                                  \/ \E j \in DOMAIN results : Reports[i] = results[j]
    BY SMT, <2>1, Concatenated DEF Reports
  <2>3. \A i \in DOMAIN Reports : Told(Reports[i], ids, holder)
    BY <1>1, <2>2 DEF IInv, AllTold
  <2>4. QED
    BY <1>1, <2>3 DEF ReportsUnderId, Told, IInv, IdsFresh
<1>2. QED
  BY <1>1, Invariance, PTL

-----------------------------------------------------------------------------
(* What becomes of the messages *)

\* How many messages of c were taken from its queue.
Taken(c) == sent[c] - Len(queue[c])

\* How many were reported or dropped: all but the one that is being received.
Upto(c) == IF phase = "fragment" /\ reading[2].chan = c THEN Taken(c) - 1 ELSE Taken(c)

\* What was reported, or dropped.
Settled == lost \cup {Reports[i] : i \in DOMAIN Reports}

End(c) == [id |-> ids[c], packet |-> Closed]

\* The packets of a queue carry consecutive numbers up to the last message sent; the
\* message being received is the one before them.
Numbered ==
  /\ \A c \in Channels : Taken(c) \in Nat /\ \A i \in DOMAIN queue[c] : queue[c][i].n = Taken(c) + i
  /\ phase = "fragment" =>
       /\ ~reading[2].whole
       /\ Taken(reading[2].chan) # 0 /\ reading[2].n = Taken(reading[2].chan)

\* What is settled of a channel are its first messages.
FirstSettled ==
  /\ \A r \in Settled : r.packet # Closed =>
       r.id = ids[r.packet.chan] /\ r.packet.n \in 1 .. Upto(r.packet.chan)
  /\ \A c \in Channels : \A n \in 1 .. Upto(c) :
       \E r \in Settled : r.packet # Closed /\ r.packet.chan = c /\ r.packet.n = n

\* The end of a channel is settled just when select() has closed its receiver, for a reason
\* that stays.
AtEnd(c) ==
  \/ queue[c] = <<>> /\ NoSenders(c)
  \/ \E r \in lost : r.id = ids[c] /\ r.packet # Closed /\ ~r.packet.whole

EndSettled ==
  /\ \A r \in Settled : r.packet = Closed => \E c \in Channels : r.id = ids[c]
  /\ \A c \in Channels :
       /\ End(c) \in Settled => holder[c] = "closed" /\ AtEnd(c)
       /\ (ids[c] # -1 /\ holder[c] = "closed" /\ phase # "dropped") => End(c) \in Settled

\* Report j of s says nothing against the order: see ReportsInOrder.
Ordered(s, dropped, j) ==
  /\ \A i \in 1 .. j - 1 :
       s[i].id = s[j].id =>
         /\ s[i].packet # Closed
         /\ s[j].packet # Closed => s[i].packet.n < s[j].packet.n
  /\ s[j].packet # Closed =>
       \A n \in 1 .. s[j].packet.n - 1 :
         \/ \E i \in 1 .. j - 1 : s[i].id = s[j].id /\ s[i].packet.n = n
         \/ \E r \in dropped : r.id = s[j].id /\ r.packet # Closed /\ r.packet.n = n

AllOrdered == \A j \in DOMAIN Reports : Ordered(Reports, lost, j)

Accounted == Numbered /\ FirstSettled /\ EndSettled /\ AllOrdered

\* AllOrdered is ReportsInOrder.
LEMMA OrderedReports == AllOrdered <=> ReportsInOrder
BY DEF AllOrdered, Ordered, ReportsInOrder

\* The reports are a sequence, and all of them and all that was dropped are results.
LEMMA ReportsTyped ==
  ASSUME IInv
  PROVE  /\ Reports \in Seq(SelectionResult) /\ DOMAIN Reports = 1 .. Len(Reports)
         /\ Len(Reports) \in Nat /\ Settled \subseteq SelectionResult
<1>1. returned \in Seq(SelectionResult) /\ results \in Seq(SelectionResult)
  BY DEF IInv, TypeOK
<1>2. Reports \in Seq(SelectionResult)
  BY <1>1, Concatenated DEF Reports
<1>3. DOMAIN Reports = 1 .. Len(Reports) /\ Len(Reports) \in Nat
  BY SMT, <1>2
<1>4. \A i \in DOMAIN Reports : Reports[i] \in SelectionResult
  BY SMT, <1>2, <1>3
<1>5. lost \subseteq SelectionResult
  BY DEF IInv, TypeOK
<1>6. QED
  BY <1>2, <1>3, <1>4, <1>5 DEF Settled

\* Appending to the second of two sequences appends to both together.
LEMMA ConcatAppend ==
  ASSUME NEW S, NEW s \in Seq(S), NEW t \in Seq(S), NEW e \in S
  PROVE  s \o Append(t, e) = Append(s \o t, e)
BY SMT

\* An empty sequence adds nothing.
LEMMA ConcatEmpty ==
  ASSUME NEW S, NEW s \in Seq(S)
  PROVE  s \o <<>> = s
BY SMT

\* What one more result is to the reports.
LEMMA OneMoreReport ==
  ASSUME IInv, NEW r \in SelectionResult, results' = Append(results, r), returned' = returned
  PROVE  /\ Reports' = Append(Reports, r)
         /\ Len(Reports') = Len(Reports) + 1 /\ Reports'[Len(Reports) + 1] = r
         /\ \A i \in 1 .. Len(Reports) : Reports'[i] = Reports[i]
         /\ {Reports'[i] : i \in DOMAIN Reports'} = {Reports[i] : i \in DOMAIN Reports} \cup {r}
<1>1. returned \in Seq(SelectionResult) /\ results \in Seq(SelectionResult)
  BY DEF IInv, TypeOK
<1>2. Reports' = Append(Reports, r)
  BY SMT, <1>1, ConcatAppend DEF Reports
<1>3. Reports \in Seq(SelectionResult) /\ DOMAIN Reports = 1 .. Len(Reports) /\ Len(Reports) \in Nat
  BY ReportsTyped
<1>4. /\ Reports' \in Seq(SelectionResult) /\ Len(Reports') = Len(Reports) + 1
      /\ Reports'[Len(Reports) + 1] = r
      /\ \A i \in 1 .. Len(Reports) : Reports'[i] = Reports[i]
  BY SMT, <1>2, <1>3, Appended
<1>5. DOMAIN Reports' = 1 .. Len(Reports) + 1
  BY SMT, <1>4
<1>6. DOMAIN Reports' = DOMAIN Reports \cup {Len(Reports) + 1}
  BY SMT, <1>3, <1>5
<1>7. {Reports'[i] : i \in DOMAIN Reports'} = {Reports[i] : i \in DOMAIN Reports} \cup {r}
  BY SMT, <1>3, <1>4, <1>6
<1>8. QED
  BY <1>2, <1>4, <1>7

\* A report whose predecessors stay is in order as before, whatever else is dropped.
LEMMA OrderedStays ==
  ASSUME NEW s, NEW t, NEW j \in Nat \ {0}, NEW D, NEW E, D \subseteq E,
         \A i \in 1 .. j : t[i] = s[i], Ordered(s, D, j)
  PROVE  Ordered(t, E, j)
<1>1. t[j] = s[j] /\ \A i \in 1 .. j - 1 : t[i] = s[i]
  BY SMT
<1>2. QED
  BY <1>1 DEF Ordered

\* The counts are numbers, and the message being received is of a channel.
LEMMA Counted ==
  ASSUME IInv, Numbered
  PROVE  /\ \A c \in Channels : Taken(c) \in Nat /\ Upto(c) \in Nat /\ Upto(c) <= Taken(c)
         /\ phase = "fragment" => reading[2] \in Packet /\ reading[2].chan \in Channels
<1>1. phase = "fragment" => reading[2] \in Packet
  BY DEF IInv, BatchInSet
<1>2. phase = "fragment" => reading[2].chan \in Channels
  BY <1>1, ClosedIsNoPacket
<1>3. ASSUME NEW c \in Channels PROVE Taken(c) \in Nat /\ Upto(c) \in Nat /\ Upto(c) <= Taken(c)
  <2>1. Taken(c) \in Nat /\ ((phase = "fragment" /\ reading[2].chan = c) => Taken(c) # 0)
    BY DEF Numbered
  <2>2. QED
    BY SMT, <2>1 DEF Upto
<1>4. QED
  BY <1>1, <1>2, <1>3

\* What is settled of a channel are still its first messages when at most ends are added.
LEMMA NoMoreSettled ==
  ASSUME IInv, FirstSettled, ids' = ids, Settled \subseteq Settled',
         \A q \in Settled' : q \in Settled \/ q.packet = Closed,
         \A d \in Channels : Upto(d)' = Upto(d)
  PROVE  FirstSettled'
<1>1. \A q \in Settled : q.packet # Closed => q.packet.chan \in Channels
  BY ReportsTyped, ClosedIsNoPacket
<1>2. ASSUME NEW q \in Settled', q.packet # Closed
      PROVE  q.id = ids'[q.packet.chan] /\ q.packet.n \in 1 .. Upto(q.packet.chan)'
  <2>1. q \in Settled
    BY <1>2
  <2>2. q.id = ids[q.packet.chan] /\ q.packet.n \in 1 .. Upto(q.packet.chan) /\ q.packet.chan \in Channels
    BY <1>1, <1>2, <2>1 DEF FirstSettled
  <2>3. QED
    BY <2>2
<1>3. ASSUME NEW d \in Channels, NEW n \in 1 .. Upto(d)'
      PROVE  \E q \in Settled' : q.packet # Closed /\ q.packet.chan = d /\ q.packet.n = n
  <2>1. n \in 1 .. Upto(d)
    BY <1>3
  <2>2. PICK q \in Settled : q.packet # Closed /\ q.packet.chan = d /\ q.packet.n = n
    BY SMT, <2>1 DEF FirstSettled
  <2>3. QED
    BY <2>2
<1>4. QED
  BY <1>2, <1>3 DEF FirstSettled

\* A step that takes no message, settles nothing, and closes no receiver of the set but by
\* dropping it.
LEMMA QuietAccounted ==
  ASSUME IInv, Accounted, UNCHANGED <<queue, sent, lost, ids, reading>>, Reports' = Reports,
         phase' = "fragment" <=> phase = "fragment",
         \A c \in Channels :
           /\ holder[c] = "closed" => holder'[c] = "closed"
           /\ (ids[c] # -1 /\ holder'[c] = "closed" /\ phase' # "dropped")
                => holder[c] = "closed" /\ phase # "dropped"
           /\ NoSenders(c) => NoSenders(c)'
  PROVE  Accounted'
<1>1. Settled' = Settled /\ \A c \in Channels : End(c)' = End(c)
  BY DEF Settled, End
<1>2. \A c \in Channels : Taken(c)' = Taken(c) /\ Upto(c)' = Upto(c)
  BY DEF Taken, Upto
<1>3. Numbered'
  BY <1>2, Counted DEF Accounted, Numbered
<1>4. FirstSettled'
  BY <1>1, <1>2, NoMoreSettled DEF Accounted
<1>5. EndSettled'
  <2>1. \A c \in Channels : AtEnd(c) => AtEnd(c)'
    BY DEF AtEnd
  <2>2. QED
    BY <1>1, <2>1 DEF Accounted, EndSettled
<1>6. AllOrdered'
  BY SMT DEF Accounted, AllOrdered, Ordered
<1>7. QED
  BY <1>3, <1>4, <1>5, <1>6 DEF Accounted

\* One more message of c is settled, and perhaps the end of a channel with it.
LEMMA OneMoreSettled ==
  ASSUME IInv, Accounted, NEW c \in Channels, NEW r \in SelectionResult,
         r.packet \in Packet, r.packet.chan = c, r.id = ids[c], r.packet.n = Upto(c) + 1,
         Settled \subseteq Settled', r \in Settled', ids' = ids,
         \A q \in Settled' : q \in Settled \/ q = r \/ q.packet = Closed,
         Upto(c)' = Upto(c) + 1, \A d \in Channels \ {c} : Upto(d)' = Upto(d)
  PROVE  FirstSettled'
<1>1. \A d \in Channels : Upto(d) \in Nat
  BY Counted DEF Accounted
<1>2. r.packet # Closed /\ \A q \in Settled : q.packet # Closed => q.packet.chan \in Channels
  BY ReportsTyped, ClosedIsNoPacket
<1>3. ASSUME NEW q \in Settled', q.packet # Closed
      PROVE  q.id = ids'[q.packet.chan] /\ q.packet.n \in 1 .. Upto(q.packet.chan)'
  <2>1. CASE q = r
    BY SMT, <1>1, <2>1
  <2>2. CASE q # r
    <3>1. q \in Settled
      BY <1>3, <2>2
    <3>2. q.id = ids[q.packet.chan] /\ q.packet.n \in 1 .. Upto(q.packet.chan) /\ q.packet.chan \in Channels
      BY <1>2, <1>3, <3>1 DEF Accounted, FirstSettled
    <3>3. QED
      BY SMT, <1>1, <3>2
  <2>3. QED
    BY <2>1, <2>2
<1>4. ASSUME NEW d \in Channels, NEW n \in 1 .. Upto(d)'
      PROVE  \E q \in Settled' : q.packet # Closed /\ q.packet.chan = d /\ q.packet.n = n
  <2>1. CASE d = c /\ n = Upto(c) + 1
    BY <1>2, <2>1
  <2>2. CASE ~(d = c /\ n = Upto(c) + 1)
    <3>1. n \in 1 .. Upto(d)
      BY SMT, <1>1, <1>4, <2>2
    <3>2. PICK q \in Settled : q.packet # Closed /\ q.packet.chan = d /\ q.packet.n = n
      BY <3>1 DEF Accounted, FirstSettled
    <3>3. QED
      BY <3>2
  <2>3. QED
    BY <2>1, <2>2
<1>5. QED
  BY <1>3, <1>4 DEF FirstSettled

\* What is settled under the id of a receiver that is open are messages of its channel.
LEMMA OpenSettled ==
  ASSUME IInv, Accounted, NEW c \in Channels, holder[c] # "closed", ids[c] # -1,
         NEW r \in Settled, r.id = ids[c]
  PROVE  r.packet # Closed /\ r.packet.chan = c /\ r.packet.n \in 1 .. Upto(c)
<1>1. r \in SelectionResult
  BY ReportsTyped
<1>2. CASE r.packet = Closed
  <2>1. r = End(c)
    BY <1>1, <1>2 DEF SelectionResult, End
  <2>2. QED
    BY <2>1 DEF Accounted, EndSettled
<1>3. CASE r.packet # Closed
  <2>1. r.packet.chan \in Channels
    BY <1>1, <1>3, ClosedIsNoPacket
  <2>2. ids[r.packet.chan] = ids[c] /\ r.packet.n \in 1 .. Upto(r.packet.chan)
    BY <1>3 DEF Accounted, FirstSettled
  <2>3. r.packet.chan = c
    BY <2>1, <2>2 DEF IInv, IdsFresh
  <2>4. QED
    BY <1>3, <2>2, <2>3
<1>4. QED
  BY <1>2, <1>3

\* A report of an open receiver, of its next message or its end, is in order.
LEMMA ReportOrdered ==
  ASSUME IInv, Accounted, NEW c \in Channels, holder[c] = "set", ids[c] # -1,
         NEW r \in SelectionResult, r.id = ids[c],
         r.packet # Closed => r.packet.n = Upto(c) + 1,
         results' = Append(results, r), returned' = returned, lost \subseteq lost'
  PROVE  AllOrdered'
<1> DEFINE k == Len(Reports) + 1
<1>1. /\ Reports \in Seq(SelectionResult) /\ DOMAIN Reports = 1 .. Len(Reports)
      /\ Len(Reports) \in Nat
  BY ReportsTyped
<1>2. /\ Reports' = Append(Reports, r) /\ Len(Reports') = k /\ Reports'[k] = r
      /\ \A i \in 1 .. Len(Reports) : Reports'[i] = Reports[i]
  BY OneMoreReport
<1>3. Upto(c) \in Nat
  BY Counted DEF Accounted
<1>4. \A i \in 1 .. Len(Reports) : Reports[i] \in Settled
  BY <1>1 DEF Settled
<1>5. \A q \in Settled : q \in lost \/ \E i \in 1 .. Len(Reports) : q = Reports[i]
  BY <1>1 DEF Settled
<1>6. DOMAIN Reports' = 1 .. k
  BY SMT, <1>1, <1>2, Appended
<1>7. ASSUME NEW j \in 1 .. Len(Reports) PROVE Ordered(Reports', lost', j)
  <2>1. j \in Nat \ {0} /\ \A i \in 1 .. j : Reports'[i] = Reports[i]
    BY SMT, <1>1, <1>2
  <2>2. Ordered(Reports, lost, j)
    BY <1>1 DEF Accounted, AllOrdered
  <2>3. QED
    BY <2>1, <2>2, OrderedStays
<1>8. Ordered(Reports', lost', k)
  <2>1. k - 1 = Len(Reports)
    BY SMT, <1>1
  <2>2. ASSUME NEW i \in 1 .. Len(Reports), Reports'[i].id = r.id
        PROVE  /\ Reports'[i].packet # Closed
               /\ r.packet # Closed => Reports'[i].packet.n < r.packet.n
    <3>1. Reports[i].packet # Closed /\ Reports[i].packet.n \in 1 .. Upto(c)
      BY <1>2, <1>4, <2>2, OpenSettled
    <3>2. QED
      BY SMT, <1>2, <1>3, <3>1
  <2>3. ASSUME r.packet # Closed, NEW n \in 1 .. r.packet.n - 1
        PROVE  \/ \E i \in 1 .. Len(Reports) : Reports'[i].id = r.id /\ Reports'[i].packet.n = n
               \/ \E q \in lost' : q.id = r.id /\ q.packet # Closed /\ q.packet.n = n
    <3>1. n \in 1 .. Upto(c)
      BY SMT, <1>3, <2>3
    <3>2. PICK q \in Settled : q.packet # Closed /\ q.packet.chan = c /\ q.packet.n = n
      BY SMT, <3>1 DEF Accounted, FirstSettled
    <3>3. q.id = r.id
      BY <3>2 DEF Accounted, FirstSettled
    <3>4. QED
      BY <1>2, <1>5, <3>2, <3>3
  <2> HIDE DEF k
  <2>4. QED
    BY SMT, <1>2, <2>1, <2>2, <2>3 DEF Ordered
<1>9. \A j \in 1 .. k : j \in 1 .. Len(Reports) \/ j = k
  BY SMT, <1>1
<1>10. QED
  BY <1>6, <1>7, <1>8, <1>9 DEF AllOrdered

\* A step that settles messages, and closes no receiver.
LEMMA EndsStay ==
  ASSUME IInv, Accounted, Settled \subseteq Settled',
         \A r \in Settled' : r \in Settled \/ r.packet # Closed,
         lost \subseteq lost', UNCHANGED <<ids, holder, ended>>, phase # "dropped",
         \A c \in Channels : queue[c] = <<>> => queue'[c] = <<>>
  PROVE  EndSettled'
<1>1. \A c \in Channels : AtEnd(c) => AtEnd(c)'
  BY DEF AtEnd, NoSenders
<1>2. \A c \in Channels : End(c)' = End(c) /\ End(c).packet = Closed
  BY DEF End
<1>3. QED
  BY <1>1, <1>2 DEF Accounted, EndSettled

\* A step that settles messages, and the end of the one receiver that it closes.
LEMMA EndGrows ==
  ASSUME IInv, Accounted, NEW c \in Channels, ids[c] # -1,
         Settled \subseteq Settled', End(c) \in Settled',
         \A r \in Settled' : r \in Settled \/ r.packet # Closed \/ r = End(c),
         lost \subseteq lost',
         UNCHANGED <<queue, ids, ended>>, phase # "dropped", AtEnd(c)', holder'[c] = "closed",
         \A d \in Channels \ {c} : holder'[d] = holder[d]
  PROVE  EndSettled'
<1>1. \A d \in Channels : AtEnd(d) => AtEnd(d)'
  BY DEF AtEnd, NoSenders
<1>2. \A d \in Channels : End(d)' = End(d) /\ End(d).packet = Closed
  BY DEF End
<1>3. \A d \in Channels : End(d) = End(c) => d = c
  BY DEF End, IInv, IdsFresh
<1>4. End(c).id = ids[c] /\ End(c).packet = Closed
  BY DEF End
<1>5. ASSUME NEW r \in Settled', r.packet = Closed PROVE \E d \in Channels : r.id = ids'[d]
  BY <1>4, <1>5 DEF Accounted, EndSettled
<1>6. ASSUME NEW d \in Channels, End(d)' \in Settled' PROVE holder'[d] = "closed" /\ AtEnd(d)'
  BY <1>1, <1>2, <1>3, <1>6 DEF Accounted, EndSettled
<1>7. ASSUME NEW d \in Channels, ids'[d] # -1, holder'[d] = "closed" PROVE End(d)' \in Settled'
  BY <1>2, <1>7 DEF Accounted, EndSettled
<1>8. QED
  BY <1>5, <1>6, <1>7 DEF EndSettled

-----------------------------------------------------------------------------
\* Nothing is settled at first.
LEMMA InitAccounted == Init => Accounted
<1>1. SUFFICES ASSUME Init PROVE Accounted
  OBVIOUS
<1>2. Reports = <<>> /\ DOMAIN Reports = {} /\ lost = {} /\ phase = "idle"
  BY SMT, <1>1 DEF Init, Reports
<1>3. Settled = {}
  BY <1>2 DEF Settled
<1>4. \A c \in Channels : queue[c] = <<>> /\ Taken(c) = 0 /\ DOMAIN queue[c] = {} /\ ids[c] = -1
  BY SMT, <1>1 DEF Init, Taken
<1>5. \A c \in Channels : Upto(c) = 0
  BY <1>2, <1>4 DEF Upto
<1>6. Numbered
  BY SMT, <1>2, <1>4 DEF Numbered
<1>7. FirstSettled
  BY SMT, <1>3, <1>5 DEF FirstSettled
<1>8. EndSettled
  BY <1>3, <1>4 DEF EndSettled
<1>9. AllOrdered
  BY <1>2 DEF AllOrdered
<1>10. QED
  BY <1>6, <1>7, <1>8, <1>9 DEF Accounted

\* A message enters its queue under the next number, on a channel that is not closed.
LEMMA SendAccounted ==
  ASSUME IInv, Accounted, NEW c \in Channels, NEW s \in Senders, NEW whole \in BOOLEAN,
         NEW channels \in Embedding, Send(c, s, whole, channels)
  PROVE  Accounted'
<1> DEFINE p == [chan |-> c, n |-> sent[c] + 1, whole |-> whole, channels |-> channels]
<1>1. /\ queue' = [queue EXCEPT ![c] = Append(queue[c], p)] /\ sent' = [sent EXCEPT ![c] = sent[c] + 1]
      /\ UNCHANGED <<ended, phase, reading, results, holder, ids, returned, lost>>
  BY DEF Send, setVars, historyVars
<1>2. queue[c] \in Seq(Packet) /\ sent[c] \in Nat
  BY DEF IInv, TypeOK
<1>3. p \in Packet /\ p.n = sent[c] + 1
  BY SMT, <1>2, SetAssumption DEF Packet
<1> HIDE DEF p
<1>4. /\ Append(queue[c], p) \in Seq(Packet) /\ Len(Append(queue[c], p)) = Len(queue[c]) + 1
      /\ Append(queue[c], p)[Len(queue[c]) + 1] = p
      /\ \A i \in DOMAIN Append(queue[c], p) :
           \/ i \in DOMAIN queue[c] /\ Append(queue[c], p)[i] = queue[c][i]
           \/ i = Len(queue[c]) + 1
  <2>1. /\ Append(queue[c], p) \in Seq(Packet) /\ Len(Append(queue[c], p)) = Len(queue[c]) + 1
        /\ Append(queue[c], p)[Len(queue[c]) + 1] = p
        /\ \A i \in DOMAIN queue[c] : Append(queue[c], p)[i] = queue[c][i]
    BY SMT, <1>2, <1>3, Appended
  <2>2. DOMAIN queue[c] = 1 .. Len(queue[c]) /\ Len(queue[c]) \in Nat
    BY SMT, <1>2
  <2>3. DOMAIN Append(queue[c], p) = 1 .. Len(queue[c]) + 1
    BY SMT, <2>1
  <2>4. QED
    BY SMT, <2>1, <2>2, <2>3
<1>5. /\ queue'[c] = Append(queue[c], p) /\ sent'[c] = sent[c] + 1
      /\ \A d \in Channels \ {c} : queue'[d] = queue[d] /\ sent'[d] = sent[d]
  BY <1>1 DEF IInv, TypeOK
<1>6. \A d \in Channels : Taken(d)' = Taken(d)
  <2>1. Len(queue[c]) \in Nat /\ Len(queue'[c]) = Len(queue[c]) + 1
    BY SMT, <1>2, <1>4, <1>5
  <2>2. Taken(c)' = Taken(c)
    BY SMT, <1>2, <1>5, <2>1 DEF Taken
  <2>3. QED
    BY <1>5, <2>2 DEF Taken
<1>7. Reports' = Reports /\ Settled' = Settled
  BY <1>1 DEF Reports, Settled
<1>8. \A d \in Channels : Upto(d)' = Upto(d)
  BY <1>1, <1>6 DEF Upto
<1>9. Numbered'
  <2>1. \A d \in Channels : Taken(d) \in Nat /\ \A i \in DOMAIN queue[d] : queue[d][i].n = Taken(d) + i
    BY DEF Accounted, Numbered
  <2>2. Taken(c) + (Len(queue[c]) + 1) = sent[c] + 1
    BY SMT, <1>2 DEF Taken
  <2>3. \A i \in DOMAIN queue'[c] : queue'[c][i].n = Taken(c)' + i
    BY SMT, <1>3, <1>4, <1>5, <1>6, <2>1, <2>2
  <2>4. ASSUME NEW d \in Channels
        PROVE  Taken(d)' \in Nat /\ \A i \in DOMAIN queue'[d] : queue'[d][i].n = Taken(d)' + i
    <3>1. CASE d = c
      BY <1>6, <2>1, <2>3, <3>1
    <3>2. CASE d # c
      <4>1. queue'[d] = queue[d] /\ Taken(d)' = Taken(d)
        BY <1>5, <1>6, <3>2
      <4>2. QED
        BY <2>1, <4>1
    <3>3. QED
      BY <3>1, <3>2
  <2>5. phase = "fragment" =>
          /\ ~reading[2].whole /\ reading[2].chan \in Channels
          /\ Taken(reading[2].chan) # 0 /\ reading[2].n = Taken(reading[2].chan)
    BY Counted DEF Accounted, Numbered
  <2>6. (phase = "fragment" =>
           /\ ~reading[2].whole
           /\ Taken(reading[2].chan) # 0 /\ reading[2].n = Taken(reading[2].chan))'
    BY <1>1, <1>6, <2>5 DEF Taken
  <2>7. QED
    BY <2>4, <2>6 DEF Numbered
<1>10. FirstSettled'
  BY <1>1, <1>7, <1>8, NoMoreSettled DEF Accounted
<1>11. EndSettled'
  <2>1. holder[c] # "closed"
    <3>1. PICK f \in Fds : file[f] = c
      BY DEF Send, Open
    <3>2. QED
      BY <3>1, SetAssumption DEF IInv, OneDescriptor
  <2>2. \A d \in Channels \ {c} : AtEnd(d) => AtEnd(d)'
    BY <1>1, <1>5 DEF AtEnd, NoSenders
  <2>3. \A d \in Channels : End(d)' = End(d)
    BY <1>1 DEF End
  <2>4. QED
    BY <1>1, <1>7, <2>1, <2>2, <2>3 DEF Accounted, EndSettled
<1>12. AllOrdered'
  BY SMT, <1>1, <1>7 DEF Accounted, AllOrdered, Ordered
<1>13. QED
  BY <1>9, <1>10, <1>11, <1>12 DEF Accounted

\* A receiver outside the set is made, dropped, or lost to a failed add().
LEMMA OutsideAccounted ==
  ASSUME IInv, Accounted, NEW c \in Channels,
         NewChannel(c) \/ DropReceiver(c) \/ AddFails(c)
  PROVE  Accounted'
<1>1. /\ UNCHANGED <<queue, sent, lost, ids, reading, phase, ended, results, returned>>
      /\ holder[c] \in {"none", "app"}
      /\ \E h \in {"app", "closed", "leaked"} : holder' = [holder EXCEPT ![c] = h]
  BY DEF NewChannel, DropReceiver, AddFails, senderVars, kernelVars, setVars
<1>2. Reports' = Reports
  BY <1>1 DEF Reports
<1>3. ids[c] = -1
  BY <1>1 DEF IInv, IdsFresh
<1>4. \A d \in Channels \ {c} : holder'[d] = holder[d]
  BY <1>1 DEF IInv, TypeOK
<1>5. \A d \in Channels : NoSenders(d) => NoSenders(d)'
  BY <1>1 DEF NoSenders
<1>6. QED
  BY <1>1, <1>2, <1>3, <1>4, <1>5, QuietAccounted

\* A sender goes on with its message, or is closed.
LEMMA SendersAccounted ==
  ASSUME IInv, Accounted, NEW c \in Channels, NEW s \in Senders,
         SendFollowup(c, s) \/ CloseSender(c, s)
  PROVE  Accounted'
<1>1. /\ UNCHANGED <<queue, sent, lost, ids, reading, phase, results, returned, holder>>
      /\ ended' = ended \/ ended' = [ended EXCEPT ![c] = ended[c] \cup {s}]
  <2>1. CASE SendFollowup(c, s)
    BY <2>1 DEF SendFollowup, setVars, historyVars
  <2>2. CASE CloseSender(c, s)
    BY <2>2 DEF CloseSender, kernelVars, setVars, historyVars
  <2>3. QED
    BY <2>1, <2>2
<1>2. Reports' = Reports
  BY <1>1 DEF Reports
<1>3. ASSUME NEW d \in Channels, NoSenders(d) PROVE NoSenders(d)'
  <2>1. ended'[d] = ended[d] \/ ended'[d] = ended[d] \cup {s}
    BY SMT, <1>1 DEF IInv, TypeOK
  <2>2. QED
    BY <1>3, <2>1 DEF NoSenders
<1>4. QED
  BY <1>1, <1>2, <1>3, QuietAccounted

\* select() begins or returns, or the set is dropped.
LEMMA SelectEndsAccounted ==
  ASSUME IInv, Accounted, (\E S \in SUBSET registered : Poll(S)) \/ SelectReturns \/ DropSet \/ UNCHANGED vars
  PROVE  Accounted'
<1>1. UNCHANGED <<queue, sent, lost, ids, reading, ended>>
  BY DEF Poll, SelectReturns, DropSet, vars, kernelVars, senderVars, setVars, historyVars
<1>2. /\ phase' = "fragment" <=> phase = "fragment"
      /\ \A c \in Channels :
           /\ holder[c] = "closed" => holder'[c] = "closed"
           /\ (holder'[c] = "closed" /\ phase' # "dropped") => holder[c] = "closed" /\ phase # "dropped"
  BY DEF Poll, SelectReturns, DropSet, vars, setVars, historyVars
<1>3. Reports' = Reports
  <2>1. returned \in Seq(SelectionResult) /\ results \in Seq(SelectionResult)
    BY DEF IInv, TypeOK
  <2>2. returned \o results \in Seq(SelectionResult)
    BY <2>1, Concatenated
  <2>3. CASE SelectReturns
    BY <2>2, <2>3, ConcatEmpty DEF SelectReturns, Reports
  <2>4. CASE ~SelectReturns
    <3>1. UNCHANGED <<results, returned>>
      BY <2>4 DEF Poll, DropSet, vars, setVars, historyVars
    <3>2. QED
      BY <3>1 DEF Reports
  <2>5. QED
    BY <2>3, <2>4
<1>4. \A c \in Channels : NoSenders(c) => NoSenders(c)'
  BY <1>1 DEF NoSenders
<1>5. QED
  BY <1>1, <1>2, <1>3, <1>4, QuietAccounted

\* A receiver that is added has a new id, and nothing is settled of it yet.
LEMMA AddAccounted ==
  ASSUME IInv, Accounted, NEW c \in Channels, Add(c)
  PROVE  Accounted'
<1>1. /\ ids' = [ids EXCEPT ![c] = incrementor] /\ holder' = [holder EXCEPT ![c] = "set"]
      /\ UNCHANGED <<queue, sent, ended, phase, reading, results, returned, lost>>
      /\ holder[c] = "app" /\ phase = "idle"
  BY DEF Add, senderVars
<1>2. ids[c] = -1 /\ incrementor \in Nat /\ \A d \in Channels : ids[d] < incrementor
  BY <1>1 DEF IInv, IdsFresh, TypeOK
<1>3. /\ ids'[c] = incrementor /\ holder'[c] = "set"
      /\ \A d \in Channels \ {c} : ids'[d] = ids[d] /\ holder'[d] = holder[d]
  BY <1>1 DEF IInv, TypeOK
<1>4. Reports' = Reports /\ Settled' = Settled
  BY <1>1 DEF Reports, Settled
<1>5. \A d \in Channels : Taken(d)' = Taken(d) /\ Upto(d)' = Upto(d)
  BY <1>1 DEF Taken, Upto
<1>6. \A r \in Settled : /\ r.id \in Nat /\ r.id # ids[c]
                         /\ r.packet # Closed => r.packet.chan \in Channels
  <2>1. \A r \in Settled : r.id \in Nat /\ (r.packet # Closed => r.packet.chan \in Channels)
    BY ReportsTyped, ClosedIsNoPacket
  <2>2. QED
    BY SMT, <1>2, <2>1
<1>7. Numbered'
  BY <1>1, <1>5 DEF Accounted, Numbered
<1>8. FirstSettled'
  <2>1. ASSUME NEW r \in Settled, r.packet # Closed
        PROVE  r.id = ids'[r.packet.chan] /\ r.packet.n \in 1 .. Upto(r.packet.chan)'
    <3>1. r.id = ids[r.packet.chan] /\ r.packet.n \in 1 .. Upto(r.packet.chan)
      BY <2>1 DEF Accounted, FirstSettled
    <3>2. r.packet.chan \in Channels \ {c}
      BY <1>6, <2>1, <3>1
    <3>3. QED
      BY <1>3, <1>5, <3>1, <3>2
  <2>2. \A d \in Channels : \A n \in 1 .. Upto(d)' :
          \E r \in Settled : r.packet # Closed /\ r.packet.chan = d /\ r.packet.n = n
    BY SMT, <1>5 DEF Accounted, FirstSettled
  <2>3. /\ \A r \in Settled' : r.packet # Closed =>
               r.id = ids'[r.packet.chan] /\ r.packet.n \in 1 .. Upto(r.packet.chan)'
        /\ \A d \in Channels : \A n \in 1 .. Upto(d)' :
             \E r \in Settled' : r.packet # Closed /\ r.packet.chan = d /\ r.packet.n = n
    BY SMT, <1>4, <2>1, <2>2
  <2>4. QED
    BY <2>3 DEF FirstSettled
<1>9. EndSettled'
  <2>1. ASSUME NEW r \in Settled, r.packet = Closed
        PROVE  \E d \in Channels \ {c} : r.id = ids[d] /\ r.id = ids'[d]
    <3>1. PICK d \in Channels : r.id = ids[d]
      BY <2>1 DEF Accounted, EndSettled
    <3>2. QED
      BY <1>3, <1>6, <3>1
  <2>2. End(c)' \notin Settled
    <3>1. End(c)'.id = incrementor /\ End(c)'.packet = Closed
      BY <1>3 DEF End
    <3>2. QED
      BY SMT, <1>2, <2>1, <3>1
  <2>3. \A d \in Channels \ {c} : End(d)' = End(d) /\ (AtEnd(d) => AtEnd(d)')
    BY <1>1, <1>3 DEF End, AtEnd, NoSenders
  <2>4. QED
    BY <1>1, <1>3, <1>4, <2>1, <2>2, <2>3 DEF Accounted, EndSettled
<1>10. AllOrdered'
  <2>1. lost' = lost
    BY <1>1
  <2>2. QED
    BY <1>4, <2>1 DEF Accounted, AllOrdered
<1>11. QED
  BY <1>7, <1>8, <1>9, <1>10 DEF Accounted

\* The first packet of a queue is the next message to be taken.
LEMMA NextTaken ==
  ASSUME IInv, Numbered, NEW c \in Channels, queue[c] # <<>>,
         queue' = [queue EXCEPT ![c] = Tail(queue[c])], sent' = sent
  PROVE  /\ Head(queue[c]).n = Taken(c) + 1
         /\ Taken(c)' = Taken(c) + 1 /\ \A d \in Channels \ {c} : Taken(d)' = Taken(d)
         /\ \A d \in Channels : queue[d] = <<>> => queue'[d] = <<>>
         /\ \A d \in Channels :
              Taken(d)' \in Nat /\ \A i \in DOMAIN queue'[d] : queue'[d][i].n = Taken(d)' + i
<1>1. queue[c] \in Seq(Packet) /\ sent[c] \in Nat
  BY DEF IInv, TypeOK
<1>2. /\ Len(queue[c]) \in Nat \ {0} /\ Len(Tail(queue[c])) = Len(queue[c]) - 1
      /\ 1 \in DOMAIN queue[c] /\ Head(queue[c]) = queue[c][1] /\ Tail(queue[c]) \in Seq(Packet)
      /\ \A i \in DOMAIN Tail(queue[c]) : i + 1 \in DOMAIN queue[c] /\ Tail(queue[c])[i] = queue[c][i + 1]
  BY <1>1, TailOf
<1>3. queue'[c] = Tail(queue[c]) /\ \A d \in Channels \ {c} : queue'[d] = queue[d]
  BY DEF IInv, TypeOK
<1>4. Taken(c)' = Taken(c) + 1
  <2>1. Len(queue'[c]) = Len(queue[c]) - 1 /\ sent'[c] = sent[c]
    BY <1>2, <1>3
  <2>2. Len(queue[c]) \in Nat
    BY <1>2
  <2>3. QED
    BY SMT, <1>1, <2>1, <2>2 DEF Taken
<1>5. \A d \in Channels \ {c} : Taken(d)' = Taken(d)
  BY <1>3 DEF Taken
<1>6. \A d \in Channels : Taken(d) \in Nat /\ \A i \in DOMAIN queue[d] : queue[d][i].n = Taken(d) + i
  BY DEF Numbered
<1>7. Head(queue[c]).n = Taken(c) + 1
  BY <1>2, <1>6
<1>8. \A i \in DOMAIN queue'[c] : queue'[c][i].n = Taken(c)' + i
  <2>1. ASSUME NEW i \in DOMAIN Tail(queue[c]) PROVE Tail(queue[c])[i].n = Taken(c) + 1 + i
    <3>1. i \in Nat
      BY SMT, <1>2
    <3>2. Tail(queue[c])[i].n = Taken(c) + (i + 1)
      BY <1>2, <1>6
    <3>3. QED
      BY SMT, <1>6, <3>1, <3>2
  <2>2. QED
    BY <1>3, <1>4, <2>1
<1>9. ASSUME NEW d \in Channels
      PROVE  Taken(d)' \in Nat /\ \A i \in DOMAIN queue'[d] : queue'[d][i].n = Taken(d)' + i
  <2>1. CASE d = c
    BY SMT, <1>4, <1>6, <1>8, <2>1
  <2>2. CASE d # c
    <3>1. queue'[d] = queue[d] /\ Taken(d)' = Taken(d)
      BY <1>3, <1>5, <2>2
    <3>2. QED
      BY <1>6, <3>1
  <2>3. QED
    BY <2>1, <2>2
<1>10. QED
  BY <1>3, <1>4, <1>5, <1>7, <1>9

\* recv() gets a message in one packet: it is reported.
LEMMA RecvWholeAccounted ==
  ASSUME IInv, Accounted, NEW t \in Fds, RecvWhole(t)
  PROVE  Accounted'
<1>1. t \in DOMAIN pollfds /\ phase = "batch"
  BY DEF RecvWhole, Handling
<1>2. PICK c \in Channels :
        /\ file[t] = c /\ pollfds[t].fd = t /\ pollfds[t].id \in Nat
        /\ ids[c] = pollfds[t].id /\ holder[c] = "set"
  BY <1>1, EntryOf
<1> DEFINE r == [id |-> pollfds[t].id, packet |-> Head(queue[c])]
<1>3. /\ queue[c] # <<>> /\ queue' = [queue EXCEPT ![c] = Tail(queue[c])]
      /\ results' = Append(results, r)
      /\ UNCHANGED <<ended, sent, phase, holder, ids, returned, lost>>
  BY <1>2 DEF RecvWhole, senderVars, historyVars
<1>4. Head(queue[c]) \in Packet /\ Head(queue[c]).chan = c
  BY <1>2, <1>3, Dequeue
<1>5. /\ r \in SelectionResult /\ r.id = ids[c] /\ r.packet = Head(queue[c]) /\ r.packet # Closed
  BY <1>2, <1>4, ClosedIsNoPacket
<1> HIDE DEF r
<1>6. /\ Head(queue[c]).n = Taken(c) + 1
      /\ Taken(c)' = Taken(c) + 1 /\ \A d \in Channels \ {c} : Taken(d)' = Taken(d)
      /\ \A d \in Channels : queue[d] = <<>> => queue'[d] = <<>>
      /\ \A d \in Channels :
           Taken(d)' \in Nat /\ \A i \in DOMAIN queue'[d] : queue'[d][i].n = Taken(d)' + i
  BY <1>2, <1>3, NextTaken DEF Accounted
<1>7. \A d \in Channels : Upto(d) = Taken(d) /\ Upto(d)' = Taken(d)'
  BY <1>1, <1>3 DEF Upto
<1>8. Settled' = Settled \cup {r}
  BY <1>3, <1>5, OneMoreReport DEF Settled
<1>9. Numbered'
  BY <1>1, <1>3, <1>6 DEF Numbered
<1>10. FirstSettled'
  <2>1. /\ r.packet.n = Upto(c) + 1 /\ Upto(c)' = Upto(c) + 1
        /\ \A d \in Channels \ {c} : Upto(d)' = Upto(d)
    BY <1>2, <1>5, <1>6, <1>7
  <2>2. QED
    BY <1>2, <1>3, <1>4, <1>5, <1>8, <2>1, OneMoreSettled
<1>11. EndSettled'
  BY <1>1, <1>3, <1>5, <1>6, <1>8, EndsStay
<1>12. AllOrdered'
  <2>1. r.packet.n = Upto(c) + 1 /\ ids[c] # -1
    BY SMT, <1>2, <1>5, <1>6, <1>7
  <2>2. QED
    BY <1>2, <1>3, <1>5, <2>1, ReportOrdered
<1>13. QED
  BY <1>9, <1>10, <1>11, <1>12 DEF Accounted

\* recv() gets a first fragment: nothing is settled yet.
LEMMA RecvFirstAccounted ==
  ASSUME IInv, Accounted, NEW t \in Fds, RecvFirst(t)
  PROVE  Accounted'
<1>1. t \in DOMAIN pollfds /\ phase = "batch"
  BY DEF RecvFirst, Handling
<1>2. PICK c \in Channels : file[t] = c /\ pollfds[t].fd = t
  BY <1>1, EntryOf
<1> DEFINE p == Head(queue[c])
<1>3. /\ queue[c] # <<>> /\ queue' = [queue EXCEPT ![c] = Tail(queue[c])]
      /\ reading' = <<t, p>> /\ phase' = "fragment" /\ ~p.whole
      /\ UNCHANGED <<ended, sent, holder, ids, results, returned, lost>>
  BY <1>2 DEF RecvFirst, senderVars, historyVars
<1>4. p \in Packet /\ p.chan = c
  BY <1>2, <1>3, Dequeue
<1>5. /\ p.n = Taken(c) + 1
      /\ Taken(c)' = Taken(c) + 1 /\ \A d \in Channels \ {c} : Taken(d)' = Taken(d)
      /\ \A d \in Channels : queue[d] = <<>> => queue'[d] = <<>>
      /\ \A d \in Channels :
           Taken(d)' \in Nat /\ \A i \in DOMAIN queue'[d] : queue'[d][i].n = Taken(d)' + i
  BY <1>2, <1>3, NextTaken DEF Accounted
<1> HIDE DEF p
<1>6. reading'[2] = p
  BY <1>3
<1>7. Reports' = Reports /\ Settled' = Settled
  BY <1>3 DEF Reports, Settled
<1>8. Taken(c) \in Nat
  BY <1>2 DEF Accounted, Numbered
<1>9. Numbered'
  <2>1. Taken(reading[2].chan)' = Taken(c)'
    BY <1>4, <1>6 DEF Taken
  <2>2. QED
    BY SMT, <1>3, <1>5, <1>6, <1>8, <2>1 DEF Numbered
<1>10. \A d \in Channels : Upto(d)' = Upto(d)
  <2>1. \A d \in Channels : Upto(d) = Taken(d)
    BY <1>1 DEF Upto
  <2>2. Upto(c)' = Taken(c)' - 1
    BY <1>3, <1>4, <1>6 DEF Upto
  <2>3. \A d \in Channels \ {c} : Upto(d)' = Taken(d)'
    BY <1>3, <1>4, <1>6 DEF Upto
  <2>4. QED
    BY SMT, <1>2, <1>5, <1>8, <2>1, <2>2, <2>3
<1>11. FirstSettled'
  <2>1. \A r \in Settled : r.packet # Closed => r.packet.chan \in Channels
    BY ReportsTyped, ClosedIsNoPacket
  <2>2. QED
    BY SMT, <1>3, <1>7, <1>10, <2>1 DEF Accounted, FirstSettled
<1>12. EndSettled'
  BY <1>1, <1>3, <1>5, <1>7, EndsStay
<1>13. AllOrdered'
  BY <1>3, <1>7 DEF Accounted, AllOrdered, Ordered
<1>14. QED
  BY <1>9, <1>11, <1>12, <1>13 DEF Accounted

\* The message that select() is receiving, as it would be reported.
InHand == [id |-> pollfds[reading[1]].id, packet |-> reading[2]]

\* It is the next one to be settled, of an open receiver.
LEMMA InHandIsNext ==
  ASSUME IInv, Accounted, phase = "fragment"
  PROVE  \E c \in Channels :
           /\ Partial = {InHand} /\ InHand \in SelectionResult
           /\ InHand.packet = reading[2] /\ InHand.packet \in Packet /\ InHand.packet # Closed
           /\ InHand.packet.chan = c /\ InHand.id = ids[c] /\ InHand.packet.n = Upto(c) + 1
           /\ ~InHand.packet.whole
           /\ reading[1] \in DOMAIN pollfds /\ file[reading[1]] = c
           /\ holder[c] = "set" /\ ids[c] # -1 /\ Taken(c) = Upto(c) + 1
           /\ \A d \in Channels \ {c} : Upto(d) = Taken(d)
<1>1. /\ reading \in Fds \X Packet /\ reading[1] \in DOMAIN pollfds
      /\ reading[2].chan = file[reading[1]] /\ reading[2] \in Packet
  BY DEF IInv, BatchInSet
<1>2. PICK c \in Channels :
        /\ file[reading[1]] = c /\ pollfds[reading[1]].id \in Nat
        /\ ids[c] = pollfds[reading[1]].id /\ holder[c] = "set"
  BY <1>1, EntryOf
<1>3. /\ InHand \in SelectionResult /\ InHand.packet = reading[2] /\ InHand.packet # Closed
      /\ InHand.id = ids[c]
  BY <1>1, <1>2, ClosedIsNoPacket DEF InHand
<1>4. Partial = {InHand}
  <2>1. 1 \in DOMAIN reading
    BY SMT, <1>1
  <2>2. QED
    BY <2>1 DEF Partial, InHand
<1>5. /\ ~reading[2].whole /\ Taken(c) # 0 /\ reading[2].n = Taken(c) /\ Taken(c) \in Nat
  BY <1>1, <1>2 DEF Accounted, Numbered
<1>6. Upto(c) = Taken(c) - 1 /\ \A d \in Channels \ {c} : Upto(d) = Taken(d)
  BY <1>1, <1>2 DEF Upto
<1>7. Taken(c) = Upto(c) + 1
  BY SMT, <1>5, <1>6
<1>8. ids[c] # -1
  BY SMT, <1>2
<1>9. QED
  BY <1>1, <1>2, <1>3, <1>4, <1>5, <1>6, <1>7, <1>8

\* Once it is settled, nothing is being received.
LEMMA HandEmptied ==
  ASSUME IInv, Accounted, phase = "fragment", phase' # "fragment", UNCHANGED <<queue, sent, ids>>,
         Settled \subseteq Settled', InHand \in Settled',
         \A q \in Settled' : q \in Settled \/ q = InHand \/ q.packet = Closed
  PROVE  Numbered' /\ FirstSettled'
<1>1. PICK c \in Channels :
        /\ InHand \in SelectionResult /\ InHand.packet \in Packet
        /\ InHand.packet.chan = c /\ InHand.id = ids[c] /\ InHand.packet.n = Upto(c) + 1
        /\ Taken(c) = Upto(c) + 1 /\ \A d \in Channels \ {c} : Upto(d) = Taken(d)
  BY InHandIsNext
<1>2. \A d \in Channels : Taken(d)' = Taken(d) /\ Upto(d)' = Taken(d)
  BY DEF Taken, Upto
<1>3. Numbered'
  BY <1>2 DEF Accounted, Numbered
<1>4. PICK r : r = InHand
  OBVIOUS
<1>5. FirstSettled'
  BY <1>1, <1>2, <1>4, OneMoreSettled
<1>6. QED
  BY <1>3, <1>5

\* recv() gets the rest of a message: it is reported.
LEMMA RecvFollowupAccounted ==
  ASSUME IInv, Accounted, RecvFollowup
  PROVE  Accounted'
<1>1. /\ phase = "fragment" /\ phase' = "batch" /\ results' = Append(results, InHand)
      /\ UNCHANGED <<queue, sent, ended, holder, ids, returned, lost>>
  BY DEF RecvFollowup, InHand, senderVars, historyVars
<1>2. PICK c \in Channels :
        /\ InHand \in SelectionResult /\ InHand.packet # Closed
        /\ InHand.id = ids[c] /\ InHand.packet.n = Upto(c) + 1 /\ holder[c] = "set" /\ ids[c] # -1
  BY <1>1, InHandIsNext
<1>3. PICK r : r = InHand
  OBVIOUS
<1>4. Settled' = Settled \cup {r}
  BY <1>1, <1>2, <1>3, OneMoreReport DEF Settled
<1>5. Numbered' /\ FirstSettled'
  BY <1>1, <1>3, <1>4, HandEmptied
<1>6. EndSettled'
  BY <1>1, <1>2, <1>3, <1>4, EndsStay
<1>7. AllOrdered'
  BY <1>1, <1>2, <1>3, ReportOrdered
<1>8. QED
  BY <1>5, <1>6, <1>7 DEF Accounted

\* The end of a channel is found between messages.
LEMMA RecvClosedAccounted ==
  ASSUME IInv, Accounted, NEW t \in Fds, RecvClosed(t)
  PROVE  Accounted'
<1>1. /\ t \in DOMAIN pollfds /\ phase = "batch" /\ ReportClosed(t)
      /\ UNCHANGED <<queue, ended, sent, phase, reading, ids, returned, lost>>
  BY DEF RecvClosed, Handling, senderVars
<1>2. PICK c \in Channels :
        /\ file[t] = c /\ pollfds[t].fd = t /\ pollfds[t].id \in Nat
        /\ ids[c] = pollfds[t].id /\ holder[c] = "set"
  BY <1>1, EntryOf
<1>3. PICK r : r = End(c)
  OBVIOUS
<1>4. /\ results' = Append(results, r) /\ queue[c] = <<>> /\ NoSenders(c)
      /\ holder' = [d \in Channels |-> IF c = d THEN "closed" ELSE holder[d]]
  BY <1>1, <1>2, <1>3 DEF RecvClosed, ReportClosed, End
<1>5. r \in SelectionResult /\ r.id = ids[c] /\ r.packet = Closed /\ ids[c] # -1
  <2>1. PICK id \in Nat : id = ids[c]
    BY <1>2
  <2>2. r = [id |-> id, packet |-> Closed]
    BY <1>3, <2>1 DEF End
  <2>3. QED
    BY SMT, <2>1, <2>2, ClosedIsNoPacket
<1>6. Settled' = Settled \cup {r}
  BY <1>1, <1>4, <1>5, OneMoreReport DEF Settled
<1>7. \A d \in Channels : Taken(d)' = Taken(d) /\ Upto(d)' = Upto(d)
  BY <1>1 DEF Taken, Upto
<1>8. Numbered'
  BY <1>1, <1>7 DEF Accounted, Numbered
<1>9. FirstSettled'
  BY <1>1, <1>5, <1>6, <1>7, NoMoreSettled DEF Accounted
<1>10. EndSettled'
  <2>1. AtEnd(c)'
    BY <1>1, <1>4 DEF AtEnd, NoSenders
  <2>2. holder'[c] = "closed" /\ \A d \in Channels \ {c} : holder'[d] = holder[d]
    BY <1>4
  <2>3. QED
    BY <1>1, <1>3, <1>5, <1>6, <2>1, <2>2, EndGrows
<1>11. AllOrdered'
  BY <1>1, <1>2, <1>4, <1>5, ReportOrdered
<1>12. QED
  BY <1>8, <1>9, <1>10, <1>11 DEF Accounted

\* A message will not be completed: it is dropped, and its receiver reported closed.
LEMMA RecvBrokenAccounted ==
  ASSUME IInv, Accounted, RecvBroken
  PROVE  Accounted'
<1>1. /\ phase = "fragment" /\ phase' = "batch" /\ ReportClosed(reading[1])
      /\ lost' = lost \cup Partial
      /\ UNCHANGED <<queue, sent, ended, ids, returned>>
  BY DEF RecvBroken, Drop, senderVars
<1>2. PICK c \in Channels :
        /\ Partial = {InHand} /\ InHand \in SelectionResult /\ InHand.packet # Closed
        /\ InHand.id = ids[c] /\ ~InHand.packet.whole
        /\ reading[1] \in DOMAIN pollfds /\ file[reading[1]] = c
        /\ holder[c] = "set" /\ ids[c] # -1
  BY <1>1, InHandIsNext
<1>3. pollfds[reading[1]].fd = reading[1] /\ pollfds[reading[1]].id = ids[c] /\ ids[c] \in Nat
  BY <1>2, EntryOf
<1>4. PICK e : e = End(c)
  OBVIOUS
<1>5. PICK r : r = InHand
  OBVIOUS
<1>6. /\ results' = Append(results, e)
      /\ holder' = [d \in Channels |-> IF c = d THEN "closed" ELSE holder[d]]
  BY <1>1, <1>2, <1>3, <1>4 DEF ReportClosed, End
<1>7. e \in SelectionResult /\ e.id = ids[c] /\ e.packet = Closed
  BY <1>3, <1>4, ClosedIsNoPacket DEF End
<1>8. Settled' = Settled \cup {r, e} /\ r \in lost'
  BY <1>1, <1>2, <1>5, <1>6, <1>7, OneMoreReport DEF Settled
<1>9. Numbered' /\ FirstSettled'
  BY <1>1, <1>5, <1>7, <1>8, HandEmptied
<1>10. EndSettled'
  <2>1. AtEnd(c)'
    BY <1>1, <1>2, <1>5, <1>8 DEF AtEnd
  <2>2. holder'[c] = "closed" /\ \A d \in Channels \ {c} : holder'[d] = holder[d]
    BY <1>6
  <2>3. QED
    BY <1>1, <1>2, <1>4, <1>5, <1>8, <2>1, <2>2, EndGrows
<1>11. AllOrdered'
  BY <1>1, <1>2, <1>6, <1>7, ReportOrdered
<1>12. QED
  BY <1>9, <1>10, <1>11 DEF Accounted

\* select() fails: what it had is dropped, and what was returned before stays in order.
LEMMA SelectFailsAccounted ==
  ASSUME IInv, Accounted, SelectFails
  PROVE  Accounted'
<1> DEFINE had == {results[i] : i \in DOMAIN results}
<1>1. /\ phase \in {"batch", "fragment"} /\ phase' = "idle" /\ results' = <<>>
      /\ lost' = lost \cup Partial \cup had
      /\ UNCHANGED <<queue, sent, ended, holder, ids, returned>>
  BY DEF SelectFails, Drop, kernelVars, senderVars
<1>2. returned \in Seq(SelectionResult) /\ results \in Seq(SelectionResult)
  BY DEF IInv, TypeOK
<1>3. Reports' = returned
  BY <1>1, <1>2, ConcatEmpty DEF Reports
<1>4. /\ \A i \in DOMAIN returned : i \in DOMAIN Reports /\ Reports[i] = returned[i]
      /\ \A i \in DOMAIN Reports : \/ i \in DOMAIN returned /\ Reports[i] = returned[i]
                                   \/ Reports[i] \in had
      /\ \A i \in DOMAIN results : \E j \in DOMAIN Reports : Reports[j] = results[i]
  <2>1. \A i \in DOMAIN Reports : \/ i \in DOMAIN returned /\ Reports[i] = returned[i]
                                  \/ \E j \in DOMAIN results : Reports[i] = results[j]
    BY SMT, <1>2, Concatenated DEF Reports
  <2>2. \A i \in DOMAIN returned : i \in DOMAIN Reports /\ Reports[i] = returned[i]
    BY SMT, <1>2 DEF Reports
  <2>3. ASSUME NEW i \in DOMAIN results PROVE \E j \in DOMAIN Reports : Reports[j] = results[i]
    <3>1. Len(returned) + i \in DOMAIN Reports /\ Reports[Len(returned) + i] = results[i]
      BY SMT, <1>2 DEF Reports
    <3>2. QED
      BY <3>1
  <2>4. QED
    BY <2>1, <2>2, <2>3
<1>5. Settled' = Settled \cup Partial
  <2>1. Settled' = lost \cup Partial \cup had \cup {returned[i] : i \in DOMAIN returned}
    BY <1>1, <1>3 DEF Settled
  <2>2. {Reports[i] : i \in DOMAIN Reports} = had \cup {returned[i] : i \in DOMAIN returned}
    BY SMT, <1>4
  <2>3. QED
    BY <2>1, <2>2 DEF Settled
<1> HIDE DEF had
<1>6. AllOrdered'
  <2>1. DOMAIN Reports' = 1 .. Len(returned) /\ Len(returned) \in Nat
    BY SMT, <1>2, <1>3
  <2>2. ASSUME NEW j \in 1 .. Len(returned) PROVE Ordered(Reports', lost', j)
    <3>1. j \in Nat \ {0} /\ \A i \in 1 .. j : i \in DOMAIN returned
      BY SMT, <1>2
    <3>2. \A i \in 1 .. j : Reports'[i] = Reports[i]
      BY <1>3, <1>4, <3>1
    <3>3. Ordered(Reports, lost, j)
      BY SMT, <1>2, <1>4 DEF Accounted, AllOrdered
    <3>4. QED
      BY <1>1, <3>1, <3>2, <3>3, OrderedStays
  <2>3. QED
    BY <2>1, <2>2 DEF AllOrdered
<1>7. CASE phase = "fragment"
  <2>1. PICK r : r = InHand
    OBVIOUS
  <2>2. Partial = {r} /\ r.packet # Closed
    BY <1>7, <2>1, InHandIsNext
  <2>3. Numbered' /\ FirstSettled'
    BY <1>1, <1>5, <1>7, <2>1, <2>2, HandEmptied
  <2>4. EndSettled'
    BY <1>1, <1>5, <2>2, EndsStay
  <2>5. QED
    BY <1>6, <2>3, <2>4 DEF Accounted
<1>8. CASE phase = "batch"
  <2>1. Partial = {}
    <3>1. reading = <<>>
      BY <1>8 DEF IInv, BatchInSet
    <3>2. QED
      BY SMT, <3>1 DEF Partial
  <2>2. Settled' = Settled
    BY <1>5, <2>1
  <2>3. \A d \in Channels : Taken(d)' = Taken(d) /\ Upto(d)' = Upto(d)
    BY <1>1, <1>8 DEF Taken, Upto
  <2>4. Numbered'
    BY <1>1, <2>3 DEF Accounted, Numbered
  <2>5. FirstSettled'
    BY <1>1, <2>2, <2>3, NoMoreSettled DEF Accounted
  <2>6. EndSettled'
    BY <1>1, <1>8, <2>2, EndsStay
  <2>7. QED
    BY <1>6, <2>4, <2>5, <2>6 DEF Accounted
<1>9. QED
  BY <1>1, <1>7, <1>8

-----------------------------------------------------------------------------
\* Every message and every end is accounted for in every behaviour.
LEMMA AllAccounted == Spec => [](IInv /\ Accounted)
<1>1. IInv /\ Accounted /\ [Next]_vars => Accounted'
  <2>1. SUFFICES ASSUME IInv, Accounted, [Next]_vars PROVE Accounted'
    OBVIOUS
  <2>2. ASSUME NEW c \in Channels,
               \/ NewChannel(c) \/ DropReceiver(c) \/ Add(c) \/ AddFails(c)
               \/ \E s \in Senders :
                    \/ \E whole \in BOOLEAN, channels \in Embedding : Send(c, s, whole, channels)
                    \/ SendFollowup(c, s) \/ CloseSender(c, s)
        PROVE  Accounted'
    BY <2>1, <2>2, OutsideAccounted, AddAccounted, SendAccounted, SendersAccounted
  <2>3. CASE SelectStep
    BY <2>1, <2>3, RecvWholeAccounted, RecvFirstAccounted, RecvClosedAccounted,
       RecvFollowupAccounted, RecvBrokenAccounted, SelectEndsAccounted DEF SelectStep, Recv
  <2>4. CASE SelectFails
    BY <2>1, <2>4, SelectFailsAccounted
  <2>5. CASE (\E S \in SUBSET registered : Poll(S)) \/ DropSet \/ UNCHANGED vars
    BY <2>1, <2>5, SelectEndsAccounted
  <2>6. QED
    BY <2>1, <2>2, <2>3, <2>4, <2>5 DEF Next
<1>2. QED
  BY <1>1, Invariance, InitAccounted, PTL DEF Spec

\* A message that was sent is in its queue, in hand, or settled, and so is the end of a
\* receiver that select() closed.
LEMMA AccountedVanishes ==
  ASSUME IInv, Accounted
  PROVE  NothingVanishes
<1> DEFINE known == lost \cup Partial \cup {Reports[i] : i \in DOMAIN Reports}
<1>1. Settled \subseteq known
  BY DEF Settled
<1>2. Partial \subseteq known
  OBVIOUS
<1> HIDE DEF known
<1>3. ASSUME NEW c \in Channels, NEW n \in 1 .. sent[c]
      PROVE  \/ \E i \in DOMAIN queue[c] : queue[c][i].n = n
             \/ \E r \in known : r.packet # Closed /\ r.packet.chan = c /\ r.packet.n = n
  <2>1. /\ sent[c] \in Nat /\ queue[c] \in Seq(Packet) /\ Len(queue[c]) \in Nat
        /\ DOMAIN queue[c] = 1 .. Len(queue[c])
    BY SMT DEF IInv, TypeOK
  <2>2. Taken(c) \in Nat /\ Upto(c) \in Nat /\ \A i \in DOMAIN queue[c] : queue[c][i].n = Taken(c) + i
    BY Counted DEF Accounted, Numbered
  <2>3. CASE n > Taken(c)
    <3>1. \A a, l, m \in Nat : (m > a /\ m <= a + l) => m - a \in 1 .. l /\ a + (m - a) = m
      BY SMT
    <3>2. sent[c] = Taken(c) + Len(queue[c])
      BY SMT, <2>1 DEF Taken
    <3>3. n \in Nat /\ n <= sent[c]
      BY SMT, <2>1
    <3>4. n - Taken(c) \in 1 .. Len(queue[c]) /\ Taken(c) + (n - Taken(c)) = n
      BY <2>1, <2>2, <2>3, <3>1, <3>2, <3>3
    <3>5. QED
      BY <2>1, <2>2, <3>4
  <2>4. CASE n <= Upto(c)
    <3>1. n \in 1 .. Upto(c)
      BY SMT, <2>1, <2>2, <2>4
    <3>2. \E r \in Settled : r.packet # Closed /\ r.packet.chan = c /\ r.packet.n = n
      BY SMT, <3>1 DEF Accounted, FirstSettled
    <3>3. QED
      BY <1>1, <3>2
  <2>5. CASE n <= Taken(c) /\ ~(n <= Upto(c))
    <3>1. phase = "fragment" /\ reading[2].chan = c /\ Upto(c) = Taken(c) - 1
      BY <2>5 DEF Upto
    <3>2. n = Taken(c)
      BY SMT, <2>1, <2>2, <2>5, <3>1
    <3>3. /\ Partial = {InHand} /\ InHand.packet = reading[2] /\ InHand.packet # Closed
      BY <3>1, InHandIsNext
    <3>4. reading[2].n = Taken(c)
      BY <3>1 DEF Accounted, Numbered
    <3>5. QED
      BY <1>2, <3>1, <3>2, <3>3, <3>4
  <2>6. n \in Nat
    BY SMT, <2>1
  <2>7. n > Taken(c) \/ n <= Upto(c) \/ (n <= Taken(c) /\ ~(n <= Upto(c)))
    BY SMT, <2>2, <2>6
  <2>8. QED
    BY <2>3, <2>4, <2>5, <2>7
<1>4. ASSUME NEW c \in Channels, ids[c] # -1, holder[c] = "closed", phase # "dropped"
      PROVE  [id |-> ids[c], packet |-> Closed] \in known
  BY <1>1, <1>4 DEF Accounted, EndSettled, End
<1>5. QED
  BY <1>3, <1>4 DEF NothingVanishes, known

\* What select() reports can be relied on: each message and each end under the id of its
\* receiver, in the order of sending, an end only at the end or after a message that broke
\* off, and nothing disappears but what a select() that failed had in hand.
THEOREM ReportsAreFaithful == Spec => []ReportsFaithful
<1>1. ASSUME IInv, Accounted PROVE ReportsInOrder /\ ClosedAtEnd /\ NothingVanishes
  <2>1. ReportsInOrder
    BY <1>1, OrderedReports DEF Accounted
  <2>2. ASSUME NEW i \in DOMAIN Reports, NEW c \in Channels, Reports[i] = End(c) PROVE AtEnd(c)
    BY <1>1, <2>2 DEF Accounted, EndSettled, Settled
  <2>3. ClosedAtEnd
    BY <2>2 DEF ClosedAtEnd, End, AtEnd
  <2>4. QED
    BY <1>1, <2>1, <2>3, AccountedVanishes
<1>2. IInv /\ Accounted => ReportsInOrder /\ ClosedAtEnd /\ NothingVanishes
  BY <1>1
<1>3. ReportsFaithful <=> ReportsUnderId /\ ReportsInOrder /\ ClosedAtEnd /\ NothingVanishes
  BY DEF ReportsFaithful
<1>4. QED
  BY <1>2, <1>3, AllAccounted, ReportsCarryTheirId, PTL
=============================================================================
