--------------------------- MODULE UnixReceiverSet ---------------------------
(***************************************************************************)
(* The receiver set of the Unix transport (OsIpcReceiverSet in             *)
(* src/platform/unix/mod.rs) over several channels.  One thread owns the   *)
(* set: it adds receivers, calls select() and drops the set.  Meanwhile    *)
(* other threads and processes create channels, send, and close senders.   *)
(*                                                                         *)
(* A message is one packet, or a first fragment whose followup the sender  *)
(* puts on the dedicated channel in a later step.  File descriptors are    *)
(* numbers that the kernel reuses, since the set is indexed by them.       *)
(***************************************************************************)
EXTENDS Integers, Sequences, FiniteSets

CONSTANTS
  Channels,      \* the channels of the program
  Senders,       \* names of the senders of each channel
  Fds,           \* descriptor numbers available for receiving ends
  MaxMessages,   \* bound: messages sent on each channel
  Events,        \* capacity of the list that poll() fills
  Embedding      \* whether messages have channels in them: a set of Booleans

ASSUME SetAssumption ==
  /\ Fds \subseteq Nat
  /\ "free" \notin Channels
  /\ MaxMessages \in Nat
  /\ Events \in Nat \ {0}
  /\ Embedding \subseteq BOOLEAN

VARIABLES
  \* The kernel:
  file,         \* the channel whose receiving end each descriptor is, or "free"
  queue,        \* packets on each channel
  followups,    \* messages whose followup fragment is on its dedicated channel
  registered,   \* descriptors that poll() watches
  \* The senders:
  ended,        \* the senders of each channel that are closed
  amid,         \* of each sender: the message that its send() is in the middle of
  sent,         \* number of messages sent on each channel
  \* OsIpcReceiverSet:
  incrementor,
  pollfds,
  phase,        \* "idle", "batch" or "fragment" in select(), "dropped"
  events,       \* descriptors of the list of events not handled yet
  results,      \* selection_results
  reading,      \* in phase "fragment": <<token, packet>>
  \* History:
  holder,       \* who owns each receiver: "none", "app", "set", "closed", "leaked"
  ids,          \* what add() returned for each receiver, or -1
  returned,     \* the results that select() returned
  lost,         \* results that select() had and did not return
  unclosed      \* messages dropped with channels that nobody converted

kernelVars == <<file, queue, followups, registered>>
senderVars == <<ended, amid, sent>>
setVars == <<incrementor, pollfds, phase, events, results, reading>>
historyVars == <<holder, ids, returned, lost, unclosed>>
vars == <<kernelVars, senderVars, setVars, historyVars>>

\* The n-th message of channel c; whole tells that it fits one packet, channels
\* that channels are embedded in it.
Packet == [chan : Channels, n : Nat, whole : BOOLEAN, channels : BOOLEAN]

\* OsIpcSelectionResult: DataReceived, or ChannelClosed with Closed for a packet.
Closed == [chan |-> "free", n |-> 0, whole |-> TRUE, channels |-> FALSE]

SelectionResult == [id : Nat, packet : Packet \cup {Closed}]

Init ==
  /\ file = [f \in Fds |-> "free"]
  /\ queue = [c \in Channels |-> <<>>]
  /\ followups = {}
  /\ registered = {}
  /\ ended = [c \in Channels |-> {}]
  /\ amid = [c \in Channels |-> [s \in Senders |-> {}]]
  /\ sent = [c \in Channels |-> 0]
  /\ incrementor = 0
  /\ pollfds = [t \in {} |-> 0]
  /\ phase = "idle"
  /\ events = {}
  /\ results = <<>>
  /\ reading = <<>>
  /\ holder = [c \in Channels |-> "none"]
  /\ ids = [c \in Channels |-> -1]
  /\ returned = <<>>
  /\ lost = {}
  /\ unclosed = {}

-----------------------------------------------------------------------------
(* The rest of the program *)

Open(c) == \E f \in Fds : file[f] = c

\* channel(): the receiving end gets the lowest descriptor that is free.
NewChannel(c) ==
  /\ holder[c] = "none"
  /\ \E f \in Fds :
       /\ file[f] = "free"
       /\ \A g \in Fds : g < f => file[g] # "free"
       /\ file' = [file EXCEPT ![f] = c]
  /\ holder' = [holder EXCEPT ![c] = "app"]
  /\ UNCHANGED <<queue, followups, registered, senderVars, setVars, ids, returned, lost, unclosed>>

\* The owner of a receiver drops it.
DropReceiver(c) ==
  /\ holder[c] = "app"
  /\ holder' = [holder EXCEPT ![c] = "closed"]
  /\ file' = [f \in Fds |-> IF file[f] = c THEN "free" ELSE file[f]]
  /\ UNCHANGED <<queue, followups, registered, senderVars, setVars, ids, returned, lost, unclosed>>

\* The first packet of a message.  send() of a long one is then in the middle.
Send(c, s, whole, channels) ==
  /\ Open(c)
  /\ s \notin ended[c]
  /\ amid[c][s] = {}
  /\ sent[c] < MaxMessages
  /\ LET p == [chan |-> c, n |-> sent[c] + 1, whole |-> whole, channels |-> channels] IN
       /\ queue' = [queue EXCEPT ![c] = Append(@, p)]
       /\ amid' = [amid EXCEPT ![c][s] = IF whole THEN {} ELSE {p}]
  /\ sent' = [sent EXCEPT ![c] = @ + 1]
  /\ UNCHANGED <<file, followups, registered, ended, setVars, historyVars>>

SendFollowup(c, s) ==
  /\ amid[c][s] # {}
  /\ followups' = followups \cup amid[c][s]
  /\ amid' = [amid EXCEPT ![c][s] = {}]
  /\ UNCHANGED <<file, queue, registered, ended, sent, setVars, historyVars>>

\* A sender is dropped, or its process ends, possibly in the middle of send().
CloseSender(c, s) ==
  /\ holder[c] # "none"
  /\ s \notin ended[c]
  /\ ended' = [ended EXCEPT ![c] = @ \cup {s}]
  /\ amid' = [amid EXCEPT ![c][s] = {}]
  /\ UNCHANGED <<kernelVars, sent, setVars, historyVars>>

NoSenders(c) == ended[c] = Senders

\* Somebody is still in the send() that this first fragment belongs to.
Unfinished(p) == \E s \in Senders : p \in amid[p.chan][s]

-----------------------------------------------------------------------------
(* OsIpcReceiverSet::add *)

\* Mutant: the id is the number of entries.
AddCountsEntries(c) ==
  \E f \in Fds :
    /\ phase = "idle"
    /\ holder[c] = "app"
    /\ file[f] = c
    /\ LET id == Cardinality(DOMAIN pollfds) IN
         /\ pollfds' = [t \in DOMAIN pollfds \cup {f} |->
                          IF t = f THEN [id |-> id, fd |-> f] ELSE pollfds[t]]
         /\ ids' = [ids EXCEPT ![c] = id]
    /\ registered' = registered \cup {f}
    /\ holder' = [holder EXCEPT ![c] = "set"]
    /\ UNCHANGED <<file, queue, followups, senderVars, incrementor, phase, events, results, reading,
                   returned, lost, unclosed>>

Add(c) ==
  \E f \in Fds :
    /\ phase = "idle"
    /\ holder[c] = "app"
    /\ file[f] = c
    /\ registered' = registered \cup {f}
    /\ pollfds' = [t \in DOMAIN pollfds \cup {f} |->
                     IF t = f THEN [id |-> incrementor, fd |-> f] ELSE pollfds[t]]
    /\ incrementor' = incrementor + 1
    /\ ids' = [ids EXCEPT ![c] = incrementor]
    /\ holder' = [holder EXCEPT ![c] = "set"]
    /\ UNCHANGED <<file, queue, followups, senderVars, phase, events, results, reading, returned,
                   lost, unclosed>>

\* register() fails after consume_fd(): nobody owns the descriptor any more.
AddFails(c) ==
  /\ phase = "idle"
  /\ holder[c] = "app"
  /\ incrementor' = incrementor + 1
  /\ holder' = [holder EXCEPT ![c] = "leaked"]
  /\ UNCHANGED <<kernelVars, senderVars, pollfds, phase, events, results, reading, ids, returned,
                 lost, unclosed>>

-----------------------------------------------------------------------------
(* OsIpcReceiverSet::select *)

\* Mutant: the end of a channel is no readable event.
ReadableWhenData(f) ==
  /\ file[f] # "free"
  /\ queue[file[f]] # <<>>

Readable(f) ==
  /\ file[f] # "free"
  /\ queue[file[f]] # <<>> \/ NoSenders(file[f])

\* poll() returns: level-triggered, up to Events of what is readable.  It is
\* retried on EINTR; when it fails otherwise, select() returns with no effect.
Poll(S) ==
  /\ phase = "idle"
  /\ S # {}
  /\ S \subseteq {f \in registered : Readable(f)}
  /\ Cardinality(S) <= Events
  /\ events' = S
  /\ phase' = "batch"
  /\ UNCHANGED <<kernelVars, senderVars, incrementor, pollfds, results, reading, historyVars>>

\* An event of the batch, in any order, with an entry for its token.
Handling(t) ==
  /\ phase = "batch"
  /\ t \in events
  /\ t \in DOMAIN pollfds

\* The panic!() for a readable event whose token is not in the map.
UnknownToken == phase = "batch" /\ \E t \in events : t \notin DOMAIN pollfds

\* recv() gets a message in one packet.
RecvWhole(t) ==
  /\ Handling(t)
  /\ LET entry == pollfds[t]
         c == file[entry.fd] IN
       /\ c # "free"
       /\ queue[c] # <<>>
       /\ Head(queue[c]).whole
       /\ queue' = [queue EXCEPT ![c] = Tail(@)]
       /\ results' = Append(results, [id |-> entry.id, packet |-> Head(queue[c])])
  /\ events' = events \ {t}
  /\ UNCHANGED <<file, followups, registered, senderVars, incrementor, pollfds, phase, reading,
                 historyVars>>

\* recv() gets a first fragment and goes on to its dedicated channel, where it
\* blocks.
RecvFirst(t) ==
  /\ Handling(t)
  /\ LET c == file[pollfds[t].fd] IN
       /\ c # "free"
       /\ queue[c] # <<>>
       /\ ~Head(queue[c]).whole
       /\ queue' = [queue EXCEPT ![c] = Tail(@)]
       /\ reading' = <<t, Head(queue[c])>>
  /\ phase' = "fragment"
  /\ events' = events \ {t}
  /\ UNCHANGED <<file, followups, registered, senderVars, incrementor, pollfds, results,
                 historyVars>>

RecvFollowup ==
  /\ phase = "fragment"
  /\ reading[2] \in followups
  /\ followups' = followups \ {reading[2]}
  /\ results' = Append(results, [id |-> pollfds[reading[1]].id, packet |-> reading[2]])
  /\ phase' = "batch"
  /\ reading' = <<>>
  /\ UNCHANGED <<file, queue, registered, senderVars, incrementor, pollfds, events, historyVars>>

\* Mutant: the entry stays in the map.
ReportClosedKeepsEntry(t) ==
  LET entry == pollfds[t] IN
  /\ registered' = registered \ {entry.fd}
  /\ file' = [file EXCEPT ![entry.fd] = "free"]
  /\ holder' = [c \in Channels |-> IF file[entry.fd] = c THEN "closed" ELSE holder[c]]
  /\ results' = Append(results, [id |-> entry.id, packet |-> Closed])
  /\ UNCHANGED pollfds

\* The arm for channel_is_closed(): removed, deregistered, closed and reported.
ReportClosed(t) ==
  LET entry == pollfds[t] IN
  /\ pollfds' = [u \in DOMAIN pollfds \ {t} |-> pollfds[u]]
  /\ registered' = registered \ {entry.fd}
  /\ file' = [file EXCEPT ![entry.fd] = "free"]
  /\ holder' = [c \in Channels |-> IF file[entry.fd] = c THEN "closed" ELSE holder[c]]
  /\ results' = Append(results, [id |-> entry.id, packet |-> Closed])

RecvClosed(t) ==
  /\ Handling(t)
  /\ LET c == file[pollfds[t].fd] IN c # "free" /\ queue[c] = <<>> /\ NoSenders(c)
  /\ ReportClosed(t)
  /\ events' = events \ {t}
  /\ UNCHANGED <<queue, followups, senderVars, incrementor, phase, reading, ids, returned, lost,
                 unclosed>>

\* These results are dropped, with channels in them that nobody converted.
Drop(dropped) ==
  /\ lost' = lost \cup dropped
  /\ unclosed' = unclosed \cup
       {p \in {r.packet : r \in dropped} : p.channels}

\* What recv() has of the message it is reassembling.
Partial == {[id |-> pollfds[reading[1]].id, packet |-> reading[2]] : i \in {1} \cap DOMAIN reading}

\* The sender of the message went away before the followup: recv() reports this
\* as ChannelClosed, and drops what it had.
RecvBroken ==
  /\ phase = "fragment"
  /\ reading[2] \notin followups
  /\ ~Unfinished(reading[2])
  /\ ReportClosed(reading[1])
  /\ Drop(Partial)
  /\ phase' = "batch"
  /\ reading' = <<>>
  /\ UNCHANGED <<queue, followups, senderVars, incrementor, events, ids, returned>>

\* select() returns the error of a recv(): the results so far are dropped, and
\* the events not handled yet are forgotten.  A recvmsg() that fails leaves the
\* message in its queue; a recv() that fails amid a message loses it.
SelectFails ==
  /\ \/ phase = "batch" /\ events # {}
     \/ phase = "fragment"
  /\ Drop(Partial \cup {results[i] : i \in DOMAIN results})
  /\ phase' = "idle"
  /\ events' = {}
  /\ results' = <<>>
  /\ reading' = <<>>
  /\ UNCHANGED <<kernelVars, senderVars, incrementor, pollfds, holder, ids, returned>>

\* Ok(selection_results), handed on by IpcReceiverSet::select().
SelectReturns ==
  /\ phase = "batch"
  /\ events = {}
  /\ returned' = returned \o results
  /\ results' = <<>>
  /\ phase' = "idle"
  /\ UNCHANGED <<kernelVars, senderVars, incrementor, pollfds, events, reading, holder, ids, lost,
                 unclosed>>

\* Dropping the set closes every receiver in it.
DropSet ==
  /\ phase = "idle"
  /\ phase' = "dropped"
  /\ file' = [f \in Fds |-> IF f \in {pollfds[t].fd : t \in DOMAIN pollfds} THEN "free" ELSE file[f]]
  /\ holder' = [c \in Channels |-> IF holder[c] = "set" THEN "closed" ELSE holder[c]]
  /\ pollfds' = [t \in {} |-> 0]
  /\ registered' = {}
  /\ UNCHANGED <<queue, followups, senderVars, incrementor, events, results, reading, ids, returned,
                 lost, unclosed>>

\* recv() on a receiver that poll() reported does not fail.
Recv(t) == RecvWhole(t) \/ RecvFirst(t) \/ RecvClosed(t)

SelectStep ==
  \/ \E t \in Fds : Recv(t)
  \/ RecvFollowup
  \/ RecvBroken
  \/ SelectReturns

Next ==
  \/ \E c \in Channels :
       \/ NewChannel(c)
       \/ DropReceiver(c)
       \/ Add(c)
       \/ AddFails(c)
       \/ \E s \in Senders :
            \/ \E whole \in BOOLEAN, channels \in Embedding : Send(c, s, whole, channels)
            \/ SendFollowup(c, s)
            \/ CloseSender(c, s)
  \/ \E S \in SUBSET registered : Poll(S)
  \/ SelectStep
  \/ SelectFails
  \/ DropSet

Spec == Init /\ [][Next]_vars

\* The owner of the set keeps calling select(), which runs to its end; poll()
\* rotates what it reports when its list is too short, so it does not overlook a
\* receiver for ever; a recv() that is tried again and again does not always
\* fail; a thread in the middle of send() goes on.
FairSpec ==
  /\ Spec
  /\ \A f \in Fds : /\ SF_vars(\E S \in SUBSET registered : f \in S /\ Poll(S))
                    /\ SF_vars(Recv(f))
  /\ WF_vars(SelectStep)
  /\ \A c \in Channels, s \in Senders : WF_vars(SendFollowup(c, s))

-----------------------------------------------------------------------------
(* Properties *)

\* Every variable has its type.
TypeOK ==
  /\ file \in [Fds -> Channels \cup {"free"}]
  /\ queue \in [Channels -> Seq(Packet)]
  /\ followups \subseteq Packet
  /\ registered \subseteq Fds
  /\ ended \in [Channels -> SUBSET Senders]
  /\ amid \in [Channels -> [Senders -> SUBSET Packet]]
  /\ sent \in [Channels -> Nat]
  /\ incrementor \in Nat
  /\ DOMAIN pollfds \subseteq Fds
  /\ pollfds \in [DOMAIN pollfds -> [id : Nat, fd : Fds]]
  /\ phase \in {"idle", "batch", "fragment", "dropped"}
  /\ events \subseteq Fds
  /\ results \in Seq(SelectionResult)
  /\ reading = <<>> \/ reading \in Fds \X Packet
  /\ holder \in [Channels -> {"none", "app", "set", "closed", "leaked"}]
  /\ ids \in [Channels -> Nat \cup {-1}]
  /\ returned \in Seq(SelectionResult)
  /\ lost \subseteq SelectionResult
  /\ unclosed \subseteq Packet

\* No receiver is lost and none is confused with another, although descriptors
\* are reused: the set watches what it has entries for, an entry leads to the
\* receiver that was added under its id, and each receiver added has an entry
\* until it is closed.  (add, select, drop.)
EntriesOwnReceivers ==
  /\ registered = DOMAIN pollfds
  /\ \A t \in DOMAIN pollfds :
       /\ pollfds[t].fd = t
       /\ \E c \in Channels :
            file[t] = c /\ holder[c] = "set" /\ ids[c] = pollfds[t].id
  /\ \A c \in Channels : holder[c] = "set" => \E t \in DOMAIN pollfds : file[t] = c

\* The panic!() of select() and its unwrap()s are unreachable: an event is always
\* of a descriptor that is still in the set, also after the wait for a fragment.
NoPanic ==
  /\ ~UnknownToken
  /\ phase = "fragment" => reading[1] \in DOMAIN pollfds \cap registered

\* The results of select(), returned or not yet.
Reports == returned \o results

\* A message is reported under the id that add() returned for its own receiver,
\* and ids are not reused.
ReportsUnderId ==
  /\ \A i \in DOMAIN Reports :
       LET r == Reports[i] IN
       IF r.packet = Closed
       THEN \E c \in Channels : ids[c] = r.id /\ holder[c] = "closed"
       ELSE r.id = ids[r.packet.chan]
  /\ \A c, d \in Channels : ids[c] = ids[d] /\ ids[c] # -1 => c = d

\* The messages of a channel are reported in the order of sending, nothing
\* follows the report of its end, and what is skipped was dropped by an error.
ReportsInOrder ==
  \A j \in DOMAIN Reports :
    /\ \A i \in 1 .. j - 1 :
         Reports[i].id = Reports[j].id =>
           /\ Reports[i].packet # Closed
           /\ Reports[j].packet # Closed => Reports[i].packet.n < Reports[j].packet.n
    /\ Reports[j].packet # Closed =>
         \A n \in 1 .. Reports[j].packet.n - 1 :
           \/ \E i \in 1 .. j - 1 :
                /\ Reports[i].id = Reports[j].id
                /\ Reports[i].packet.n = n
           \/ \E r \in lost : r.id = Reports[j].id /\ r.packet # Closed /\ r.packet.n = n

\* A receiver is reported closed only at the end of its channel, or after a
\* message that could not be completed.
ClosedAtEnd ==
  \A i \in DOMAIN Reports, c \in Channels :
    Reports[i] = [id |-> ids[c], packet |-> Closed] =>
      \/ queue[c] = <<>> /\ NoSenders(c)
      \/ \E r \in lost : r.id = ids[c] /\ r.packet # Closed /\ ~r.packet.whole

\* Nothing disappears: a message sent to a receiver of the set is queued, being
\* received, reported, or dropped by a select() that failed or found the message
\* broken; and the end of a receiver that select() closed is reported, or dropped
\* by a select() that failed.
NothingVanishes ==
  LET known == lost \cup Partial \cup {Reports[i] : i \in DOMAIN Reports} IN
  \A c \in Channels :
    ids[c] # -1 =>
      /\ \A n \in 1 .. sent[c] :
           \/ \E i \in DOMAIN queue[c] : queue[c][i].n = n
           \/ \E r \in known : r.packet # Closed /\ r.packet.chan = c /\ r.packet.n = n
      /\ holder[c] = "closed" /\ phase # "dropped" => [id |-> ids[c], packet |-> Closed] \in known

\* What select() says can be relied on: all of this together.
ReportsFaithful == ReportsUnderId /\ ReportsInOrder /\ ClosedAtEnd /\ NothingVanishes

\* OsOpaqueIpcChannel::drop: "The `OsOpaqueIpcChannel` objects should always be
\* used, i.e. converted with `to_sender()` or `to_receiver()` -- so the value
\* should already be unset before the object gets dropped."
OpaqueAlwaysUsed == unclosed = {}

ReportedOrLost(r) == r \in lost \/ \E i \in DOMAIN returned : returned[i] = r

\* A message that waits in a receiver of the set gets reported, however many
\* receivers are ready at once, unless an error or a broken message intervenes.
MessagesReported ==
  \A c \in Channels, n \in 1 .. MaxMessages :
    (holder[c] = "set" /\ \E i \in DOMAIN queue[c] : queue[c][i].n = n)
      ~> \/ holder[c] # "set"
         \/ \E i \in DOMAIN returned :
              returned[i].id = ids[c] /\ returned[i].packet # Closed /\ returned[i].packet.n = n
         \/ \E r \in lost : r.id = ids[c] /\ r.packet # Closed /\ r.packet.n = n

\* The end of a channel in the set gets reported, unless an error intervenes.
EndReported ==
  \A c \in Channels :
    (holder[c] = "set" /\ NoSenders(c))
      ~> \/ phase = "dropped"
         \/ ReportedOrLost([id |-> ids[c], packet |-> Closed])

=============================================================================
