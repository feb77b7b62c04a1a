-------------------------- MODULE UnixHandlesProofs --------------------------
(***************************************************************************)
(* Proofs about UnixHandles, for any number of processes, channels, values *)
(* and descriptors and any length of the queues: a value stands for the    *)
(* end of the channel it was made for as long as it exists (RightEnd),     *)
(* because no two values but clones of a sender share a descriptor; every  *)
(* open descriptor has one owner (OwnedOnce); a channel has ended for the  *)
(* kernel just when no sender is left (EndExact); and a receiving end is   *)
(* in one place (OneReceiver).                                             *)
(***************************************************************************)
EXTENDS UnixHandles, FiniteSetTheorems, TLAPS

\* Leaves are first-order reasoning about sets and functions, but where they name SMT.
USE Zenon

\* What every value satisfies: its fields fit its kind.
WellFormed(r) ==
  /\ r.kind = "none" => r = NoValue
  /\ r.kind # "none" => r.proc \in Processes /\ r.end \in Ends
  /\ r.kind \in {"sender", "opaque"} => r.fd # BadFd
  /\ r.kind = "sender" <=> r.arc # None
  /\ r.use # "held" => r.kind \in {"sender", "receiver"} /\ r.fd # BadFd

\* Two values share a descriptor exactly if they are senders of one Arc.
Apart(r, s) ==
  /\ (r.arc # None /\ r.arc = s.arc) => (r.proc = s.proc /\ r.fd = s.fd)
  /\ (r.fd # BadFd /\ r.fd = s.fd /\ r.proc = s.proc) => (r.arc # None /\ r.arc = s.arc)

Shape == \A v \in Values : WellFormed(value[v])

Exclusive == \A v, w \in Values : v # w => Apart(value[v], value[w])

IInv == TypeOK /\ Shape /\ Exclusive /\ RightEnd
----------------------------------------------------------------------------
\* No end is NoEnd, and the fields of an end are as they were put.
LEMMA EndFacts ==
  /\ NoEnd \notin Ends
  /\ \A c \in Pipes : End(c, "send") \in Ends /\ End(c, "recv") \in Ends
  /\ \A e \in Ends : e.pipe \in Pipes /\ e.side \in {"send", "recv"}
<1>1. \A c \in Pipes : End(c, "send") \in Ends /\ End(c, "recv") \in Ends
  BY SMT DEF Ends
<1>2. \A e \in Ends : e.pipe \in Pipes /\ e.side \in {"send", "recv"}
  <2>1. SUFFICES ASSUME NEW c \in Pipes, NEW side \in {"send", "recv"}
                 PROVE  End(c, side).pipe \in Pipes /\ End(c, side).side \in {"send", "recv"}
    BY SMT DEF Ends
  <2>2. QED
    BY DEF End
<1>3. NoEnd.side = "none"
  BY DEF NoEnd
<1>4. QED
  BY <1>1, <1>2, <1>3

\* The fields of no value.
LEMMA NoValueTyped ==
  /\ NoValue \in ValueSet
  /\ NoValue.kind = "none" /\ NoValue.proc = None /\ NoValue.fd = BadFd
  /\ NoValue.arc = None /\ NoValue.use = "held" /\ NoValue.end = NoEnd
BY DEF NoValue, ValueSet

\* Being apart is symmetric.
LEMMA ApartSymmetric ==
  ASSUME NEW r, NEW s, Apart(r, s)
  PROVE  Apart(s, r)
BY DEF Apart

\* A value without descriptor is apart from every other one.
LEMMA NoValueApart == \A r : Apart(NoValue, r) /\ Apart(r, NoValue)
BY NoValueTyped DEF Apart

\* No value is well formed.
LEMMA NoValueWellFormed == WellFormed(NoValue)
BY NoValueTyped DEF WellFormed

\* An action that replaces two values keeps Shape and Exclusive if the new ones are well
\* formed, and apart from each other and from the rest.
LEMMA TwoValues ==
  ASSUME IInv, NEW v \in Values, NEW w \in Values, v # w, NEW r \in ValueSet, NEW s \in ValueSet,
         value' = [value EXCEPT ![v] = r, ![w] = s],
         WellFormed(r), WellFormed(s), Apart(r, s),
         \A x \in Values \ {v, w} : Apart(r, value[x]) /\ Apart(s, value[x])
  PROVE  /\ value' \in [Values -> ValueSet] /\ value'[v] = r /\ value'[w] = s
         /\ \A x \in Values \ {v, w} : value'[x] = value[x]
         /\ Shape' /\ Exclusive'
<1>1. /\ value' \in [Values -> ValueSet] /\ value'[v] = r /\ value'[w] = s
      /\ \A x \in Values \ {v, w} : value'[x] = value[x]
  BY DEF IInv, TypeOK
<1>2. Shape'
  BY <1>1 DEF IInv, Shape
<1>3. ASSUME NEW x \in Values, NEW y \in Values, x # y PROVE Apart(value'[x], value'[y])
  <2>1. CASE x \in {v, w} /\ y \in {v, w}
    BY SMT, <1>1, <1>3, <2>1, ApartSymmetric
  <2>2. CASE x \in {v, w} /\ y \notin {v, w}
    BY <1>1, <2>2
  <2>3. CASE x \notin {v, w} /\ y \in {v, w}
    <3>1. Apart(value'[y], value'[x])
      BY <1>1, <2>3
    <3>2. QED
      BY <3>1, ApartSymmetric
  <2>4. CASE x \notin {v, w} /\ y \notin {v, w}
    BY <1>1, <1>3, <2>4 DEF IInv, Exclusive
  <2>5. QED
    BY <2>1, <2>2, <2>3, <2>4
<1>4. Exclusive'
  BY <1>3 DEF Exclusive
<1>5. QED
  BY <1>1, <1>2, <1>4

\* The same for an action that replaces one value.
LEMMA OneValue ==
  ASSUME IInv, NEW v \in Values, NEW r \in ValueSet, value' = [value EXCEPT ![v] = r],
         WellFormed(r), \A x \in Values \ {v} : Apart(r, value[x])
  PROVE  /\ value' \in [Values -> ValueSet] /\ value'[v] = r
         /\ \A x \in Values \ {v} : value'[x] = value[x]
         /\ Shape' /\ Exclusive'
<1>1. /\ value' \in [Values -> ValueSet] /\ value'[v] = r
      /\ \A x \in Values \ {v} : value'[x] = value[x]
  BY DEF IInv, TypeOK
<1>2. Shape'
  BY <1>1 DEF IInv, Shape
<1>3. ASSUME NEW x \in Values, NEW y \in Values, x # y PROVE Apart(value'[x], value'[y])
  <2>1. CASE x = v
    BY <1>1, <1>3, <2>1
  <2>2. CASE y = v
    <3>1. Apart(value'[y], value'[x])
      BY <1>1, <1>3, <2>2
    <3>2. QED
      BY <3>1, ApartSymmetric
  <2>3. CASE x # v /\ y # v
    BY <1>1, <1>3, <2>3 DEF IInv, Exclusive
  <2>4. QED
    BY <2>1, <2>2, <2>3
<1>4. Exclusive'
  BY <1>3 DEF Exclusive
<1>5. QED
  BY <1>1, <1>2, <1>4

\* What IInv says of one value, for the steps below.
LEMMA OfValue ==
  ASSUME IInv, NEW v \in Values
  PROVE  /\ value[v] \in ValueSet /\ WellFormed(value[v])
         /\ value[v].fd \in Fds \cup {BadFd} /\ value[v].arc \in Values \cup {None}
         /\ value[v].kind # "none" => value[v].proc \in Processes /\ value[v].end \in Ends
         /\ value[v].kind = "none" => value[v] = NoValue
         /\ (value[v].kind # "none" /\ value[v].fd # BadFd) =>
              table[value[v].proc][value[v].fd] = value[v].end
<1>1. value[v] \in ValueSet /\ WellFormed(value[v])
  BY DEF IInv, TypeOK, Shape
<1>2. value[v].fd \in Fds \cup {BadFd} /\ value[v].arc \in Values \cup {None}
  BY <1>1 DEF ValueSet
<1>3. QED
  BY <1>1, <1>2 DEF IInv, WellFormed, RightEnd

----------------------------------------------------------------------------
\* The initial values are a receiver and a sender with descriptors of their own.
LEMMA InitIInv == Init => IInv
<1>1. SUFFICES ASSUME Init PROVE IInv
  OBVIOUS
<1>2. PICK p \in Processes, q \in Processes, c \in Pipes, f \in Fds, v \in Values, w \in Values :
        /\ p # q /\ v # w
        /\ table = [[x \in Processes |-> [g \in Fds |-> NoEnd]]
                     EXCEPT ![p][f] = End(c, "recv"), ![q][f] = End(c, "send")]
        /\ value = [[x \in Values |-> NoValue] EXCEPT
                      ![v] = Value("receiver", p, f, None, End(c, "recv")),
                      ![w] = Value("sender", q, f, w, End(c, "send"))]
  BY <1>1 DEF Init
<1> DEFINE r == Value("receiver", p, f, None, End(c, "recv"))
           s == Value("sender", q, f, w, End(c, "send"))
<1>3. /\ r \in ValueSet /\ r.kind = "receiver" /\ r.proc = p /\ r.fd = f /\ r.arc = None
      /\ r.use = "held" /\ r.end = End(c, "recv")
      /\ s \in ValueSet /\ s.kind = "sender" /\ s.proc = q /\ s.fd = f /\ s.arc = w
      /\ s.use = "held" /\ s.end = End(c, "send")
  BY EndFacts DEF Value, ValueSet
<1>4. WellFormed(r) /\ WellFormed(s) /\ Apart(r, s) /\ Apart(s, r)
  BY <1>2, <1>3, EndFacts, UnixHandlesAssumption DEF WellFormed, Apart
<1>5. /\ value \in [Values -> ValueSet] /\ value[v] = r /\ value[w] = s
      /\ \A x \in Values \ {v, w} : value[x] = NoValue
  BY <1>2, <1>3, NoValueTyped
<1>6. /\ table \in [Processes -> [Fds -> Ends \cup {NoEnd}]]
      /\ table[p][f] = End(c, "recv") /\ table[q][f] = End(c, "send")
  BY <1>2, EndFacts
<1> HIDE DEF r, s
<1>7. TypeOK
  <2>1. \A d \in Pipes : queue[d] = <<>> /\ <<>> \in Seq(Ends)
    BY SMT, <1>1 DEF Init
  <2>2. QED
    BY <1>1, <1>5, <1>6, <2>1 DEF Init, TypeOK
<1>8. Shape
  BY <1>4, <1>5, NoValueWellFormed DEF Shape
<1>9. Exclusive
  BY SMT, <1>4, <1>5, NoValueApart DEF Exclusive
<1>10. RightEnd
  BY <1>3, <1>5, <1>6, NoValueTyped DEF RightEnd
<1>11. QED
  BY <1>7, <1>8, <1>9, <1>10 DEF IInv

\* channel(): the two new values have descriptors that were free, and that therefore no
\* other value has.
LEMMA ChannelIInv ==
  ASSUME IInv, NEW p \in Processes, NEW c \in Pipes, NEW v \in Values, NEW w \in Values,
         Channel(p, c, v, w)
  PROVE  IInv'
<1>1. PICK f \in FreeFds(p), g \in FreeFds(p) :
        /\ f # g
        /\ table' = [table EXCEPT ![p][f] = End(c, "send"), ![p][g] = End(c, "recv")]
        /\ value' = [value EXCEPT ![v] = Value("sender", p, f, v, End(c, "send")),
                                  ![w] = Value("receiver", p, g, None, End(c, "recv"))]
  BY DEF Channel
<1> DEFINE r == Value("sender", p, f, v, End(c, "send"))
           s == Value("receiver", p, g, None, End(c, "recv"))
<1>2. f \in Fds /\ g \in Fds /\ table[p][f] = NoEnd /\ table[p][g] = NoEnd
  BY DEF FreeFds
<1>3. /\ r \in ValueSet /\ r.kind = "sender" /\ r.proc = p /\ r.fd = f /\ r.arc = v
      /\ r.use = "held" /\ r.end = End(c, "send")
      /\ s \in ValueSet /\ s.kind = "receiver" /\ s.proc = p /\ s.fd = g /\ s.arc = None
      /\ s.use = "held" /\ s.end = End(c, "recv")
  BY <1>2, EndFacts DEF Value, ValueSet
<1> HIDE DEF r, s
<1>4. WellFormed(r) /\ WellFormed(s) /\ Apart(r, s)
  BY <1>1, <1>2, <1>3, EndFacts, UnixHandlesAssumption DEF WellFormed, Apart
<1>5. ASSUME NEW x \in Values
      PROVE  (value[x].fd # BadFd /\ value[x].proc = p) => value[x].fd \notin {f, g}
  <2>1. CASE value[x].kind = "none"
    BY <2>1, OfValue, NoValueTyped
  <2>2. CASE value[x].kind # "none"
    BY <1>2, <2>2, OfValue, EndFacts
  <2>3. QED
    BY <2>1, <2>2
<1>6. \A x \in Values : value[x].arc # v
  BY DEF Channel, Unused
<1>7. \A x \in Values \ {v, w} : Apart(r, value[x]) /\ Apart(s, value[x])
  BY <1>3, <1>5, <1>6 DEF Apart
<1>8. value' = [value EXCEPT ![v] = r, ![w] = s] /\ v # w
  BY <1>1 DEF Channel, r, s
<1>9. /\ value' \in [Values -> ValueSet] /\ value'[v] = r /\ value'[w] = s
      /\ \A x \in Values \ {v, w} : value'[x] = value[x]
      /\ Shape' /\ Exclusive'
  BY <1>3, <1>4, <1>7, <1>8, TwoValues
<1>10. /\ table' \in [Processes -> [Fds -> Ends \cup {NoEnd}]]
       /\ table'[p][f] = End(c, "send") /\ table'[p][g] = End(c, "recv")
       /\ \A q \in Processes, h \in Fds : (q # p \/ h \notin {f, g}) => table'[q][h] = table[q][h]
  BY <1>1, <1>2, EndFacts DEF IInv, TypeOK
<1>11. TypeOK'
  <2>1. queue' \in [Pipes -> Seq(Ends)]
    BY SMT DEF Channel, IInv, TypeOK
  <2>2. QED
    BY <1>9, <1>10, <2>1 DEF Channel, IInv, TypeOK
<1>12. RightEnd'
  <2>1. \A x \in Values \ {v, w} : (value[x].kind # "none" /\ value[x].fd # BadFd) =>
          table'[value[x].proc][value[x].fd] = value[x].end
    BY <1>5, <1>10, OfValue
  <2>2. QED
    BY SMT, <1>3, <1>9, <1>10, <2>1 DEF RightEnd
<1>13. QED
  BY <1>9, <1>11, <1>12 DEF IInv

\* OsIpcSender::clone: the clone shares the Arc, and with it the descriptor.
LEMMA CloneIInv ==
  ASSUME IInv, NEW v \in Values, NEW w \in Values, Clone(v, w)
  PROVE  IInv'
<1>1. PICK use \in {"held", "listed"} : value' = [value EXCEPT ![w] = [value[v] EXCEPT !.use = use]]
  BY DEF Clone
<1> DEFINE r == [value[v] EXCEPT !.use = use]
<1>2. value[v] \in ValueSet /\ WellFormed(value[v]) /\ value[v].kind = "sender"
  BY OfValue DEF Clone
<1>3. /\ r \in ValueSet /\ r.use = use /\ r.kind = value[v].kind /\ r.proc = value[v].proc
      /\ r.fd = value[v].fd /\ r.arc = value[v].arc /\ r.end = value[v].end
  BY <1>2 DEF ValueSet
<1> HIDE DEF r
<1>4. WellFormed(r)
  BY <1>2, <1>3 DEF WellFormed
<1>5. ASSUME NEW x \in Values \ {w} PROVE Apart(r, value[x])
  <2>1. CASE x = v
    BY <1>2, <1>3, <2>1 DEF Apart, WellFormed
  <2>2. CASE x # v
    BY SMT, <1>3, <2>2 DEF IInv, Exclusive, Apart
  <2>3. QED
    BY <2>1, <2>2
<1>6. /\ value' \in [Values -> ValueSet] /\ value'[w] = r
      /\ \A x \in Values \ {w} : value'[x] = value[x]
      /\ Shape' /\ Exclusive'
  BY <1>1, <1>3, <1>4, <1>5, OneValue DEF r
<1>7. TypeOK'
  BY <1>6 DEF IInv, TypeOK, Clone
<1>8. RightEnd'
  BY SMT, <1>2, <1>3, <1>6 DEF IInv, RightEnd, Clone
<1>9. QED
  BY <1>6, <1>7, <1>8 DEF IInv

\* OsIpcReceiver::consume: the old receiver is left without descriptor.
LEMMA ConsumeIInv ==
  ASSUME IInv, NEW v \in Values, NEW w \in Values, Consume(v, w)
  PROVE  IInv'
<1>1. PICK use \in {"held", "listed"} :
        value' = [value EXCEPT ![w] = [value[v] EXCEPT !.use = use], ![v].fd = BadFd]
  BY DEF Consume
<1> DEFINE r == [value[v] EXCEPT !.use = use]
           s == [value[v] EXCEPT !.fd = BadFd]
<1>2. /\ value[v] \in ValueSet /\ WellFormed(value[v]) /\ v # w
      /\ value[v].kind = "receiver" /\ value[v].fd # BadFd /\ value[v].use = "held"
  BY OfValue DEF Consume, Usable, Unused
<1>3. /\ r \in ValueSet /\ r.use = use /\ r.kind = value[v].kind /\ r.proc = value[v].proc
      /\ r.fd = value[v].fd /\ r.arc = value[v].arc /\ r.end = value[v].end
  BY <1>2 DEF ValueSet
<1>4. /\ s \in ValueSet /\ s.use = value[v].use /\ s.kind = value[v].kind /\ s.proc = value[v].proc
      /\ s.fd = BadFd /\ s.arc = value[v].arc /\ s.end = value[v].end
  BY <1>2 DEF ValueSet
<1>5. value' = [value EXCEPT ![w] = r, ![v] = s]
  BY <1>1, <1>2 DEF IInv, TypeOK
<1> HIDE DEF r, s
<1>6. WellFormed(r) /\ WellFormed(s) /\ Apart(r, s)
  BY <1>2, <1>3, <1>4 DEF WellFormed, Apart
<1>7. \A x \in Values \ {w, v} : Apart(r, value[x]) /\ Apart(s, value[x])
  BY SMT, <1>2, <1>3, <1>4 DEF IInv, Exclusive, Apart, WellFormed
<1>8. /\ value' \in [Values -> ValueSet] /\ value'[w] = r /\ value'[v] = s
      /\ \A x \in Values \ {w, v} : value'[x] = value[x]
      /\ Shape' /\ Exclusive'
  BY <1>2, <1>3, <1>4, <1>5, <1>6, <1>7, TwoValues
<1>9. TypeOK'
  BY <1>8 DEF IInv, TypeOK, Consume
<1>10. RightEnd'
  BY SMT, <1>2, <1>3, <1>4, <1>8 DEF IInv, RightEnd, Consume
<1>11. QED
  BY <1>8, <1>9, <1>10 DEF IInv

\* The drop of a value that closes its descriptor, which no other value has.
LEMMA CloseIInv ==
  ASSUME IInv, NEW v \in Values, value[v].kind # "none", value[v].fd # BadFd,
         Forget(v), CloseFd(v), UNCHANGED <<alive, queue, lost>>,
         \A x \in Values \ {v} : value[x].arc = None \/ value[x].arc # value[v].arc
  PROVE  IInv'
<1>1. /\ value[v].proc \in Processes /\ value[v].fd \in Fds
      /\ value[v] \in ValueSet
  BY OfValue
<1>2. /\ value' \in [Values -> ValueSet] /\ value'[v] = NoValue
      /\ \A x \in Values \ {v} : value'[x] = value[x]
      /\ Shape' /\ Exclusive'
  BY OneValue, NoValueTyped, NoValueWellFormed, NoValueApart DEF Forget
<1>3. /\ table' \in [Processes -> [Fds -> Ends \cup {NoEnd}]]
      /\ \A q \in Processes, h \in Fds :
           (q # value[v].proc \/ h # value[v].fd) => table'[q][h] = table[q][h]
  BY <1>1 DEF CloseFd, IInv, TypeOK
<1>4. TypeOK'
  BY <1>2, <1>3 DEF IInv, TypeOK
<1>5. ASSUME NEW x \in Values \ {v}, value[x].kind # "none", value[x].fd # BadFd
      PROVE  table'[value[x].proc][value[x].fd] = value[x].end
  <2>1. value[x].proc # value[v].proc \/ value[x].fd # value[v].fd
    BY <1>5 DEF IInv, Exclusive, Apart
  <2>2. QED
    BY <1>3, <1>5, <2>1, OfValue
<1>6. RightEnd'
  BY SMT, <1>2, <1>5, NoValueTyped DEF RightEnd
<1>7. QED
  BY <1>2, <1>4, <1>6 DEF IInv

\* The drop of a value that closes nothing.
LEMMA ForgetIInv ==
  ASSUME IInv, NEW v \in Values, Forget(v), UNCHANGED <<alive, table, queue>>,
         lost' \in [Processes -> SUBSET Fds]
  PROVE  IInv'
<1>1. /\ value' \in [Values -> ValueSet] /\ value'[v] = NoValue
      /\ \A x \in Values \ {v} : value'[x] = value[x]
      /\ Shape' /\ Exclusive'
  BY OneValue, NoValueTyped, NoValueWellFormed, NoValueApart DEF Forget
<1>2. TypeOK'
  BY <1>1 DEF IInv, TypeOK
<1>3. RightEnd'
  BY <1>1, NoValueTyped DEF IInv, RightEnd
<1>4. QED
  BY <1>1, <1>2, <1>3 DEF IInv

\* Drop for OsIpcReceiver
LEMMA DropReceiverIInv ==
  ASSUME IInv, NEW v \in Values, DropReceiver(v)
  PROVE  IInv'
<1>1. CASE value[v].fd = BadFd
  <2>1. lost' \in [Processes -> SUBSET Fds]
    BY DEF DropReceiver, IInv, TypeOK
  <2>2. QED
    BY <1>1, <2>1, ForgetIInv DEF DropReceiver
<1>2. CASE value[v].fd # BadFd
  <2>1. value[v].arc = None
    BY OfValue DEF DropReceiver, WellFormed
  <2>2. QED
    BY <1>2, <2>1, CloseIInv DEF DropReceiver
<1>3. QED
  BY <1>1, <1>2

\* The drop of an OsIpcSender: the last of an Arc is the only one with its descriptor.
LEMMA DropSenderIInv ==
  ASSUME IInv, NEW v \in Values, DropSender(v)
  PROVE  IInv'
<1>1. CASE \E w \in Values \ {v} : value[w].arc = value[v].arc
  <2>1. lost' \in [Processes -> SUBSET Fds]
    BY DEF DropSender, IInv, TypeOK
  <2>2. QED
    BY <1>1, <2>1, ForgetIInv DEF DropSender
<1>2. CASE ~\E w \in Values \ {v} : value[w].arc = value[v].arc
  <2>1. value[v].kind # "none" /\ value[v].fd # BadFd
    BY OfValue DEF DropSender, WellFormed
  <2>2. QED
    BY <1>2, <2>1, CloseIInv DEF DropSender
<1>3. QED
  BY <1>1, <1>2

\* Drop for OsOpaqueIpcChannel
LEMMA DropOpaqueIInv ==
  ASSUME IInv, NEW v \in Values, DropOpaque(v)
  PROVE  IInv'
<1>1. value[v].fd \in Fds /\ value[v].proc \in Processes
  BY OfValue DEF DropOpaque, WellFormed
<1>2. lost' \in [Processes -> SUBSET Fds]
  BY <1>1 DEF DropOpaque, IInv, TypeOK
<1>3. QED
  BY <1>2, ForgetIInv DEF DropOpaque

\* to_receiver and to_sender: the descriptor moves from the opaque channel to the new
\* value, and the Arc of a sender is new.
LEMMA DecodeIInv ==
  ASSUME IInv, NEW v \in Values, NEW w \in Values, ToReceiver(v, w) \/ ToSender(v, w)
  PROVE  IInv'
<1>1. /\ value[v] \in ValueSet /\ WellFormed(value[v]) /\ v # w
      /\ value[v].kind = "opaque" /\ value[w].kind = "none" /\ \A x \in Values : value[x].arc # w
  BY OfValue DEF ToReceiver, ToSender, Unused
<1>2. PICK r \in ValueSet :
        /\ value' = [value EXCEPT ![w] = r, ![v] = NoValue]
        /\ r.kind \in {"receiver", "sender"} /\ r.proc = value[v].proc /\ r.fd = value[v].fd
        /\ r.use = value[v].use /\ r.end = value[v].end
        /\ r.arc = IF r.kind = "sender" THEN w ELSE None
  <2>1. value[v].arc = None
    BY <1>1 DEF WellFormed
  <2>2. CASE ToReceiver(v, w)
    <3> DEFINE r == [value[v] EXCEPT !.kind = "receiver"]
    <3>1. /\ r \in ValueSet /\ r.kind = "receiver" /\ r.proc = value[v].proc /\ r.fd = value[v].fd
          /\ r.use = value[v].use /\ r.end = value[v].end /\ r.arc = value[v].arc
      BY <1>1 DEF ValueSet
    <3>2. QED
      BY <2>1, <2>2, <3>1 DEF ToReceiver
  <2>3. CASE ToSender(v, w)
    <3> DEFINE r == [value[v] EXCEPT !.kind = "sender", !.arc = w]
    <3>1. /\ r \in ValueSet /\ r.kind = "sender" /\ r.proc = value[v].proc /\ r.fd = value[v].fd
          /\ r.use = value[v].use /\ r.end = value[v].end /\ r.arc = w
      BY <1>1 DEF ValueSet
    <3>2. QED
      BY <2>3, <3>1 DEF ToSender
  <2>4. QED
    BY <2>2, <2>3
<1>3. WellFormed(r)
  BY <1>1, <1>2, UnixHandlesAssumption DEF WellFormed
<1>4. ASSUME NEW x \in Values \ {w, v} PROVE Apart(r, value[x]) /\ Apart(NoValue, value[x])
  <2>1. Apart(value[v], value[x]) /\ value[v].arc = None
    BY <1>1 DEF IInv, Exclusive, WellFormed
  <2>2. QED
    BY <1>1, <1>2, <2>1, NoValueApart DEF Apart
<1>5. /\ value' \in [Values -> ValueSet] /\ value'[w] = r /\ value'[v] = NoValue
      /\ \A x \in Values \ {w, v} : value'[x] = value[x]
      /\ Shape' /\ Exclusive'
  <2>1. /\ w # v /\ NoValue \in ValueSet /\ WellFormed(NoValue) /\ Apart(r, NoValue)
        /\ \A x \in Values \ {w, v} : Apart(r, value[x]) /\ Apart(NoValue, value[x])
    BY <1>1, <1>4, NoValueTyped, NoValueWellFormed, NoValueApart
  <2>2. QED
    BY <1>2, <1>3, <2>1, TwoValues
<1>6. UNCHANGED <<alive, table, queue, lost>>
  BY DEF ToReceiver, ToSender
<1>7. TypeOK'
  BY <1>5, <1>6 DEF IInv, TypeOK
<1>8. RightEnd'
  BY <1>1, <1>2, <1>5, <1>6, NoValueTyped DEF IInv, RightEnd
<1>9. QED
  BY <1>5, <1>7, <1>8 DEF IInv

\* send(): the message carries the end that the listed value stands for.
LEMMA SendIInv ==
  ASSUME IInv, NEW v \in Values, NEW w \in Values, Send(v, w)
  PROVE  IInv'
<1> DEFINE r == [value[w] EXCEPT !.use = "sent"]
<1>1. /\ value[w] \in ValueSet /\ WellFormed(value[w]) /\ value[w].use = "listed"
      /\ value[w].kind \in {"sender", "receiver"} /\ value[w].fd # BadFd
  BY OfValue DEF Send, CanSend, WellFormed
<1>2. /\ r \in ValueSet /\ r.use = "sent" /\ r.kind = value[w].kind /\ r.proc = value[w].proc
      /\ r.fd = value[w].fd /\ r.arc = value[w].arc /\ r.end = value[w].end
  BY <1>1 DEF ValueSet
<1>3. value' = [value EXCEPT ![w] = r]
  BY DEF Send
<1> HIDE DEF r
<1>4. WellFormed(r) /\ \A x \in Values \ {w} : Apart(r, value[x])
  BY SMT, <1>1, <1>2 DEF IInv, Exclusive, Apart, WellFormed
<1>5. /\ value' \in [Values -> ValueSet] /\ value'[w] = r
      /\ \A x \in Values \ {w} : value'[x] = value[x]
      /\ Shape' /\ Exclusive'
  BY <1>2, <1>3, <1>4, OneValue
<1>6. table[value[w].proc][value[w].fd] \in Ends
  BY <1>1, OfValue
<1>7. queue' \in [Pipes -> Seq(Ends)]
  <2>1. SocketOf(v) \in Pipes
    BY OfValue, EndFacts DEF Send, CanSend, SocketOf, WellFormed
  <2>2. queue[SocketOf(v)] \in Seq(Ends)
    BY <2>1 DEF IInv, TypeOK
  <2>3. Append(queue[SocketOf(v)], table[value[w].proc][value[w].fd]) \in Seq(Ends)
    BY SMT, <1>6, <2>2
  <2>4. QED
    BY <2>3 DEF Send, IInv, TypeOK
<1>8. TypeOK'
  BY <1>5, <1>7 DEF Send, IInv, TypeOK
<1>9. RightEnd'
  BY SMT, <1>1, <1>2, <1>5 DEF Send, IInv, RightEnd
<1>10. QED
  BY <1>5, <1>8, <1>9 DEF IInv

\* recv(): the new descriptor was free, and stands for what the message carries.
LEMMA RecvIInv ==
  ASSUME IInv, NEW v \in Values, NEW w \in Values, Recv(v, w)
  PROVE  IInv'
<1> DEFINE p == value[v].proc
           c == SocketOf(v)
           e == Head(queue[c])
<1>1. p \in Processes /\ value[v].kind = "receiver" /\ value[v].fd # BadFd
  BY OfValue DEF Recv, Usable
<1>2. c \in Pipes
  BY <1>1, OfValue, EndFacts DEF SocketOf
<1>3. e \in Ends /\ Tail(queue[c]) \in Seq(Ends)
  <2>1. queue[c] \in Seq(Ends) /\ queue[c] # <<>>
    BY <1>2 DEF IInv, TypeOK, Recv
  <2>2. QED
    BY SMT, <2>1
<1> HIDE DEF c, e
<1>4. PICK f \in FreeFds(p) :
        /\ table' = [table EXCEPT ![p][f] = e]
        /\ value' = [value EXCEPT ![w] = Value("opaque", p, f, None, e)]
  BY DEF Recv, c, e
<1>5. f \in Fds /\ table[p][f] = NoEnd
  BY DEF FreeFds
<1> HIDE DEF p
<1> DEFINE r == Value("opaque", p, f, None, e)
<1>6. /\ r \in ValueSet /\ r.kind = "opaque" /\ r.proc = p /\ r.fd = f /\ r.arc = None
      /\ r.use = "held" /\ r.end = e
  BY <1>1, <1>3, <1>5 DEF Value, ValueSet
<1> HIDE DEF r
<1>7. WellFormed(r)
  BY <1>1, <1>3, <1>5, <1>6, UnixHandlesAssumption DEF WellFormed
<1>8. ASSUME NEW x \in Values
      PROVE  (value[x].fd # BadFd /\ value[x].proc = p) => value[x].fd # f
  <2>1. CASE value[x].kind = "none"
    BY <2>1, OfValue, NoValueTyped
  <2>2. CASE value[x].kind # "none"
    BY <1>5, <2>2, OfValue, EndFacts
  <2>3. QED
    BY <2>1, <2>2
<1>9. \A x \in Values \ {w} : Apart(r, value[x])
  BY <1>6, <1>8 DEF Apart
<1>10. /\ value' \in [Values -> ValueSet] /\ value'[w] = r
       /\ \A x \in Values \ {w} : value'[x] = value[x]
       /\ Shape' /\ Exclusive'
  BY <1>4, <1>6, <1>7, <1>9, OneValue DEF r
<1>11. /\ table' \in [Processes -> [Fds -> Ends \cup {NoEnd}]] /\ table'[p][f] = e
       /\ \A q \in Processes, h \in Fds : (q # p \/ h # f) => table'[q][h] = table[q][h]
  BY <1>1, <1>3, <1>4, <1>5 DEF IInv, TypeOK
<1>12. TypeOK'
  <2>1. queue' = [queue EXCEPT ![c] = Tail(queue[c])]
    BY DEF Recv, c, IInv, TypeOK
  <2>2. queue' \in [Pipes -> Seq(Ends)]
    BY <1>3, <2>1 DEF IInv, TypeOK
  <2>3. QED
    BY <1>10, <1>11, <2>2 DEF Recv, IInv, TypeOK
<1>13. RightEnd'
  <2>1. \A x \in Values \ {w} : (value[x].kind # "none" /\ value[x].fd # BadFd) =>
          table'[value[x].proc][value[x].fd] = value[x].end
    BY <1>8, <1>11, OfValue
  <2>2. QED
    BY <1>6, <1>10, <1>11, <2>1 DEF RightEnd
<1>14. QED
  BY <1>10, <1>12, <1>13 DEF IInv

\* A descriptor that the kernel drops for want of room touches no value.
LEMMA RecvNoRoomIInv ==
  ASSUME IInv, NEW v \in Values, RecvNoRoom(v)
  PROVE  IInv'
<1>1. SocketOf(v) \in Pipes
  BY OfValue, EndFacts DEF RecvNoRoom, Usable, SocketOf
<1>2. Tail(queue[SocketOf(v)]) \in Seq(Ends)
  <2>1. queue[SocketOf(v)] \in Seq(Ends) /\ queue[SocketOf(v)] # <<>>
    BY <1>1 DEF IInv, TypeOK, RecvNoRoom
  <2>2. QED
    BY SMT, <2>1
<1>3. queue' \in [Pipes -> Seq(Ends)]
  BY <1>2 DEF RecvNoRoom, IInv, TypeOK
<1>4. QED
  BY <1>3 DEF RecvNoRoom, IInv, TypeOK, Shape, Exclusive, RightEnd

\* The end of a process takes its values and descriptors, and no other process's.
LEMMA ExitIInv ==
  ASSUME IInv, NEW p \in Processes, Exit(p)
  PROVE  IInv'
<1>1. /\ value' \in [Values -> ValueSet]
      /\ \A x \in Values : value'[x] = NoValue \/ (value'[x] = value[x] /\ value[x].proc # p)
  BY NoValueTyped DEF Exit, IInv, TypeOK
<1>2. /\ table' \in [Processes -> [Fds -> Ends \cup {NoEnd}]]
      /\ \A q \in Processes \ {p} : table'[q] = table[q]
  BY DEF Exit, IInv, TypeOK
<1>3. TypeOK'
  BY <1>1, <1>2 DEF Exit, IInv, TypeOK
<1>4. Shape'
  BY <1>1, NoValueWellFormed DEF IInv, Shape
<1>5. Exclusive'
  BY <1>1, NoValueApart DEF IInv, Exclusive
<1>6. RightEnd'
  BY SMT, <1>1, <1>2, NoValueTyped, OfValue DEF RightEnd
<1>7. QED
  BY <1>3, <1>4, <1>5, <1>6 DEF IInv

----------------------------------------------------------------------------
\* IInv holds in every behaviour.
LEMMA Invariance == Spec => []IInv
<1>1. Init => IInv
  BY InitIInv
<1>2. IInv /\ [Next]_vars => IInv'
  <2>1. SUFFICES ASSUME IInv, [Next]_vars PROVE IInv'
    OBVIOUS
  <2>2. CASE Next
    BY <2>1, <2>2, ChannelIInv, ExitIInv, CloneIInv, ConsumeIInv, DecodeIInv, SendIInv, RecvIInv,
       DropReceiverIInv, DropSenderIInv, DropOpaqueIInv, RecvNoRoomIInv DEF Next
  <2>3. CASE UNCHANGED vars
    BY <2>1, <2>3 DEF vars, IInv, TypeOK, Shape, Exclusive, RightEnd
  <2>4. QED
    BY <2>1, <2>2, <2>3
<1>3. QED
  BY <1>1, <1>2, PTL DEF Spec

\* In every behaviour a sender, receiver or opaque channel of platform/unix/mod.rs stands
\* for the end of the channel it was made for as long as it exists, whatever other threads
\* and processes open, send and close, and however the numbers are used again.
THEOREM ValuesKeepTheirEnds == Spec => [](TypeOK /\ RightEnd)
<1>1. IInv => TypeOK /\ RightEnd
  BY DEF IInv
<1>2. QED
  BY <1>1, Invariance, PTL

\* Two values share a descriptor only if they are clones of one sender (Arc): closing one
\* of them never closes another thread's channel.
THEOREM DescriptorsApart == Spec => []Exclusive
<1>1. IInv => Exclusive
  BY DEF IInv
<1>2. QED
  BY <1>1, Invariance, PTL

----------------------------------------------------------------------------
(* Owners of descriptors *)

At(v, p, f) == value[v].proc = p /\ value[v].fd = f

Occupied(p, f) == \E v \in Values : At(v, p, f)

\* Receivers stand for receiving ends and senders for sending ends.
Sided ==
  \A v \in Values : /\ value[v].kind = "receiver" => value[v].end.side = "recv"
                    /\ value[v].kind = "sender" => value[v].end.side = "send"

\* An open descriptor is lost or some value has it, never both.
LostOpen == \A p \in Processes : \A f \in lost[p] : table[p][f] # NoEnd /\ ~Occupied(p, f)

Covered ==
  \A p \in Processes, f \in Fds : table[p][f] # NoEnd => f \in lost[p] \/ Occupied(p, f)

Owned == Sided /\ LostOpen /\ Covered

\* A value at a descriptor is one, and the descriptor is open for its end.
LEMMA AtFacts ==
  ASSUME IInv, NEW v \in Values, NEW p \in Processes, NEW f \in Fds, At(v, p, f)
  PROVE  /\ value[v].kind # "none" /\ value[v].fd # BadFd
         /\ table[p][f] = value[v].end /\ table[p][f] # NoEnd
<1>1. value[v].fd # BadFd /\ value[v].proc = p /\ value[v].fd = f
  BY UnixHandlesAssumption DEF At
<1>2. value[v].kind # "none"
  BY <1>1, OfValue, NoValueTyped
<1>3. QED
  BY <1>1, <1>2, OfValue, EndFacts

\* A step that leaves the descriptors alone and moves values among them.
LEMMA MovesOwned ==
  ASSUME Owned, UNCHANGED <<table, lost>>, Sided',
         \A p \in Processes, f \in Fds : Occupied(p, f)' <=> Occupied(p, f), TypeOK
  PROVE  Owned'
<1>1. LostOpen'
  BY DEF Owned, LostOpen, TypeOK
<1>2. Covered'
  BY DEF Owned, Covered
<1>3. QED
  BY <1>1, <1>2 DEF Owned

\* In the initial state each of the two descriptors has its value.
LEMMA InitOwned == Init => Owned
<1>1. SUFFICES ASSUME Init PROVE Owned
  OBVIOUS
<1>2. PICK p \in Processes, q \in Processes, c \in Pipes, f \in Fds, v \in Values, w \in Values :
        /\ p # q /\ v # w
        /\ table = [[x \in Processes |-> [g \in Fds |-> NoEnd]]
                     EXCEPT ![p][f] = End(c, "recv"), ![q][f] = End(c, "send")]
        /\ value = [[x \in Values |-> NoValue] EXCEPT
                      ![v] = Value("receiver", p, f, None, End(c, "recv")),
                      ![w] = Value("sender", q, f, w, End(c, "send"))]
  BY <1>1 DEF Init
<1>3. /\ value[v].kind = "receiver" /\ value[v].end.side = "recv"
      /\ value[v].proc = p /\ value[v].fd = f
      /\ value[w].kind = "sender" /\ value[w].end.side = "send"
      /\ value[w].proc = q /\ value[w].fd = f
      /\ \A x \in Values \ {v, w} : value[x].kind = "none"
  BY <1>2, NoValueTyped DEF Value, End
<1>4. \A x \in Processes, g \in Fds : table[x][g] # NoEnd => g = f /\ x \in {p, q}
  BY <1>2
<1>5. Sided
  BY <1>3 DEF Sided
<1>6. LostOpen
  BY <1>1 DEF Init, LostOpen
<1>7. Covered
  BY <1>3, <1>4 DEF Covered, Occupied, At
<1>8. QED
  BY <1>5, <1>6, <1>7 DEF Owned

\* channel(): two descriptors are opened, each with its value.
LEMMA ChannelOwned ==
  ASSUME IInv, Owned, NEW p \in Processes, NEW c \in Pipes, NEW v \in Values, NEW w \in Values,
         Channel(p, c, v, w)
  PROVE  Owned'
<1>1. PICK f \in FreeFds(p), g \in FreeFds(p) :
        /\ f # g
        /\ table' = [table EXCEPT ![p][f] = End(c, "send"), ![p][g] = End(c, "recv")]
        /\ value' = [value EXCEPT ![v] = Value("sender", p, f, v, End(c, "send")),
                                  ![w] = Value("receiver", p, g, None, End(c, "recv"))]
  BY DEF Channel
<1>2. f \in Fds /\ g \in Fds /\ table[p][f] = NoEnd /\ table[p][g] = NoEnd
  BY DEF FreeFds
<1>3. /\ value'[v].kind = "sender" /\ value'[v].end.side = "send"
      /\ value'[v].proc = p /\ value'[v].fd = f
      /\ value'[w].kind = "receiver" /\ value'[w].end.side = "recv"
      /\ value'[w].proc = p /\ value'[w].fd = g
      /\ \A x \in Values \ {v, w} : value'[x] = value[x]
  BY <1>1 DEF Channel, IInv, TypeOK, Value, End
<1>4. /\ table'[p][f] # NoEnd /\ table'[p][g] # NoEnd
      /\ \A q \in Processes, h \in Fds : (q # p \/ h \notin {f, g}) => table'[q][h] = table[q][h]
  BY <1>1, <1>2, EndFacts DEF IInv, TypeOK
<1>5. value[v].fd = BadFd /\ value[w].fd = BadFd
  BY OfValue, NoValueTyped DEF Channel, Unused
<1>6. \A q \in Processes, h \in Fds :
        Occupied(q, h)' <=> Occupied(q, h) \/ (q = p /\ h \in {f, g})
  BY SMT, <1>2, <1>3, <1>5, UnixHandlesAssumption DEF Occupied, At
<1>7. lost' = lost /\ \A q \in Processes : lost[q] \subseteq Fds
  BY DEF Channel, IInv, TypeOK
<1>8. Sided'
  BY <1>3 DEF Owned, Sided
<1>9. LostOpen'
  BY SMT, <1>2, <1>4, <1>6, <1>7 DEF Owned, LostOpen
<1>10. Covered'
  BY <1>2, <1>4, <1>6, <1>7 DEF Owned, Covered
<1>11. QED
  BY <1>8, <1>9, <1>10 DEF Owned

\* OsIpcSender::clone: the descriptor is that of the original.
LEMMA CloneOwned ==
  ASSUME IInv, Owned, NEW v \in Values, NEW w \in Values, Clone(v, w)
  PROVE  Owned'
<1>1. PICK use \in {"held", "listed"} : value' = [value EXCEPT ![w] = [value[v] EXCEPT !.use = use]]
  BY DEF Clone
<1>2. value[v] \in ValueSet /\ v # w
  BY OfValue DEF Clone, Unused
<1>3. /\ value'[w].kind = value[v].kind /\ value'[w].proc = value[v].proc
      /\ value'[w].fd = value[v].fd /\ value'[w].end = value[v].end
      /\ \A x \in Values \ {w} : value'[x] = value[x]
  BY <1>1, <1>2 DEF IInv, TypeOK, ValueSet
<1>4. value[w].fd = BadFd
  BY OfValue, NoValueTyped DEF Clone, Unused
<1>5. \A q \in Processes, h \in Fds : Occupied(q, h)' <=> Occupied(q, h)
  BY <1>2, <1>3, <1>4, UnixHandlesAssumption DEF Occupied, At
<1>6. Sided'
  BY <1>3 DEF Owned, Sided
<1>7. QED
  BY <1>5, <1>6, MovesOwned DEF Clone, IInv

\* OsIpcReceiver::consume: the descriptor moves from one value to the other.
LEMMA ConsumeOwned ==
  ASSUME IInv, Owned, NEW v \in Values, NEW w \in Values, Consume(v, w)
  PROVE  Owned'
<1>1. PICK use \in {"held", "listed"} :
        value' = [value EXCEPT ![w] = [value[v] EXCEPT !.use = use], ![v].fd = BadFd]
  BY DEF Consume
<1>2. value[v] \in ValueSet /\ v # w
  BY OfValue DEF Consume, Usable, Unused
<1>3. /\ value'[w].kind = value[v].kind /\ value'[w].proc = value[v].proc
      /\ value'[w].fd = value[v].fd /\ value'[w].end = value[v].end
      /\ value'[v].kind = value[v].kind /\ value'[v].fd = BadFd /\ value'[v].end = value[v].end
      /\ \A x \in Values \ {v, w} : value'[x] = value[x]
  BY <1>1, <1>2 DEF IInv, TypeOK, ValueSet
<1>4. value[w].fd = BadFd
  BY OfValue, NoValueTyped DEF Consume, Unused
<1>5. \A q \in Processes, h \in Fds : Occupied(q, h)' <=> Occupied(q, h)
  BY SMT, <1>2, <1>3, <1>4, UnixHandlesAssumption DEF Occupied, At
<1>6. Sided'
  BY SMT, <1>3 DEF Owned, Sided
<1>7. QED
  BY <1>5, <1>6, MovesOwned DEF Consume, IInv
\* The drop of the last value at a descriptor, which it closes.
LEMMA CloseOwned ==
  ASSUME IInv, Owned, NEW v \in Values, value[v].kind # "none", value[v].fd # BadFd,
         Forget(v), CloseFd(v), UNCHANGED <<alive, queue, lost>>,
         \A x \in Values \ {v} : value[x].arc = None \/ value[x].arc # value[v].arc
  PROVE  Owned'
<1> DEFINE p == value[v].proc
           f == value[v].fd
<1>1. p \in Processes /\ f \in Fds
  BY OfValue
<1>2. value'[v] = NoValue /\ \A x \in Values \ {v} : value'[x] = value[x]
  BY DEF Forget, IInv, TypeOK
<1>3. /\ table'[p][f] = NoEnd
      /\ \A q \in Processes, h \in Fds : (q # p \/ h # f) => table'[q][h] = table[q][h]
  BY <1>1 DEF CloseFd, IInv, TypeOK
<1>4. At(v, p, f)
  BY DEF At
<1>5. \A x \in Values \ {v} : ~At(x, p, f)
  BY DEF IInv, Exclusive, Apart, At
<1> HIDE DEF p, f
<1>6. \A q \in Processes, h \in Fds : Occupied(q, h)' <=> Occupied(q, h) /\ (q # p \/ h # f)
  BY SMT, <1>2, <1>4, <1>5, NoValueTyped, UnixHandlesAssumption DEF Occupied, At
<1>7. lost' = lost /\ f \notin lost[p] /\ \A q \in Processes : lost[q] \subseteq Fds
  BY <1>1, <1>4 DEF Owned, LostOpen, Occupied, IInv, TypeOK
<1>8. Sided'
  BY <1>2, NoValueTyped DEF Owned, Sided
<1>9. LostOpen'
  BY SMT, <1>1, <1>3, <1>6, <1>7 DEF Owned, LostOpen
<1>10. Covered'
  BY <1>1, <1>3, <1>6, <1>7 DEF Owned, Covered
<1>11. QED
  BY <1>8, <1>9, <1>10 DEF Owned

\* Drop for OsIpcReceiver
LEMMA DropReceiverOwned ==
  ASSUME IInv, Owned, NEW v \in Values, DropReceiver(v)
  PROVE  Owned'
<1>1. CASE value[v].fd = BadFd
  <2>1. value'[v] = NoValue /\ \A x \in Values \ {v} : value'[x] = value[x]
    BY DEF DropReceiver, Forget, IInv, TypeOK
  <2>2. \A q \in Processes, h \in Fds : Occupied(q, h)' <=> Occupied(q, h)
    BY <1>1, <2>1, NoValueTyped, UnixHandlesAssumption DEF Occupied, At
  <2>3. Sided'
    BY <2>1, NoValueTyped DEF Owned, Sided
  <2>4. QED
    BY <1>1, <2>2, <2>3, MovesOwned DEF DropReceiver, IInv
<1>2. CASE value[v].fd # BadFd
  <2>1. value[v].arc = None
    BY OfValue DEF DropReceiver, WellFormed
  <2>2. QED
    BY <1>2, <2>1, CloseOwned DEF DropReceiver
<1>3. QED
  BY <1>1, <1>2

\* The drop of an OsIpcSender: a clone of it still has the descriptor, or it is closed.
LEMMA DropSenderOwned ==
  ASSUME IInv, Owned, NEW v \in Values, DropSender(v)
  PROVE  Owned'
<1>1. value[v].kind # "none" /\ value[v].fd # BadFd /\ value[v].arc # None
  BY OfValue DEF DropSender, WellFormed
<1>2. ASSUME NEW w \in Values \ {v}, value[w].arc = value[v].arc PROVE Owned'
  <2>1. value'[v] = NoValue /\ \A x \in Values \ {v} : value'[x] = value[x]
    BY DEF DropSender, Forget, IInv, TypeOK
  <2>2. value[w].proc = value[v].proc /\ value[w].fd = value[v].fd
    BY <1>1, <1>2 DEF IInv, Exclusive, Apart
  <2>3. \A q \in Processes, h \in Fds : Occupied(q, h)' <=> Occupied(q, h)
    BY SMT, <2>1, <2>2, NoValueTyped, UnixHandlesAssumption DEF Occupied, At
  <2>4. Sided'
    BY <2>1, NoValueTyped DEF Owned, Sided
  <2>5. QED
    BY <1>2, <2>3, <2>4, MovesOwned DEF DropSender, IInv
<1>3. CASE ~\E w \in Values \ {v} : value[w].arc = value[v].arc
  BY <1>1, <1>3, CloseOwned DEF DropSender
<1>4. QED
  BY <1>2, <1>3

\* Drop for OsOpaqueIpcChannel: the descriptor stays open, and is lost from now on.
LEMMA DropOpaqueOwned ==
  ASSUME IInv, Owned, NEW v \in Values, DropOpaque(v)
  PROVE  Owned'
<1> DEFINE p == value[v].proc
           f == value[v].fd
<1>1. /\ p \in Processes /\ f \in Fds /\ value[v].kind # "none" /\ value[v].fd # BadFd
      /\ value[v].arc = None
  BY OfValue DEF DropOpaque, WellFormed
<1>2. value'[v] = NoValue /\ \A x \in Values \ {v} : value'[x] = value[x]
  BY DEF DropOpaque, Forget, IInv, TypeOK
<1>3. At(v, p, f)
  BY DEF At
<1>4. \A x \in Values \ {v} : ~At(x, p, f)
  BY <1>1 DEF IInv, Exclusive, Apart, At
<1>5. table[p][f] # NoEnd /\ table' = table
  BY <1>1, <1>3, AtFacts DEF DropOpaque
<1>6. lost'[p] = lost[p] \cup {f} /\ \A q \in Processes \ {p} : lost'[q] = lost[q]
  BY <1>1 DEF DropOpaque, IInv, TypeOK
<1> HIDE DEF p, f
<1>7. \A q \in Processes, h \in Fds : Occupied(q, h)' <=> Occupied(q, h) /\ (q # p \/ h # f)
  BY <1>2, <1>3, <1>4, NoValueTyped, UnixHandlesAssumption DEF Occupied, At
<1>8. Sided'
  BY <1>2, NoValueTyped DEF Owned, Sided
<1>9. LostOpen'
  BY <1>1, <1>5, <1>6, <1>7 DEF Owned, LostOpen, IInv, TypeOK
<1>10. Covered'
  BY <1>1, <1>5, <1>6, <1>7 DEF Owned, Covered
<1>11. QED
  BY <1>8, <1>9, <1>10 DEF Owned

\* to_receiver and to_sender: the descriptor moves to the new value, which is of the kind
\* that the end has.
LEMMA DecodeOwned ==
  ASSUME IInv, Owned, NEW v \in Values, NEW w \in Values, ToReceiver(v, w) \/ ToSender(v, w)
  PROVE  Owned'
<1>1. value[v] \in ValueSet /\ v # w /\ value[w].fd = BadFd
  BY OfValue, NoValueTyped DEF ToReceiver, ToSender, Unused
<1>2. /\ value'[w].kind = (IF value[v].end.side = "recv" THEN "receiver" ELSE "sender")
      /\ value'[w].end = value[v].end /\ value[v].end.side \in {"recv", "send"}
      /\ value'[w].proc = value[v].proc /\ value'[w].fd = value[v].fd
      /\ value'[v] = NoValue
      /\ \A x \in Values \ {v, w} : value'[x] = value[x]
  <2>1. CASE ToReceiver(v, w)
    BY <1>1, <2>1 DEF ToReceiver, IInv, TypeOK, ValueSet
  <2>2. CASE ToSender(v, w)
    BY <1>1, <2>2 DEF ToSender, IInv, TypeOK, ValueSet
  <2>3. QED
    BY <2>1, <2>2
<1>3. \A q \in Processes, h \in Fds : Occupied(q, h)' <=> Occupied(q, h)
  BY SMT, <1>1, <1>2, NoValueTyped, UnixHandlesAssumption DEF Occupied, At
<1>4. Sided'
  BY <1>2, NoValueTyped DEF Owned, Sided
<1>5. QED
  BY <1>3, <1>4, MovesOwned DEF ToReceiver, ToSender, IInv
\* send(): the value that was listed keeps its descriptor until it is dropped.
LEMMA SendOwned ==
  ASSUME IInv, Owned, NEW v \in Values, NEW w \in Values, Send(v, w)
  PROVE  Owned'
<1>1. value[w] \in ValueSet
  BY OfValue
<1>2. /\ value'[w].kind = value[w].kind /\ value'[w].proc = value[w].proc
      /\ value'[w].fd = value[w].fd /\ value'[w].end = value[w].end
      /\ \A x \in Values \ {w} : value'[x] = value[x]
  BY <1>1 DEF Send, IInv, TypeOK, ValueSet
<1>3. \A q \in Processes, h \in Fds : Occupied(q, h)' <=> Occupied(q, h)
  BY <1>2 DEF Occupied, At
<1>4. Sided'
  BY SMT, <1>2 DEF Owned, Sided
<1>5. QED
  BY <1>3, <1>4, MovesOwned DEF Send, IInv

\* recv(): a descriptor is opened for the opaque channel.
LEMMA RecvOwned ==
  ASSUME IInv, IInv', Owned, NEW v \in Values, NEW w \in Values, Recv(v, w)
  PROVE  Owned'
<1> DEFINE p == value[v].proc
           e == Head(queue[SocketOf(v)])
<1>1. p \in Processes
  BY OfValue DEF Recv, Usable
<1>2. PICK f \in FreeFds(p) :
        /\ table' = [table EXCEPT ![p][f] = e]
        /\ value' = [value EXCEPT ![w] = Value("opaque", p, f, None, e)]
  BY DEF Recv
<1> HIDE DEF e
<1>3. f \in Fds /\ table[p][f] = NoEnd
  BY DEF FreeFds
<1>4. /\ value'[w].kind = "opaque" /\ value'[w].proc = p /\ value'[w].fd = f
      /\ \A x \in Values \ {w} : value'[x] = value[x]
  BY <1>2 DEF IInv, TypeOK, Value
<1>5. \A q \in Processes, h \in Fds : (q # p \/ h # f) => table'[q][h] = table[q][h]
  BY <1>1, <1>2, <1>3 DEF IInv, TypeOK
<1>6. table'[p][f] # NoEnd
  <2>1. value'[w].end \in Ends
    BY <1>4 DEF IInv, Shape, WellFormed
  <2>2. table'[p][f] = value'[w].end
    BY <1>3, <1>4, UnixHandlesAssumption DEF IInv, RightEnd
  <2>3. QED
    BY <2>1, <2>2, EndFacts
<1>7. value[w].fd = BadFd
  BY OfValue, NoValueTyped DEF Recv, Unused
<1> HIDE DEF p
<1>8. \A q \in Processes, h \in Fds : Occupied(q, h)' <=> Occupied(q, h) \/ (q = p /\ h = f)
  BY <1>3, <1>4, <1>7, UnixHandlesAssumption DEF Occupied, At
<1>9. lost' = lost /\ \A q \in Processes : lost[q] \subseteq Fds
  BY DEF Recv, IInv, TypeOK
<1>10. Sided'
  BY <1>4 DEF Owned, Sided
<1>11. LostOpen'
  BY SMT, <1>1, <1>3, <1>5, <1>6, <1>8, <1>9 DEF Owned, LostOpen
<1>12. Covered'
  BY <1>1, <1>3, <1>5, <1>6, <1>8, <1>9 DEF Owned, Covered
<1>13. QED
  BY <1>10, <1>11, <1>12 DEF Owned

\* The end of a process closes its descriptors and takes its values.
LEMMA ExitOwned ==
  ASSUME IInv, Owned, NEW p \in Processes, Exit(p)
  PROVE  Owned'
<1>1. \A x \in Values : value'[x] = IF value[x].proc = p THEN NoValue ELSE value[x]
  BY DEF Exit, IInv, TypeOK
<1>2. /\ \A f \in Fds : table'[p][f] = NoEnd
      /\ \A q \in Processes \ {p} : table'[q] = table[q] /\ lost'[q] = lost[q]
      /\ lost'[p] = {}
  BY DEF Exit, IInv, TypeOK
<1>3. \A q \in Processes, h \in Fds : Occupied(q, h)' <=> Occupied(q, h) /\ q # p
  BY <1>1, NoValueTyped, UnixHandlesAssumption DEF Occupied, At
<1>4. Sided'
  BY <1>1, NoValueTyped DEF Owned, Sided
<1>5. LostOpen'
  BY SMT, <1>2, <1>3 DEF Owned, LostOpen, IInv, TypeOK
<1>6. Covered'
  BY <1>2, <1>3 DEF Owned, Covered
<1>7. QED
  BY <1>4, <1>5, <1>6 DEF Owned

\* Every step keeps the owners of descriptors.
LEMMA NextOwned ==
  ASSUME IInv, IInv', Owned, [Next]_vars
  PROVE  Owned'
<1>1. ASSUME NEW v \in Values, RecvNoRoom(v) PROVE Owned'
  BY SMT, <1>1 DEF RecvNoRoom, Owned, Sided, LostOpen, Covered, Occupied, At
<1>2. CASE UNCHANGED vars
  BY SMT, <1>2 DEF vars, Owned, Sided, LostOpen, Covered, Occupied, At
<1>3. CASE Next
  BY <1>1, <1>3, ChannelOwned, ExitOwned, CloneOwned, ConsumeOwned, DecodeOwned, SendOwned, RecvOwned,
     DropReceiverOwned, DropSenderOwned, DropOpaqueOwned DEF Next
<1>4. QED
  BY <1>2, <1>3

\* The number of owners of a descriptor: with values at it, they are one value, or senders
\* of one Arc.
LEMMA OneOwner ==
  ASSUME IInv, Owned, NEW p \in Processes, NEW f \in Fds
  PROVE  Owners(p, f) = (IF table[p][f] = NoEnd THEN 0 ELSE 1)
<1> DEFINE users == {v \in Values : value[v].proc = p /\ value[v].fd = f}
           single == {v \in users : value[v].kind # "sender"}
           arcs == {value[v].arc : v \in {u \in users : value[u].kind = "sender"}}
<1>1. Owners(p, f) = Cardinality(single) + Cardinality(arcs) + Cardinality({f} \cap lost[p])
  BY DEF Owners
<1>2. \A x \in users : /\ table[p][f] # NoEnd
                       /\ value[x].arc # None <=> value[x].kind = "sender"
  BY AtFacts, OfValue DEF At, WellFormed
<1>3. \A x, y \in users : x # y => value[x].arc # None /\ value[x].arc = value[y].arc
  BY SMT, UnixHandlesAssumption DEF IInv, Exclusive, Apart
<1>4. users = {} <=> ~Occupied(p, f)
  BY DEF Occupied, At
<1>5. CASE users = {}
  <2>1. single = {} /\ arcs = {}
    BY <1>5
  <2>2. {f} \cap lost[p] = IF table[p][f] = NoEnd THEN {} ELSE {f}
    BY <1>4, <1>5 DEF Owned, LostOpen, Covered
  <2>3. /\ Cardinality(single) = 0 /\ Cardinality(arcs) = 0
        /\ Cardinality({f} \cap lost[p]) = IF table[p][f] = NoEnd THEN 0 ELSE 1
    BY <2>1, <2>2, FS_EmptySet, FS_Singleton
  <2> HIDE DEF single, arcs
  <2>4. QED
    BY SMT, <1>1, <2>3
<1>6. ASSUME NEW x \in users PROVE Owners(p, f) = 1
  <2>1. {f} \cap lost[p] = {}
    BY <1>4, <1>6 DEF Owned, LostOpen
  <2>2. CASE value[x].kind = "sender"
    <3>1. \A y \in users : value[y].kind = "sender" /\ value[y].arc = value[x].arc
      BY <1>2, <1>3, <1>6, <2>2
    <3>2. single = {} /\ arcs = {value[x].arc}
      BY <1>6, <2>2, <3>1
    <3>3. Cardinality(single) = 0 /\ Cardinality(arcs) = 1 /\ Cardinality({f} \cap lost[p]) = 0
      BY <2>1, <3>2, FS_EmptySet, FS_Singleton
    <3> HIDE DEF single, arcs
    <3>4. QED
      BY SMT, <1>1, <3>3
  <2>3. CASE value[x].kind # "sender"
    <3>1. users = {x}
      BY <1>2, <1>3, <1>6, <2>3
    <3>2. single = {x} /\ arcs = {}
      BY <2>3, <3>1
    <3>3. Cardinality(single) = 1 /\ Cardinality(arcs) = 0 /\ Cardinality({f} \cap lost[p]) = 0
      BY <2>1, <3>2, FS_EmptySet, FS_Singleton
    <3> HIDE DEF single, arcs
    <3>4. QED
      BY SMT, <1>1, <3>3
  <2>4. QED
    BY <2>2, <2>3
<1>7. QED
  BY <1>2, <1>5, <1>6
----------------------------------------------------------------------------
(* What the kernel keeps *)

\* An end is determined by its channel and its side.
LEMMA EndOf ==
  /\ \A e \in Ends : e = End(e.pipe, e.side)
  /\ \A c, d \in Pipes : /\ End(c, "recv") = End(d, "recv") => c = d
                         /\ End(c, "recv") # End(d, "send")
                         /\ End(c, "recv").side = "recv" /\ End(c, "send").side = "send"
BY SMT DEF Ends, End

\* What a descriptor refers to is kept.
LEMMA LiveTable ==
  ASSUME NEW p \in Processes, NEW f \in Fds, table[p][f] \in Ends
  PROVE  Live(table[p][f])
BY DEF Live, Kept

\* What is in a message of a socket that is kept is kept.
LEMMA LiveQueue ==
  ASSUME NEW d \in Pipes, Live(End(d, "recv")), NEW i \in DOMAIN queue[d]
  PROVE  Live(queue[d][i])
<1>1. SUFFICES ASSUME NEW S \in SUBSET Ends, Kept(S) PROVE queue[d][i] \in S
  BY DEF Live
<1>2. End(d, "recv") \in S
  BY <1>1 DEF Live
<1>3. QED
  BY <1>1, <1>2 DEF Kept

\* Nothing else is kept.
LEMMA LiveCases ==
  ASSUME NEW e \in Ends, Live(e), TypeOK
  PROVE  \/ \E p \in Processes, f \in Fds : table[p][f] = e
         \/ \E d \in Pipes : Live(End(d, "recv")) /\ \E i \in DOMAIN queue[d] : queue[d][i] = e
<1> DEFINE S == {x \in Ends : \/ \E p \in Processes, f \in Fds : table[p][f] = x
                              \/ \E d \in Pipes : /\ Live(End(d, "recv"))
                                                  /\ \E i \in DOMAIN queue[d] : queue[d][i] = x}
<1>1. ASSUME NEW d \in Pipes, End(d, "recv") \in S, NEW i \in DOMAIN queue[d]
      PROVE  queue[d][i] \in S
  <2>1. Live(End(d, "recv"))
    <3>1. CASE \E p \in Processes, f \in Fds : table[p][f] = End(d, "recv")
      BY <3>1, LiveTable, EndFacts
    <3>2. CASE \E b \in Pipes : /\ Live(End(b, "recv"))
                                /\ \E j \in DOMAIN queue[b] : queue[b][j] = End(d, "recv")
      BY <3>2, LiveQueue
    <3>3. QED
      BY <1>1, <3>1, <3>2
  <2>2. queue[d][i] \in Ends
    BY SMT, <1>1 DEF TypeOK
  <2>3. QED
    BY <1>1, <2>1, <2>2
<1>2. Kept(S)
  BY <1>1 DEF Kept
<1>3. S \in SUBSET Ends
  OBVIOUS
<1>4. e \in S
  BY <1>2, <1>3 DEF Live
<1>5. QED
  BY <1>4

\* The end of a channel is reported exactly when no sender is left, because an open
\* descriptor has an owner and the value at it is for the end it refers to.
LEMMA EndIsExact == IInv /\ Owned => EndExact
<1>1. SUFFICES ASSUME IInv, Owned, NEW c \in Pipes
      PROVE  LET e == End(c, "send")
             IN  Live(e) <=>
                   \/ \E v \in Values : value[v].kind \in {"sender", "opaque"} /\ value[v].end = e
                   \/ \E d \in Pipes : Live(End(d, "recv")) /\ \E i \in DOMAIN queue[d] : queue[d][i] = e
                   \/ \E p \in Processes : \E f \in lost[p] : table[p][f] = e
  BY DEF EndExact
<1> DEFINE e == End(c, "send")
<1>2. e \in Ends /\ e # NoEnd /\ e.side = "send"
  BY EndFacts, EndOf
<1> HIDE DEF e
<1>3. ASSUME NEW v \in Values, value[v].kind \in {"sender", "opaque"}, value[v].end = e PROVE Live(e)
  <2>1. value[v].fd \in Fds /\ value[v].proc \in Processes
    BY <1>1, <1>3, OfValue DEF WellFormed
  <2>2. table[value[v].proc][value[v].fd] = e
    BY <1>1, <1>3, <2>1, OfValue, UnixHandlesAssumption
  <2>3. QED
    BY <1>2, <2>1, <2>2, LiveTable
<1>4. ASSUME NEW p \in Processes, NEW f \in lost[p], table[p][f] = e PROVE Live(e)
  BY <1>1, <1>2, <1>4, LiveTable DEF IInv, TypeOK
<1>5. ASSUME NEW p \in Processes, NEW f \in Fds, table[p][f] = e
      PROVE  \/ \E v \in Values : value[v].kind \in {"sender", "opaque"} /\ value[v].end = e
             \/ f \in lost[p]
  <2>1. SUFFICES ASSUME f \notin lost[p]
        PROVE  \E v \in Values : value[v].kind \in {"sender", "opaque"} /\ value[v].end = e
    OBVIOUS
  <2>2. PICK v \in Values : At(v, p, f)
    BY <1>1, <1>2, <1>5, <2>1 DEF Owned, Covered, Occupied
  <2>3. value[v].kind # "none" /\ value[v].end = e
    BY <1>1, <1>5, <2>2, AtFacts
  <2>4. value[v].kind # "receiver"
    BY <1>1, <1>2, <2>3 DEF Owned, Sided
  <2>5. value[v].kind \in {"none", "sender", "receiver", "opaque"}
    BY <1>1, OfValue DEF ValueSet
  <2>6. QED
    BY <2>3, <2>4, <2>5
<1>6. QED
  BY SMT, <1>1, <1>2, <1>3, <1>4, <1>5, LiveQueue, LiveCases DEF IInv, e
----------------------------------------------------------------------------
(* One receiver *)

\* Value v has the receiving end of c; the i-th message of socket d has it, and can be
\* received.
Held(v, c) ==
  /\ value[v].kind \in {"receiver", "opaque"} /\ value[v].fd # BadFd
  /\ value[v].use # "sent" /\ value[v].end = End(c, "recv")

Carried(d, i, c) ==
  i \in DOMAIN queue[d] /\ queue[d][i] = End(c, "recv") /\ Live(End(d, "recv"))

\* No two places have the receiving end of one channel.
SingleHolder == \A c \in Pipes, v, w \in Values : Held(v, c) /\ Held(w, c) => v = w

HolderOrMessage ==
  \A c, d \in Pipes, v \in Values, i \in Nat : ~(Held(v, c) /\ Carried(d, i, c))

SingleMessage ==
  \A c, d, b \in Pipes, i, j \in Nat : Carried(d, i, c) /\ Carried(b, j, c) => d = b /\ i = j

Single == SingleHolder /\ HolderOrMessage /\ SingleMessage

\* A step that makes no new place keeps the receivers single.
LEMMA FewerPlaces ==
  ASSUME Single,
         \A c \in Pipes, v \in Values : Held(v, c)' => Held(v, c),
         \A c, d \in Pipes, i \in Nat : Carried(d, i, c)' => Carried(d, i, c)
  PROVE  Single'
BY SMT DEF Single, SingleHolder, HolderOrMessage, SingleMessage

\* A step that moves the end from v to w, and touches no message, keeps them single.
LEMMA MovedPlace ==
  ASSUME Single, NEW v \in Values, NEW w \in Values, v # w,
         \A c \in Pipes, x \in Values : Held(x, c)' => (x = w /\ Held(v, c)) \/ (x # v /\ x # w /\ Held(x, c)),
         \A c, d \in Pipes, i \in Nat : Carried(d, i, c)' => Carried(d, i, c)
  PROVE  Single'
BY SMT DEF Single, SingleHolder, HolderOrMessage, SingleMessage

\* When every set that may be kept still may be, with the ends in N, nothing but N becomes
\* live.
LEMMA LiveAfter ==
  ASSUME NEW N \in SUBSET Ends, \A S \in SUBSET Ends : Kept(S) => Kept(S \cup N)',
         NEW e, Live(e)'
  PROVE  Live(e) \/ e \in N
<1>1. SUFFICES ASSUME e \notin N, NEW S \in SUBSET Ends, Kept(S) PROVE e \in S
  BY DEF Live
<1>2. S \cup N \in SUBSET Ends /\ Kept(S \cup N)'
  BY <1>1
<1>3. e \in S \cup N
  BY <1>2 DEF Live
<1>4. QED
  BY <1>1, <1>3

\* The same without new ends.
LEMMA LiveShrinks ==
  ASSUME \A S \in SUBSET Ends : Kept(S) => Kept(S)', NEW e, Live(e)'
  PROVE  Live(e)
<1>1. SUFFICES ASSUME NEW S \in SUBSET Ends, Kept(S) PROVE e \in S
  BY DEF Live
<1>2. Kept(S)'
  BY <1>1
<1>3. QED
  BY <1>1, <1>2 DEF Live

\* A step that closes descriptors and leaves the messages alone.
LEMMA ClosingCarries ==
  ASSUME \A p \in Processes, f \in Fds : table'[p][f] \in Ends => table'[p][f] = table[p][f],
         UNCHANGED queue
  PROVE  \A c, d \in Pipes, i \in Nat : Carried(d, i, c)' => Carried(d, i, c)
<1>1. \A S \in SUBSET Ends : Kept(S) => Kept(S)'
  BY DEF Kept
<1>2. ASSUME NEW d \in Pipes, Live(End(d, "recv"))' PROVE Live(End(d, "recv"))
  BY <1>1, <1>2, LiveShrinks
<1>3. QED
  BY <1>2 DEF Carried

\* The receiving end that a receiver has is live, and it is that of its socket.
LEMMA ReceiverLive ==
  ASSUME IInv, Owned, NEW v \in Values, Usable(v)
  PROVE  /\ SocketOf(v) \in Pipes /\ value[v].proc \in Processes /\ value[v].fd \in Fds
         /\ table[value[v].proc][value[v].fd] = End(SocketOf(v), "recv")
         /\ Live(End(SocketOf(v), "recv"))
<1>1. /\ value[v].proc \in Processes /\ value[v].fd \in Fds /\ value[v].end \in Ends
      /\ table[value[v].proc][value[v].fd] = value[v].end /\ value[v].end.side = "recv"
  BY OfValue DEF Usable, Owned, Sided
<1>2. SocketOf(v) = value[v].end.pipe
  BY <1>1 DEF SocketOf
<1>3. value[v].end = End(SocketOf(v), "recv") /\ SocketOf(v) \in Pipes
  BY <1>1, <1>2, EndOf, EndFacts
<1>4. QED
  BY <1>1, <1>3, LiveTable

\* In the initial state there is one receiver, and no message.
LEMMA InitSingle == Init => Single
<1>1. SUFFICES ASSUME Init PROVE Single
  OBVIOUS
<1>2. PICK p \in Processes, q \in Processes, c \in Pipes, f \in Fds, v \in Values, w \in Values :
        /\ p # q /\ v # w
        /\ table = [[x \in Processes |-> [g \in Fds |-> NoEnd]]
                     EXCEPT ![p][f] = End(c, "recv"), ![q][f] = End(c, "send")]
        /\ value = [[x \in Values |-> NoValue] EXCEPT
                      ![v] = Value("receiver", p, f, None, End(c, "recv")),
                      ![w] = Value("sender", q, f, w, End(c, "send"))]
  BY <1>1 DEF Init
<1>3. /\ value[w].kind = "sender"
      /\ \A x \in Values \ {v, w} : value[x].kind = "none"
  BY <1>2, NoValueTyped DEF Value
<1>4. \A d \in Pipes : DOMAIN queue[d] = {}
  BY SMT, <1>1 DEF Init
<1>5. QED
  BY <1>2, <1>3, <1>4 DEF Single, SingleHolder, HolderOrMessage, SingleMessage, Held, Carried

\* channel(): neither end of the socket pair was live, so that nothing had the old
\* receiving end; only the new receiver has the new one.
LEMMA ChannelSingle ==
  ASSUME IInv, Owned, Single, NEW p \in Processes, NEW c \in Pipes, NEW v \in Values,
         NEW w \in Values, Channel(p, c, v, w)
  PROVE  Single'
<1>1. PICK f \in FreeFds(p), g \in FreeFds(p) :
        /\ f # g
        /\ table' = [table EXCEPT ![p][f] = End(c, "send"), ![p][g] = End(c, "recv")]
        /\ value' = [value EXCEPT ![v] = Value("sender", p, f, v, End(c, "send")),
                                  ![w] = Value("receiver", p, g, None, End(c, "recv"))]
  BY DEF Channel
<1>2. f \in Fds /\ g \in Fds
  BY DEF FreeFds
<1>3. /\ value'[v].kind = "sender" /\ value'[w].end = End(c, "recv")
      /\ \A x \in Values \ {v, w} : value'[x] = value[x]
  BY <1>1 DEF Channel, IInv, TypeOK, Value
<1>4. queue'[c] = <<>> /\ \A d \in Pipes \ {c} : queue'[d] = queue[d]
  BY DEF Channel, IInv, TypeOK
<1> DEFINE N == {End(c, "send"), End(c, "recv")}
<1>5. ASSUME NEW S \in SUBSET Ends, Kept(S) PROVE Kept(S \cup N)'
  <2>1. \A q \in Processes, h \in Fds : table'[q][h] \in {table[q][h]} \cup N
    BY <1>1, <1>2 DEF IInv, TypeOK
  <2>2. \A d \in Pipes \ {c} : End(d, "recv") \in S \cup N => End(d, "recv") \in S
    BY EndOf
  <2>3. QED
    BY SMT, <1>4, <1>5, <2>1, <2>2 DEF Kept
<1>6. ASSUME NEW d \in Pipes, d # c, Live(End(d, "recv"))' PROVE Live(End(d, "recv"))
  <2>1. N \in SUBSET Ends /\ End(d, "recv") \notin N
    BY SMT, <1>6, EndFacts, EndOf
  <2> HIDE DEF N
  <2>2. QED
    BY <1>5, <1>6, <2>1, LiveAfter
<1>7. ASSUME NEW b \in Pipes, NEW d \in Pipes, NEW i \in Nat, Carried(d, i, b)'
      PROVE  Carried(d, i, b) /\ b # c
  <2>1. d # c
    BY SMT, <1>4, <1>7 DEF Carried
  <2>2. Carried(d, i, b)
    BY <1>4, <1>6, <1>7, <2>1 DEF Carried
  <2>3. Live(End(b, "recv"))
    BY <2>2, LiveQueue DEF Carried
  <2>4. QED
    BY <2>2, <2>3 DEF Channel
<1>8. ASSUME NEW x \in Values, Held(x, c) PROVE FALSE
  <2>1. table[value[x].proc][value[x].fd] = End(c, "recv")
    BY <1>8, OfValue DEF Held
  <2>2. value[x].proc \in Processes /\ value[x].fd \in Fds
    BY <1>8, OfValue DEF Held
  <2>3. QED
    BY SMT, <2>1, <2>2, LiveTable, EndFacts DEF Channel
<1>9. ASSUME NEW b \in Pipes, NEW x \in Values, Held(x, b)'
      PROVE  (x = w /\ b = c) \/ (x # w /\ b # c /\ Held(x, b))
  <2>1. CASE x = w
    BY <1>3, <1>9, <2>1, EndOf DEF Held
  <2>2. CASE x # w
    <3>1. x # v
      BY <1>3, <1>9 DEF Held
    <3>2. Held(x, b)
      BY <1>3, <1>9, <2>2, <3>1 DEF Held
    <3>3. QED
      BY <1>8, <2>2, <3>2
  <2>3. QED
    BY <2>1, <2>2
<1>10. QED
  BY SMT, <1>7, <1>9 DEF Single, SingleHolder, HolderOrMessage, SingleMessage
\* OsIpcSender::clone: the clone is a sender.
LEMMA CloneSingle ==
  ASSUME IInv, Owned, Single, NEW v \in Values, NEW w \in Values, Clone(v, w)
  PROVE  Single'
<1>1. PICK use \in {"held", "listed"} : value' = [value EXCEPT ![w] = [value[v] EXCEPT !.use = use]]
  BY DEF Clone
<1>2. value[v] \in ValueSet /\ value[v].kind = "sender"
  BY OfValue DEF Clone
<1>3. value'[w].kind = "sender" /\ \A x \in Values \ {w} : value'[x] = value[x]
  BY <1>1, <1>2 DEF IInv, TypeOK, ValueSet
<1>4. \A c \in Pipes, x \in Values : Held(x, c)' => Held(x, c)
  BY <1>3 DEF Held
<1>5. \A c, d \in Pipes, i \in Nat : Carried(d, i, c)' => Carried(d, i, c)
  BY ClosingCarries DEF Clone
<1>6. QED
  BY <1>4, <1>5, FewerPlaces

\* OsIpcReceiver::consume: the old receiver has no descriptor any more.
LEMMA ConsumeSingle ==
  ASSUME IInv, Owned, Single, NEW v \in Values, NEW w \in Values, Consume(v, w)
  PROVE  Single'
<1>1. PICK use \in {"held", "listed"} :
        value' = [value EXCEPT ![w] = [value[v] EXCEPT !.use = use], ![v].fd = BadFd]
  BY DEF Consume
<1>2. /\ value[v] \in ValueSet /\ v # w /\ value[v].kind = "receiver" /\ value[v].fd # BadFd
      /\ value[v].use = "held"
  BY OfValue DEF Consume, Usable, Unused
<1>3. /\ value'[w].end = value[v].end /\ value'[v].fd = BadFd
      /\ \A x \in Values \ {v, w} : value'[x] = value[x]
  BY <1>1, <1>2 DEF IInv, TypeOK, ValueSet
<1>4. \A c \in Pipes, x \in Values :
        Held(x, c)' => (x = w /\ Held(v, c)) \/ (x # v /\ x # w /\ Held(x, c))
  BY <1>2, <1>3 DEF Held
<1>5. \A c, d \in Pipes, i \in Nat : Carried(d, i, c)' => Carried(d, i, c)
  BY ClosingCarries DEF Consume
<1>6. QED
  BY <1>2, <1>4, <1>5, MovedPlace

\* to_receiver and to_sender: the opaque channel is gone.
LEMMA DecodeSingle ==
  ASSUME IInv, Owned, Single, NEW v \in Values, NEW w \in Values, ToReceiver(v, w) \/ ToSender(v, w)
  PROVE  Single'
<1>1. /\ value[v] \in ValueSet /\ v # w /\ value[v].kind = "opaque" /\ value[v].fd # BadFd
      /\ value[v].use # "sent"
  BY OfValue DEF ToReceiver, ToSender, Unused, WellFormed
<1>2. /\ value'[w].end = value[v].end /\ value'[v] = NoValue
      /\ \A x \in Values \ {v, w} : value'[x] = value[x]
  <2>1. CASE ToReceiver(v, w)
    BY <1>1, <2>1 DEF ToReceiver, IInv, TypeOK, ValueSet
  <2>2. CASE ToSender(v, w)
    BY <1>1, <2>2 DEF ToSender, IInv, TypeOK, ValueSet
  <2>3. QED
    BY <2>1, <2>2
<1>3. \A c \in Pipes, x \in Values :
        Held(x, c)' => (x = w /\ Held(v, c)) \/ (x # v /\ x # w /\ Held(x, c))
  BY <1>1, <1>2, NoValueTyped DEF Held
<1>4. \A c, d \in Pipes, i \in Nat : Carried(d, i, c)' => Carried(d, i, c)
  BY ClosingCarries DEF ToReceiver, ToSender
<1>5. QED
  BY <1>1, <1>3, <1>4, MovedPlace

\* Values that are dropped, and processes that end, take places away.
LEMMA DropSingle ==
  ASSUME IInv, Single, \A x \in Values : value'[x] \in {value[x], NoValue},
         \A p \in Processes, f \in Fds : table'[p][f] \in {table[p][f], NoEnd},
         UNCHANGED queue
  PROVE  Single'
<1>1. \A c \in Pipes, x \in Values : Held(x, c)' => Held(x, c)
  BY NoValueTyped DEF Held
<1>2. \A c, d \in Pipes, i \in Nat : Carried(d, i, c)' => Carried(d, i, c)
  BY ClosingCarries, EndFacts
<1>3. QED
  BY <1>1, <1>2, FewerPlaces

\* recv() without room for the descriptor: the end is gone.
LEMMA RecvNoRoomSingle ==
  ASSUME IInv, Owned, Single, NEW v \in Values, RecvNoRoom(v)
  PROVE  Single'
<1> DEFINE s == SocketOf(v)
<1>1. s \in Pipes
  BY ReceiverLive DEF RecvNoRoom
<1> HIDE DEF s
<1>2. queue[s] \in Seq(Ends) /\ queue[s] # <<>>
  BY <1>1 DEF RecvNoRoom, s, IInv, TypeOK
<1>3. queue'[s] = Tail(queue[s]) /\ \A d \in Pipes \ {s} : queue'[d] = queue[d]
  BY <1>1 DEF RecvNoRoom, s, IInv, TypeOK
<1>4. \A i \in DOMAIN queue'[s] : i \in Nat /\ i + 1 \in DOMAIN queue[s] /\ queue'[s][i] = queue[s][i + 1]
  BY SMT, <1>2, <1>3
<1>5. \A S \in SUBSET Ends : Kept(S) => Kept(S)'
  BY SMT, <1>3, <1>4 DEF Kept, RecvNoRoom
<1>6. ASSUME NEW d \in Pipes, Live(End(d, "recv"))' PROVE Live(End(d, "recv"))
  BY <1>5, <1>6, LiveShrinks
<1>7. \A c, d \in Pipes, i \in Nat :
        Carried(d, i, c)' => (d # s /\ Carried(d, i, c)) \/ (d = s /\ Carried(d, i + 1, c))
  BY <1>3, <1>4, <1>6 DEF Carried
<1>8. \A c \in Pipes, x \in Values : Held(x, c)' <=> Held(x, c)
  BY DEF Held, RecvNoRoom
<1>9. SingleMessage'
  BY SMT, <1>7 DEF Single, SingleMessage
<1>10. HolderOrMessage' /\ SingleHolder'
  BY SMT, <1>7, <1>8 DEF Single, SingleHolder, HolderOrMessage
<1>11. QED
  BY <1>9, <1>10 DEF Single
\* send(): the end moves from the listed value to the new message.
LEMMA SendSingle ==
  ASSUME IInv, Owned, Single, NEW v \in Values, NEW w \in Values, Send(v, w)
  PROVE  Single'
<1> DEFINE s == SocketOf(v)
           e == table[value[w].proc][value[w].fd]
<1>1. /\ value[w] \in ValueSet /\ value[w].use = "listed" /\ value[w].kind \in {"sender", "receiver"}
      /\ value[w].fd \in Fds /\ value[w].fd # BadFd /\ value[w].proc \in Processes
      /\ e = value[w].end /\ e \in Ends
  BY OfValue DEF Send, CanSend, WellFormed
<1>2. s \in Pipes
  BY OfValue, EndFacts DEF Send, CanSend, SocketOf, WellFormed
<1>3. value'[w].use = "sent" /\ \A x \in Values \ {w} : value'[x] = value[x]
  BY <1>1 DEF Send, IInv, TypeOK, ValueSet
<1>4. queue[s] \in Seq(Ends)
  BY <1>2 DEF IInv, TypeOK
<1>5. queue'[s] = Append(queue[s], e) /\ \A d \in Pipes \ {s} : queue'[d] = queue[d]
  BY <1>2 DEF Send, IInv, TypeOK
<1>6. table' = table
  BY DEF Send
<1>7. ASSUME NEW c \in Pipes, e = End(c, "recv") PROVE Held(w, c)
  <2>1. value[w].kind = "receiver"
    BY <1>1, <1>7, EndOf DEF Owned, Sided
  <2>2. QED
    BY <1>1, <1>7, <2>1 DEF Held
<1>8. \A S \in SUBSET Ends : Kept(S) => e \in S
  BY <1>1 DEF Kept
<1> HIDE DEF s, e
<1>9. \A i \in DOMAIN queue'[s] :
        \/ i \in DOMAIN queue[s] /\ queue'[s][i] = queue[s][i]
        \/ i = Len(queue[s]) + 1 /\ queue'[s][i] = e
  <2>1. e \in Ends
    BY <1>1 DEF e
  <2> DEFINE n == Len(queue[s])
  <2>2. /\ n \in Nat /\ DOMAIN queue'[s] = 1 .. n + 1 /\ DOMAIN queue[s] = 1 .. n
        /\ \A i \in 1 .. n : queue'[s][i] = queue[s][i]
        /\ queue'[s][n + 1] = e
    BY SMT, <1>4, <1>5, <2>1
  <2> HIDE DEF n
  <2>3. \A i \in 1 .. n + 1 : i \in 1 .. n \/ i = n + 1
    BY SMT, <2>2
  <2>4. QED
    BY <2>2, <2>3 DEF n
<1>10. \A S \in SUBSET Ends : Kept(S) => Kept(S)'
  BY <1>5, <1>6, <1>8, <1>9 DEF Kept
<1>11. ASSUME NEW d \in Pipes, Live(End(d, "recv"))' PROVE Live(End(d, "recv"))
  BY <1>10, <1>11, LiveShrinks
<1>12. \A c, d \in Pipes, i \in Nat :
         Carried(d, i, c)' => \/ Carried(d, i, c)
                              \/ d = s /\ i = Len(queue[s]) + 1 /\ Held(w, c)
  BY <1>5, <1>7, <1>9, <1>11 DEF Carried
<1>13. \A c \in Pipes, x \in Values : Held(x, c)' => x # w /\ Held(x, c)
  BY <1>3 DEF Held
<1>14. SingleMessage'
  BY SMT, <1>12 DEF Single, SingleMessage, HolderOrMessage
<1>15. HolderOrMessage'
  BY SMT, <1>12, <1>13 DEF Single, SingleHolder, HolderOrMessage
<1>16. SingleHolder'
  BY <1>13 DEF Single, SingleHolder
<1>17. QED
  BY <1>14, <1>15, <1>16 DEF Single

\* recv(): the end moves from the oldest message to the opaque channel.
LEMMA RecvSingle ==
  ASSUME IInv, Owned, Single, NEW v \in Values, NEW w \in Values, Recv(v, w)
  PROVE  Single'
<1> DEFINE s == SocketOf(v)
           p == value[v].proc
           e == Head(queue[s])
<1>1. /\ s \in Pipes /\ p \in Processes /\ value[v].fd \in Fds
      /\ table[p][value[v].fd] = End(s, "recv") /\ Live(End(s, "recv"))
  BY ReceiverLive DEF Recv
<1>2. queue[s] \in Seq(Ends) /\ queue[s] # <<>>
  BY <1>1 DEF Recv, IInv, TypeOK
<1>3. PICK f \in FreeFds(p) :
        /\ table' = [table EXCEPT ![p][f] = e]
        /\ value' = [value EXCEPT ![w] = Value("opaque", p, f, None, e)]
  BY DEF Recv
<1>4. queue'[s] = Tail(queue[s]) /\ \A d \in Pipes \ {s} : queue'[d] = queue[d]
  BY <1>1 DEF Recv, IInv, TypeOK
<1>5. e = queue[s][1] /\ 1 \in DOMAIN queue[s]
  BY SMT, <1>2
<1>6. f \in Fds
  BY DEF FreeFds
<1> HIDE DEF s, p, e
<1>7. value'[w].end = e /\ \A x \in Values \ {w} : value'[x] = value[x]
  BY <1>3 DEF IInv, TypeOK, Value
<1>8. \A q \in Processes, h \in Fds : table'[q][h] \in {table[q][h], e}
  BY <1>1, <1>3, <1>6 DEF IInv, TypeOK
<1>9. \A i \in DOMAIN queue'[s] : i \in Nat \ {0} /\ i + 1 \in DOMAIN queue[s] /\ queue'[s][i] = queue[s][i + 1]
  BY SMT, <1>2, <1>4
<1>10. ASSUME NEW S \in SUBSET Ends, Kept(S) PROVE Kept(S)'
  <2>1. End(s, "recv") \in S
    BY <1>1, <1>10, EndFacts DEF Kept
  <2>2. e \in S
    BY <1>1, <1>5, <1>10, <2>1 DEF Kept
  <2>3. \A q \in Processes, h \in Fds : table'[q][h] \in Ends => table'[q][h] \in S
    BY <1>8, <1>10, <2>2 DEF Kept
  <2>4. ASSUME NEW i \in DOMAIN queue'[s] PROVE queue'[s][i] \in S
    BY <1>1, <1>9, <1>10, <2>1 DEF Kept
  <2>5. \A c \in Pipes : End(c, "recv") \in S => \A i \in DOMAIN queue'[c] : queue'[c][i] \in S
    BY <1>4, <1>10, <2>4 DEF Kept
  <2>6. QED
    BY <2>3, <2>5 DEF Kept
<1>11. ASSUME NEW d \in Pipes, Live(End(d, "recv"))' PROVE Live(End(d, "recv"))
  BY <1>10, <1>11, LiveShrinks
<1>12. \A c, d \in Pipes, i \in Nat :
         Carried(d, i, c)' => \/ d # s /\ Carried(d, i, c)
                              \/ d = s /\ i # 0 /\ Carried(d, i + 1, c)
  BY <1>4, <1>9, <1>11 DEF Carried
<1>13. \A c \in Pipes, x \in Values :
         Held(x, c)' => \/ x # w /\ Held(x, c)
                        \/ x = w /\ Carried(s, 1, c)
  BY <1>1, <1>5, <1>7 DEF Held, Carried
<1>14. SingleMessage'
  BY SMT, <1>1, <1>12 DEF Single, SingleMessage
<1>15. HolderOrMessage'
  BY SMT, <1>1, <1>12, <1>13 DEF Single, SingleMessage, HolderOrMessage
<1>16. SingleHolder'
  BY <1>1, <1>13 DEF Single, SingleHolder, HolderOrMessage
<1>17. QED
  BY <1>14, <1>15, <1>16 DEF Single

\* Every step keeps the receivers single.
LEMMA NextSingle ==
  ASSUME IInv, Owned, Single, [Next]_vars
  PROVE  Single'
<1>1. ASSUME NEW v \in Values, DropReceiver(v) \/ DropSender(v) \/ DropOpaque(v) PROVE Single'
  <2>1. \A x \in Values : value'[x] \in {value[x], NoValue}
    BY <1>1 DEF DropReceiver, DropSender, DropOpaque, Forget, IInv, TypeOK
  <2>2. \A p \in Processes, f \in Fds : table'[p][f] \in {table[p][f], NoEnd}
    BY SMT, <1>1 DEF DropReceiver, DropSender, DropOpaque, CloseFd, IInv, TypeOK
  <2>3. QED
    BY <1>1, <2>1, <2>2, DropSingle DEF DropReceiver, DropSender, DropOpaque
<1>2. ASSUME NEW p \in Processes, Exit(p) PROVE Single'
  <2>1. \A x \in Values : value'[x] \in {value[x], NoValue}
    BY <1>2 DEF Exit, IInv, TypeOK
  <2>2. \A q \in Processes, f \in Fds : table'[q][f] \in {table[q][f], NoEnd}
    BY <1>2 DEF Exit, IInv, TypeOK
  <2>3. QED
    BY <1>2, <2>1, <2>2, DropSingle DEF Exit
<1>3. CASE UNCHANGED vars
  BY SMT, <1>3 DEF vars, Single, SingleHolder, HolderOrMessage, SingleMessage, Held, Carried, Live, Kept
<1>4. CASE Next
  BY <1>1, <1>2, <1>4, ChannelSingle, CloneSingle, ConsumeSingle, DecodeSingle, SendSingle, RecvSingle,
     RecvNoRoomSingle DEF Next
<1>5. QED
  BY <1>3, <1>4

\* Two places at most one of which has the receiving end make one place, counted.
LEMMA AtMostOne ==
  ASSUME NEW S, \A x, y \in S : x = y
  PROVE  Cardinality(S) \in {0, 1} /\ (Cardinality(S) = 1 => S # {})
<1>1. CASE S = {}
  BY SMT, <1>1, FS_EmptySet
<1>2. ASSUME NEW x \in S PROVE Cardinality(S) = 1
  <2>1. S = {x}
    BY <1>2
  <2>2. QED
    BY <2>1, FS_Singleton
<1>3. QED
  BY <1>1, <1>2

\* An end that is in one place at most is counted once at most.
LEMMA SingleIsOne == IInv /\ Single => OneReceiver
<1>1. SUFFICES ASSUME IInv, Single, NEW c \in Pipes
      PROVE  Cardinality(Holders(c)) + Cardinality(Carriers(c)) <= 1
  BY DEF OneReceiver
<1>2. \A v \in Holders(c) : v \in Values /\ Held(v, c)
  BY DEF Holders, Held
<1>3. \A k \in Carriers(c) : /\ k = <<k[1], k[2]>> /\ k[1] \in Pipes /\ k[2] \in Nat
                             /\ Carried(k[1], k[2], c)
  BY SMT, UnixHandlesAssumption DEF Carriers, Carried
<1>4. \A v, w \in Holders(c) : v = w
  BY <1>1, <1>2 DEF Single, SingleHolder
<1>5. \A k, l \in Carriers(c) : k = l
  BY SMT, <1>1, <1>3 DEF Single, SingleMessage
<1>6. Holders(c) = {} \/ Carriers(c) = {}
  BY <1>1, <1>2, <1>3 DEF Single, HolderOrMessage
<1> DEFINE m == Cardinality(Holders(c))
           n == Cardinality(Carriers(c))
<1>7. m \in {0, 1} /\ n \in {0, 1} /\ (m = 0 \/ n = 0)
  BY <1>4, <1>5, <1>6, AtMostOne
<1> HIDE DEF m, n
<1>8. m + n <= 1
  BY SMT, <1>7
<1>9. QED
  BY <1>8 DEF m, n

----------------------------------------------------------------------------
\* The whole invariant.
LEMMA FullInvariance == Spec => [](IInv /\ Owned /\ Single)
<1>1. Init => Owned /\ Single
  BY InitOwned, InitSingle
<1>2. IInv /\ IInv' /\ Owned /\ Single /\ [Next]_vars => Owned' /\ Single'
  BY NextOwned, NextSingle
<1>3. QED
  BY <1>1, <1>2, Invariance, PTL DEF Spec

\* Every descriptor of every process has exactly one owner: none is closed while another
\* value uses it, and none leaks but those of opaque channels that nobody decodes (channel,
\* clone, consume, to_sender, to_receiver, recv and the drops).
THEOREM DescriptorsOwnedOnce == Spec => []OwnedOnce
<1>1. IInv /\ Owned => OwnedOnce
  BY OneOwner DEF OwnedOnce
<1>2. QED
  BY <1>1, FullInvariance, PTL

\* recv() reports the end of a channel exactly when there is no sender of it any more, in
\* any process or in any message that can still be received.
THEOREM EndsAreExact == Spec => []EndExact
<1>1. IInv /\ Owned => EndExact
  BY EndIsExact
<1>2. QED
  BY <1>1, FullInvariance, PTL

\* However often a receiver is consumed, sent and decoded, one value or one message that
\* can still be received has it.
THEOREM ReceiversStaySingle == Spec => []OneReceiver
<1>1. IInv /\ Single => OneReceiver
  BY SingleIsOne
<1>2. QED
  BY <1>1, FullInvariance, PTL
=============================================================================
