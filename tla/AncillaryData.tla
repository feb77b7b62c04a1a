---------------------------- MODULE AncillaryData ----------------------------
(***************************************************************************)
(* The layout of the control message that carries descriptors over a       *)
(* socket (CMSG_ALIGN, CMSG_LEN, CMSG_SPACE, UnixCmsg and their uses in    *)
(* platform/unix/mod.rs): what send_first_fragment writes, what the kernel *)
(* makes of it, and how many descriptors recv() finds.  UnixChannel takes  *)
(* from here that recv() gets the first MAX_FDS_IN_CMSG of them.           *)
(***************************************************************************)
EXTENDS Naturals, FiniteSetsExt

CONSTANTS
  Words,             \* mem::size_of::<size_t>() of the platforms: 4, 8
  MaxFds,            \* bound: descriptors of a message
  MAX_FDS_IN_CMSG

AncillaryAssumption ==
  Words \subseteq {4, 8} /\ MaxFds \in Nat /\ MAX_FDS_IN_CMSG \in Nat \ {0}

VARIABLES
  word,       \* the platform
  fds,        \* number of descriptors in the message
  stage,      \* "start", "sent", "delivered", "received"
  buffer,     \* length of the receiver's cmsg_buffer
  cmsg_len,   \* in the control message: sent, then delivered
  controllen, \* msg_controllen: sent, then delivered
  count       \* channel_length of recv()

vars == <<word, fds, stage, buffer, cmsg_len, controllen, count>>

C_INT == 4
CmsgHdr == word + 2 * C_INT

\* Up to the next multiple of the word.
CMSG_ALIGN(length) == ((length + word - 1) \div word) * word

CMSG_LEN(length) == CMSG_ALIGN(CmsgHdr) + length

CMSG_SPACE(length) == CMSG_ALIGN(length) + CMSG_ALIGN(CmsgHdr)

\* Where the descriptors begin.
CMSG_DATA == CMSG_ALIGN(CmsgHdr)

Init ==
  /\ word \in Words /\ fds \in 0 .. MaxFds /\ stage = "start"
  /\ buffer = 0 /\ cmsg_len = 0 /\ controllen = 0 /\ count = 0

\* send_first_fragment: no control message without descriptors.
Send ==
  /\ stage = "start" /\ stage' = "sent"
  /\ IF fds > 0 THEN /\ cmsg_len' = CMSG_LEN(fds * C_INT)
                     /\ controllen' = CMSG_SPACE(fds * C_INT)
                ELSE UNCHANGED <<cmsg_len, controllen>>
  /\ UNCHANGED <<word, fds, buffer, count>>

\* The descriptors that the kernel takes from a control message, and those that a
\* buffer has room for.
Carried(length) == IF length = 0 THEN 0 ELSE (length - CmsgHdr) \div C_INT

\* UnixCmsg::new
RecvRoom == CMSG_SPACE(MAX_FDS_IN_CMSG * C_INT)

\* recvmsg: the kernel puts in as many descriptors as there is room for, and sets
\* both lengths to what it wrote.
Deliver ==
  /\ stage = "sent" /\ stage' = "delivered"
  /\ buffer' = RecvRoom
  /\ LET n == Min({Carried(cmsg_len), (RecvRoom - CmsgHdr) \div C_INT}) IN
     IF n = 0 THEN cmsg_len' = 0 /\ controllen' = 0
     ELSE /\ cmsg_len' = CMSG_LEN(n * C_INT)
          /\ controllen' = Min({CMSG_SPACE(n * C_INT), RecvRoom})
  /\ UNCHANGED <<word, fds, count>>

ChannelLength == IF controllen = 0 THEN 0 ELSE (cmsg_len - CMSG_ALIGN(CmsgHdr)) \div C_INT

\* recv() reads the descriptors.
Recv ==
  /\ stage = "delivered" /\ stage' = "received"
  /\ count' = ChannelLength
  /\ UNCHANGED <<word, fds, buffer, cmsg_len, controllen>>

Next == Send \/ Deliver \/ Recv

Spec == Init /\ [][Next]_vars

----------------------------------------------------------------------------
\* Properties

\* All accesses to the two buffers are inside them: the descriptors that
\* send_first_fragment copies fit what it has allocated and tells the kernel of, and
\* those that recv() reads were written there by the kernel.
InBounds ==
  /\ stage = "sent" /\ fds > 0 => CMSG_DATA + fds * C_INT <= controllen /\ cmsg_len <= controllen
  /\ stage = "received" /\ count > 0 =>
       /\ CMSG_DATA + count * C_INT <= cmsg_len
       /\ cmsg_len <= buffer /\ controllen <= buffer

\* recv() finds exactly the descriptors that were sent, up to MAX_FDS_IN_CMSG: the
\* padding of either buffer is never taken for one.
CutAtLimit == stage = "received" => count = Min({fds, MAX_FDS_IN_CMSG})
=============================================================================
