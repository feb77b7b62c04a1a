--------------------------- MODULE Fragmentation ---------------------------
(***************************************************************************)
(* The packet-size arithmetic of the Unix transport                        *)
(* (src/platform/unix/mod.rs): how much payload fits a packet, and how the *)
(* send buffer size assumed by one send() shrinks when the kernel answers  *)
(* ENOBUFS.  Sizes are usize in the code; every subtraction below is a     *)
(* place where the code would underflow on a buffer that is too small.     *)
(***************************************************************************)
EXTENDS Integers

CONSTANT SYSTEM_SENDBUF_SIZE   \* what getsockopt(SO_SNDBUF) reports, in bytes

\* Room for the part the kernel reserves, the length header and one aligned
\* word of payload.  Linux reports at least 4608.
ASSUME SendbufAssumption ==
  /\ SYSTEM_SENDBUF_SIZE \in Nat
  /\ SYSTEM_SENDBUF_SIZE >= 48

RESERVED_SIZE == 32

\* The message (size) header: one usize in front of the first fragment.
HEADER_SIZE == 8

\* A packet that was not larger than this is not retried after ENOBUFS.
MIN_DOWNSIZE == 2000

MinOf(a, b) == IF a <= b THEN a ELSE b

fragment_size(sendbuf) == sendbuf - RESERVED_SIZE

AlignDown(n) == n - (n % 8)

first_fragment_size(sendbuf) ==
  AlignDown(fragment_size(sendbuf) - HEADER_SIZE)

get_max_fragment_size == first_fragment_size(SYSTEM_SENDBUF_SIZE)

CanDownsize(sent) == sent > MIN_DOWNSIZE

\* Mutant: the retry keeps the halved size even when it is still no smaller
\* than what was tried.
DownsizeHalves(sendbuf, sent) == sendbuf \div 2

\* The new buffer size after a packet of sent payload bytes got ENOBUFS.
downsize(sendbuf, sent) ==
  IF sendbuf \div 2 < sent THEN sendbuf \div 2 ELSE sent \div 2

=============================================================================
