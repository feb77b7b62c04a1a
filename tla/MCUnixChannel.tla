--------------------------- MODULE MCUnixChannel ---------------------------
(***************************************************************************)
(* Small instances of UnixChannel.  The send buffer is the smallest that   *)
(* Linux grants, 4608 bytes: a packet carries up to 4568 bytes of payload  *)
(* as a first fragment and 4576 as a followup.                             *)
(***************************************************************************)
EXTENDS UnixChannel, TLC

M(len, fds) == [len |-> len, fds |-> fds]

\* One packet that ENOBUFS may split into two or three, one packet of the full size,
\* one followup, two followups.
AllSizes ==
  { M(2200, <<"channel", "shmem">>), M(4568, <<"channel">>),
    M(4569, <<"channel", "shmem">>), M(9200, <<>>) }

\* One message of each kind.
TwoSizes == { M(100, <<>>), M(4700, <<"channel", "shmem">>) }

\* Three followups even without ENOBUFS.
LongMessage == { M(15000, <<>>) }

\* As many descriptors as a control message takes, in a packet of the full size.
FullPacket == { M(4568, <<"channel", "channel", "shmem">>) }

Symmetry == Permutations(Senders)

=============================================================================
