--------------------------- MODULE WindowsHandles ---------------------------
(***************************************************************************)
(* Senders and receivers that travel in messages on Windows (the channel   *)
(* handles of OutOfBandMessage, move_handle_to_process and                 *)
(* OsIpcSender::send, Message::oob_data and MessageReader::get_message in  *)
(* platform/windows/mod.rs).  The sender asks the pipe which process has   *)
(* its other end, moves the handle into the table of that process, and     *)
(* writes the number and the process id to the pipe.  The receiver of a    *)
(* pipe can itself be moved meanwhile, so that a message is read by        *)
(* another process than the one that was asked for.                        *)
(*                                                                         *)
(* GetNamedPipeServerProcessId is taken to give the process that has the   *)
(* receiving end, as get_pipe_server_process_handle_and_pid() relies on.   *)
(* The bytes of the pipes and the readers' buffers are in WindowsChannel,  *)
(* the handles of shared memory in WindowsSharedMemory.                    *)
(***************************************************************************)
EXTENDS Naturals, Sequences, FiniteSets

CONSTANTS
  Processes,
  Pipes,
  Numbers,     \* bound: handle numbers of a process, used again once closed
  MaxQueue,    \* bound: messages in a pipe
  None

WindowsHandlesAssumption == MaxQueue \in Nat /\ None \notin Numbers \cup Processes

VARIABLES
  alive,     \* the processes that run
  table,     \* of each process and number: the end of a pipe, or NoEnd
  own,       \* of each process: the numbers that senders and receivers in it hold
  op,        \* of each process: the send under way
  pipe,      \* of each pipe: the messages in it, oldest first
  lost       \* of each process: numbers that no value, send or message knows of

vars == <<alive, table, own, op, pipe, lost>>

End(c, side) == [pipe |-> c, side |-> side]

Ends == {End(c, side) : c \in Pipes, side \in {"send", "recv"}}

NoEnd == [pipe |-> None, side |-> "none"]

\* via: the sender; port: the handle to move, and then remote, its number in the target.
\* end and moved are history: what is sent, and whether the pipe's receiver was moved
\* since the process id was read.
NoOp == [via |-> None, target |-> None, port |-> None, remote |-> None, end |-> NoEnd, moved |-> FALSE]

\* Some process is the accepted client of another one's one-shot server.
Init ==
  /\ alive = Processes
  /\ \E p, q \in Processes, c \in Pipes, r, s \in Numbers :
       /\ p # q
       /\ table = [[x \in Processes |-> [n \in Numbers |-> NoEnd]]
                    EXCEPT ![p][r] = End(c, "recv"), ![q][s] = End(c, "send")]
       /\ own = [[x \in Processes |-> {}] EXCEPT ![p] = {r}, ![q] = {s}]
  /\ op = [p \in Processes |-> NoOp]
  /\ pipe = [c \in Pipes |-> <<>>] /\ lost = [p \in Processes |-> {}]

----------------------------------------------------------------------------
Free(p) == {n \in Numbers : table[p][n] = NoEnd}

\* The kernel keeps a pipe while there is a handle of it.
Live(c) == \E p \in Processes, n \in Numbers : table[p][n].pipe = c

\* GetNamedPipeServerProcessId: the process of the receiving end.
Servers(c) == {p \in Processes : \E n \in Numbers : table[p][n] = End(c, "recv")}

\* channel(): CreateNamedPipeA in new_named(), CreateFileA in connect_named().
Channel(p, c) ==
  /\ p \in alive /\ ~Live(c)
  /\ \E r, s \in Free(p) :
       /\ r # s
       /\ table' = [table EXCEPT ![p][r] = End(c, "recv"), ![p][s] = End(c, "send")]
       /\ own' = [own EXCEPT ![p] = @ \cup {r, s}]
  /\ UNCHANGED <<alive, op, pipe, lost>>

\* OsIpcSender::clone: dup_handle
Clone(p, n) ==
  /\ n \in own[p] /\ table[p][n].side = "send"
  /\ \E m \in Free(p) :
       /\ table' = [table EXCEPT ![p][m] = table[p][n]]
       /\ own' = [own EXCEPT ![p] = @ \cup {m}]
  /\ UNCHANGED <<alive, op, pipe, lost>>

\* What is in a pipe when its receiving end e is closed is gone, and the handles it names
\* stay in the tables of the processes they were meant for.
Gone(e) == IF e.side = "recv" THEN {pipe[e.pipe][i] : i \in DOMAIN pipe[e.pipe]} ELSE {}

Forgotten(msgs) ==
  [p \in Processes |-> lost[p] \cup {m.h : m \in {k \in msgs : k.target = p /\ p \in alive}}]

\* CloseHandle of number n in process p
CloseHandle(p, n) ==
  LET e == table[p][n]
  IN  /\ table' = [table EXCEPT ![p][n] = NoEnd]
      /\ pipe' = IF e.side = "recv" THEN [pipe EXCEPT ![e.pipe] = <<>>] ELSE pipe
      /\ lost' = Forgotten(Gone(e))

\* Drop for WinHandle, in a sender or a receiver
Drop(p, n) ==
  /\ n \in own[p] /\ op[p].via # n
  /\ CloseHandle(p, n) /\ own' = [own EXCEPT ![p] = @ \ {n}]
  /\ UNCHANGED <<alive, op>>

----------------------------------------------------------------------------
\* OsIpcSender::send of a message with the sender or receiver m, on the sender n.

\* get_pipe_server_process_handle_and_pid()
SendStart(p, n, m) ==
  /\ op[p] = NoOp /\ n \in own[p] /\ m \in own[p] /\ n # m /\ table[p][n].side = "send"
  /\ \E t \in Servers(table[p][n].pipe) :
       op' = [op EXCEPT ![p] = [via |-> n, target |-> t, port |-> m, remote |-> None,
                                end |-> table[p][m], moved |-> FALSE]]
  /\ own' = [own EXCEPT ![p] = @ \ {m}]
  /\ UNCHANGED <<alive, table, pipe, lost>>

\* There is no such process: the error drops m.
SendRefused(p, n, m) ==
  /\ op[p] = NoOp /\ n \in own[p] /\ m \in own[p] /\ n # m /\ table[p][n].side = "send"
  /\ Servers(table[p][n].pipe) = {}
  /\ CloseHandle(p, m) /\ own' = [own EXCEPT ![p] = @ \ {m}]
  /\ UNCHANGED <<alive, op>>

Moving(p) == op[p].port # None /\ op[p].remote = None

\* What is on its way to a receiver that moves is marked.
MarkPipe(e) ==
  IF e.side = "recv"
    THEN [pipe EXCEPT ![e.pipe] = [i \in DOMAIN @ |-> [@[i] EXCEPT !.moved = TRUE]]]
    ELSE pipe

MarkOps(e) ==
  [q \in Processes |->
     IF op[q].via # None /\ e = End(table[q][op[q].via].pipe, "recv")
       THEN [op[q] EXCEPT !.moved = TRUE] ELSE op[q]]

\* Mutant: the source stays open.
MoveHandleDups(p) ==
  /\ Moving(p) /\ op[p].target \in alive
  /\ \E n \in Free(op[p].target) :
       /\ table' = [table EXCEPT ![op[p].target][n] = op[p].end]
       /\ op' = [MarkOps(op[p].end) EXCEPT ![p].remote = n, ![p].port = None]
  /\ pipe' = MarkPipe(op[p].end)
  /\ UNCHANGED <<alive, own, lost>>

\* move_handle_to_process(): DuplicateHandle with DUPLICATE_CLOSE_SOURCE
MoveHandle(p) ==
  /\ Moving(p) /\ op[p].target \in alive
  /\ \E n \in Free(op[p].target) :
       /\ table' = [table EXCEPT ![p][op[p].port] = NoEnd, ![op[p].target][n] = op[p].end]
       /\ op' = [MarkOps(op[p].end) EXCEPT ![p].remote = n, ![p].port = None]
  /\ pipe' = MarkPipe(op[p].end)
  /\ UNCHANGED <<alive, own, lost>>

\* It fails, and has closed the source nevertheless: send() returns the error.
MoveFails(p) ==
  /\ Moving(p) /\ (op[p].target \notin alive \/ Free(op[p].target) = {})
  /\ CloseHandle(p, op[p].port) /\ op' = [op EXCEPT ![p] = NoOp]
  /\ UNCHANGED <<alive, own>>

\* The message of the send under way, as the pipe has it.
MessageOf(p) == [target |-> op[p].target, h |-> op[p].remote, end |-> op[p].end, moved |-> op[p].moved]

\* write_buf(): one atomic write, or an error that forgets the handle.
Write(p) ==
  /\ op[p].remote # None
  /\ LET c == table[p][op[p].via].pipe
     IN  IF Servers(c) # {}
           THEN /\ Len(pipe[c]) < MaxQueue /\ pipe' = [pipe EXCEPT ![c] = Append(@, MessageOf(p))]
                /\ UNCHANGED lost
           ELSE lost' = Forgotten({MessageOf(p)}) /\ UNCHANGED pipe
  /\ op' = [op EXCEPT ![p] = NoOp]
  /\ UNCHANGED <<alive, table, own>>

----------------------------------------------------------------------------
\* A receiver n of process p with a message in its pipe.
CanReceive(p, n) ==
  n \in own[p] /\ table[p][n].side = "recv" /\ pipe[table[p][n].pipe] # <<>>

FirstOf(p, n) == Head(pipe[table[p][n].pipe])

\* get_message(): the number becomes a channel, and to_sender() or to_receiver() take it.
Receive(p, n) ==
  /\ CanReceive(p, n) /\ FirstOf(p, n).target = p
  /\ own' = [own EXCEPT ![p] = @ \cup {FirstOf(p, n).h}]
  /\ pipe' = [pipe EXCEPT ![table[p][n].pipe] = Tail(@)]
  /\ UNCHANGED <<alive, table, op, lost>>

\* The panic of oob_data(), which drops the receiver.
ReceivePanics(p, n) ==
  /\ CanReceive(p, n) /\ FirstOf(p, n).target # p
  /\ CloseHandle(p, n) /\ own' = [own EXCEPT ![p] = @ \ {n}]
  /\ UNCHANGED <<alive, op>>

\* The end of a process, at any point.
Exit(p) ==
  /\ p \in alive /\ alive' = alive \ {p}
  /\ LET ends == {table[p][n] : n \in Numbers}
         msgs == UNION {Gone(e) : e \in ends} \cup (IF op[p].remote # None THEN {MessageOf(p)} ELSE {})
     IN  /\ pipe' = [c \in Pipes |-> IF End(c, "recv") \in ends THEN <<>> ELSE pipe[c]]
         /\ lost' = [Forgotten(msgs) EXCEPT ![p] = {}]
  /\ table' = [table EXCEPT ![p] = [n \in Numbers |-> NoEnd]]
  /\ own' = [own EXCEPT ![p] = {}] /\ op' = [op EXCEPT ![p] = NoOp]

----------------------------------------------------------------------------
Next ==
  \E p \in Processes :
    \/ \E c \in Pipes : Channel(p, c)
    \/ \E n \in Numbers : Clone(p, n) \/ Drop(p, n) \/ Receive(p, n) \/ ReceivePanics(p, n)
    \/ \E n, m \in Numbers : SendStart(p, n, m) \/ SendRefused(p, n, m)
    \/ MoveHandle(p) \/ MoveFails(p) \/ Write(p) \/ Exit(p)

Spec == Init /\ [][Next]_vars

----------------------------------------------------------------------------
\* Properties

MessageSet ==
  [target : Processes, h : Numbers, end : Ends, moved : BOOLEAN]

OpSet ==
  [via : Numbers \cup {None}, target : Processes \cup {None}, port : Numbers \cup {None},
   remote : Numbers \cup {None}, end : Ends \cup {NoEnd}, moved : BOOLEAN]

\* Every variable has its type.
TypeOK ==
  /\ alive \subseteq Processes
  /\ table \in [Processes -> [Numbers -> Ends \cup {NoEnd}]]
  /\ own \in [Processes -> SUBSET Numbers] /\ lost \in [Processes -> SUBSET Numbers]
  /\ op \in [Processes -> OpSet] /\ pipe \in [Pipes -> Seq(MessageSet)]

\* Who answers for number n of process p: a sender or receiver, a send under way, a
\* message, or nobody any more.
Owners(p, n) ==
  Cardinality({n} \cap own[p]) + Cardinality({n} \cap lost[p]) + (IF op[p].port = n THEN 1 ELSE 0)
  + Cardinality({q \in Processes : op[q].target = p /\ op[q].remote = n})
  + Cardinality({k \in Pipes \X (1 .. MaxQueue) :
       k[2] \in DOMAIN pipe[k[1]] /\ pipe[k[1]][k[2]].target = p /\ pipe[k[1]][k[2]].h = n})

\* Every handle of a running process has exactly one owner, wherever the message is that
\* brings it: none is closed or used under another value, and none leaks but with a
\* message that cannot be received (send(), get_message() and the drops).
OwnedOnce ==
  \A p \in alive, n \in Numbers : Owners(p, n) = (IF table[p][n] = NoEnd THEN 0 ELSE 1)

\* The number in a message that is accepted stands for what was sent, although the
\* processes open and close other handles meanwhile.
Designates ==
  \A p \in Processes, n \in Numbers : CanReceive(p, n) =>
    (FirstOf(p, n).target = p => table[p][FirstOf(p, n).h] = FirstOf(p, n).end)

\* A channel has at most one receiver, on the way from process to process as well.
OneReceiver ==
  \A p, q \in Processes, n, m \in Numbers :
    (table[p][n] = table[q][m] /\ table[p][n].side = "recv") => (p = q /\ n = m)

\* oob_data() panics only for a message that was on its way when its receiver was moved.
OnlyMovedRefused ==
  \A p \in Processes, n \in Numbers : CanReceive(p, n) =>
    (FirstOf(p, n).moved \/ FirstOf(p, n).target = p)

\* Every message reaches the receiver, wherever it has been moved: ipc.rs:96 says of a
\* channel that "Messages sent by the sender will be available to the receiver even if the
\* sender or receiver has been moved to a different process."
MovedReceives ==
  \A p \in Processes, n \in Numbers : CanReceive(p, n) => FirstOf(p, n).target = p
=============================================================================
