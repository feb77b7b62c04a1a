------------------------ MODULE WindowsSharedMemory -------------------------
(***************************************************************************)
(* Shared memory of the Windows back-end (WinHandle, dup_handle,           *)
(* dup_handle_to_process and OsIpcSharedMemory in platform/windows/mod.rs, *)
(* and their use in OsIpcSender::send and MessageReader::get_message).  A  *)
(* value is a handle of a section and a view of it.  A send puts a handle  *)
(* into the table of the process that receives, and then writes its number *)
(* and the length to the pipe: between the two only the number in a local  *)
(* variable of the sender knows of that handle.                            *)
(*                                                                         *)
(* Handle numbers are used again.  A process may end at any time, and the  *)
(* receiver may be dropped with messages in the pipe.                      *)
(***************************************************************************)
EXTENDS Naturals, Sequences, FiniteSets

CONSTANTS
  Processes,
  Receiver,    \* the process that holds the channel's receiver
  Handles,     \* names of OsIpcSharedMemory values, in all processes
  Numbers,     \* bound: handle numbers of a process
  Addresses,   \* bound: where a process can have a view
  Sections,    \* bound: section objects of the kernel
  Data,        \* contents of a region
  Lengths,     \* lengths of a region: an empty section cannot be created
  MaxQueue,    \* bound: messages in the pipe
  None

WindowsSharedMemoryAssumption ==
  /\ Receiver \in Processes /\ Lengths \subseteq Nat \ {0} /\ MaxQueue \in Nat
  /\ None \notin Numbers \cup Addresses \cup Sections \cup Handles \cup Data \cup Nat

VARIABLES
  handle,    \* the values, and how far their construction, their send and drop have got
  alive,     \* the processes that run
  open,      \* the receiver has not been dropped
  table,     \* of each process and handle number: the section, or None
  views,     \* of each process and address: the section, or None
  size,      \* of each section: its length
  data,      \* of each section: its contents
  pipe,      \* messages: the number in the receiver's table and the length, oldest first, and
             \* what the value was made with
  lost       \* numbers in the receiver's table that no message will ever name

kernelVars == <<table, views, size, data>>
vars == <<handle, alive, open, kernelVars, pipe, lost>>

\* No value: what drop leaves behind.
NoHandle ==
  [stage |-> "none", proc |-> Receiver, h |-> None, ptr |-> None, length |-> 0,
   from |-> None, remote |-> None, made |-> None]

Init ==
  /\ handle = [v \in Handles |-> NoHandle] /\ alive = Processes /\ open = TRUE
  /\ table = [p \in Processes |-> [n \in Numbers |-> None]]
  /\ views = [p \in Processes |-> [a \in Addresses |-> None]]
  /\ size = [s \in Sections |-> 0] /\ data = [s \in Sections |-> None]
  /\ pipe = <<>> /\ lost = {}

----------------------------------------------------------------------------
\* The kernel keeps a section while a handle or a view refers to it.
Live(s) ==
  \E p \in Processes : (\E n \in Numbers : table[p][n] = s) \/ (\E a \in Addresses : views[p][a] = s)

Free(p) == {n \in Numbers : table[p][n] = None}

Make(v, p, n, stage, length, from, made) ==
  handle' = [handle EXCEPT ![v] =
    [stage |-> stage, proc |-> p, h |-> n, ptr |-> None, length |-> length,
     from |-> from, remote |-> None, made |-> made]]

\* OsIpcSharedMemory::new: CreateFileMapping
Create(v, p, length) ==
  /\ handle[v].stage = "none" /\ p \in alive
  /\ \E n \in Free(p), s \in Sections :
       /\ ~Live(s)
       /\ table' = [table EXCEPT ![p][n] = s]
       /\ size' = [size EXCEPT ![s] = length] /\ data' = [data EXCEPT ![s] = None]
       /\ Make(v, p, n, "created", length, None, None)
  /\ UNCHANGED <<alive, open, views, pipe, lost>>

\* dup_handle, dup_handle_to_process: a handle of the section of v in process p.
Dup(v, p, n) == table' = [table EXCEPT ![p][n] = table[handle[v].proc][handle[v].h]]

\* clone(): dup_handle
Clone(v, w) ==
  /\ handle[v].stage = "ready" /\ handle[w].stage = "none"
  /\ \E n \in Free(handle[v].proc) :
       /\ Dup(v, handle[v].proc, n)
       /\ Make(w, handle[v].proc, n, "duped", handle[v].length, v, handle[v].made)
  /\ UNCHANGED <<alive, open, views, size, data, pipe, lost>>

\* get_message: the handle is in the table already; one thread receives.
Receive(v) ==
  /\ pipe # <<>> /\ open /\ handle[v].stage = "none"
  /\ \A w \in Handles : handle[w].stage # "received"
  /\ Make(v, Receiver, Head(pipe).h, "received", Head(pipe).length, None, Head(pipe).made)
  /\ pipe' = Tail(pipe)
  /\ UNCHANGED <<alive, open, kernelVars, lost>>

\* from_byte, from_bytes: the bytes are written to a new section.
Fill(v, s, d) == data' = IF handle[v].stage = "created" THEN [data EXCEPT ![s] = d] ELSE data

\* from_handle: MapViewOfFile of the whole section.
Map(v) ==
  /\ handle[v].stage \in {"created", "duped", "received"}
  /\ LET p == handle[v].proc
         s == table[p][handle[v].h]
     IN  \E a \in Addresses, d \in Data :
           /\ views[p][a] = None
           /\ views' = [views EXCEPT ![p][a] = s]
           /\ handle' = [handle EXCEPT ![v].stage = "ready", ![v].ptr = a, ![v].from = None,
                ![v].made = IF handle[v].stage = "created" THEN <<d, handle[v].length>> ELSE @]
           /\ Fill(v, s, d)
  /\ UNCHANGED <<alive, open, table, size, pipe, lost>>

----------------------------------------------------------------------------
\* clone() borrows its original, which nobody can drop or send meanwhile.
Borrowed(v) == \E w \in Handles : handle[w].from = v

\* OsIpcSender::send: dup_handle_to_process, and the end of the value's turn of the loop,
\* which drops the value.
SendDup(v) ==
  /\ handle[v].stage = "ready" /\ ~Borrowed(v) /\ Receiver \in alive
  /\ \E n \in Free(Receiver) :
       /\ Dup(v, Receiver, n)
       /\ handle' = [handle EXCEPT ![v].stage = "sent", ![v].remote = n]
  /\ UNCHANGED <<alive, open, views, size, data, pipe, lost>>

\* The process cannot be opened, or takes no more handles.
SendFails(v) ==
  /\ handle[v].stage = "ready" /\ ~Borrowed(v)
  /\ Receiver \notin alive \/ Free(Receiver) = {}
  /\ handle' = [handle EXCEPT ![v].stage = "failed"]
  /\ UNCHANGED <<alive, open, kernelVars, pipe, lost>>

\* Drop for OsIpcSharedMemory: UnmapViewOfFile ...
Unmap(v) ==
  /\ handle[v].stage \in {"ready", "sent", "failed"} /\ handle[v].ptr # None /\ ~Borrowed(v)
  /\ views' = [views EXCEPT ![handle[v].proc][handle[v].ptr] = None]
  /\ handle' = [handle EXCEPT ![v].ptr = None,
                              ![v].stage = IF @ = "sent" THEN "sent" ELSE "unmapped"]
  /\ UNCHANGED <<alive, open, table, size, data, pipe, lost>>

\* ... and Drop for WinHandle: CloseHandle
Close(v) ==
  /\ handle[v].stage \in {"sent", "unmapped"} /\ handle[v].ptr = None /\ handle[v].h # None
  /\ table' = [table EXCEPT ![handle[v].proc][handle[v].h] = None]
  /\ handle' = [handle EXCEPT ![v] = IF @.stage = "sent" THEN [@ EXCEPT !.h = None] ELSE NoHandle]
  /\ UNCHANGED <<alive, open, views, size, data, pipe, lost>>

\* The message is written, or the pipe is closed and the number is forgotten.
Write(v) ==
  /\ handle[v].stage = "sent" /\ handle[v].h = None
  /\ IF open
       THEN /\ Len(pipe) < MaxQueue
            /\ pipe' = Append(pipe, [h |-> handle[v].remote, length |-> handle[v].length,
                                  made |-> handle[v].made])
            /\ UNCHANGED lost
       ELSE /\ lost' = IF Receiver \in alive THEN lost \cup {handle[v].remote} ELSE lost
            /\ UNCHANGED pipe
  /\ handle' = [handle EXCEPT ![v] = NoHandle]
  /\ UNCHANGED <<alive, open, kernelVars>>

\* The drop of the receiver: what is in the pipe is gone, and its handles stay.
DropReceiver ==
  /\ open /\ open' = FALSE
  /\ \A w \in Handles : handle[w].stage # "received"
  /\ pipe' = <<>> /\ lost' = lost \cup {pipe[i].h : i \in DOMAIN pipe}
  /\ UNCHANGED <<handle, alive, kernelVars>>

\* The end of a process, at any point.
Exit(p) ==
  /\ p \in alive /\ alive' = alive \ {p}
  /\ lost' = IF p = Receiver THEN {}
             ELSE lost \cup {handle[v].remote : v \in {w \in Handles :
                               handle[w].proc = p /\ handle[w].stage = "sent" /\ Receiver \in alive}}
  /\ handle' = [v \in Handles |-> IF handle[v].proc = p THEN NoHandle ELSE handle[v]]
  /\ table' = [table EXCEPT ![p] = [n \in Numbers |-> None]]
  /\ views' = [views EXCEPT ![p] = [a \in Addresses |-> None]]
  /\ IF p = Receiver THEN pipe' = <<>> /\ open' = FALSE ELSE UNCHANGED <<pipe, open>>
  /\ UNCHANGED <<size, data>>

----------------------------------------------------------------------------
Next ==
  \/ \E v \in Handles, p \in Processes, l \in Lengths : Create(v, p, l)
  \/ \E v, w \in Handles : Clone(v, w)
  \/ \E v \in Handles :
       \/ Receive(v) \/ Map(v) \/ SendDup(v) \/ SendFails(v)
       \/ Unmap(v) \/ Close(v) \/ Write(v)
  \/ DropReceiver
  \/ \E p \in Processes : Exit(p)

Spec == Init /\ [][Next]_vars

----------------------------------------------------------------------------
\* Properties

ValueSet ==
  [stage : {"none", "created", "duped", "received", "ready", "sent", "failed", "unmapped"},
   proc : Processes, h : Numbers \cup {None}, ptr : Addresses \cup {None},
   length : Lengths \cup {0}, from : Handles \cup {None}, remote : Numbers \cup {None},
   made : (Data \X Lengths) \cup {None}]

\* Every variable has its type.
TypeOK ==
  /\ handle \in [Handles -> ValueSet] /\ alive \subseteq Processes /\ open \in BOOLEAN
  /\ table \in [Processes -> [Numbers -> Sections \cup {None}]]
  /\ views \in [Processes -> [Addresses -> Sections \cup {None}]]
  /\ size \in [Sections -> Lengths \cup {0}] /\ data \in [Sections -> Data \cup {None}]
  /\ pipe \in Seq([h : Numbers, length : Lengths, made : Data \X Lengths]) /\ lost \subseteq Numbers

\* Who answers for a handle number: values, sends under way, messages in the pipe, and
\* numbers that a failed send or a dropped receiver forgot.
Owners(p, n) ==
  Cardinality({v \in Handles : handle[v].proc = p /\ handle[v].h = n})
  + (IF p # Receiver \/ p \notin alive THEN 0
     ELSE Cardinality({v \in Handles : handle[v].remote = n})
          + Cardinality({i \in DOMAIN pipe : pipe[i].h = n})
          + Cardinality({n} \cap lost))

\* Every handle and every view of a process has exactly one owner, the handles that a
\* sender put there included: none is closed under another value, and none leaks but
\* with a message that cannot be received (send, get_message, clone and the drops).
OwnedOnce ==
  \A p \in Processes :
    /\ \A n \in Numbers : Owners(p, n) = (IF table[p][n] = None THEN 0 ELSE 1)
    /\ \A a \in Addresses :
         Cardinality({v \in Handles : handle[v].proc = p /\ handle[v].ptr = a})
           = (IF views[p][a] = None THEN 0 ELSE 1)

\* The handle and the view of a value are of the same section, and the length that came
\* with a message is the section's (from_handle).
OneObject ==
  \A v \in Handles : handle[v].stage = "ready" =>
    LET s == table[handle[v].proc][handle[v].h]
    IN  s # None /\ views[handle[v].proc][handle[v].ptr] = s /\ handle[v].length = size[s]

\* What a value dereferences to.
Shows(v) == <<data[views[handle[v].proc][handle[v].ptr]], handle[v].length>>

\* A value shows what the first of its clones was made with.
Arrives == \A v \in Handles : handle[v].stage = "ready" => Shows(v) = handle[v].made
=============================================================================
