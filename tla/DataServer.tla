----------------------------- MODULE DataServer -----------------------------
(***************************************************************************)
(* The memory path of the runtime: client threads ask the data_server      *)
(* thread of the daemon to allocate, free and copy device buffers, through *)
(* one process-shared data_server_file.  In a simulation with DMA the      *)
(* server cuts a copy into bursts and hands each to the simulator thread.  *)
(*                                                                         *)
(* As in CmdServer.tla the mutexes are binary semaphores, TRUE when        *)
(* locked, and unlocking an unlocked one has no effect.  All that is used  *)
(* of the device allocator is that a new buffer overlaps no live one,      *)
(* which DeviceAllocator.tla checks of the allocator's code.               *)
(***************************************************************************)
EXTENDS Integers, Sequences

CONSTANTS
  Client,    \* client threads
  Lens,      \* lengths in bytes that clients ask for
  Beat,      \* bytes of a DMA beat, 64
  MaxBeats,  \* bound on the beats of a burst, 64
  Addrs,     \* device addresses the allocator may return
  MaxCalls,  \* bound on the number of calls
  Early,     \* clients that do not wait until the server is ready
  Failers    \* clients that may fail to map the file of a new buffer

ASSUME DataAssumption ==
  /\ Lens \subseteq Nat \ {0}
  /\ Beat \in Nat \ {0} /\ MaxBeats \in Nat \ {0} /\ MaxCalls \in Nat
  /\ Addrs \subseteq Nat
  /\ Early \subseteq Client /\ Failers \subseteq Client

VARIABLES
  server_mut, data_cmd_send_lock, data_cmd_recieve_resp_lock,
  operation, op_argument, op2_argument, op3_argument, fname, \* the rest of the file
  pc_server, mappings, ptr, amt_left,                        \* the data server
  dma, dma_wait_lock, dma_txprogress,                        \* shared with the simulator
  pc, call, bufs,                                            \* the clients
  calls, moved                                               \* history

locks == << server_mut, data_cmd_send_lock, data_cmd_recieve_resp_lock >>
args == << operation, op_argument, op2_argument, op3_argument >>
file == << locks, args, fname >>
server == << pc_server, mappings, ptr, amt_left >>
dmas == << dma, dma_wait_lock, dma_txprogress >>
clients == << pc, call, bufs, calls >>
vars == << file, server, dmas, clients, moved >>

Moves == {"MOVE_FROM_FPGA", "MOVE_TO_FPGA"}
NoDma == [valid |-> FALSE, in_progress |-> FALSE, write |-> FALSE, addr |-> 0, len |-> 0]
Call(op, a, n) == [op |-> op, addr |-> a, len |-> n]
Bytes(b) == b.addr .. b.addr + b.len - 1

\* data_server_file::init, before the server thread first locks server_mut.
Init ==
  /\ server_mut = FALSE /\ data_cmd_send_lock = FALSE /\ data_cmd_recieve_resp_lock = TRUE
  /\ operation = "ALLOC" /\ op_argument = 0 /\ op2_argument = 0 /\ op3_argument = 0 /\ fname = 0
  /\ pc_server = "start" /\ mappings = {} /\ ptr = 0 /\ amt_left = 0
  /\ dma = NoDma /\ dma_wait_lock = FALSE /\ dma_txprogress = 0
  /\ pc = [c \in Client |-> "idle"]
  /\ call = [c \in Client |-> Call("ALLOC", 0, 0)]
  /\ bufs = [c \in Client |-> {}]
  /\ calls = 0 /\ moved = << >>

-----------------------------------------------------------------------------
(* Clients: fpga_handle_t *)

Goto(c, from, to) == pc[c] = from /\ pc' = [pc EXCEPT ![c] = to]

Begin(c, r) ==
  /\ Goto(c, "idle", "lock")
  /\ c \in Early \/ pc_server # "start"
  /\ calls < MaxCalls
  /\ calls' = calls + 1
  /\ call' = [call EXCEPT ![c] = r]
  /\ UNCHANGED << file, server, dmas, moved >>

Malloc(c, n) == Begin(c, Call("ALLOC", 0, n)) /\ UNCHANGED bufs
Copy(c, b, op) == Begin(c, Call(op, b.addr, b.len)) /\ UNCHANGED bufs
Free(c, b) ==
  /\ Begin(c, Call("FREE", b.addr, b.len))
  /\ bufs' = [bufs EXCEPT ![c] = @ \ {b}]

\* Mutant: the lock that serialises the clients is not taken.
Lock_NoLock(c) ==
  /\ Goto(c, "lock", "signal")
  /\ operation' = call[c].op
  /\ op_argument' = IF call[c].op = "ALLOC" THEN call[c].len ELSE call[c].addr
  /\ op2_argument' = call[c].addr
  /\ op3_argument' = call[c].len
  /\ UNCHANGED << locks, fname, server, dmas, call, bufs, calls, moved >>

\* Each operation writes the arguments it has and leaves the others as the
\* call before left them.
Lock(c) ==
  /\ Goto(c, "lock", "signal")
  /\ ~data_cmd_send_lock
  /\ data_cmd_send_lock' = TRUE
  /\ operation' = call[c].op
  /\ op_argument' = CASE call[c].op = "ALLOC" -> call[c].len
                      [] call[c].op = "MOVE_FROM_FPGA" -> op_argument
                      [] OTHER -> call[c].addr
  /\ op2_argument' = IF call[c].op = "MOVE_FROM_FPGA" THEN call[c].addr ELSE op2_argument
  /\ op3_argument' = IF call[c].op \in Moves THEN call[c].len ELSE op3_argument
  /\ UNCHANGED << server_mut, data_cmd_recieve_resp_lock, fname, server, dmas, call, bufs,
                  calls, moved >>

Signal(c) ==
  /\ Goto(c, "signal", "response")
  /\ server_mut' = FALSE
  /\ UNCHANGED << data_cmd_send_lock, data_cmd_recieve_resp_lock, args,
                  fname, server, dmas, call, bufs, calls, moved >>

\* Mutant: the result is read without waiting for the server.
Return_NoWait(c) ==
  /\ Goto(c, "response", "idle")
  /\ bufs' = IF call[c].op = "ALLOC"
             THEN [bufs EXCEPT ![c] =
                     @ \cup {[addr |-> op_argument, len |-> call[c].len, file |-> fname]}]
             ELSE bufs
  /\ data_cmd_send_lock' = FALSE
  /\ UNCHANGED << server_mut, data_cmd_recieve_resp_lock, args, fname, server, dmas, call,
                  calls, moved >>

\* Only malloc has a result.
Return(c) ==
  /\ Goto(c, "response", "idle")
  /\ ~data_cmd_recieve_resp_lock
  /\ data_cmd_recieve_resp_lock' = TRUE
  /\ bufs' = IF call[c].op = "ALLOC"
             THEN [bufs EXCEPT ![c] =
                     @ \cup {[addr |-> op_argument, len |-> call[c].len, file |-> fname]}]
             ELSE bufs
  /\ data_cmd_send_lock' = FALSE
  /\ UNCHANGED << server_mut, args, fname, server, dmas, call, calls, moved >>

\* malloc throws when it cannot open or map the file: data_cmd_send_lock
\* stays locked.
MallocThrow(c) ==
  /\ c \in Failers
  /\ call[c].op = "ALLOC"
  /\ Goto(c, "response", "threw")
  /\ ~data_cmd_recieve_resp_lock
  /\ data_cmd_recieve_resp_lock' = TRUE
  /\ UNCHANGED << server_mut, data_cmd_send_lock, args, fname, server, dmas,
                  call, bufs, calls, moved >>

-----------------------------------------------------------------------------
(* The daemon: data_server_f and address_translator *)

ServerGoto(from, to) == pc_server = from /\ pc_server' = to

\* The first lock of server_mut, then the wait for a client.  dma_wait_lock
\* is locked when the first request has arrived.
ServerStart ==
  /\ ServerGoto("start", "first")
  /\ ~server_mut /\ server_mut' = TRUE
  /\ UNCHANGED << data_cmd_send_lock, data_cmd_recieve_resp_lock, args, fname,
                  mappings, ptr, amt_left, dmas, clients, moved >>

ServerWake ==
  /\ \/ /\ ServerGoto("first", "serve")
        /\ dma_wait_lock' = TRUE
     \/ /\ ServerGoto("wait", "serve")
        /\ UNCHANGED dma_wait_lock
  /\ ~server_mut /\ server_mut' = TRUE
  /\ UNCHANGED << data_cmd_send_lock, data_cmd_recieve_resp_lock, args, fname,
                  mappings, ptr, amt_left, dma, dma_txprogress, clients, moved >>

\* The mappings that hold a device address (translate), and the ones that
\* start at it (get_mapping, remove_mapping).
Holding(a) == {m \in mappings : a \in Bytes(m)}
StartingAt(a) == {m \in mappings : m.addr = a}

\* A fresh file, an address from the allocator, a new mapping.
Alloc(a) ==
  /\ ServerGoto("serve", "reply") /\ operation = "ALLOC"
  /\ \A m \in mappings : Bytes(m) \cap (a .. a + op_argument - 1) = {}
  /\ fname' = fname + 1
  /\ mappings' = mappings \cup {[addr |-> a, len |-> op_argument, file |-> fname']}
  /\ op_argument' = a
  /\ UNCHANGED << locks, operation, op2_argument, op3_argument, ptr, amt_left, dmas, clients, moved >>

\* An address without mapping throws, which ends the daemon.
Unmap ==
  /\ operation = "FREE"
  /\ IF StartingAt(op_argument) # {}
     THEN /\ ServerGoto("serve", "reply")
          /\ mappings' = mappings \ StartingAt(op_argument)
     ELSE /\ ServerGoto("serve", "terminated")
          /\ UNCHANGED mappings
  /\ UNCHANGED << file, ptr, amt_left, dmas, clients, moved >>

MoveAddr == IF operation = "MOVE_FROM_FPGA" THEN op2_argument ELSE op_argument

StartMove ==
  /\ operation \in Moves
  /\ IF Holding(MoveAddr) # {}
     THEN /\ ServerGoto("serve", "dma")
          /\ ptr' = MoveAddr
          /\ amt_left' = op3_argument
          /\ moved' = << >>
     ELSE /\ ServerGoto("serve", "terminated")
          /\ UNCHANGED << ptr, amt_left, moved >>
  /\ UNCHANGED << file, mappings, dmas, clients >>

\* The beats of the next burst: max(1, rand() % min(64, amt_left >> 6)).
BurstLens ==
  LET m == IF MaxBeats < amt_left \div Beat THEN MaxBeats ELSE amt_left \div Beat
  IN {IF r = 0 THEN 1 ELSE r : r \in 0 .. m - 1}

\* Under dma_lock.  With less than a beat left the modulus is zero: trap.
IssueBurst(n) ==
  /\ amt_left > 0
  /\ IF amt_left \div Beat = 0
     THEN /\ ServerGoto("dma", "trap")
          /\ UNCHANGED << amt_left, dma >>
     ELSE /\ ServerGoto("dma", "burst")
          /\ n \in BurstLens
          /\ amt_left' = amt_left - n * Beat
          /\ dma' = [valid |-> TRUE, in_progress |-> FALSE,
                     write |-> operation = "MOVE_TO_FPGA", addr |-> ptr, len |-> n * Beat]
  /\ UNCHANGED << file, mappings, ptr, dma_wait_lock, dma_txprogress, clients, moved >>

\* Mutant: the device address does not advance with the bursts.
BurstDone_SameAddress ==
  /\ ServerGoto("burst", "dma")
  /\ ~dma_wait_lock /\ dma_wait_lock' = TRUE
  /\ UNCHANGED << file, mappings, ptr, amt_left, dma, dma_txprogress, clients, moved >>

BurstDone ==
  /\ ServerGoto("burst", "dma")
  /\ ~dma_wait_lock /\ dma_wait_lock' = TRUE
  /\ ptr' = ptr + dma.len
  /\ UNCHANGED << file, mappings, amt_left, dma, dma_txprogress, clients, moved >>

MoveDone ==
  /\ ServerGoto("dma", "reply") /\ amt_left = 0
  /\ UNCHANGED << file, mappings, ptr, amt_left, dmas, clients, moved >>

Reply ==
  /\ ServerGoto("reply", "wait")
  /\ data_cmd_recieve_resp_lock' = FALSE
  /\ UNCHANGED << server_mut, data_cmd_send_lock, args, fname, mappings, ptr,
                  amt_left, dmas, clients, moved >>

-----------------------------------------------------------------------------
(* The simulator thread: the DMA part of tick_signals, under dma_lock.     *)
(* A tick without a handshake changes nothing here.                        *)

DmaStart ==
  /\ dma.valid /\ ~dma.in_progress
  /\ dma' = [dma EXCEPT !.in_progress = TRUE]
  /\ dma_txprogress' = 0
  /\ UNCHANGED << file, server, dma_wait_lock, clients, moved >>

\* A beat of data moves: the last beat of a read ends the burst.
DmaBeat ==
  LET last == ~dma.write /\ dma_txprogress + 1 = dma.len \div Beat IN
  /\ dma.valid /\ dma.in_progress
  /\ dma_txprogress < dma.len \div Beat
  /\ dma_txprogress' = dma_txprogress + 1
  /\ moved' = Append(moved, dma.addr + dma_txprogress * Beat)
  /\ dma' = IF last THEN [dma EXCEPT !.valid = FALSE, !.in_progress = FALSE] ELSE dma
  /\ dma_wait_lock' = IF last THEN FALSE ELSE dma_wait_lock
  /\ UNCHANGED << file, server, clients >>

\* Mutant: the end of a write does not wake the server.
DmaResponse_NoWake ==
  /\ dma.in_progress /\ dma.write /\ dma_txprogress = dma.len \div Beat
  /\ dma' = [dma EXCEPT !.valid = FALSE, !.in_progress = FALSE]
  /\ UNCHANGED << file, server, dma_wait_lock, dma_txprogress, clients, moved >>

\* The response to the last beat of a write ends the burst.
DmaResponse ==
  /\ dma.in_progress /\ dma.write /\ dma_txprogress = dma.len \div Beat
  /\ dma' = [dma EXCEPT !.valid = FALSE, !.in_progress = FALSE]
  /\ dma_wait_lock' = FALSE
  /\ UNCHANGED << file, server, dma_txprogress, clients, moved >>

-----------------------------------------------------------------------------

\* Every client is outside a call.
Finished == (\A c \in Client : pc[c] = "idle") /\ UNCHANGED vars

ClientStep(c) == Lock(c) \/ Signal(c) \/ Return(c) \/ MallocThrow(c)

ServerNext ==
  \/ ServerStart \/ ServerWake \/ (\E a \in Addrs : Alloc(a)) \/ Unmap \/ StartMove
  \/ (\E n \in 1 .. MaxBeats : IssueBurst(n)) \/ BurstDone \/ MoveDone \/ Reply

SimNext == DmaStart \/ DmaBeat \/ DmaResponse

ClientNext(c) ==
  \/ \E n \in Lens : Malloc(c, n)
  \/ \E b \in bufs[c] : Free(c, b) \/ \E op \in Moves : Copy(c, b, op)
  \/ ClientStep(c)

Next == ServerNext \/ SimNext \/ (\E c \in Client : ClientNext(c)) \/ Finished

Spec == Init /\ [][Next]_vars

\* A live thread runs; clients are free to make no further call.
FairSpec ==
  Spec /\ WF_vars(ServerNext) /\ WF_vars(SimNext) /\ \A c \in Client : WF_vars(ClientStep(c))

-----------------------------------------------------------------------------
(* Properties *)

Live == UNION {bufs[c] : c \in Client}

\* What malloc returned is what the server holds: each buffer a client holds
\* has its own mapping, of its length and to its file, so that the accesses
\* of the accelerator reach the memory the client sees.
BuffersMapped == Live \subseteq mappings

\* A client that frees and copies its own buffers never makes the daemon
\* throw.
NoThrow == pc_server # "terminated"

\* When the server replies to a copy, the bursts have moved every beat of
\* the buffer, each once and in order, whatever lengths rand() chose.
CopyWhole ==
  pc_server = "reply" /\ operation \in Moves =>
    moved = [i \in 1 .. op3_argument \div Beat |-> MoveAddr + (i - 1) * Beat]

\* The server does what the client that waits asked for: when it replies to
\* an ALLOC or a FREE the mappings are those the call wants, and a copy moves
\* the caller's buffer.
AnswersCaller ==
  pc_server = "reply" => \E c \in Client :
    /\ pc[c] = "response"
    /\ operation = call[c].op
    /\ CASE operation = "ALLOC" -> [addr |-> op_argument, len |-> call[c].len, file |-> fname] \in mappings
         [] operation = "FREE" -> StartingAt(call[c].addr) = {}
         [] OTHER -> MoveAddr = call[c].addr /\ op3_argument = call[c].len

\* A client came too early and its signal was taken for the first lock of
\* server_mut: the server waits for it and it waits for the server.
SignalLost == pc_server = "first" /\ server_mut /\ \E c \in Client : pc[c] = "response"

\* Every call returns, unless a malloc threw with data_cmd_send_lock locked,
\* the first signal was lost, or a copy of part of a beat took the remainder
\* by zero that ends the daemon: nothing else blocks the clients.
CallsReturn ==
  \A c \in Client :
    pc[c] = "lock" ~> \/ pc[c] = "idle" \/ SignalLost \/ pc_server = "trap"
                      \/ \E d \in Client : pc[d] = "threw"
=============================================================================
