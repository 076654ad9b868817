------------------------------ MODULE CmdServer ------------------------------
(***************************************************************************)
(* The command path of the runtime: client threads (libbeethoven) hand     *)
(* RoCC commands to the cmd_server thread of the daemon through one        *)
(* process-shared cmd_server_file, and collect the responses from it.      *)
(*                                                                         *)
(* The pthread mutexes of the file are used as binary semaphores: the side *)
(* that waits locks, the other side unlocks, and unlocking an unlocked     *)
(* mutex does nothing (a lost signal).  A mutex is modelled by TRUE when   *)
(* it is locked.  A step is one access to state that another thread can    *)
(* observe, together with the lock operations around it that commute with  *)
(* every other thread.                                                     *)
(*                                                                         *)
(* The accelerator is external.  All that is assumed is what in_flight     *)
(* assumes too: a core answers its commands in the order it received them. *)
(***************************************************************************)
EXTENDS Integers, Sequences, FiniteSets

CONSTANTS
  Client,     \* client threads
  Core,       \* (system id, core id) pairs of the accelerator
  NumSlots,   \* MAX_CONCURRENT_COMMANDS
  Word,       \* 2^16: free_list_idx and the slots are uint16_t
  MaxCmds,    \* bound on the number of commands the clients send
  Window,     \* responses a client leaves uncollected when it sends
  Early,      \* clients that do not wait until the server is ready
  Quitters,   \* clients that call shutdown()
  Crashers,   \* clients that may be killed at any point
  Copiers     \* clients that copy their response handles

ASSUME ConstantsAssumption ==
  /\ Core # {}
  /\ Word \in Nat /\ NumSlots \in 1 .. Word - 1
  /\ MaxCmds \in Nat /\ Window \in Nat
  /\ Early \subseteq Client /\ Quitters \subseteq Client
  /\ Crashers \subseteq Client /\ Copiers \subseteq Client

VARIABLES
  server_mut, cmd_send_lock, cmd_recieve_server_resp_lock,
  wait_for_response, responses,            \* one of each per slot
  free_list, free_list_idx,                \* the stack of free slots
  pthread_wait_id, quit, cmd,
  pc_server, id, cmdserverlock, in_flight, \* the daemon
  pending, delivered,                      \* the accelerator
  pc, call, handles, alive,                \* the clients
  issued, assigned, got                    \* history

mutexes == << server_mut, cmd_send_lock, cmd_recieve_server_resp_lock >>
slots == << wait_for_response, responses >>
free_stack == << free_list, free_list_idx >>
message == << pthread_wait_id, quit, cmd >>
shm == << mutexes, slots, free_stack, message >>
daemon == << pc_server, id, cmdserverlock, in_flight >>
device == << pending, delivered >>
clients == << pc, call, handles, alive >>
history == << issued, assigned, got >>
vars == << shm, daemon, device, clients, history >>

Slot == 0 .. NumSlots - 1
NoSlot == Word - 1   \* 0xffff, the wait id of a command without response
Inc(i) == IF i = Word - 1 THEN 0 ELSE i + 1
Dec(i) == IF i = 0 THEN Word - 1 ELSE i - 1
Cmd == [id : 0 .. MaxCmds, core : Core, xd : BOOLEAN]
Handle == [cmd : Cmd, slot : Slot \cup {NoSlot}, copy : BOOLEAN]

\* The file is zero filled when it is created: command 0 asks no response.
ZeroCmd == [id |-> 0, core |-> CHOOSE k \in Core : TRUE, xd |-> FALSE]
HandleOf(m, s, copied) == [cmd |-> m, slot |-> s, copy |-> copied]
NoHandle == HandleOf(ZeroCmd, NoSlot, FALSE)

\* cmd_server_file::init, before the server thread first locks server_mut.
Init ==
  /\ server_mut = FALSE
  /\ cmd_send_lock = FALSE
  /\ cmd_recieve_server_resp_lock = TRUE
  /\ wait_for_response = [s \in Slot |-> TRUE]
  /\ responses = [s \in Slot |-> ZeroCmd]
  /\ free_list = [s \in Slot |-> s]
  /\ free_list_idx = NumSlots - 1
  /\ pthread_wait_id = 0
  /\ quit = FALSE
  /\ cmd = ZeroCmd
  /\ pc_server = "start"
  /\ id = NoSlot
  /\ cmdserverlock = FALSE
  /\ in_flight = [k \in Core |-> << >>]
  /\ pending = [k \in Core |-> << >>]
  /\ delivered = << >>
  /\ pc = [c \in Client |-> "new"]
  /\ call = [c \in Client |-> NoHandle]
  /\ handles = [c \in Client |-> {}]
  /\ alive = Client
  /\ issued = 0
  /\ assigned = [s \in Slot |-> ZeroCmd]
  /\ got = {}

\* The step of a live client that moves it from one point of a call to the
\* next.  Every action of a client but Crash leaves alive unchanged.
Goto(c, from, to) ==
  /\ c \in alive /\ pc[c] = from
  /\ pc' = [pc EXCEPT ![c] = to]
  /\ UNCHANGED alive

-----------------------------------------------------------------------------
(* Clients: fpga_handle_t *)

\* The constructor maps the file and clears quit.
Attach(c) ==
  /\ Goto(c, "new", "idle")
  /\ c \in Early \/ pc_server # "start"
  /\ quit' = FALSE
  /\ UNCHANGED << mutexes, slots, free_stack, pthread_wait_id, cmd, daemon,
                  device, call, handles, history >>

SendCall(c, k, xd) ==
  /\ Goto(c, "idle", "lock")
  /\ issued < MaxCmds
  /\ xd => Cardinality(handles[c]) < Window
  /\ issued' = issued + 1
  /\ LET m == [id |-> issued + 1, core |-> k, xd |-> xd]
     IN call' = [call EXCEPT ![c] = HandleOf(m, NoSlot, FALSE)]
  /\ UNCHANGED << shm, daemon, device, handles, assigned, got >>

SendLock(c) ==
  /\ Goto(c, "lock", "signal")
  /\ ~cmd_send_lock
  /\ cmd_send_lock' = TRUE
  /\ cmd' = call[c].cmd
  /\ UNCHANGED << server_mut, cmd_recieve_server_resp_lock, slots,
                  free_stack, pthread_wait_id, quit, daemon, device, call,
                  handles, history >>

SendSignal(c) ==
  /\ Goto(c, "signal", "ack")
  /\ server_mut' = FALSE
  /\ UNCHANGED << cmd_send_lock, cmd_recieve_server_resp_lock, slots,
                  free_stack, message, daemon, device, call, handles,
                  history >>

\* Mutant of SendAck: it keeps cmd_send_lock.
SendAck_KeepsLock(c) ==
  /\ Goto(c, "ack", "unquit")
  /\ ~cmd_recieve_server_resp_lock
  /\ cmd_recieve_server_resp_lock' = TRUE
  /\ call' = [call EXCEPT ![c] = HandleOf(@.cmd, pthread_wait_id, FALSE)]
  /\ UNCHANGED << server_mut, cmd_send_lock, slots, free_stack, message,
                  daemon, device, handles, history >>
SendAck(c) ==
  /\ Goto(c, "ack", "unquit")
  /\ ~cmd_recieve_server_resp_lock
  /\ cmd_recieve_server_resp_lock' = TRUE
  /\ call' = [call EXCEPT ![c] = HandleOf(@.cmd, pthread_wait_id, FALSE)]
  /\ cmd_send_lock' = FALSE
  /\ UNCHANGED << server_mut, slots, free_stack, message, daemon, device,
                  handles, history >>

\* quit is cleared after cmd_send_lock is released.  Only a handle of a
\* command with xd can be waited on (can_wait).
SendReturn(c) ==
  /\ Goto(c, "unquit", "idle")
  /\ quit' = FALSE
  /\ handles' = IF call[c].cmd.xd
                THEN [handles EXCEPT ![c] = @ \cup {call[c]}] ELSE handles
  /\ UNCHANGED << mutexes, slots, free_stack, pthread_wait_id, cmd, daemon,
                  device, call, history >>

\* response_getter::get marks the handle used and then blocks.
GetCall(c, h) ==
  /\ Goto(c, "idle", IF h.slot \in Slot THEN "get" ELSE "fault")
  /\ h \in handles[c]
  /\ handles' = [handles EXCEPT ![c] = @ \ {h}]
  /\ call' = [call EXCEPT ![c] = h]
  /\ UNCHANGED << shm, daemon, device, history >>

\* Mutant of TakeResponse: it reads without waiting.
TakeResponse_NoWait(h) ==
  /\ got' = got \cup {[handle |-> h, resp |-> responses[h.slot]]}
  /\ UNCHANGED << mutexes, slots, free_stack, message, daemon, device,
                  issued, assigned >>

\* Lock wait_for_response[slot] and copy the response out.
TakeResponse(h) ==
  /\ ~wait_for_response[h.slot]
  /\ wait_for_response' = [wait_for_response EXCEPT ![h.slot] = TRUE]
  /\ got' = got \cup {[handle |-> h, resp |-> responses[h.slot]]}
  /\ UNCHANGED << mutexes, responses, free_stack, message, daemon, device,
                  issued, assigned >>

GetWait(c) ==
  /\ Goto(c, "get", "release")
  /\ TakeResponse(call[c])
  /\ UNCHANGED << call, handles >>

\* response_getter::try_get keeps the handle usable unless it succeeds.
TryGet(c, h) ==
  /\ Goto(c, "idle", "release")
  /\ h \in handles[c] /\ h.slot \in Slot
  /\ TakeResponse(h)
  /\ handles' = [handles EXCEPT ![c] = @ \ {h}]
  /\ call' = [call EXCEPT ![c] = h]

\* Mutant of GetRelease: it increments the index after the store.
GetRelease_PostIncrement(c) ==
  /\ Goto(c, "release", "idle")
  /\ free_list_idx' = Inc(free_list_idx)
  /\ free_list' = [free_list EXCEPT ![free_list_idx] = call[c].slot]
  /\ UNCHANGED << mutexes, slots, message, daemon, device, call, handles,
                  history >>

\* free_list[++free_list_idx] = handle, under free_list_lock.  A write past
\* the array corrupts the file: nothing is modelled after it.
GetRelease(c) ==
  LET i == Inc(free_list_idx) IN
  /\ \/ /\ i \in Slot
        /\ Goto(c, "release", "idle")
        /\ free_list_idx' = i
        /\ free_list' = [free_list EXCEPT ![i] = call[c].slot]
     \/ /\ i \notin Slot
        /\ Goto(c, "release", "fault")
        /\ UNCHANGED free_stack
  /\ UNCHANGED << mutexes, slots, message, daemon, device, call, handles,
                  history >>

\* A response_getter can be copied; the source stays usable.
CopyHandle(c, h) ==
  /\ c \in Copiers \cap alive /\ pc[c] = "idle"
  /\ h \in handles[c]
  /\ handles' = [handles EXCEPT ![c] = @ \cup {HandleOf(h.cmd, h.slot, TRUE)}]
  /\ UNCHANGED << shm, daemon, device, pc, call, alive, history >>

\* shutdown() wakes the server first and sets quit afterwards.
ShutdownSignal(c) ==
  /\ c \in Quitters
  /\ Goto(c, "idle", "sd_quit")
  /\ ~cmd_send_lock
  /\ cmd_send_lock' = TRUE
  /\ server_mut' = FALSE
  /\ UNCHANGED << cmd_recieve_server_resp_lock, slots, free_stack, message,
                  daemon, device, call, handles, history >>

ShutdownQuit(c) ==
  /\ Goto(c, "sd_quit", "stopped")
  /\ quit' = TRUE
  /\ cmd_send_lock' = FALSE
  /\ UNCHANGED << server_mut, cmd_recieve_server_resp_lock, slots,
                  free_stack, pthread_wait_id, cmd, daemon, device, call,
                  handles, history >>

\* A killed process leaves the shared mutexes as they are.
Crash(c) ==
  /\ c \in Crashers \cap alive
  /\ pc[c] \notin {"new", "stopped", "fault"}
  /\ alive' = alive \ {c}
  /\ UNCHANGED << shm, daemon, device, pc, call, handles, history >>

-----------------------------------------------------------------------------
(* The daemon: cmd_server_f and register_reponse *)

\* The first lock of server_mut: from here on a client's unlock wakes us.
ServerStart ==
  /\ pc_server = "start" /\ ~server_mut
  /\ pc_server' = "wait"
  /\ server_mut' = TRUE
  /\ UNCHANGED << cmd_send_lock, cmd_recieve_server_resp_lock, slots,
                  free_stack, message, id, cmdserverlock, in_flight, device,
                  clients, history >>

\* Mutant of ServerWake: the server finds server_mut open and leaves it so.
ServerWake_NoLock ==
  /\ pc_server = "wait" /\ ~server_mut
  /\ pc_server' = "alloc"
  /\ UNCHANGED << shm, id, cmdserverlock, in_flight, device, clients, history >>

ServerWake ==
  /\ pc_server = "wait" /\ ~server_mut
  /\ pc_server' = "alloc"
  /\ server_mut' = TRUE
  /\ UNCHANGED << cmd_send_lock, cmd_recieve_server_resp_lock, slots,
                  free_stack, message, id, cmdserverlock, in_flight, device,
                  clients, history >>

\* Pop a slot, without a check that the stack has one: reading the array
\* at 0xffff is out of bounds, and nothing is modelled after it.
ServerAlloc ==
  /\ pc_server = "alloc"
  /\ \/ /\ cmd.xd /\ free_list_idx \in Slot
        /\ id' = free_list[free_list_idx]
        /\ free_list_idx' = Dec(free_list_idx)
        /\ pthread_wait_id' = id'
        /\ pc_server' = "submit"
     \/ /\ cmd.xd /\ free_list_idx \notin Slot
        /\ pc_server' = "fault"
        /\ UNCHANGED << id, free_list_idx, pthread_wait_id >>
     \/ /\ ~cmd.xd
        /\ id' = NoSlot
        /\ pthread_wait_id' = NoSlot
        /\ pc_server' = "submit"
        /\ UNCHANGED free_list_idx
  /\ UNCHANGED << mutexes, slots, free_list, quit, cmd, cmdserverlock,
                  in_flight, device, clients, history >>

\* The thread returns with cmdserverlock held.
ServerQuit ==
  /\ pc_server = "submit" /\ ~cmdserverlock /\ quit
  /\ pc_server' = "exited"
  /\ cmdserverlock' = TRUE
  /\ UNCHANGED << shm, id, in_flight, device, clients, history >>

\* Under cmdserverlock: give the command to the accelerator, remember where
\* its response goes, let the sender go on.  assert(id != 0xffff) aborts.
ServerSubmit ==
  /\ pc_server = "submit" /\ ~cmdserverlock /\ ~quit
  /\ delivered' = Append(delivered, cmd)
  /\ \/ /\ cmd.xd /\ id # NoSlot
        /\ in_flight' = [in_flight EXCEPT ![cmd.core] = Append(@, id)]
        /\ pending' = [pending EXCEPT ![cmd.core] = Append(@, cmd)]
        /\ assigned' = [assigned EXCEPT ![id] = cmd]
        /\ cmd_recieve_server_resp_lock' = FALSE
        /\ pc_server' = "wait"
     \/ /\ cmd.xd /\ id = NoSlot
        /\ pc_server' = "abort"
        /\ UNCHANGED << in_flight, pending, assigned, cmd_recieve_server_resp_lock >>
     \/ /\ ~cmd.xd
        /\ cmd_recieve_server_resp_lock' = FALSE
        /\ pc_server' = "wait"
        /\ UNCHANGED << in_flight, pending, assigned >>
  /\ UNCHANGED << server_mut, cmd_send_lock, slots, free_stack, message, id,
                  cmdserverlock, clients, issued, got >>

\* Mutants of Respond: no slot of the core is forgotten; the client is not
\* woken.
Respond_Forget(k, queue, wake) ==
  /\ ~cmdserverlock /\ pc_server \notin {"fault", "abort"}
  /\ pending[k] # << >>
  /\ responses' = [responses EXCEPT ![Head(in_flight[k])] = Head(pending[k])]
  /\ wait_for_response' = [wait_for_response EXCEPT ![Head(in_flight[k])] = ~wake]
  /\ in_flight' = [in_flight EXCEPT ![k] = queue]
  /\ pending' = [pending EXCEPT ![k] = Tail(@)]
  /\ UNCHANGED << mutexes, free_stack, message, pc_server, id,
                  cmdserverlock, delivered, clients, history >>
Respond_NoPop(k) == Respond_Forget(k, in_flight[k], TRUE)
Respond_NoWake(k) == Respond_Forget(k, Tail(in_flight[k]), FALSE)

\* Core k answers its oldest command; the response goes to the oldest slot
\* that in_flight holds for the core.
Respond(k) ==
  /\ ~cmdserverlock /\ pc_server \notin {"fault", "abort"}
  /\ pending[k] # << >>
  /\ LET s == Head(in_flight[k]) IN
     /\ responses' = [responses EXCEPT ![s] = Head(pending[k])]
     /\ wait_for_response' = [wait_for_response EXCEPT ![s] = FALSE]
  /\ in_flight' = [in_flight EXCEPT ![k] = Tail(@)]
  /\ pending' = [pending EXCEPT ![k] = Tail(@)]
  /\ UNCHANGED << mutexes, free_stack, message, pc_server, id,
                  cmdserverlock, delivered, clients, history >>

-----------------------------------------------------------------------------

\* Nobody is inside a call and no response is left to collect.
Finished ==
  /\ \A c \in alive : pc[c] = "stopped" \/ (pc[c] = "idle" /\ handles[c] = {})
  /\ UNCHANGED vars

ServerNext == ServerStart \/ ServerWake \/ ServerAlloc \/ ServerQuit \/ ServerSubmit

\* The steps of a call that has begun.
ClientStep(c) ==
  \/ SendLock(c) \/ SendSignal(c) \/ SendAck(c) \/ SendReturn(c)
  \/ GetWait(c) \/ GetRelease(c) \/ ShutdownQuit(c)

ClientNext(c) ==
  \/ Attach(c) \/ ClientStep(c) \/ ShutdownSignal(c) \/ Crash(c)
  \/ \E k \in Core, xd \in BOOLEAN : SendCall(c, k, xd)
  \/ \E h \in handles[c] : GetCall(c, h) \/ TryGet(c, h) \/ CopyHandle(c, h)

Next ==
  \/ ServerNext
  \/ \E k \in Core : Respond(k)
  \/ \E c \in Client : ClientNext(c)
  \/ Finished

Spec == Init /\ [][Next]_vars

\* A live thread runs, and a core answers every command.  Clients are free
\* to make no further call.
Fairness ==
  /\ WF_vars(ServerNext)
  /\ \A k \in Core : WF_vars(Respond(k))
  /\ \A c \in Client : WF_vars(ClientStep(c))

FairSpec == Spec /\ Fairness

-----------------------------------------------------------------------------
(* Properties *)

MutexType ==
  /\ server_mut \in BOOLEAN /\ cmd_send_lock \in BOOLEAN
  /\ cmd_recieve_server_resp_lock \in BOOLEAN
SlotType ==
  /\ wait_for_response \in [Slot -> BOOLEAN]
  /\ responses \in [Slot -> Cmd]
  /\ free_list \in [Slot -> Slot]
  /\ free_list_idx \in Slot \cup {NoSlot}
MessageType ==
  /\ pthread_wait_id \in Slot \cup {NoSlot}
  /\ quit \in BOOLEAN
  /\ cmd \in Cmd
DaemonType ==
  /\ pc_server \in {"start", "wait", "alloc", "submit", "exited", "fault", "abort"}
  /\ id \in Slot \cup {NoSlot}
  /\ cmdserverlock \in BOOLEAN
  /\ in_flight \in [Core -> Seq(Slot)]
  /\ pending \in [Core -> Seq(Cmd)]
  /\ delivered \in Seq(Cmd)
ClientType ==
  /\ pc \in [Client -> {"new", "idle", "lock", "signal", "ack", "unquit", "get",
                       "release", "sd_quit", "stopped", "fault"}]
  /\ call \in [Client -> Handle]
  /\ handles \in [Client -> SUBSET Handle]
  /\ alive \subseteq Client
  /\ \A c \in Client : pc[c] \in {"get", "release"} => call[c].slot \in Slot
HistoryType ==
  /\ issued \in 0 .. MaxCmds
  /\ assigned \in [Slot -> Cmd]
  /\ got \subseteq [handle : Handle, resp : Cmd]

\* Every variable keeps its type; a client that reads or releases a slot
\* has one.
TypeOK ==
  MutexType /\ SlotType /\ MessageType /\ DaemonType /\ ClientType /\ HistoryType

\* register_reponse never takes the front of an empty queue: in_flight has
\* as many entries for a core as the core has commands to answer.
QueuesAgree == \A k \in Core : Len(in_flight[k]) = Len(pending[k])

\* cmd_send_lock lets one client at a time use the one command buffer.
InSend(c) == pc[c] \in {"signal", "ack", "sd_quit"}
OneSender == \A c, d \in Client : InSend(c) /\ InSend(d) => c = d

\* The places a slot can be: on the free stack, with the server between the
\* pop and the push, in a queue of in_flight, answered and unread, or with a
\* client between the read of the response and the push.
FreePos == IF free_list_idx \in Slot THEN 0 .. free_list_idx ELSE {}
Free(s) == \E i \in FreePos : free_list[i] = s
Held(s) == pc_server = "submit" /\ id = s
Flying(s) == \E k \in Core : \E i \in DOMAIN in_flight[k] : in_flight[k][i] = s
Ready(s) == ~wait_for_response[s]
Releasing(c, s) == pc[c] = "release" /\ call[c].slot = s

\* A response slot is never in two places: the server never pops a slot
\* whose response is still expected, unread or being read, and no slot is
\* pushed twice.
OneOwner ==
  /\ \A i, j \in FreePos : free_list[i] = free_list[j] => i = j
  /\ \A k, l \in Core : \A i \in DOMAIN in_flight[k], j \in DOMAIN in_flight[l] :
       in_flight[k][i] = in_flight[l][j] => k = l /\ i = j
  /\ \A s \in Slot :
       /\ Free(s) => ~Held(s) /\ ~Flying(s) /\ ~Ready(s)
       /\ Held(s) => ~Flying(s) /\ ~Ready(s)
       /\ Flying(s) => ~Ready(s)
       /\ \A c \in Client : Releasing(c, s) =>
            /\ ~Free(s) /\ ~Held(s) /\ ~Flying(s) /\ ~Ready(s)
            /\ \A d \in Client : Releasing(d, s) => d = c

\* in_flight and the accelerator agree: the queue of a core lists, in order,
\* the slots given to the commands the core has still to answer.
Routing ==
  \A k \in Core : \A i \in DOMAIN in_flight[k] :
    assigned[in_flight[k][i]] = pending[k][i]

\* What get and try_get return is the response to the very command whose
\* send returned the handle.
OwnResponse == \A g \in got : g.resp = g.handle.cmd

\* The accelerator has been given command m, and w is the wait id for it.
Given(m, w) ==
  /\ \E i \in DOMAIN delivered : delivered[i] = m
  /\ IF m.xd THEN w \in Slot /\ assigned[w] = m ELSE w = NoSlot

\* "wait for server to signal that it has read our command": when send goes
\* on, the accelerator has its command and the handle is the command's own.
AckMeansRead ==
  \A c \in Client : pc[c] = "unquit" => Given(call[c].cmd, call[c].slot)

\* assert(id != 0xffff) of cmd_server_f holds: the command buffer does not
\* change between the server's two looks at its xd.
AssertHolds == pc_server # "abort"

\* A call of send returns.
SendReturns == \A c \in Client : pc[c] = "lock" ~> pc[c] = "idle"

\* A call of get returns.
GetReturns == \A c \in Client : pc[c] = "get" ~> pc[c] = "idle"

\* After shutdown() the command server thread leaves its loop.
ShutdownStops == \A c \in Client : pc[c] = "stopped" ~> pc_server = "exited"

-----------------------------------------------------------------------------
(* The inductive invariant of clients that neither shut down nor copy.     *)

\* Between the signal and its acknowledgement exactly one of these holds:
\* the signal is pending, the server works on the command, or the
\* acknowledgement is pending.  Without a client in "ack" none does.
Handshake ==
  /\ ~quit /\ ~cmdserverlock
  /\ pc_server \notin {"exited", "abort"}
  /\ \A c \in Client : pc[c] \notin {"sd_quit", "stopped"}
  /\ \A c \in Client : InSend(c) => cmd_send_lock /\ cmd = call[c].cmd
  /\ (\A c \in Client : pc[c] # "ack") =>
       /\ pc_server \in {"start", "wait"}
       /\ pc_server = "wait" => server_mut
       /\ cmd_recieve_server_resp_lock
  /\ pc_server = "start" => ~server_mut
  /\ pc_server \in {"alloc", "submit", "fault"} => server_mut
  /\ ~cmd_recieve_server_resp_lock => pc_server = "wait" /\ server_mut
  /\ pc_server = "submit" => id = pthread_wait_id /\ (cmd.xd <=> id # NoSlot)

\* The handles through which client c will still read or push a slot.
Claims(c) ==
  handles[c] \cup
  {h \in {call[c]} : pc[c] \in {"get", "release"} \/ (pc[c] = "unquit" /\ h.cmd.xd)}

\* Every handle names a slot that was assigned to its command, that is not
\* free and not being assigned again, and that no other handle names.
HandlesOwn ==
  \A c \in Client : \A h \in Claims(c) :
    /\ h.slot \in Slot /\ assigned[h.slot] = h.cmd
    /\ ~Free(h.slot) /\ ~Held(h.slot)
    /\ \A d \in Client : \A g \in Claims(d) : g.slot = h.slot => d = c /\ g = h

\* A handle in use was taken out of the client's set.
CallTaken == \A c \in Client :
  pc[c] \in {"get", "release"} \/ (pc[c] = "unquit" /\ call[c].cmd.xd) =>
    call[c] \notin handles[c]

\* A pending acknowledgement carries the slot of the command in the buffer,
\* which nobody names yet.
AckOwn ==
  ~cmd_recieve_server_resp_lock =>
    /\ Given(cmd, pthread_wait_id)
    /\ cmd.xd => /\ ~Free(pthread_wait_id)
                 /\ \A c \in Client : \A h \in Claims(c) : h.slot # pthread_wait_id

\* The response in a slot answers the command the slot was assigned to.
ReadyOwn == \A s \in Slot : Ready(s) => responses[s] = assigned[s]

\* All of it together is preserved by every step.
IInv ==
  /\ TypeOK /\ QueuesAgree /\ OneSender /\ OneOwner /\ Routing
  /\ Handshake /\ HandlesOwn /\ CallTaken /\ AckOwn /\ ReadyOwn
  /\ AckMeansRead /\ OwnResponse

\* No client has called shutdown() and none has copied a handle so far.
Proper ==
  \A c \in Client :
    /\ pc[c] \notin {"sd_quit", "stopped"}
    /\ \A h \in handles[c] \cup {call[c]} \cup {g.handle : g \in got} : ~h.copy

\* Clients that come before the server is ready or are killed inside a call
\* may block the others, and more open responses than slots end in a fault of
\* the server, but up to there no slot has two owners and no call gets the
\* response of another: only a shutdown() or a copied handle can cause that.
SafeUntilMisused == Proper => IInv

-----------------------------------------------------------------------------
(* The abstract remote call *)

\* The commands the accelerator was given, those whose response a client has
\* read, and those whose response waits in a slot.
Sent == {delivered[j] : j \in DOMAIN delivered}
Read == {g.handle.cmd : g \in got}
Waiting == {responses[s] : s \in {t \in Slot : Ready(t)}}

\* The commands the clients have named so far, wherever they are now.
Named == {call[c].cmd : c \in Client} \cup Sent

\* How far command i got.
StageOf(i) ==
  IF \E m \in Read : m.id = i THEN "collected"
  ELSE IF \E m \in Waiting : m.id = i THEN "answered"
  ELSE IF \E m \in Sent : m.id = i THEN "given"
  ELSE IF i <= issued THEN "sent" ELSE "unsent"

CommandOf(i) ==
  IF i <= issued
  THEN LET m == CHOOSE x \in Named : x.id = i IN [core |-> m.core, xd |-> m.xd]
  ELSE [core |-> "none", xd |-> FALSE]

Rpc == INSTANCE CommandRpc WITH
  stage <- [i \in 1 .. MaxCmds |-> StageOf(i)],
  command <- [i \in 1 .. MaxCmds |-> CommandOf(i)],
  queue <- [k \in Core |-> [j \in DOMAIN pending[k] |-> pending[k][j].id]]

\* The command path implements the promise: whatever the interleaving of
\* clients, server and accelerator, each command is executed once and
\* answered once, in the order of its core, and nothing sent is forgotten.
ImplementsRpc == Rpc!Spec
=============================================================================
