----------------------------- MODULE AxiControl -----------------------------
(***************************************************************************)
(* The simulation side of the command path: on every clock tick the        *)
(* simulator thread runs AXIControlIntf::tick, three state machines that   *)
(* share one AXI-Lite bus.  One sends commands word by word, one reads     *)
(* responses word by word, one polls the CMD_READY and RESP_VALID          *)
(* registers.  The cmd_server thread feeds the queue cmds.                 *)
(*                                                                         *)
(* A tick is five steps of the simulator thread: the test of kill_sig that *)
(* starts it, one step per state machine, and the clock edge at which the  *)
(* hardware sees the signals the machines drive.  The hardware (registers  *)
(* and accelerator cores) is external and answers after any delay.         *)
(***************************************************************************)
EXTENDS Integers, Sequences

CONSTANTS
  Core,       \* the cores of the accelerator
  MaxCmds,    \* bound on the number of commands
  CmdWords,   \* command_transaction::payload_length
  RespWords,  \* response_transaction::payload_length
  CheckFreq,  \* check_freq
  Depth,      \* command words the hardware buffers
  CanQuit     \* whether a client calls shutdown()

ASSUME AxiAssumption ==
  /\ MaxCmds \in Nat /\ CheckFreq \in Nat
  /\ CmdWords \in Nat \ {0} /\ RespWords \in Nat \ {0} /\ Depth \in Nat \ {0}
  /\ CanQuit \in BOOLEAN

VARIABLES
  cmds, cmdserverlock, kill_sig,           \* shared with the cmd_server thread
  phase,                                   \* where the simulator thread is
  cmd_state, cmd, progress, ready_for_command,
  rsp_state, resbuf,
  ongoing_update, check_freq_ctr, bus_occupied, cmds_inflight,
  aw_addr, w_data, b_ready, ar_addr, r_ready,        \* driven by the machines
  wr, waddr, rd, raddr, r_data,            \* the hardware: bus,
  bits, rx, todo, out, resp,               \* registers and cores
  submitted, received, registered          \* history

server == << cmds, cmdserverlock, kill_sig >>
command == << cmd_state, cmd, progress, ready_for_command >>
response == << rsp_state, resbuf >>
update == << ongoing_update, check_freq_ctr >>
shared == << bus_occupied, cmds_inflight >>
signals == << aw_addr, w_data, b_ready, ar_addr, r_ready >>
hardware == << wr, waddr, rd, raddr, r_data, bits, rx, todo, out, resp >>
history == << submitted, received, registered >>
vars == << server, phase, command, response, update, shared, signals, hardware, history >>

Cmd == [id : 1 .. MaxCmds, core : Core, xd : BOOLEAN]
NoCmd == [id |-> 0, core |-> CHOOSE k \in Core : TRUE, xd |-> FALSE]
Word == [id : 0 .. MaxCmds, beat : 0 .. CmdWords + RespWords]
NoWord == [id |-> 0, beat |-> 0]
None == "none"   \* the valid signal of a channel is low

Init ==
  /\ cmds = << >> /\ cmdserverlock = FALSE /\ kill_sig = FALSE
  /\ phase = "loop"
  /\ cmd_state = "INACTIVE" /\ cmd = NoCmd /\ progress = 0 /\ ready_for_command = FALSE
  /\ rsp_state = "INACTIVE" /\ resbuf = << >>
  /\ ongoing_update = "IDLE_CMD" /\ check_freq_ctr = 0
  /\ bus_occupied = FALSE /\ cmds_inflight = 0
  /\ aw_addr = None /\ w_data = NoWord /\ b_ready = FALSE /\ ar_addr = None /\ r_ready = FALSE
  /\ wr = "aw_wait" /\ waddr = None /\ rd = "ar_wait" /\ raddr = None /\ r_data = NoWord
  /\ bits = NoWord /\ rx = << >> /\ todo = [k \in Core |-> << >>] /\ out = << >> /\ resp = NoWord
  /\ submitted = << >> /\ received = << >> /\ registered = << >>

-----------------------------------------------------------------------------
(* The cmd_server thread *)

Submit(k, xd) ==
  LET m == [id |-> Len(submitted) + 1, core |-> k, xd |-> xd] IN
  /\ ~cmdserverlock /\ Len(submitted) < MaxCmds
  /\ cmds' = Append(cmds, m)
  /\ submitted' = Append(submitted, m)
  /\ UNCHANGED << cmdserverlock, kill_sig, phase, command, response, update, shared,
                  signals, hardware, received, registered >>

\* The thread returns without unlocking cmdserverlock.
Quit ==
  /\ CanQuit /\ ~cmdserverlock
  /\ cmdserverlock' = TRUE
  /\ kill_sig' = TRUE
  /\ UNCHANGED << cmds, phase, command, response, update, shared, signals, hardware,
                  history >>

-----------------------------------------------------------------------------
(* The simulator thread *)

Step(from, to) == phase = from /\ phase' = to

\* while (not kill_sig), and the start of tick: all signals low.
Loop ==
  /\ phase = "loop"
  /\ phase' = IF kill_sig THEN "exit" ELSE "command"
  /\ aw_addr' = None /\ w_data' = NoWord /\ b_ready' = FALSE
  /\ ar_addr' = None /\ r_ready' = FALSE
  /\ UNCHANGED << server, command, response, update, shared, hardware, history >>

DriveAw(a) == aw_addr' = a /\ UNCHANGED << w_data, b_ready, ar_addr, r_ready >>
DriveW(d) == w_data' = d /\ UNCHANGED << aw_addr, b_ready, ar_addr, r_ready >>
DriveB == b_ready' = TRUE /\ UNCHANGED << aw_addr, w_data, ar_addr, r_ready >>
DriveAr(a) == ar_addr' = a /\ UNCHANGED << aw_addr, w_data, b_ready, r_ready >>
DriveR == r_ready' = TRUE /\ UNCHANGED << aw_addr, w_data, b_ready, ar_addr >>
One == [id |-> 0, beat |-> 1]   \* the word 1 that is written to a flag register
IsSet(word) == word.beat # 0

\* update_command_state

\* One transfer of a command: drive a channel, go on when the hardware takes it.
CmdTransfer(from, drive, ready, to) ==
  /\ cmd_state = from /\ drive
  /\ cmd_state' = IF ready THEN to ELSE from
  /\ UNCHANGED << cmd, progress, bus_occupied, cmds_inflight, cmds, kill_sig >>

CmdWrites ==
  \/ /\ CmdTransfer("BITS_WRITE_ADDR", DriveAw("CMD_BITS"), wr = "aw_ready", "BITS_WRITE_DAT")
     /\ ready_for_command' = FALSE
  \/ /\ \/ CmdTransfer("BITS_WRITE_DAT", DriveW([id |-> cmd.id, beat |-> progress + 1]),
                       wr = "w_ready", "BITS_WRITE_B")
        \/ CmdTransfer("BITS_WRITE_B", DriveB, wr = "b_valid", "VALID_ADDR")
        \/ CmdTransfer("VALID_ADDR", DriveAw("CMD_VALID"), wr = "aw_ready", "VALID_DAT")
        \/ CmdTransfer("VALID_DAT", DriveW(One), wr = "w_ready", "VALID_WRITE_B")
        \/ CmdTransfer("RECHECK_READY_ADDR", DriveAr("CMD_READY"), rd = "ar_ready",
                       "RECHECK_READY_DAT")
        \/ CmdTransfer("RECHECK_READY_DAT", DriveR, rd = "r_valid",
                       IF IsSet(r_data) THEN "BITS_WRITE_ADDR" ELSE "RECHECK_READY_ADDR")
     /\ UNCHANGED ready_for_command

\* The last word yields the bus.
CmdWordDone ==
  /\ cmd_state = "VALID_WRITE_B" /\ DriveB
  /\ \/ /\ wr # "b_valid"
        /\ UNCHANGED << cmd_state, progress, bus_occupied >>
     \/ /\ wr = "b_valid" /\ progress + 1 = CmdWords
        /\ progress' = progress + 1
        /\ cmd_state' = "INACTIVE"
        /\ bus_occupied' = FALSE
     \/ /\ wr = "b_valid" /\ progress + 1 # CmdWords
        /\ progress' = progress + 1
        /\ cmd_state' = "RECHECK_READY_ADDR"
        /\ UNCHANGED bus_occupied
  /\ UNCHANGED << cmd, ready_for_command, cmds_inflight, cmds, kill_sig >>

\* Mutant of CmdMayStart: a poll may still be waiting for its answer.
CmdMayStart_DuringPoll == ready_for_command /\ ~bus_occupied
CmdMayStart ==
  ready_for_command /\ ~bus_occupied /\ ongoing_update \in {"IDLE_CMD", "IDLE_RESP"}

\* Mutant of CmdInactive: it takes the newest command.
CmdInactive_Newest ==
  /\ cmd_state = "INACTIVE"
  /\ CmdMayStart => ~cmdserverlock
  /\ \/ /\ CmdMayStart /\ cmds # << >>
        /\ LET m == cmds[Len(cmds)] IN
           cmd' = m /\ cmds_inflight' = cmds_inflight + (IF m.xd THEN 1 ELSE 0)
        /\ cmds' = SubSeq(cmds, 1, Len(cmds) - 1)
        /\ bus_occupied' = TRUE
        /\ cmd_state' = "BITS_WRITE_ADDR" /\ kill_sig' = FALSE /\ progress' = 0
     \/ /\ ~CmdMayStart \/ cmds = << >>
        /\ UNCHANGED << cmd_state, cmd, progress, shared, cmds, kill_sig >>
  /\ UNCHANGED << ready_for_command, signals >>

\* Take the next command, under cmdserverlock.  No client sends ROCC_OP_FLUSH.
CmdInactive ==
  /\ cmd_state = "INACTIVE"
  /\ CmdMayStart => ~cmdserverlock
  /\ \/ /\ CmdMayStart /\ cmds # << >>
        /\ bus_occupied' = TRUE
        /\ cmd_state' = "BITS_WRITE_ADDR"
        /\ cmd' = Head(cmds)
        /\ kill_sig' = FALSE
        /\ progress' = 0
        /\ cmds_inflight' = cmds_inflight + (IF Head(cmds).xd THEN 1 ELSE 0)
        /\ cmds' = Tail(cmds)
     \/ /\ ~CmdMayStart \/ cmds = << >>
        /\ UNCHANGED << cmd_state, cmd, progress, shared, cmds, kill_sig >>
  /\ UNCHANGED << ready_for_command, signals >>

UpdateCommandState ==
  /\ Step("command", "response")
  /\ CmdWrites \/ CmdWordDone \/ CmdInactive
  /\ UNCHANGED << cmdserverlock, response, update, hardware, history >>

\* update_resp_state

RspTransfer(from, drive, ready, to) ==
  /\ rsp_state = from /\ drive
  /\ rsp_state' = IF ready THEN to ELSE from
  /\ UNCHANGED << resbuf, shared, registered >>

\* Mutant of RspWordDone: the next word is read without another look at
\* RESP_VALID.
RspWordDone_NoRecheck ==
  /\ ~cmdserverlock
  /\ registered' = IF Len(resbuf) = RespWords THEN Append(registered, resbuf) ELSE registered
  /\ cmds_inflight' = IF Len(resbuf) = RespWords THEN cmds_inflight - 1 ELSE cmds_inflight
  /\ bus_occupied' = (Len(resbuf) # RespWords)
  /\ rsp_state' = IF Len(resbuf) = RespWords THEN "INACTIVE" ELSE "BITS_ADDR"

\* register_reponse locks cmdserverlock.
RspWordDone ==
  /\ Len(resbuf) = RespWords => ~cmdserverlock
  /\ \/ /\ Len(resbuf) = RespWords
        /\ registered' = Append(registered, resbuf)
        /\ cmds_inflight' = cmds_inflight - 1
        /\ bus_occupied' = FALSE
        /\ rsp_state' = "INACTIVE"
     \/ /\ Len(resbuf) # RespWords
        /\ rsp_state' = "RECHECK_VALID_ADDR"
        /\ UNCHANGED << shared, registered >>

\* READY_WRITE falls through into READY_WRITE_B.
RspWriteB ==
  /\ rsp_state \in {"READY_WRITE", "READY_WRITE_B"}
  /\ w_data' = IF rsp_state = "READY_WRITE" THEN One ELSE w_data
  /\ b_ready' = TRUE
  /\ \/ /\ wr = "b_valid"
        /\ RspWordDone
     \/ /\ wr # "b_valid"
        /\ rsp_state' = IF wr = "w_ready" THEN "READY_WRITE_B" ELSE rsp_state
        /\ UNCHANGED << shared, registered >>
  /\ UNCHANGED << aw_addr, ar_addr, r_ready, resbuf >>

RspRead ==
  /\ rsp_state = "BITS_READ" /\ DriveR
  /\ \/ /\ rd = "r_valid"
        /\ resbuf' = Append(resbuf, r_data)
        /\ rsp_state' = "READY_ADDR"
     \/ /\ rd # "r_valid"
        /\ UNCHANGED response
  /\ UNCHANGED << shared, registered >>

UpdateRespState ==
  /\ Step("response", "update")
  /\ \/ /\ rsp_state = "INACTIVE"
        /\ UNCHANGED << response, shared, signals, registered >>
     \/ RspTransfer("BITS_ADDR", DriveAr("RESP_BITS"), rd = "ar_ready", "BITS_READ")
     \/ RspRead
     \/ RspTransfer("READY_ADDR", DriveAw("RESP_READY"), wr = "aw_ready", "READY_WRITE")
     \/ RspWriteB
     \/ RspTransfer("RECHECK_VALID_ADDR", DriveAr("RESP_VALID"), rd = "ar_ready",
                    "RECHECK_VALID_READ")
     \/ RspTransfer("RECHECK_VALID_READ", DriveR, rd = "r_valid",
                    IF IsSet(r_data) THEN "BITS_ADDR" ELSE "RECHECK_VALID_ADDR")
  /\ UNCHANGED << server, command, update, hardware, submitted, received >>

\* update_update_state

\* The counter is only compared with CheckFreq: it stops one above it.
Poll(from, to) ==
  /\ ongoing_update = from
  /\ \/ /\ ~bus_occupied /\ check_freq_ctr > CheckFreq
        /\ check_freq_ctr' = 0
        /\ bus_occupied' = TRUE
        /\ ongoing_update' = to
     \/ /\ bus_occupied \/ check_freq_ctr <= CheckFreq
        /\ check_freq_ctr' = IF check_freq_ctr > CheckFreq THEN check_freq_ctr
                             ELSE check_freq_ctr + 1
        /\ UNCHANGED << ongoing_update, bus_occupied >>
  /\ UNCHANGED << ready_for_command, response, signals >>

PollAddr(from, addr, to) ==
  /\ ongoing_update = from /\ DriveAr(addr)
  /\ ongoing_update' = IF rd = "ar_ready" THEN to ELSE from
  /\ UNCHANGED << check_freq_ctr, bus_occupied, ready_for_command, response >>

\* A response that is found keeps the bus for update_resp_state.
PollRespWait ==
  /\ ongoing_update = "RESP_WAIT" /\ DriveR
  /\ \/ /\ rd = "r_valid"
        /\ resbuf' = << >>
        /\ rsp_state' = IF IsSet(r_data) THEN "BITS_ADDR" ELSE rsp_state
        /\ bus_occupied' = IF IsSet(r_data) THEN bus_occupied ELSE FALSE
        /\ ongoing_update' = "IDLE_CMD"
     \/ /\ rd # "r_valid"
        /\ UNCHANGED << response, bus_occupied, ongoing_update >>
  /\ UNCHANGED << check_freq_ctr, ready_for_command >>

\* Mutants of PollCmdWait: CMD_READY is taken for granted; responses are
\* never polled.
PollCmdWait_Assign(ready, next) ==
  /\ ongoing_update = "CMD_WAIT" /\ DriveR
  /\ ready_for_command' = IF rd = "r_valid" THEN ready ELSE ready_for_command
  /\ ongoing_update' = IF rd = "r_valid" THEN next ELSE ongoing_update
  /\ bus_occupied' = FALSE
  /\ UNCHANGED << check_freq_ctr, response >>
PollCmdWait_Ready ==
  PollCmdWait_Assign(TRUE, IF cmds_inflight > 0 THEN "IDLE_RESP" ELSE "IDLE_CMD")
PollCmdWait_NoResp == PollCmdWait_Assign(IsSet(r_data), "IDLE_CMD")

\* The bus is given up on the first tick of the wait, answer or not.
PollCmdWait ==
  /\ ongoing_update = "CMD_WAIT" /\ DriveR
  /\ \/ /\ rd = "r_valid"
        /\ ready_for_command' = IsSet(r_data)
        /\ ongoing_update' = IF cmds_inflight > 0 THEN "IDLE_RESP" ELSE "IDLE_CMD"
     \/ /\ rd # "r_valid"
        /\ UNCHANGED << ready_for_command, ongoing_update >>
  /\ bus_occupied' = FALSE
  /\ UNCHANGED << check_freq_ctr, response >>

UpdateUpdateState ==
  /\ Step("update", "edge")
  /\ \/ Poll("IDLE_RESP", "RESP_ADDR") \/ PollAddr("RESP_ADDR", "RESP_VALID", "RESP_WAIT")
     \/ PollRespWait
     \/ Poll("IDLE_CMD", "CMD_ADDR") \/ PollAddr("CMD_ADDR", "CMD_READY", "CMD_WAIT")
     \/ PollCmdWait
  /\ UNCHANGED << server, cmd_state, cmd, progress, cmds_inflight, hardware, history >>

-----------------------------------------------------------------------------
(* The hardware *)

\* What a write of d to register waddr does.  A command word that is valid
\* while the buffer is full is lost.
WriteRegister(d) ==
  /\ bits' = IF waddr = "CMD_BITS" THEN d ELSE bits
  /\ LET taken == waddr = "CMD_VALID" /\ Len(rx) < Depth IN
     /\ rx' = IF taken THEN Append(rx, bits) ELSE rx
     /\ received' = IF taken THEN Append(received, bits) ELSE received
  /\ resp' = IF waddr = "RESP_READY" THEN NoWord ELSE resp

Flag(b) == IF b THEN One ELSE NoWord
ReadRegister(a) ==
  CASE a = "CMD_READY" -> Flag(Len(rx) < Depth)
    [] a = "RESP_VALID" -> Flag(resp # NoWord)
    [] a = "RESP_BITS" -> resp

\* The AXI-Lite write channels: address, data, response, each when the
\* hardware is ready for it.
WriteEdge ==
  \/ /\ wr = "aw_ready" /\ aw_addr # None
     /\ waddr' = aw_addr
     /\ wr' \in {"w_wait", "w_ready"}
     /\ UNCHANGED << bits, rx, resp, received >>
  \/ /\ wr = "w_ready" /\ w_data # NoWord
     /\ WriteRegister(w_data)
     /\ wr' \in {"b_wait", "b_valid"}
     /\ UNCHANGED waddr
  \/ /\ wr = "b_valid" /\ b_ready
     /\ wr' \in {"aw_wait", "aw_ready"}
     /\ UNCHANGED << waddr, bits, rx, resp, received >>
  \/ /\ \/ wr = "aw_wait" /\ wr' \in {wr, "aw_ready"}
        \/ wr = "w_wait" /\ wr' \in {wr, "w_ready"}
        \/ wr = "b_wait" /\ wr' \in {wr, "b_valid"}
        \/ wr = "aw_ready" /\ aw_addr = None /\ UNCHANGED wr
        \/ wr = "w_ready" /\ w_data = NoWord /\ UNCHANGED wr
        \/ wr = "b_valid" /\ ~b_ready /\ UNCHANGED wr
     /\ UNCHANGED << waddr, bits, rx, resp, received >>

\* The data of a read is there when r_valid is.
ReadEdge ==
  \/ /\ rd = "ar_ready" /\ ar_addr # None
     /\ raddr' = ar_addr
     /\ rd' = "r_wait"
     /\ UNCHANGED r_data
  \/ /\ rd = "r_wait"
     /\ rd' = "r_valid"
     /\ r_data' = ReadRegister(raddr)
     /\ UNCHANGED raddr
  \/ /\ rd = "r_valid" /\ r_ready
     /\ rd' \in {"ar_wait", "ar_ready"}
     /\ r_data' = NoWord
     /\ UNCHANGED raddr
  \/ /\ \/ rd = "ar_wait" /\ rd' = "ar_ready"
        \/ rd \in {"ar_wait", "r_wait"} /\ UNCHANGED rd
        \/ rd = "ar_ready" /\ ar_addr = None /\ UNCHANGED rd
        \/ rd = "r_valid" /\ ~r_ready /\ UNCHANGED rd
     /\ UNCHANGED << r_data, raddr >>

Edge ==
  /\ Step("edge", "loop")
  /\ WriteEdge /\ ReadEdge
  /\ UNCHANGED << server, command, response, update, shared, signals, todo, out,
                  submitted, registered >>

\* The accelerator collects the words of a command and starts it.
TakeWord ==
  /\ rx # << >>
  /\ rx' = Tail(rx)
  /\ LET m == submitted[Head(rx).id] IN
     todo' = IF Head(rx).beat = CmdWords /\ m.xd
             THEN [todo EXCEPT ![m.core] = Append(@, m.id)] ELSE todo
  /\ UNCHANGED << server, phase, command, response, update, shared, signals, wr, waddr,
                  rd, raddr, r_data, bits, out, resp, history >>

\* Core k answers its oldest command; the answer leaves word by word.
Answer(k) ==
  /\ out = << >> /\ todo[k] # << >>
  /\ out' = [j \in 1 .. RespWords |-> [id |-> Head(todo[k]), beat |-> j]]
  /\ todo' = [todo EXCEPT ![k] = Tail(@)]
  /\ UNCHANGED << server, phase, command, response, update, shared, signals, wr, waddr,
                  rd, raddr, r_data, bits, rx, resp, history >>

AnswerWord ==
  /\ resp = NoWord /\ out # << >>
  /\ resp' = Head(out)
  /\ out' = Tail(out)
  /\ UNCHANGED << server, phase, command, response, update, shared, signals, wr, waddr,
                  rd, raddr, r_data, bits, rx, todo, history >>

-----------------------------------------------------------------------------

\* run_verilator ends in _exit: every thread is gone.
Exited == phase = "exit" /\ UNCHANGED vars

Simulator == Loop \/ UpdateCommandState \/ UpdateRespState \/ UpdateUpdateState \/ Edge

Next ==
  \/ Simulator
  \/ \E k \in Core, xd \in BOOLEAN : phase # "exit" /\ Submit(k, xd)
  \/ phase # "exit" /\ Quit
  \/ TakeWord \/ AnswerWord \/ \E k \in Core : Answer(k)
  \/ Exited

Spec == Init /\ [][Next]_vars

\* The simulator thread runs, and the hardware neither withholds a handshake
\* for ever nor leaves a command unanswered.
FairSpec ==
  /\ Spec
  /\ WF_vars(Simulator) /\ WF_vars(TakeWord) /\ WF_vars(AnswerWord)
  /\ \A k \in Core : WF_vars(Answer(k))
  /\ SF_vars(Edge /\ wr' # wr) /\ SF_vars(Edge /\ rd' # rd)

-----------------------------------------------------------------------------
(* Properties *)

CmdActive == cmd_state # "INACTIVE"
RspActive == rsp_state # "INACTIVE"
PollActive == ongoing_update \notin {"IDLE_CMD", "IDLE_RESP"}

\* At most one of the three machines uses the bus, although UPDATE_CMD_WAIT
\* clears bus_occupied while its read is still outstanding.
BusExclusive ==
  /\ ~(CmdActive /\ RspActive) /\ ~(CmdActive /\ PollActive) /\ ~(RspActive /\ PollActive)

\* bus_occupied is set exactly while a machine uses the bus, but for that
\* wait: the bus is never lost.
BusOwned ==
  /\ bus_occupied => CmdActive \/ RspActive \/ PollActive
  /\ CmdActive \/ RspActive \/ PollActive => bus_occupied \/ ongoing_update = "CMD_WAIT"

\* The hardware gets the words of the commands in order, each once: no word
\* is written while the hardware has no room for it, whatever the age of the
\* CMD_READY value the machine relies on.
Packed(n) ==
  [id |-> submitted[((n - 1) \div CmdWords) + 1].id, beat |-> ((n - 1) % CmdWords) + 1]
WordsInOrder ==
  /\ \A n \in DOMAIN received : received[n] = Packed(n)
  /\ ~CmdActive => Len(received) = CmdWords * (Len(submitted) - Len(cmds))

\* register_reponse is called with the words of one response, in order.
ResponsesWhole ==
  \A i \in DOMAIN registered : \A j \in 1 .. RespWords :
    registered[i][j] = [id |-> registered[i][1].id, beat |-> j]

\* The commands that ask for a response, and the ones that got it.
Asked(n) == {i \in 1 .. n : submitted[i].xd}
Answered == {registered[i][1].id : i \in DOMAIN registered}

\* The simulator thread waits for cmdserverlock, to take a command or to
\* register a response, after the cmd_server thread returned with it.
QuitBlocks ==
  /\ cmdserverlock
  /\ \/ phase = "command" /\ cmd_state = "INACTIVE" /\ CmdMayStart
     \/ phase = "response" /\ Len(resbuf) = RespWords

\* Again and again every command that asked for a response has it, or a
\* shutdown has stopped the simulation, or it blocks the simulator thread:
\* polling never stops while a response is due, and nothing else is in the
\* way of a shutdown.
AllAnswered ==
  []<> \/ Asked(Len(submitted)) \subseteq Answered /\ ~kill_sig
       \/ phase = "exit" \/ QuitBlocks
-----------------------------------------------------------------------------
(* The command queue, the bus and the hardware together are the accelerator *)
(* that CmdServer.tla assumes.                                             *)

Waiting(k) ==
  {i \in DOMAIN submitted : submitted[i].core = k /\ submitted[i].xd /\ i \notin Answered}

Queues == INSTANCE CoreQueues WITH
  newest <- Len(submitted), pending <- [k \in Core |-> Waiting(k)]

\* The responses of a core are registered in the order in which its commands
\* were queued, none is missed, and none is registered twice.
ImplementsQueues == Queues!Spec
=============================================================================
