---------------------------- MODULE FpgaBackend ----------------------------
(***************************************************************************)
(* The command path on an FPGA.  The cmd_server thread writes a command    *)
(* word by word into memory-mapped registers, holding bus_lock and, from   *)
(* before the first word to after it has noted the command in in_flight,   *)
(* cmdserverlock.  The response poller waits on a semaphore for each       *)
(* command that wants a response, reads the words of the next response,    *)
(* each under bus_lock, and hands it to register_reponse.                  *)
(*                                                                         *)
(* A lock taken for one register access is part of the step that makes it. *)
(* CmdServer.tla has the rest of the server: clients, slots and shutdown.  *)
(* The hardware is external: a buffer of command words, cores that work on *)
(* one command at a time, a buffer of response words.                      *)
(***************************************************************************)
EXTENDS Integers, Sequences, FiniteSets

CONSTANTS
  Cores,        \* core ids in use
  Byte,         \* what getCoreId and rocc_response cut a core id to, 256
  CmdWords,     \* num_cmd_beats
  RespWords,    \* words of a response
  CmdDepth, RespDepth,   \* words that the hardware buffers
  MaxCmds       \* bound on the number of commands

ASSUME FpgaAssumption ==
  /\ Cores \subseteq Nat /\ Byte \in Nat \ {0} /\ MaxCmds \in Nat
  /\ CmdWords \in Nat \ {0} /\ CmdDepth >= CmdWords
  /\ RespWords \in Nat \ {0} /\ RespDepth >= RespWords

VARIABLES
  server, cmd, sent,          \* the cmd_server thread: place, command, words sent
  poller, buf,                \* the poller thread: place, words read
  cmdserverlock, bus_lock,    \* who holds them
  processes_waiting,          \* the semaphore
  in_flight,                  \* by key, the ids that wait for a response
  rx, busy, tx,               \* hardware: words, command of each core, words
  ended,                      \* main was told to return
  count, answered, mixed      \* history

serving == << server, cmd, sent, cmdserverlock >>
polling == << poller, buf >>
hardware == << rx, busy, tx >>
history == << count, answered, mixed >>
vars == << serving, polling, bus_lock, processes_waiting, in_flight, hardware, ended, history >>

NoCmd == [id |-> 0, core |-> 0, xd |-> FALSE]
\* system_core_pair; the system id fits, the core id is cut to 8 bits.
Key(core) == core % Byte

Init ==
  /\ server = "stalled" /\ cmd = NoCmd /\ sent = 0
  /\ poller = "sem_wait" /\ buf = << >>
  /\ cmdserverlock = "none" /\ bus_lock = "none" /\ processes_waiting = 0
  /\ in_flight = [k \in {Key(c) : c \in Cores} |-> << >>]
  /\ rx = << >> /\ busy = [c \in Cores |-> NoCmd] /\ tx = << >>
  /\ ended = FALSE
  /\ count = 0 /\ answered = {} /\ mixed = FALSE

(***************************************************************************)
(* The cmd_server thread                                                   *)
(***************************************************************************)
\* A client's command arrives; with xd the server picks it an id.
Receive(core, xd) ==
  /\ server = "stalled" /\ count < MaxCmds
  /\ server' = "received"
  /\ cmd' = [id |-> count + 1, core |-> core, xd |-> xd]
  /\ count' = count + 1
  /\ UNCHANGED << sent, cmdserverlock, polling, bus_lock, processes_waiting, in_flight, hardware,
                  ended, answered, mixed >>

\* Mutant of Lock: the poller is woken for every command.
Lock_PostAll ==
  /\ server = "received" /\ cmdserverlock = "none"
  /\ cmdserverlock' = "server"
  /\ processes_waiting' = processes_waiting + 1
  /\ server' = "locked"
  /\ UNCHANGED << cmd, sent, polling, bus_lock, in_flight, hardware, ended, history >>

\* Mutant of Lock: the poller is not woken.
Lock_NoPost ==
  /\ server = "received" /\ cmdserverlock = "none"
  /\ cmdserverlock' = "server"
  /\ server' = "locked"
  /\ UNCHANGED << cmd, sent, polling, bus_lock, processes_waiting, in_flight, hardware, ended, history >>

\* cmdserverlock, and a response to wait for.
Lock ==
  /\ server = "received" /\ cmdserverlock = "none"
  /\ cmdserverlock' = "server"
  /\ processes_waiting' = processes_waiting + (IF cmd.xd THEN 1 ELSE 0)
  /\ server' = "locked"
  /\ UNCHANGED << cmd, sent, polling, bus_lock, in_flight, hardware, ended, history >>

LockBus ==
  /\ server = "locked" /\ bus_lock = "none"
  /\ bus_lock' = "server"
  /\ server' = "sending" /\ sent' = 0
  /\ UNCHANGED << cmd, cmdserverlock, polling, processes_waiting, in_flight, hardware, ended, history >>

\* Spin until CMD_READY, then CMD_BITS and CMD_VALID.  bus_lock is free after
\* the last word.
SendWord ==
  /\ server = "sending" /\ Len(rx) < CmdDepth
  /\ rx' = Append(rx, cmd)
  /\ sent' = sent + 1
  /\ IF sent' < CmdWords THEN UNCHANGED << server, bus_lock >>
     ELSE server' = "sent" /\ bus_lock' = "none"
  /\ UNCHANGED << cmd, cmdserverlock, polling, processes_waiting, in_flight, busy, tx, ended, history >>

InFlight(core) == {in_flight[Key(core)][i] : i \in DOMAIN in_flight[Key(core)]}

\* Mutant of Note: the queue of the command's core is found without its core.
Note_AnyCore ==
  LET k == CHOOSE k \in DOMAIN in_flight : TRUE
  IN  /\ server = "sent"
      /\ in_flight' = IF cmd.xd THEN [in_flight EXCEPT ![k] = Append(@, cmd)] ELSE in_flight
      /\ UNCHANGED mixed
      /\ cmdserverlock' = "none" /\ server' = "stalled"
      /\ UNCHANGED << cmd, sent, polling, bus_lock, processes_waiting, hardware, ended, count, answered >>

\* The id goes to the queue of the command's core; then cmdserverlock is free.
\* Two cores of one key share a queue.
Note ==
  /\ server = "sent"
  /\ in_flight' = IF cmd.xd THEN [in_flight EXCEPT ![Key(cmd.core)] = Append(@, cmd)] ELSE in_flight
  /\ mixed' = (mixed \/ (cmd.xd /\ \E d \in InFlight(cmd.core) : d.core # cmd.core))
  /\ cmdserverlock' = "none" /\ server' = "stalled"
  /\ UNCHANGED << cmd, sent, polling, bus_lock, processes_waiting, hardware, ended, count, answered >>

(***************************************************************************)
(* The response poller                                                     *)
(***************************************************************************)
SemWait ==
  /\ poller = "sem_wait" /\ processes_waiting > 0
  /\ processes_waiting' = processes_waiting - 1
  /\ poller' = "peek" /\ buf' = << >>
  /\ UNCHANGED << serving, bus_lock, in_flight, hardware, ended, history >>

\* RESP_VALID, again and again until it is set.
PeekValid ==
  /\ poller = "peek" /\ bus_lock = "none" /\ tx # << >>
  /\ poller' = "read"
  /\ UNCHANGED << serving, buf, bus_lock, processes_waiting, in_flight, hardware, ended, history >>

\* RESP_BITS, then RESP_READY, which takes the word off the hardware's buffer.
ReadWord ==
  /\ poller = "read" /\ bus_lock = "none"
  /\ buf' = Append(buf, Head(tx))
  /\ tx' = Tail(tx)
  /\ poller' = IF Len(buf') < RespWords THEN "peek" ELSE "register"
  /\ UNCHANGED << serving, bus_lock, processes_waiting, in_flight, rx, busy, ended, history >>

\* Mutant of Register: it does not wait for cmdserverlock.
Register_NoLock ==
  LET r == buf[Len(buf)]
      q == in_flight[Key(r.core)]
  IN  /\ poller = "register"
      /\ poller' = "sem_wait"
      /\ \/ q = << >> /\ ended' = TRUE /\ UNCHANGED << in_flight, answered >>
         \/ /\ q # << >>
            /\ answered' = answered \cup {<< r.id, Head(q).id >>}
            /\ in_flight' = [in_flight EXCEPT ![Key(r.core)] = Tail(@)]
            /\ UNCHANGED ended
      /\ UNCHANGED << serving, buf, bus_lock, processes_waiting, hardware, count, mixed >>

\* register_reponse: the first id of the core's queue gets the response.  One
\* for a core without commands ends the program; if the core's queue is there
\* but empty, its front is undefined, which counts as the same end here.
Register ==
  LET r == buf[Len(buf)]
      q == in_flight[Key(r.core)]
  IN  /\ poller = "register" /\ cmdserverlock = "none"
      /\ poller' = "sem_wait"
      /\ \/ q = << >> /\ ended' = TRUE /\ UNCHANGED << in_flight, answered >>
         \/ /\ q # << >>
            /\ answered' = answered \cup {<< r.id, Head(q).id >>}
            /\ in_flight' = [in_flight EXCEPT ![Key(r.core)] = Tail(@)]
            /\ UNCHANGED ended
      /\ UNCHANGED << serving, buf, bus_lock, processes_waiting, hardware, count, mixed >>

(***************************************************************************)
(* The hardware                                                            *)
(***************************************************************************)
\* A core that is free takes a command once all its words are there.
Start ==
  /\ Len(rx) >= CmdWords /\ busy[Head(rx).core] = NoCmd
  /\ busy' = [busy EXCEPT ![Head(rx).core] = Head(rx)]
  /\ rx' = SubSeq(rx, CmdWords + 1, Len(rx))
  /\ UNCHANGED << serving, polling, bus_lock, processes_waiting, in_flight, tx, ended, history >>

\* It is done, and sends its response if there is room.
Finish(c) ==
  /\ busy[c] # NoCmd
  /\ busy[c].xd => Len(tx) + RespWords <= RespDepth
  /\ tx' = IF busy[c].xd THEN tx \o [i \in 1 .. RespWords |-> busy[c]] ELSE tx
  /\ busy' = [busy EXCEPT ![c] = NoCmd]
  /\ UNCHANGED << serving, polling, bus_lock, processes_waiting, in_flight, rx, ended, history >>

Server == Lock \/ LockBus \/ SendWord \/ Note
Poller == SemWait \/ PeekValid \/ ReadWord \/ Register

Next ==
  /\ ~ ended
  /\ \/ \E c \in Cores, xd \in BOOLEAN : Receive(c, xd)
     \/ Server \/ Poller \/ Start
     \/ \E c \in Cores : Finish(c)

Spec == Init /\ [][Next]_vars

\* The threads are scheduled and the hardware works.
FairSpec ==
  /\ Spec
  /\ WF_vars(~ ended /\ Server) /\ WF_vars(~ ended /\ Poller) /\ WF_vars(~ ended /\ Start)
  /\ \A c \in Cores : WF_vars(~ ended /\ Finish(c))

(***************************************************************************)
(* Properties                                                              *)
(***************************************************************************)
\* A response never reaches register_reponse before its command is noted in
\* in_flight, however fast the core answers: the program never ends on a bad
\* response.  This is why cmdserverlock is held while the words are sent.
NoBadResponse == ~ ended

\* A response goes to the command it answers, unless commands of two cores
\* whose ids agree in the low 8 bits were in flight together.
OwnAnswer == ~ mixed => \A a \in answered : a[1] = a[2]

\* The poller is woken once for each command that wants a response: what the
\* semaphore holds and what the poller works on are the commands in flight and
\* the one that is being sent.
WakesExact ==
  ~ ended =>
    processes_waiting + (IF poller = "sem_wait" THEN 0 ELSE 1) =
      Cardinality(UNION {InFlight(c) : c \in Cores})
        + (IF cmd.xd /\ server \in {"locked", "sending", "sent"} THEN 1 ELSE 0)

\* The server spins on CMD_READY with bus_lock held, and the words that must
\* be read before the hardware takes a command wait for bus_lock.
Clogged == server = "sending" /\ Len(rx) = CmdDepth /\ poller \in {"peek", "read"} /\ tx # << >>

\* Again and again all commands are answered, or the two threads are clogged:
\* there is no other way in which they get stuck.
AllAnswered ==
  []<> \/ Clogged
       \/ server = "stalled" /\ poller = "sem_wait" /\ \A k \in DOMAIN in_flight : in_flight[k] = << >>
=============================================================================
