-------------------------- MODULE AxiControlProofs --------------------------
(***************************************************************************)
(* Proofs about AxiControl.tla, for any number of cores, commands and      *)
(* words and any polling interval: the three state machines share the bus, *)
(* the words of commands and responses cross it whole and in order, and    *)
(* the whole implements CoreQueues.tla.                                    *)
(***************************************************************************)
EXTENDS AxiControl, TLAPS

BusInv == BusExclusive /\ BusOwned

USE DEF server, command, response, update, shared, signals, hardware, history

\* The command machine takes the bus only when nobody has it, and gives it
\* up only when it is done.
LEMMA BusCommand == BusInv /\ UpdateCommandState => BusInv'
<1> SUFFICES ASSUME BusInv, UpdateCommandState PROVE BusInv'
  BY Zenon
<1> USE DEF BusInv, BusExclusive, BusOwned, CmdActive, RspActive, PollActive
<1>1. UNCHANGED << rsp_state, ongoing_update >>
  BY Zenon DEF UpdateCommandState
<1>2. CASE CmdWrites
  <2>1. cmd_state # "INACTIVE" /\ cmd_state' # "INACTIVE" /\ bus_occupied' = bus_occupied
    BY <1>2, Zenon DEF CmdWrites, CmdTransfer
  <2> QED
    BY <1>1, <2>1, Zenon
<1>3. CASE CmdWordDone
  BY <1>1, <1>3 DEF CmdWordDone
<1>4. CASE CmdInactive
  BY <1>1, <1>4 DEF CmdInactive, CmdMayStart
<1> QED
  BY <1>2, <1>3, <1>4, Zenon DEF UpdateCommandState

\* The response machine never takes the bus by itself.
LEMMA BusResponse == BusInv /\ UpdateRespState => BusInv'
<1> SUFFICES ASSUME BusInv, UpdateRespState PROVE BusInv'
  BY Zenon
<1> USE DEF BusInv, BusExclusive, BusOwned, CmdActive, RspActive, PollActive
<1>1. UNCHANGED << cmd_state, ongoing_update >>
  BY Zenon DEF UpdateRespState
<1>2. \/ UNCHANGED << rsp_state, bus_occupied >>
      \/ rsp_state # "INACTIVE" /\ rsp_state' # "INACTIVE" /\ bus_occupied' = bus_occupied
      \/ rsp_state # "INACTIVE" /\ rsp_state' = "INACTIVE" /\ bus_occupied' = FALSE
  BY Zenon DEF UpdateRespState, RspTransfer, RspRead, RspWriteB, RspWordDone
<1> QED
  BY <1>1, <1>2

\* A poll takes a free bus, and hands it over when it finds a response.
LEMMA BusUpdate == BusInv /\ UpdateUpdateState => BusInv'
<1> SUFFICES ASSUME BusInv, UpdateUpdateState PROVE BusInv'
  BY Zenon
<1> USE DEF BusInv, BusExclusive, BusOwned, CmdActive, RspActive, PollActive
<1>1. UNCHANGED cmd_state
  BY Zenon DEF UpdateUpdateState
<1>2. CASE Poll("IDLE_RESP", "RESP_ADDR") \/ Poll("IDLE_CMD", "CMD_ADDR")
  BY <1>1, <1>2 DEF Poll
<1>3. CASE \/ PollAddr("RESP_ADDR", "RESP_VALID", "RESP_WAIT")
           \/ PollAddr("CMD_ADDR", "CMD_READY", "CMD_WAIT")
  BY <1>1, <1>3, Zenon DEF PollAddr
<1>4. CASE PollRespWait
  <2>1. bus_occupied /\ ~CmdActive /\ ~RspActive /\ ~CmdActive'
    BY <1>1, <1>4, Zenon DEF PollRespWait
  <2>2. CASE rd = "r_valid" /\ IsSet(r_data)
    <3>1. bus_occupied' /\ ~PollActive' /\ RspActive'
      BY <1>4, <2>1, <2>2, Zenon DEF PollRespWait
    <3> QED
      BY <2>1, <3>1, Zenon
  <2>3. CASE rd = "r_valid" /\ ~IsSet(r_data)
    BY <1>4, <2>1, <2>3, Zenon DEF PollRespWait
  <2>4. CASE rd # "r_valid"
    <3>1. UNCHANGED << rsp_state, bus_occupied, ongoing_update >>
      BY <1>4, <2>4, Zenon DEF PollRespWait
    <3> QED
      BY <1>1, <3>1, Zenon
  <2> QED
    BY <2>2, <2>3, <2>4, Zenon
<1>5. CASE PollCmdWait
  BY <1>1, <1>5, Zenon DEF PollCmdWait
<1> QED
  BY <1>2, <1>3, <1>4, <1>5, Zenon DEF UpdateUpdateState

\* Nothing else touches the bus.
LEMMA BusStep == BusInv /\ [Next]_vars => BusInv'
<1> SUFFICES ASSUME BusInv, [Next]_vars PROVE BusInv'
  BY Zenon
<1>1. CASE UNCHANGED << cmd_state, rsp_state, ongoing_update, bus_occupied >>
  BY <1>1, Zenon DEF BusInv, BusExclusive, BusOwned, CmdActive, RspActive, PollActive
<1>2. CASE UpdateCommandState \/ UpdateRespState \/ UpdateUpdateState
  BY <1>2, BusCommand, BusResponse, BusUpdate, Zenon
<1>3. CASE Loop \/ Edge \/ Quit \/ TakeWord \/ AnswerWord \/ Exited \/ UNCHANGED vars
  BY <1>1, <1>3, Zenon DEF Loop, Edge, Quit, TakeWord, AnswerWord, Exited, vars
<1>4. CASE \E k \in Core : Answer(k)
  BY <1>1, <1>4, Zenon DEF Answer
<1>5. CASE \E k \in Core, xd \in BOOLEAN : Submit(k, xd)
  BY <1>1, <1>5, Zenon DEF Submit
<1> QED
  BY <1>2, <1>3, <1>4, <1>5, Zenon DEF Next, Simulator

\* No machine uses the bus at the start.
LEMMA BusInit == Init => BusInv
  BY Zenon DEF Init, BusInv, BusExclusive, BusOwned, CmdActive, RspActive, PollActive

\* At every moment at most one of the three machines of AXIControlIntf uses
\* the bus, and bus_occupied is set exactly while one does (except in
\* UPDATE_CMD_WAIT), whatever the hardware and the command server do.
THEOREM BusSafety == Spec => []BusExclusive /\ []BusOwned
<1>1. BusInv => BusExclusive /\ BusOwned
  BY Zenon DEF BusInv
<1> QED
  BY <1>1, BusInit, BusStep, PTL DEF Spec

-----------------------------------------------------------------------------
(* The channels.  Who uses a channel, and for what, is read off the states of
   the machines; the state of the channel follows it. *)

\* A machine waits for the answer of a read, and of which register.
Reads ==
  \/ cmd_state = "RECHECK_READY_DAT"
  \/ rsp_state \in {"BITS_READ", "RECHECK_VALID_READ"}
  \/ ongoing_update \in {"RESP_WAIT", "CMD_WAIT"}
ReadAddr ==
  IF cmd_state = "RECHECK_READY_DAT" \/ ongoing_update = "CMD_WAIT" THEN "CMD_READY"
  ELSE IF rsp_state = "BITS_READ" THEN "RESP_BITS" ELSE "RESP_VALID"

\* The signals of a tick are meaningless once its edge is over.
Driven == phase # "loop"

ReadChannel ==
  \/ /\ ~Reads /\ rd \in {"ar_wait", "ar_ready"}
     /\ Driven /\ rd = "ar_ready" => ar_addr = None
  \/ ~Reads /\ rd = "r_valid" /\ Driven /\ r_ready
  \/ Reads /\ rd = "ar_ready" /\ Driven /\ ar_addr = ReadAddr
  \/ Reads /\ rd = "r_wait" /\ raddr = ReadAddr
  \/ Reads /\ rd = "r_valid" /\ raddr = ReadAddr /\ (Driven => ~r_ready)

\* A machine sends the data of a write, or waits for its response.
Writes == cmd_state \in {"BITS_WRITE_DAT", "VALID_DAT"} \/ rsp_state = "READY_WRITE"
Awaits == cmd_state \in {"BITS_WRITE_B", "VALID_WRITE_B"} \/ rsp_state = "READY_WRITE_B"
WriteAddr ==
  IF cmd_state \in {"BITS_WRITE_DAT", "BITS_WRITE_B"} THEN "CMD_BITS"
  ELSE IF cmd_state \in {"VALID_DAT", "VALID_WRITE_B"} THEN "CMD_VALID" ELSE "RESP_READY"
CmdWord == [id |-> cmd.id, beat |-> progress + 1]
Datum == IF cmd_state = "BITS_WRITE_B" THEN CmdWord ELSE One

\* The register has its new value.
Stored == wr \in {"b_wait", "b_valid"}

WriteChannel ==
  \/ /\ ~Writes /\ ~Awaits /\ wr \in {"aw_wait", "aw_ready"}
     /\ Driven /\ wr = "aw_ready" => aw_addr = None
  \/ ~Writes /\ ~Awaits /\ wr = "b_valid" /\ Driven /\ b_ready
  \/ Writes /\ wr = "aw_ready" /\ Driven /\ aw_addr = WriteAddr
  \/ /\ Writes /\ wr \in {"w_wait", "w_ready"} /\ waddr = WriteAddr
     /\ Driven /\ wr = "w_ready" => w_data = NoWord
  \/ Awaits /\ wr = "w_ready" /\ waddr = WriteAddr /\ Driven /\ w_data = Datum
  \/ Awaits /\ Stored /\ (Driven /\ wr = "b_valid" => ~b_ready)

Channels == BusInv /\ progress \in Nat /\ ReadChannel /\ WriteChannel

\* The command machine reads only CMD_READY, and no other machine reads then.
LEMMA ReadCommand == BusInv /\ ReadChannel /\ UpdateCommandState => ReadChannel'
<1> SUFFICES ASSUME BusInv, ReadChannel, UpdateCommandState PROVE ReadChannel'
  BY Zenon
<1> USE DEF ReadChannel, Reads, ReadAddr, Driven
<1>1. /\ UNCHANGED << rsp_state, ongoing_update, rd, raddr >>
      /\ phase = "command" /\ phase' = "response"
  BY Zenon DEF UpdateCommandState, Step
<1>2. CASE cmd_state = "RECHECK_READY_ADDR" /\ CmdWrites
  <2>1. /\ ar_addr' = "CMD_READY" /\ r_ready' = r_ready
        /\ cmd_state' = IF rd = "ar_ready" THEN "RECHECK_READY_DAT" ELSE "RECHECK_READY_ADDR"
    BY <1>2, Zenon DEF CmdWrites, CmdTransfer, DriveAr
  <2>2. ~PollActive /\ ~RspActive
    BY <1>2, Zenon DEF BusInv, BusExclusive, CmdActive
  <2> QED
    BY <1>1, <1>2, <2>1, <2>2, Zenon DEF PollActive, RspActive
<1>3. CASE cmd_state = "RECHECK_READY_DAT" /\ CmdWrites
  <2>1. /\ ar_addr' = ar_addr /\ r_ready' = TRUE
        /\ cmd_state' = IF rd = "r_valid" THEN cmd_state' ELSE "RECHECK_READY_DAT"
        /\ rd = "r_valid" => cmd_state' # "RECHECK_READY_DAT"
    BY <1>3, Zenon DEF CmdWrites, CmdTransfer, DriveR
  <2>2. ~PollActive /\ ~RspActive
    BY <1>3, Zenon DEF BusInv, BusExclusive, CmdActive
  <2> QED
    BY <1>1, <1>3, <2>1, <2>2, Zenon DEF PollActive, RspActive
<1>4. CASE ~(cmd_state \in {"RECHECK_READY_ADDR", "RECHECK_READY_DAT"} /\ CmdWrites)
  <2>1. UNCHANGED << ar_addr, r_ready >>
    BY <1>4, Zenon DEF UpdateCommandState, CmdWrites, CmdTransfer, CmdWordDone, CmdInactive,
                DriveAw, DriveW, DriveB
  <2>2. cmd_state # "RECHECK_READY_DAT" /\ cmd_state' # "RECHECK_READY_DAT"
    BY <1>4, Zenon DEF UpdateCommandState, CmdWrites, CmdTransfer, CmdWordDone, CmdInactive
  <2> QED
    BY <1>1, <2>1, <2>2, Zenon
<1> QED
  BY <1>2, <1>3, <1>4, Zenon

\* The response machine reads RESP_BITS and RESP_VALID.
LEMMA ReadResponse == BusInv /\ ReadChannel /\ UpdateRespState => ReadChannel'
<1> SUFFICES ASSUME BusInv, ReadChannel, UpdateRespState PROVE ReadChannel'
  BY Zenon
<1> USE DEF ReadChannel, Reads, ReadAddr, Driven
<1>1. /\ UNCHANGED << cmd_state, ongoing_update, rd, raddr >>
      /\ phase = "response" /\ phase' = "update"
  BY Zenon DEF UpdateRespState, Step
<1>2. CASE ~RspActive
  BY <1>1, <1>2 DEF UpdateRespState, RspActive, RspTransfer, RspRead, RspWriteB
<1>3. CASE RspActive
  <2>1. ~PollActive /\ ~CmdActive
    BY <1>3, Zenon DEF BusInv, BusExclusive
  <2>2. CASE RspTransfer("BITS_ADDR", DriveAr("RESP_BITS"), rd = "ar_ready", "BITS_READ")
    BY <1>1, <2>1, <2>2, Zenon DEF RspTransfer, DriveAr, PollActive, CmdActive
  <2>3. CASE RspRead
    BY <1>1, <2>1, <2>3, Zenon DEF RspRead, DriveR, PollActive, CmdActive
  <2>4. CASE RspTransfer("READY_ADDR", DriveAw("RESP_READY"), wr = "aw_ready", "READY_WRITE")
    BY <1>1, <2>1, <2>4, Zenon DEF RspTransfer, DriveAw, PollActive, CmdActive
  <2>5. CASE RspWriteB
    <3>1. /\ rsp_state \notin {"BITS_READ", "RECHECK_VALID_READ"}
          /\ rsp_state' \notin {"BITS_READ", "RECHECK_VALID_READ"}
          /\ UNCHANGED << ar_addr, r_ready >>
      BY <2>5, Zenon DEF RspWriteB, RspWordDone
    <3> QED
      BY <1>1, <2>1, <3>1, Zenon DEF PollActive, CmdActive
  <2>6. CASE RspTransfer("RECHECK_VALID_ADDR", DriveAr("RESP_VALID"), rd = "ar_ready",
                         "RECHECK_VALID_READ")
    BY <1>1, <2>1, <2>6, Zenon DEF RspTransfer, DriveAr, PollActive, CmdActive
  <2>7. CASE RspTransfer("RECHECK_VALID_READ", DriveR, rd = "r_valid",
                         IF IsSet(r_data) THEN "BITS_ADDR" ELSE "RECHECK_VALID_ADDR")
    BY <1>1, <2>1, <2>7, Zenon DEF RspTransfer, DriveR, PollActive, CmdActive
  <2> QED
    BY <1>3, <2>2, <2>3, <2>4, <2>5, <2>6, <2>7, Zenon DEF UpdateRespState, RspActive
<1> QED
  BY <1>2, <1>3, Zenon

\* The polls read RESP_VALID and CMD_READY.
LEMMA ReadUpdate == BusInv /\ ReadChannel /\ UpdateUpdateState => ReadChannel'
<1> SUFFICES ASSUME BusInv, ReadChannel, UpdateUpdateState PROVE ReadChannel'
  BY Zenon
<1> USE DEF ReadChannel, Reads, ReadAddr, Driven
<1>1. /\ UNCHANGED << cmd_state, rd, raddr >>
      /\ phase = "update" /\ phase' = "edge"
  BY Zenon DEF UpdateUpdateState, Step
<1>2. CASE Poll("IDLE_RESP", "RESP_ADDR") \/ Poll("IDLE_CMD", "CMD_ADDR")
  <2>1. /\ UNCHANGED << rsp_state, ar_addr, r_ready >>
        /\ ongoing_update \notin {"RESP_WAIT", "CMD_WAIT"}
        /\ ongoing_update' \notin {"RESP_WAIT", "CMD_WAIT"}
    BY <1>2, Zenon DEF Poll
  <2> QED
    BY <1>1, <2>1, Zenon
<1>3. CASE PollActive
  <2>1. ~RspActive /\ ~CmdActive
    BY <1>3, Zenon DEF BusInv, BusExclusive
  <2>2. CASE PollAddr("RESP_ADDR", "RESP_VALID", "RESP_WAIT")
    BY <1>1, <2>1, <2>2, Zenon DEF PollAddr, DriveAr, RspActive, CmdActive
  <2>3. CASE PollAddr("CMD_ADDR", "CMD_READY", "CMD_WAIT")
    BY <1>1, <2>1, <2>3, Zenon DEF PollAddr, DriveAr, RspActive, CmdActive
  <2>4. CASE PollRespWait
    BY <1>1, <2>1, <2>4, Zenon DEF PollRespWait, DriveR, RspActive, CmdActive
  <2>5. CASE PollCmdWait
    BY <1>1, <2>1, <2>5, Zenon DEF PollCmdWait, DriveR, RspActive, CmdActive
  <2> QED
    BY <1>2, <2>2, <2>3, <2>4, <2>5, Zenon DEF UpdateUpdateState
<1> QED
  BY <1>2, <1>3, Zenon DEF UpdateUpdateState, PollActive, PollAddr, PollRespWait, PollCmdWait

\* The clock edge moves the channel on exactly when both sides agree.
LEMMA ReadEdgeStep == ReadChannel /\ Edge => ReadChannel'
<1> SUFFICES ASSUME ReadChannel, Edge PROVE ReadChannel'
  BY Zenon
<1> USE DEF ReadChannel, Driven
<1>1. Reads' = Reads /\ ReadAddr' = ReadAddr /\ phase # "loop" /\ phase' = "loop"
  BY Zenon DEF Edge, Step, Reads, ReadAddr
<1>2. ReadAddr # None
  BY Zenon DEF ReadAddr, None
<1>3. ReadEdge
  BY Zenon DEF Edge
<1> QED
  BY <1>1, <1>2, <1>3, Zenon DEF ReadEdge

\* The command machine writes CMD_BITS, then CMD_VALID.
LEMMA WriteCommand == BusInv /\ WriteChannel /\ UpdateCommandState => WriteChannel'
<1> SUFFICES ASSUME BusInv, WriteChannel, UpdateCommandState PROVE WriteChannel'
  BY Zenon
<1> USE DEF WriteChannel, Writes, Awaits, WriteAddr, Stored, Driven
<1>1. /\ UNCHANGED << rsp_state, wr, waddr >>
      /\ phase = "command" /\ phase' = "response"
  BY Zenon DEF UpdateCommandState, Step
<1>2. CASE CmdInactive
  <2>1. /\ UNCHANGED << aw_addr, w_data, b_ready >>
        /\ cmd_state \in {"INACTIVE"} /\ cmd_state' \in {"INACTIVE", "BITS_WRITE_ADDR"}
    BY <1>2, Zenon DEF CmdInactive
  <2>2. Datum = One /\ Datum' = One
    BY <2>1, Zenon DEF Datum, One
  <2> QED
    BY <1>1, <2>1, <2>2, Zenon
<1>3. CASE CmdActive
  <2>1. ~RspActive /\ ~RspActive'
    BY <1>1, <1>3, Zenon DEF BusInv, BusExclusive, RspActive
  <2> USE DEF RspActive
  <2>2. CASE CmdTransfer("BITS_WRITE_ADDR", DriveAw("CMD_BITS"), wr = "aw_ready",
                         "BITS_WRITE_DAT")
    BY <1>1, <2>1, <2>2, Zenon DEF CmdTransfer, DriveAw
  <2>3. CASE CmdTransfer("BITS_WRITE_DAT", DriveW(CmdWord), wr = "w_ready", "BITS_WRITE_B")
    <3>1. CmdWord' = CmdWord
      BY <2>3, Zenon DEF CmdTransfer, CmdWord
    <3> QED
      BY <1>1, <2>1, <2>3, <3>1, Zenon DEF CmdTransfer, DriveW, Datum
  <2>4. CASE CmdTransfer("BITS_WRITE_B", DriveB, wr = "b_valid", "VALID_ADDR")
    <3>1. CmdWord' = CmdWord
      BY <2>4, Zenon DEF CmdTransfer, CmdWord
    <3> QED
      BY <1>1, <2>1, <2>4, <3>1, Zenon DEF CmdTransfer, DriveB, Datum
  <2>5. CASE CmdTransfer("VALID_ADDR", DriveAw("CMD_VALID"), wr = "aw_ready", "VALID_DAT")
    BY <1>1, <2>1, <2>5, Zenon DEF CmdTransfer, DriveAw
  <2>6. CASE CmdTransfer("VALID_DAT", DriveW(One), wr = "w_ready", "VALID_WRITE_B")
    <3>1. One' = One
      BY Zenon DEF One
    <3> QED
      BY <1>1, <2>1, <2>6, <3>1, Zenon DEF CmdTransfer, DriveW, Datum
  <2>7. CASE CmdWordDone
    <3>1. One' = One
      BY Zenon DEF One
    <3> QED
      BY <1>1, <2>1, <2>7, <3>1, Zenon DEF CmdWordDone, DriveB, Datum
  <2>8. CASE CmdWrites /\ cmd_state \in {"RECHECK_READY_ADDR", "RECHECK_READY_DAT"}
    <3>1. /\ UNCHANGED << aw_addr, w_data, b_ready >>
          /\ cmd_state' \in {"RECHECK_READY_ADDR", "RECHECK_READY_DAT", "BITS_WRITE_ADDR"}
      BY <2>8, Zenon DEF CmdWrites, CmdTransfer, DriveAr, DriveR
    <3> QED
      BY <1>1, <2>1, <2>8, <3>1, Zenon
  <2> QED
    BY <1>2, <2>2, <2>3, <2>4, <2>5, <2>6, <2>7, <2>8, Zenon
    DEF UpdateCommandState, CmdWrites, CmdTransfer, CmdWord
<1> QED
  BY <1>2, <1>3, Zenon DEF UpdateCommandState, CmdActive, CmdWrites, CmdTransfer, CmdWordDone

\* The response machine writes RESP_READY.
LEMMA WriteResponse == BusInv /\ WriteChannel /\ UpdateRespState => WriteChannel'
<1> SUFFICES ASSUME BusInv, WriteChannel, UpdateRespState PROVE WriteChannel'
  BY Zenon
<1> USE DEF WriteChannel, Writes, Awaits, WriteAddr, Stored, Driven
<1>1. /\ UNCHANGED << cmd_state, cmd, progress, wr, waddr >>
      /\ phase = "response" /\ phase' = "update"
  BY Zenon DEF UpdateRespState, Step
<1>2. Datum' = Datum
  BY <1>1, Zenon DEF Datum, CmdWord, One
<1>3. CASE rsp_state = "INACTIVE"
  BY <1>1, <1>2, <1>3 DEF UpdateRespState, RspTransfer, RspRead, RspWriteB
<1>4. CASE RspActive
  <2>1. ~CmdActive
    BY <1>4, Zenon DEF BusInv, BusExclusive
  <2> USE DEF CmdActive
  <2>2. CASE RspTransfer("READY_ADDR", DriveAw("RESP_READY"), wr = "aw_ready", "READY_WRITE")
    BY <1>1, <2>1, <2>2, Zenon DEF RspTransfer, DriveAw
  <2>3. CASE RspWriteB
    <3>1. Datum = One
      BY <2>1, Zenon DEF Datum
    <3> QED
      BY <1>1, <1>2, <2>1, <2>3, <3>1, Zenon DEF RspWriteB, RspWordDone
  <2>4. CASE /\ rsp_state \in {"BITS_ADDR", "BITS_READ", "RECHECK_VALID_ADDR",
                               "RECHECK_VALID_READ"}
    <3>1. /\ UNCHANGED << aw_addr, w_data, b_ready >>
          /\ rsp_state' \notin {"READY_WRITE", "READY_WRITE_B"}
      BY <2>4, Zenon DEF UpdateRespState, RspTransfer, RspRead, RspWriteB, DriveAr, DriveR
    <3> QED
      BY <1>1, <2>1, <2>4, <3>1, Zenon
  <2> QED
    BY <1>4, <2>2, <2>3, <2>4, Zenon DEF UpdateRespState, RspActive, RspTransfer, RspRead
<1> QED
  BY <1>3, <1>4, Zenon DEF RspActive

\* The polls do not write.
LEMMA WriteUpdate == BusInv /\ WriteChannel /\ UpdateUpdateState => WriteChannel'
<1> SUFFICES ASSUME BusInv, WriteChannel, UpdateUpdateState PROVE WriteChannel'
  BY Zenon
<1> USE DEF WriteChannel, Writes, Awaits, WriteAddr, Stored, Driven
<1>1. /\ UNCHANGED << cmd_state, cmd, progress, wr, waddr >>
      /\ phase = "update" /\ phase' = "edge"
  BY Zenon DEF UpdateUpdateState, Step
<1>2. Datum' = Datum
  BY <1>1, Zenon DEF Datum, CmdWord, One
<1>3. UNCHANGED << aw_addr, w_data, b_ready >>
  BY Zenon DEF UpdateUpdateState, Poll, PollAddr, PollRespWait, PollCmdWait, DriveAr, DriveR
<1>4. \/ rsp_state' = rsp_state
      \/ rsp_state' \notin {"READY_WRITE", "READY_WRITE_B"} /\ ~RspActive
  BY Zenon DEF UpdateUpdateState, Poll, PollAddr, PollRespWait, PollCmdWait, RspActive, PollActive,
         BusInv, BusExclusive
<1> QED
  BY <1>1, <1>2, <1>3, <1>4, Zenon DEF RspActive

\* A write is taken once, with the datum of the machine that sends it.
LEMMA WriteEdgeStep == BusInv /\ progress \in Nat /\ WriteChannel /\ Edge => WriteChannel'
<1> SUFFICES ASSUME BusInv, progress \in Nat, WriteChannel, Edge PROVE WriteChannel'
  BY Zenon
<1> USE DEF WriteChannel, Stored, Driven
<1>1. /\ Writes' = Writes /\ Awaits' = Awaits /\ WriteAddr' = WriteAddr /\ ~(Writes /\ Awaits)
      /\ phase # "loop" /\ phase' = "loop"
  BY Zenon DEF Edge, Step, Writes, Awaits, WriteAddr, BusInv, BusExclusive, CmdActive, RspActive
<1>2. WriteAddr # None /\ Datum # NoWord
  BY DEF WriteAddr, None, Datum, CmdWord, One, NoWord
<1>3. WriteEdge
  BY Zenon DEF Edge
<1> QED
  BY <1>1, <1>2, <1>3, Zenon DEF WriteEdge, WriteRegister

\* The steps that change no machine, no signal and no channel.
Aside ==
  UNCHANGED << phase, command, response, update, shared, signals, wr, waddr, rd, raddr, r_data,
               bits >>

\* The other threads and the cores leave the bus alone.
LEMMA AsideSteps ==
  /\ \A k \in Core, xd \in BOOLEAN : Submit(k, xd) => Aside
  /\ Quit \/ TakeWord \/ AnswerWord \/ Exited \/ UNCHANGED vars => Aside
  /\ \A k \in Core : Answer(k) => Aside
  BY Zenon DEF Aside, Submit, Quit, TakeWord, AnswerWord, Exited, Answer, vars

\* A step is one of the simulator's or leaves the bus alone.
LEMMA StepCases ==
  [Next]_vars => \/ Loop \/ UpdateCommandState \/ UpdateRespState \/ UpdateUpdateState \/ Edge
                 \/ Aside
  BY AsideSteps, Zenon DEF Next, Simulator

\* The channels follow the machines.
LEMMA ChannelsStep == Channels /\ [Next]_vars => Channels'
<1> SUFFICES ASSUME Channels, [Next]_vars PROVE Channels'
  BY Zenon
<1>0. BusInv /\ progress \in Nat /\ ReadChannel /\ WriteChannel
  BY Zenon DEF Channels
<1>1. BusInv'
  BY <1>0, BusStep, Zenon
<1>2. CASE UpdateCommandState
  <2>1. progress' \in Nat
    BY <1>0, <1>2 DEF UpdateCommandState, CmdWrites, CmdTransfer, CmdWordDone, CmdInactive
  <2> QED
    BY <1>0, <1>1, <1>2, <2>1, ReadCommand, WriteCommand, Zenon DEF Channels
<1>3. CASE UpdateRespState
  <2>1. progress' = progress
    BY <1>3, Zenon DEF UpdateRespState
  <2> QED
    BY <1>0, <1>1, <1>3, <2>1, ReadResponse, WriteResponse, Zenon DEF Channels
<1>4. CASE UpdateUpdateState
  <2>1. progress' = progress
    BY <1>4, Zenon DEF UpdateUpdateState
  <2> QED
    BY <1>0, <1>1, <1>4, <2>1, ReadUpdate, WriteUpdate, Zenon DEF Channels
<1>5. CASE Edge
  <2>1. progress' = progress
    BY <1>5, Zenon DEF Edge
  <2> QED
    BY <1>0, <1>1, <1>5, <2>1, ReadEdgeStep, WriteEdgeStep, Zenon DEF Channels
<1>6. CASE Loop
  <2>1. /\ Reads' = Reads /\ ReadAddr' = ReadAddr /\ Writes' = Writes /\ Awaits' = Awaits
        /\ WriteAddr' = WriteAddr /\ progress' = progress /\ UNCHANGED << rd, raddr, wr, waddr >>
    BY <1>6, Zenon DEF Loop, Reads, ReadAddr, Writes, Awaits, WriteAddr
  <2>2. /\ ~Driven /\ ar_addr' = None /\ ~r_ready' /\ aw_addr' = None /\ w_data' = NoWord
        /\ ~b_ready'
    BY <1>6, Zenon DEF Loop, Driven
  <2>3. ReadChannel'
    BY <1>0, <2>1, <2>2, Zenon DEF ReadChannel
  <2>4. WriteChannel'
    <3>1. NoWord' = NoWord /\ Stored' = Stored
      BY <2>1, Zenon DEF NoWord, Stored
    <3> QED
      BY <1>0, <2>1, <2>2, <3>1, Zenon DEF WriteChannel
  <2> QED
    BY <1>0, <1>1, <2>1, <2>3, <2>4, Zenon DEF Channels
<1>7. CASE Aside
  <2>1. ReadChannel'
    BY <1>0, <1>7, Zenon DEF Aside, ReadChannel, Reads, ReadAddr, Driven
  <2>2. WriteChannel'
    <3>1. Datum' = Datum /\ NoWord' = NoWord /\ Stored' = Stored
      BY <1>7, Zenon DEF Aside, Datum, CmdWord, One, NoWord, Stored
    <3>2. Writes' = Writes /\ Awaits' = Awaits /\ WriteAddr' = WriteAddr /\ Driven' = Driven
      BY <1>7, Zenon DEF Aside, Writes, Awaits, WriteAddr, Driven
    <3> QED
      BY <1>0, <1>7, <3>1, <3>2, Zenon DEF Aside, WriteChannel
  <2> QED
    BY <1>0, <1>1, <1>7, <2>1, <2>2, Zenon DEF Aside, Channels
<1> QED
  BY <1>2, <1>3, <1>4, <1>5, <1>6, <1>7, StepCases, Zenon

\* Nothing is under way at the start.
LEMMA ChannelsInit == Init => Channels
<1> SUFFICES ASSUME Init PROVE Channels
  BY Zenon
<1> USE DEF Init
<1>1. ReadChannel
  BY Zenon DEF ReadChannel, Reads, Driven
<1>2. WriteChannel
  BY Zenon DEF WriteChannel, Writes, Awaits, Driven
<1> QED
  BY <1>1, <1>2, BusInit, Zenon DEF Channels

-----------------------------------------------------------------------------
(* The commands. *)

Item == [id : Nat, beat : Nat]
CmdTypes ==
  /\ submitted \in Seq(Cmd) /\ cmds \in Seq(Cmd)
  /\ received \in Seq(Item) /\ rx \in Seq(Item) /\ bits \in Item

\* The commands the simulator took from the queue are the oldest ones, and
\* the last of them is the one it sends.
Taken == Len(submitted) - Len(cmds)
Sources ==
  /\ Len(cmds) <= Len(submitted)
  /\ \A i \in DOMAIN submitted : submitted[i].id = i
  /\ \A j \in DOMAIN cmds : cmds[j] = submitted[Taken + j]
  /\ CmdActive => Taken >= 1 /\ cmd = submitted[Taken] /\ progress \in 0 .. CmdWords - 1

\* A CMD_READY that was read is still true while a machine relies on it.
Sent == cmd_state = "VALID_WRITE_B" /\ Stored
Sending ==
  \/ cmd_state \in {"BITS_WRITE_ADDR", "BITS_WRITE_DAT", "BITS_WRITE_B", "VALID_ADDR", "VALID_DAT"}
  \/ cmd_state = "VALID_WRITE_B" /\ ~Stored
Asks == cmd_state = "RECHECK_READY_DAT" \/ ongoing_update = "CMD_WAIT"
Room ==
  /\ ready_for_command => Len(rx) < Depth /\ cmd_state \in {"INACTIVE", "BITS_WRITE_ADDR"}
  /\ Sending => Len(rx) < Depth
  /\ Asks /\ rd = "r_valid" /\ IsSet(r_data) => Len(rx) < Depth

\* The register holds the word that is about to be valid, and the words
\* before it have been received.
Loaded ==
  cmd_state \in {"VALID_ADDR", "VALID_DAT", "VALID_WRITE_B"} \/ (cmd_state = "BITS_WRITE_B" /\ Stored)
WordsDone ==
  IF CmdActive THEN CmdWords * (Taken - 1) + progress + (IF Sent THEN 1 ELSE 0)
  ELSE CmdWords * Taken
IsWord(m) ==
  \E q \in 1 .. Taken, r \in 1 .. CmdWords :
    m = CmdWords * (q - 1) + r /\ received[m] = [id |-> submitted[q].id, beat |-> r]
Words ==
  /\ Loaded => bits = CmdWord
  /\ Len(received) = WordsDone
  /\ \A m \in DOMAIN received : IsWord(m)
  /\ \A i \in DOMAIN rx : rx[i].id \in DOMAIN submitted

Commands == CmdTypes /\ Sources /\ Room /\ Words

\* A clock edge either stores the datum a machine waits for, or no register
\* changes; then a datum that is awaited was stored before.
LEMMA EdgeCases ==
  Channels /\ Edge =>
    \/ /\ wr = "w_ready" /\ Awaits /\ waddr = WriteAddr /\ ~Stored /\ Stored'
       /\ WriteRegister(Datum)
    \/ /\ UNCHANGED << bits, rx, resp, received >>
       /\ Awaits => Stored /\ Stored'
<1> SUFFICES ASSUME Channels, Edge
             PROVE  \/ /\ wr = "w_ready" /\ Awaits /\ waddr = WriteAddr /\ ~Stored /\ Stored'
                       /\ WriteRegister(Datum)
                    \/ /\ UNCHANGED << bits, rx, resp, received >>
                       /\ Awaits => Stored /\ Stored'
  BY Zenon
<1>1. WriteEdge /\ WriteChannel /\ Driven /\ progress \in Nat
  BY Zenon DEF Edge, Step, Channels, Driven
<1>2. Datum # NoWord
  BY <1>1 DEF Datum, CmdWord, One, NoWord
<1>3. ~(Writes /\ Awaits)
  BY Zenon DEF Channels, BusInv, BusExclusive, Writes, Awaits, CmdActive, RspActive
<1>4. CASE wr = "w_ready" /\ w_data # NoWord
  <2>1. WriteRegister(w_data) /\ Stored' /\ ~Stored
    BY <1>1, <1>4, Zenon DEF WriteEdge, Stored
  <2>2. Awaits /\ waddr = WriteAddr /\ w_data = Datum
    BY <1>1, <1>4, Zenon DEF WriteChannel, Stored
  <2> QED
    BY <1>4, <2>1, <2>2, Zenon
<1>5. CASE ~(wr = "w_ready" /\ w_data # NoWord)
  <2>1. UNCHANGED << bits, rx, resp, received >>
    BY <1>1, <1>5, Zenon DEF WriteEdge
  <2>2. Awaits => Stored /\ (wr = "b_valid" => ~b_ready)
    BY <1>1, <1>2, <1>3, <1>5, Zenon DEF WriteChannel
  <2>3. Awaits => Stored'
    BY <1>1, <2>2, Zenon DEF WriteEdge, Stored
  <2> QED
    BY <2>1, <2>2, <2>3, Zenon
<1> QED
  BY <1>4, <1>5, Zenon

\* The same for the command machine.
LEMMA EdgeCommand ==
  Channels /\ Edge =>
    \/ /\ cmd_state = "BITS_WRITE_B" /\ ~Stored /\ Stored'
       /\ bits' = CmdWord /\ UNCHANGED << rx, received >>
    \/ /\ cmd_state = "VALID_WRITE_B" /\ ~Stored /\ Stored' /\ bits' = bits
       /\ rx' = IF Len(rx) < Depth THEN Append(rx, bits) ELSE rx
       /\ received' = IF Len(rx) < Depth THEN Append(received, bits) ELSE received
    \/ /\ UNCHANGED << bits, rx, received >>
       /\ cmd_state \in {"BITS_WRITE_B", "VALID_WRITE_B"} => Stored /\ Stored'
<1> SUFFICES ASSUME Channels, Edge
             PROVE  \/ /\ cmd_state = "BITS_WRITE_B" /\ ~Stored /\ Stored'
                       /\ bits' = CmdWord /\ UNCHANGED << rx, received >>
                    \/ /\ cmd_state = "VALID_WRITE_B" /\ ~Stored /\ Stored' /\ bits' = bits
                       /\ rx' = IF Len(rx) < Depth THEN Append(rx, bits) ELSE rx
                       /\ received' = IF Len(rx) < Depth THEN Append(received, bits) ELSE received
                    \/ /\ UNCHANGED << bits, rx, received >>
                       /\ cmd_state \in {"BITS_WRITE_B", "VALID_WRITE_B"} => Stored /\ Stored'
  BY Zenon
<1>1. ~(CmdActive /\ RspActive)
  BY Zenon DEF Channels, BusInv, BusExclusive
<1>2. CASE Awaits /\ waddr = WriteAddr /\ ~Stored /\ Stored' /\ WriteRegister(Datum)
  <2>1. CASE cmd_state = "BITS_WRITE_B"
    BY <1>2, <2>1, Zenon DEF WriteRegister, WriteAddr, Datum
  <2>2. CASE cmd_state = "VALID_WRITE_B"
    BY <1>2, <2>2, Zenon DEF WriteRegister, WriteAddr, Datum
  <2>3. CASE cmd_state \notin {"BITS_WRITE_B", "VALID_WRITE_B"}
    <3>1. waddr = "RESP_READY"
      BY <1>1, <1>2, <2>3, Zenon DEF Awaits, WriteAddr, CmdActive, RspActive
    <3> QED
      BY <1>2, <2>3, <3>1, Zenon DEF WriteRegister
  <2> QED
    BY <2>1, <2>2, <2>3, Zenon
<1>3. CASE UNCHANGED << bits, rx, resp, received >> /\ (Awaits => Stored /\ Stored')
  BY <1>3, Zenon DEF Awaits
<1> QED
  BY <1>2, <1>3, EdgeCases, Zenon

\* Steps that touch nothing of the command side.
LEMMA CommandsSame ==
  ASSUME Commands,
         UNCHANGED << cmds, submitted, command, ongoing_update, wr, rd, r_data, bits, rx, received >>
  PROVE  Commands'
<1>1. CmdTypes' /\ Sources'
  BY Zenon DEF Commands, CmdTypes, Sources, Taken, CmdActive
<1>2. Room'
  BY Zenon DEF Commands, Room, Sending, Asks, Stored, IsSet
<1>3. Words'
  BY ZenonT(40) DEF Commands, Words, Loaded, CmdWord, WordsDone, IsWord, Taken, CmdActive, Sent, Stored
<1> QED
  BY <1>1, <1>2, <1>3, Zenon DEF Commands

\* A new command goes to the end of the queue and of the history.
LEMMA CommandsSubmit ==
  ASSUME Commands, NEW k \in Core, NEW xd \in BOOLEAN, Submit(k, xd)
  PROVE  Commands'
<1> DEFINE m == [id |-> Len(submitted) + 1, core |-> k, xd |-> xd]
<1>0. CmdTypes /\ Sources /\ Room /\ Words
  BY Zenon DEF Commands
<1>1. /\ cmds' = Append(cmds, m) /\ submitted' = Append(submitted, m)
      /\ UNCHANGED << command, ongoing_update, wr, rd, r_data, bits, rx, received >>
      /\ Len(submitted) < MaxCmds
  BY Zenon DEF Submit
<1>2. m \in Cmd /\ m.id = Len(submitted) + 1 /\ submitted \in Seq(Cmd) /\ cmds \in Seq(Cmd)
  BY <1>0, <1>1, AxiAssumption DEF Cmd, CmdTypes
<1> HIDE DEF m
<1>3. /\ submitted' \in Seq(Cmd) /\ cmds' \in Seq(Cmd)
      /\ Len(submitted') = Len(submitted) + 1 /\ Len(cmds') = Len(cmds) + 1
      /\ \A i \in 1 .. Len(submitted) : submitted'[i] = submitted[i]
      /\ \A j \in 1 .. Len(cmds) : cmds'[j] = cmds[j]
      /\ submitted'[Len(submitted) + 1] = m /\ cmds'[Len(cmds) + 1] = m
      /\ Len(submitted) \in Nat /\ Len(cmds) \in Nat
      /\ DOMAIN submitted = 1 .. Len(submitted) /\ DOMAIN cmds = 1 .. Len(cmds)
      /\ DOMAIN submitted' = 1 .. Len(submitted) + 1 /\ DOMAIN cmds' = 1 .. Len(cmds) + 1
  BY <1>1, <1>2
<1>4. Taken' = Taken /\ Taken \in 0 .. Len(submitted)
  BY <1>0, <1>3 DEF Taken, Sources
<1>5. CmdTypes'
  BY <1>0, <1>1, <1>3, Zenon DEF CmdTypes
<1>6. Sources'
  <2>1. \A i \in DOMAIN submitted' : submitted'[i].id = i
    BY <1>0, <1>2, <1>3 DEF Sources
  <2>2. \A j \in DOMAIN cmds' : cmds'[j] = submitted'[Taken' + j]
    <3> SUFFICES ASSUME NEW j \in DOMAIN cmds' PROVE cmds'[j] = submitted'[Taken + j]
      BY <1>4, Zenon
    <3>1. CASE j = Len(cmds) + 1
      BY <1>3, <3>1 DEF Taken
    <3>2. CASE j \in 1 .. Len(cmds)
      <4>1. Taken + j \in 1 .. Len(submitted)
        BY <1>3, <1>4, <3>2 DEF Taken
      <4> QED
        BY <1>0, <1>3, <3>2, <4>1, Zenon DEF Sources
    <3> QED
      BY <1>3, <3>1, <3>2
  <2>3. CmdActive' => Taken' >= 1 /\ cmd' = submitted'[Taken'] /\ progress' \in 0 .. CmdWords - 1
    BY <1>0, <1>1, <1>3, <1>4 DEF Sources, CmdActive
  <2>4. Len(cmds') <= Len(submitted')
    BY <1>0, <1>3 DEF Sources
  <2> QED
    BY <2>1, <2>2, <2>3, <2>4, Zenon DEF Sources
<1>7. Room'
  BY <1>0, <1>1, Zenon DEF Room, Sending, Asks, Stored
<1>8. Words'
  <2>1. (Loaded => bits = CmdWord)'
    BY <1>0, <1>1, Zenon DEF Words, Loaded, CmdWord, Stored
  <2>2. (Len(received) = WordsDone)'
    BY <1>0, <1>1, <1>4, Zenon DEF Words, WordsDone, CmdActive, Sent, Stored
  <2>3. ASSUME NEW n \in DOMAIN received PROVE IsWord(n)'
    <3>1. PICK q \in 1 .. Taken, r \in 1 .. CmdWords :
             n = CmdWords * (q - 1) + r /\ received[n] = [id |-> submitted[q].id, beat |-> r]
      BY <1>0, <2>3, Zenon DEF Words, IsWord
    <3>2. submitted'[q] = submitted[q]
      BY <1>3, <1>4
    <3> QED
      BY <1>1, <1>4, <3>1, <3>2, Zenon DEF IsWord
  <2>4. \A i \in DOMAIN rx : rx[i].id \in DOMAIN submitted'
    BY <1>0, <1>3 DEF Words
  <2> QED
    BY <1>1, <2>1, <2>2, <2>3, <2>4, Zenon DEF Words
<1> QED
  BY <1>5, <1>6, <1>7, <1>8, Zenon DEF Commands

\* The cores take words from the front of the buffer: there is only more room.
LEMMA CommandsTakeWord == Commands /\ TakeWord => Commands'
<1> SUFFICES ASSUME Commands, TakeWord PROVE Commands'
  BY Zenon
<1>0. CmdTypes /\ Sources /\ Room /\ Words
  BY Zenon DEF Commands
<1>1. /\ rx # << >> /\ rx' = Tail(rx)
      /\ UNCHANGED << cmds, submitted, command, ongoing_update, wr, rd, r_data, bits, received >>
  BY Zenon DEF TakeWord
<1>2. rx \in Seq(Item)
  BY <1>0, Zenon DEF CmdTypes
<1>3. /\ rx' \in Seq(Item) /\ Len(rx') = Len(rx) - 1 /\ Len(rx) \in Nat
      /\ \A i \in DOMAIN rx' : i + 1 \in DOMAIN rx /\ rx'[i] = rx[i + 1]
  BY <1>1, <1>2
<1>4. Len(rx) < Depth => Len(rx') < Depth
  BY <1>3, AxiAssumption
<1>5. CmdTypes'
  BY <1>0, <1>1, <1>3, Zenon DEF CmdTypes
<1>6. Sources'
  BY <1>0, <1>1, Zenon DEF Sources, Taken, CmdActive
<1>7. Room'
  BY <1>0, <1>1, <1>4, Zenon DEF Room, Sending, Asks, Stored
<1>8. Words'
  <2>1. \A i \in DOMAIN rx' : rx'[i].id \in DOMAIN submitted'
    BY <1>0, <1>1, <1>3, Zenon DEF Words
  <2> QED
    BY <1>0, <1>1, <2>1
    DEF Words, Loaded, CmdWord, WordsDone, IsWord, Taken, CmdActive, Sent, Stored
<1> QED
  BY <1>5, <1>6, <1>7, <1>8, Zenon DEF Commands

\* Sending the words of the next command starts where the last one ended.
LEMMA CommandsTake ==
  ASSUME Commands, CmdInactive, CmdMayStart, cmds # << >>,
         UNCHANGED << submitted, ongoing_update, wr, rd, r_data, bits, rx, received >>
  PROVE  Commands'
<1>0. CmdTypes /\ Sources /\ Room /\ Words
  BY Zenon DEF Commands
<1>1. /\ cmd_state = "INACTIVE" /\ cmd_state' = "BITS_WRITE_ADDR" /\ cmd' = Head(cmds)
      /\ progress' = 0 /\ cmds' = Tail(cmds) /\ ready_for_command /\ ready_for_command'
  BY Zenon DEF CmdInactive, CmdMayStart
<1>2. submitted \in Seq(Cmd) /\ cmds \in Seq(Cmd)
  BY <1>0, Zenon DEF CmdTypes
<1>3. /\ cmds' \in Seq(Cmd) /\ Len(cmds') = Len(cmds) - 1 /\ cmd' = cmds[1]
      /\ \A j \in DOMAIN cmds' : j + 1 \in DOMAIN cmds /\ cmds'[j] = cmds[j + 1] /\ j \in Nat
      /\ Len(submitted) \in Nat /\ Len(cmds) \in Nat \ {0} /\ 1 \in DOMAIN cmds
  BY <1>1, <1>2
<1>4. Taken' = Taken + 1 /\ Taken \in Nat
  BY <1>0, <1>3 DEF Taken, Sources
<1>5. CmdTypes'
  BY <1>0, <1>3, Zenon DEF CmdTypes
<1>6. Sources'
  <2>1. \A j \in DOMAIN cmds' : cmds'[j] = submitted'[Taken' + j]
    <3> SUFFICES ASSUME NEW j \in DOMAIN cmds' PROVE cmds'[j] = submitted[Taken' + j]
      BY Zenon
    <3>1. cmds'[j] = submitted[Taken + (j + 1)]
      BY <1>0, <1>3, Zenon DEF Sources
    <3> QED
      BY <1>3, <1>4, <3>1, SMTT(20)
  <2>2. cmd' = submitted[Taken']
    BY <1>0, <1>3, <1>4, Zenon DEF Sources
  <2>3. Taken' >= 1 /\ progress' \in 0 .. CmdWords - 1 /\ Len(cmds') <= Len(submitted')
    BY <1>0, <1>1, <1>3, <1>4, AxiAssumption DEF Sources
  <2>4. \A i \in DOMAIN submitted' : submitted'[i].id = i
    BY <1>0, Zenon DEF Sources
  <2> QED
    BY <2>1, <2>2, <2>3, <2>4, Zenon DEF Sources
<1>7. Room'
  BY <1>0, <1>1, Zenon DEF Room, Sending, Asks
<1>8. Words'
  <2>1. ~Loaded' /\ ~Sent' /\ CmdActive' /\ ~CmdActive
    BY <1>1, Zenon DEF Loaded, Sent, CmdActive
  <2>2. (Len(received) = WordsDone)'
    <3>1. CmdWords * (Taken' - 1) = CmdWords * Taken /\ CmdWords * Taken \in Nat
      BY <1>4, AxiAssumption
    <3>2. Len(received) = CmdWords * Taken
      BY <1>0, <2>1, Zenon DEF Words, WordsDone
    <3> QED
      BY <1>1, <2>1, <3>1, <3>2 DEF WordsDone
  <2>3. ASSUME NEW n \in DOMAIN received PROVE IsWord(n)'
    <3>1. PICK q \in 1 .. Taken, r \in 1 .. CmdWords :
             n = CmdWords * (q - 1) + r /\ received[n] = [id |-> submitted[q].id, beat |-> r]
      BY <1>0, <2>3, Zenon DEF Words, IsWord
    <3>2. q \in 1 .. Taken'
      BY <1>4
    <3> QED
      BY <3>1, <3>2, Zenon DEF IsWord
  <2>4. \A i \in DOMAIN rx' : rx'[i].id \in DOMAIN submitted'
    BY <1>0, Zenon DEF Words
  <2> QED
    BY <2>1, <2>2, <2>3, <2>4, Zenon DEF Words
<1> QED
  BY <1>5, <1>6, <1>7, <1>8, Zenon DEF Commands

\* A word that is done was received.
LEMMA CommandsWordDone ==
  ASSUME Commands, CmdWordDone, wr = "b_valid",
         UNCHANGED << submitted, ongoing_update, wr, rd, r_data, bits, rx, received >>
  PROVE  Commands'
<1>0. CmdTypes /\ Sources /\ Room /\ Words
  BY Zenon DEF Commands
<1>1. /\ cmd_state = "VALID_WRITE_B" /\ progress' = progress + 1
      /\ cmd_state' = IF progress + 1 = CmdWords THEN "INACTIVE" ELSE "RECHECK_READY_ADDR"
      /\ UNCHANGED << cmd, ready_for_command, cmds >>
  BY Zenon DEF CmdWordDone
<1>2. Taken' = Taken /\ CmdActive /\ Sent
  BY <1>1, Zenon DEF Taken, CmdActive, Sent, Stored
<1>3. Taken \in Nat /\ Taken >= 1 /\ progress \in 0 .. CmdWords - 1
  BY <1>0, <1>2 DEF CmdTypes, Sources, Taken
<1>4. CmdTypes'
  BY <1>0, <1>1, Zenon DEF CmdTypes
<1>5. Sources'
  <2>1. CmdActive' => progress' \in 0 .. CmdWords - 1
    BY <1>1, <1>3, AxiAssumption DEF CmdActive
  <2> QED
    BY <1>0, <1>1, <1>2, <2>1, Zenon DEF Sources
<1>6. Room'
  <2>1. ~ready_for_command
    BY <1>0, <1>1, Zenon DEF Room
  <2>2. ~Sending' /\ cmd_state' # "RECHECK_READY_DAT"
    BY <1>1, Zenon DEF Sending
  <2> QED
    BY <1>0, <1>1, <2>1, <2>2, Zenon DEF Room, Asks
<1>7. Words'
  <2>1. ~Loaded' /\ ~Sent'
    BY <1>1, Zenon DEF Loaded, Sent
  <2>2. (Len(received) = WordsDone)'
    <3>1. Len(received) = CmdWords * (Taken - 1) + progress + 1
      BY <1>0, <1>2, Zenon DEF Words, WordsDone
    <3>2. CmdWords * (Taken - 1) + CmdWords = CmdWords * Taken /\ CmdWords * (Taken - 1) \in Int
      BY <1>3, AxiAssumption
    <3>3. CASE progress + 1 = CmdWords
      BY <1>1, <1>2, <1>3, <3>1, <3>2, <3>3, AxiAssumption DEF WordsDone, CmdActive
    <3>4. CASE progress + 1 # CmdWords
      BY <1>1, <1>2, <1>3, <2>1, <3>1, <3>2, <3>4 DEF WordsDone, CmdActive
    <3> QED
      BY <3>3, <3>4, Zenon
  <2>3. \A n \in DOMAIN received' : IsWord(n)'
    BY <1>0, <1>2 DEF Words, IsWord
  <2>4. \A i \in DOMAIN rx' : rx'[i].id \in DOMAIN submitted'
    BY <1>0, Zenon DEF Words
  <2> QED
    BY <2>1, <2>2, <2>3, <2>4, Zenon DEF Words
<1> QED
  BY <1>4, <1>5, <1>6, <1>7, Zenon DEF Commands

\* One transfer of a command sends nothing twice, and goes on only with room.
LEMMA CommandsTransfer ==
  ASSUME Commands, CmdWrites,
         UNCHANGED << submitted, ongoing_update, wr, rd, r_data, bits, rx, received >>
  PROVE  Commands'
<1>0. CmdTypes /\ Sources /\ Room /\ Words
  BY Zenon DEF Commands
<1>1. UNCHANGED << cmd, progress, cmds >> /\ CmdActive /\ CmdActive'
  BY Zenon DEF CmdWrites, CmdTransfer, CmdActive
<1>2. ready_for_command' => ready_for_command /\ cmd_state \notin {"BITS_WRITE_ADDR", "INACTIVE"}
  BY Zenon DEF CmdWrites, CmdTransfer
<1>3. ~ready_for_command'
  BY <1>0, <1>2, Zenon DEF Room
<1>4. cmd_state # "VALID_WRITE_B"
  BY Zenon DEF CmdWrites, CmdTransfer
<1>5. \/ cmd_state' = cmd_state
      \/ cmd_state = "BITS_WRITE_ADDR" /\ cmd_state' = "BITS_WRITE_DAT"
      \/ cmd_state = "BITS_WRITE_DAT" /\ cmd_state' = "BITS_WRITE_B" /\ wr = "w_ready"
      \/ cmd_state = "BITS_WRITE_B" /\ cmd_state' = "VALID_ADDR" /\ wr = "b_valid"
      \/ cmd_state = "VALID_ADDR" /\ cmd_state' = "VALID_DAT"
      \/ cmd_state = "VALID_DAT" /\ cmd_state' = "VALID_WRITE_B" /\ wr = "w_ready"
      \/ cmd_state = "RECHECK_READY_ADDR" /\ cmd_state' = "RECHECK_READY_DAT" /\ rd = "ar_ready"
      \/ /\ cmd_state = "RECHECK_READY_DAT" /\ rd = "r_valid"
         /\ cmd_state' = IF IsSet(r_data) THEN "BITS_WRITE_ADDR" ELSE "RECHECK_READY_ADDR"
  BY Zenon DEF CmdWrites, CmdTransfer
<1>6. CmdTypes' /\ Sources'
  BY <1>0, <1>1, Zenon DEF CmdTypes, Sources, Taken
<1>7. Room'
  BY <1>0, <1>3, <1>4, <1>5, Zenon DEF Room, Sending, Asks, Stored
<1>8. Words'
  <2>1. Loaded' => Loaded
    BY <1>4, <1>5, Zenon DEF Loaded, Stored
  <2>2. ~Sent /\ ~Sent'
    BY <1>4, <1>5, Zenon DEF Sent, Stored
  <2>3. CmdWord' = CmdWord /\ Taken' = Taken /\ WordsDone' = WordsDone
    BY <1>1, <2>2, Zenon DEF CmdWord, Taken, WordsDone
  <2> QED
    BY <1>0, <2>1, <2>3 DEF Words, IsWord
<1> QED
  BY <1>6, <1>7, <1>8, Zenon DEF Commands

\* All steps of the command machine.
LEMMA CommandsCommand == Commands /\ UpdateCommandState => Commands'
<1> SUFFICES ASSUME Commands, UpdateCommandState PROVE Commands'
  BY Zenon
<1>1. UNCHANGED << submitted, ongoing_update, wr, rd, r_data, bits, rx, received >>
  BY Zenon DEF UpdateCommandState
<1>2. CASE CmdWrites
  BY <1>1, <1>2, CommandsTransfer, Zenon
<1>3. CASE CmdWordDone /\ wr = "b_valid"
  BY <1>1, <1>3, CommandsWordDone, Zenon
<1>4. CASE CmdWordDone /\ wr # "b_valid"
  BY <1>1, <1>4, CommandsSame, Zenon DEF CmdWordDone
<1>5. CASE CmdInactive /\ CmdMayStart /\ cmds # << >>
  BY <1>1, <1>5, CommandsTake, Zenon
<1>6. CASE CmdInactive /\ ~(CmdMayStart /\ cmds # << >>)
  BY <1>1, <1>6, CommandsSame, Zenon DEF CmdInactive
<1> QED
  BY <1>2, <1>3, <1>4, <1>5, <1>6, Zenon DEF UpdateCommandState

\* A poll that finds CMD_READY set finds it true.
LEMMA CommandsUpdate == Channels /\ Commands /\ UpdateUpdateState => Commands'
<1> SUFFICES ASSUME Channels, Commands, UpdateUpdateState PROVE Commands'
  BY Zenon
<1>0. CmdTypes /\ Sources /\ Room /\ Words
  BY Zenon DEF Commands
<1>1. UNCHANGED << cmds, submitted, cmd_state, cmd, progress, wr, rd, r_data, bits, rx, received >>
  BY Zenon DEF UpdateUpdateState
<1>2. CmdTypes' /\ Sources'
  BY <1>0, <1>1, Zenon DEF CmdTypes, Sources, Taken, CmdActive
<1>3. Words'
  BY <1>0, <1>1
  DEF Words, Loaded, CmdWord, WordsDone, IsWord, Taken, CmdActive, Sent, Stored
<1>4. Room'
  <2>1. ready_for_command' => \/ ready_for_command
                              \/ ongoing_update = "CMD_WAIT" /\ rd = "r_valid" /\ IsSet(r_data)
    BY Zenon DEF UpdateUpdateState, Poll, PollAddr, PollRespWait, PollCmdWait
  <2>2. ongoing_update = "CMD_WAIT" => cmd_state = "INACTIVE"
    BY Zenon DEF Channels, BusInv, BusExclusive, CmdActive, PollActive
  <2>3. ongoing_update' = "CMD_WAIT" => ongoing_update = "CMD_WAIT" \/ rd # "r_valid"
    BY Zenon DEF UpdateUpdateState, Poll, PollAddr, PollRespWait, PollCmdWait
  <2> QED
    BY <1>0, <1>1, <2>1, <2>2, <2>3, Zenon DEF Room, Sending, Asks, Stored
<1> QED
  BY <1>2, <1>3, <1>4, Zenon DEF Commands

\* The clock edge stores the word, and later passes it on; there is room.
LEMMA CommandsEdge == Channels /\ Commands /\ Edge => Commands'
<1> SUFFICES ASSUME Channels, Commands, Edge PROVE Commands'
  BY Zenon
<1>0. CmdTypes /\ Sources /\ Room /\ Words
  BY Zenon DEF Commands
<1>1. UNCHANGED << cmds, submitted, command, ongoing_update >>
  BY Zenon DEF Edge
<1>2. Sources' /\ CmdWord' = CmdWord /\ Taken' = Taken /\ CmdActive' = CmdActive /\ Asks' = Asks
  BY <1>0, <1>1, Zenon DEF Sources, Taken, CmdActive, CmdWord, Asks
<1>3. ASSUME Asks, rd' = "r_valid", IsSet(r_data')
      PROVE  /\ cmd_state \notin {"BITS_WRITE_B", "VALID_WRITE_B"}
             /\ Len(rx) < Depth
  <2>1. cmd_state \notin {"BITS_WRITE_B", "VALID_WRITE_B"}
    BY <1>3, Zenon DEF Asks, Channels, BusInv, BusExclusive, CmdActive, PollActive
  <2>2. Reads /\ ReadAddr = "CMD_READY"
    BY <1>3, Zenon DEF Asks, Reads, ReadAddr
  <2>3. CASE rd = "r_valid" /\ r_data' = r_data
    BY <1>0, <1>3, <2>1, <2>3, Zenon DEF Room
  <2>4. CASE rd = "r_wait" /\ r_data' = ReadRegister(raddr)
    <3>1. raddr = "CMD_READY"
      BY <2>2, <2>4, Zenon DEF Channels, ReadChannel
    <3>2. r_data' = Flag(Len(rx) < Depth)
      BY <2>4, <3>1, Zenon DEF ReadRegister
    <3> QED
      BY <1>3, <2>1, <3>2, Zenon DEF Flag, IsSet, NoWord
  <2>5. (rd = "r_valid" /\ r_data' = r_data) \/ (rd = "r_wait" /\ r_data' = ReadRegister(raddr))
    BY <1>3, Zenon DEF Edge, ReadEdge
  <2> QED
    BY <2>1, <2>3, <2>4, <2>5, Zenon
<1>4. CASE /\ cmd_state = "BITS_WRITE_B" /\ ~Stored /\ Stored'
           /\ bits' = CmdWord /\ UNCHANGED << rx, received >>
  <2>1. bits' \in Item
    <3>1. submitted \in Seq(Cmd) /\ Taken \in DOMAIN submitted /\ cmd = submitted[Taken]
      BY <1>0, <1>4 DEF CmdTypes, Sources, Taken, CmdActive
    <3>2. cmd \in Cmd /\ progress \in Nat
      BY <3>1 DEF Channels
    <3> QED
      BY <1>4, <3>2, AxiAssumption DEF CmdWord, Cmd, Item
  <2>2. CmdTypes'
    BY <1>0, <1>1, <1>4, <2>1, Zenon DEF CmdTypes
  <2>3. Room'
    BY <1>0, <1>1, <1>2, <1>3, <1>4, Zenon DEF Room, Sending
  <2>4. Words'
    BY <1>0, <1>1, <1>2, <1>4, ZenonT(40) DEF Words, Loaded, WordsDone, IsWord, Sent
  <2> QED
    BY <1>2, <2>2, <2>3, <2>4, Zenon DEF Commands
<1>5. CASE /\ cmd_state = "VALID_WRITE_B" /\ ~Stored /\ Stored' /\ bits' = bits
           /\ rx' = IF Len(rx) < Depth THEN Append(rx, bits) ELSE rx
           /\ received' = IF Len(rx) < Depth THEN Append(received, bits) ELSE received
  <2>1. rx' = Append(rx, bits) /\ received' = Append(received, bits) /\ bits = CmdWord
    BY <1>0, <1>5, Zenon DEF Room, Sending, Words, Loaded
  <2>2. rx \in Seq(Item) /\ received \in Seq(Item) /\ bits \in Item /\ submitted \in Seq(Cmd)
    BY <1>0, Zenon DEF CmdTypes
  <2>3. /\ rx' \in Seq(Item) /\ Len(received') = Len(received) + 1 /\ received' \in Seq(Item)
        /\ \A i \in DOMAIN rx' : (i \in DOMAIN rx /\ rx'[i] = rx[i]) \/ rx'[i] = bits
        /\ DOMAIN received' = DOMAIN received \cup {Len(received) + 1}
        /\ \A n \in DOMAIN received : received'[n] = received[n]
        /\ received'[Len(received) + 1] = bits /\ Len(received) \in Nat
    BY <2>1, <2>2
  <2>4. CmdTypes'
    BY <1>0, <1>1, <1>5, <2>3, Zenon DEF CmdTypes
  <2>5. Room'
    <3>1. ~ready_for_command'
      BY <1>0, <1>1, <1>5, Zenon DEF Room
    <3>2. ~Sending' /\ ~(Asks' /\ rd' = "r_valid" /\ IsSet(r_data'))
      BY <1>1, <1>2, <1>3, <1>5, Zenon DEF Sending
    <3> QED
      BY <3>1, <3>2, Zenon DEF Room
  <2>6. Taken \in 1 .. Len(submitted) /\ cmd = submitted[Taken] /\ progress \in 0 .. CmdWords - 1
    BY <1>0, <1>5, <2>2 DEF Sources, Taken, CmdActive, CmdTypes
  <2>7. Len(received) = CmdWords * (Taken - 1) + progress
    <3>1. CmdWords * (Taken - 1) \in Int
      BY <2>6, AxiAssumption
    <3>2. CmdActive /\ ~Sent
      BY <1>5, Zenon DEF CmdActive, Sent
    <3> QED
      BY <1>0, <2>6, <3>1, <3>2 DEF Words, WordsDone
  <2>8. Words'
    <3>1. Len(received') = WordsDone'
      BY <1>1, <1>2, <1>5, <2>3, <2>6, <2>7, Zenon DEF WordsDone, CmdActive, Sent
    <3>2. ASSUME NEW n \in DOMAIN received' PROVE IsWord(n)'
      <4>1. CASE n \in DOMAIN received
        BY <1>0, <1>1, <1>2, <2>3, <4>1 DEF Words, IsWord
      <4>2. CASE n = Len(received) + 1
        <5>1. progress + 1 \in 1 .. CmdWords /\ n = CmdWords * (Taken - 1) + (progress + 1)
          BY <2>6, <2>7, <4>2, AxiAssumption
        <5>2. received'[n] = [id |-> submitted'[Taken'].id, beat |-> progress + 1]
          BY <1>1, <1>2, <2>1, <2>3, <2>6, <4>2, Zenon DEF CmdWord
        <5>3. Taken' \in 1 .. Taken'
          BY <1>2, <2>6
        <5> QED
          BY <1>2, <5>1, <5>2, <5>3, Zenon DEF IsWord
      <4> QED
        BY <2>3, <4>1, <4>2, Zenon
    <3>3. \A i \in DOMAIN rx' : rx'[i].id \in DOMAIN submitted'
      <4>1. bits.id = Taken
        BY <1>0, <2>1, <2>6, <2>2 DEF CmdWord, Sources
      <4> QED
        BY SMTT(20), <1>0, <1>1, <2>2, <2>3, <2>6, <4>1 DEF Words
    <3>4. bits' = CmdWord'
      BY <1>2, <1>5, <2>1, Zenon
    <3> QED
      BY <3>1, <3>2, <3>3, <3>4, Zenon DEF Words
  <2> QED
    BY <1>2, <2>4, <2>5, <2>8, Zenon DEF Commands
<1>6. CASE /\ UNCHANGED << bits, rx, received >>
           /\ cmd_state \in {"BITS_WRITE_B", "VALID_WRITE_B"} => Stored /\ Stored'
  <2>1. CmdTypes'
    BY <1>0, <1>1, <1>6, Zenon DEF CmdTypes
  <2>2. Room'
    BY <1>0, <1>1, <1>2, <1>3, <1>6, Zenon DEF Room, Sending
  <2>3. Words'
    BY <1>0, <1>1, <1>2, <1>6, ZenonT(40) DEF Words, Loaded, WordsDone, IsWord, Sent
  <2> QED
    BY <1>2, <2>1, <2>2, <2>3, Zenon DEF Commands
<1> QED
  BY <1>4, <1>5, <1>6, EdgeCommand, Zenon

\* Nothing was submitted, taken or sent at the start.
LEMMA CommandsInit == Init => Commands
<1> SUFFICES ASSUME Init PROVE Commands
  BY Zenon
<1> USE DEF Init
<1>1. CmdTypes
  BY DEF CmdTypes, Item, NoWord
<1>2. Len(cmds) = 0 /\ Len(submitted) = 0 /\ Len(rx) = 0 /\ Len(received) = 0
  BY Zenon
<1>3. Sources
  BY <1>2 DEF Sources, Taken, CmdActive
<1>4. Room
  BY <1>2, AxiAssumption, Zenon DEF Room, Sending, Asks
<1>5. Words
  BY <1>2, AxiAssumption DEF Words, Loaded, WordsDone, CmdActive, Taken
<1> QED
  BY <1>1, <1>3, <1>4, <1>5, Zenon DEF Commands

\* Every step keeps the commands in order.
LEMMA CommandsStep == Channels /\ Commands /\ [Next]_vars => Commands'
<1> SUFFICES ASSUME Channels, Commands, [Next]_vars PROVE Commands'
  BY Zenon
<1>1. CASE UpdateCommandState \/ UpdateUpdateState \/ Edge \/ TakeWord
  BY <1>1, CommandsCommand, CommandsUpdate, CommandsEdge, CommandsTakeWord, Zenon
<1>2. CASE \E k \in Core, xd \in BOOLEAN : Submit(k, xd)
  BY <1>2, CommandsSubmit, Zenon
<1>3. CASE UpdateRespState
  BY <1>3, CommandsSame, Zenon DEF UpdateRespState
<1>4. CASE Loop \/ Quit \/ AnswerWord \/ Exited \/ UNCHANGED vars
  BY <1>4, CommandsSame, Zenon DEF Loop, Quit, AnswerWord, Exited, vars
<1>5. CASE \E k \in Core : Answer(k)
  BY <1>5, CommandsSame, Zenon DEF Answer
<1> QED
  BY <1>1, <1>2, <1>3, <1>4, <1>5, Zenon DEF Next, Simulator

\* Division of a word's position by the number of words of a command.
LEMMA Position ==
  ASSUME NEW w \in Nat \ {0}, NEW q \in Nat, NEW r \in 0 .. w - 1
  PROVE  (w * q + r) \div w = q /\ (w * q + r) % w = r
  OBVIOUS

\* The hardware receives the words of the commands in the order in which they
\* were submitted, each once and none lost: whenever the command machine is
\* idle, exactly the words of the commands taken from the queue.
THEOREM CommandsInOrder == Spec => []WordsInOrder
<1>1. ASSUME Commands PROVE WordsInOrder
  <2>1. ASSUME NEW n \in DOMAIN received PROVE received[n] = Packed(n)
    <3>1. PICK q \in 1 .. Taken, r \in 1 .. CmdWords :
             n = CmdWords * (q - 1) + r /\ received[n] = [id |-> submitted[q].id, beat |-> r]
      BY <1>1, <2>1, Zenon DEF Commands, Words, IsWord
    <3>2. Taken \in Int
      BY <1>1 DEF Commands, CmdTypes, Taken
    <3>3. q - 1 \in Nat /\ r - 1 \in 0 .. CmdWords - 1 /\ CmdWords * (q - 1) \in Int
      BY <3>2, AxiAssumption
    <3>4. n - 1 = CmdWords * (q - 1) + (r - 1)
      BY <3>1, <3>3, AxiAssumption
    <3>5. (n - 1) \div CmdWords = q - 1 /\ (n - 1) % CmdWords = r - 1
      <4>1. /\ (CmdWords * (q - 1) + (r - 1)) \div CmdWords = q - 1
            /\ (CmdWords * (q - 1) + (r - 1)) % CmdWords = r - 1
        BY <3>3, Position, AxiAssumption, Zenon
      <4> QED
        BY <3>4, <4>1, Zenon
    <3>6. (q - 1) + 1 = q /\ (r - 1) + 1 = r
      BY <3>2, AxiAssumption
    <3> QED
      BY <3>1, <3>5, <3>6, Zenon DEF Packed
  <2>2. ~CmdActive => Len(received) = CmdWords * (Len(submitted) - Len(cmds))
    BY <1>1, Zenon DEF Commands, Words, WordsDone, Taken
  <2> QED
    BY <2>1, <2>2, Zenon DEF WordsInOrder
<1> QED
  BY <1>1, ChannelsInit, ChannelsStep, CommandsInit, CommandsStep, PTL DEF Spec

-----------------------------------------------------------------------------
(* The responses. *)

RspTypes ==
  /\ resbuf \in Seq(Item) /\ out \in Seq(Item) /\ resp \in Item /\ r_data \in Item
  /\ registered \in Seq(Seq(Item)) /\ todo \in [Core -> Seq(Nat)]

\* The first words of one response, in order.
Whole(s) == \A j \in DOMAIN s : s[j] = [id |-> s[1].id, beat |-> j]

\* The core sends the words of a response in order: the ones still to come
\* are its last ones, and the word in the register is the one before them.
Stream ==
  /\ Len(out) <= RespWords
  /\ \A j \in DOMAIN out : out[j] = [id |-> out[1].id, beat |-> RespWords - Len(out) + j]
  /\ resp # NoWord =>
       /\ resp.beat \in 1 .. RespWords
       /\ resp.beat < RespWords => Len(out) = RespWords - resp.beat /\ out[1].id = resp.id
       /\ resp.beat = RespWords => Len(out) \in {0, RespWords}

\* The word that comes next is the first of a response, or the one after the
\* words in s.
Between == IF resp # NoWord THEN resp.beat = 1 ELSE Len(out) \in {0, RespWords}
Follows(s) ==
  IF resp # NoWord THEN resp.beat = Len(s) + 1 /\ resp.id = s[1].id
  ELSE Len(out) = RespWords - Len(s) /\ out[1].id = s[1].id
Continues(s) == IF Len(s) \in {0, RespWords} THEN Between ELSE Follows(s)

\* What the response machine knows of the register in each of its states.
Held ==
  /\ ~RspActive => Between
  /\ RspActive => Whole(resbuf) /\ Len(resbuf) <= RespWords
  /\ rsp_state \in {"BITS_ADDR", "BITS_READ"} =>
       resp # NoWord /\ Len(resbuf) < RespWords /\ Continues(resbuf)
  /\ rsp_state \in {"READY_ADDR", "READY_WRITE"} \/ (rsp_state = "READY_WRITE_B" /\ ~Stored) =>
       Len(resbuf) > 0 /\ resp = resbuf[Len(resbuf)]
  /\ rsp_state = "READY_WRITE_B" /\ Stored => Len(resbuf) > 0 /\ Continues(resbuf)
  /\ rsp_state \in {"RECHECK_VALID_ADDR", "RECHECK_VALID_READ"} =>
       Len(resbuf) \in 1 .. RespWords - 1 /\ Continues(resbuf)

\* What was read is still true when the machine gets it.
Fresh ==
  /\ rsp_state = "BITS_READ" /\ rd = "r_valid" => r_data = resp
  /\ rsp_state = "RECHECK_VALID_READ" \/ ongoing_update = "RESP_WAIT" =>
       (rd = "r_valid" /\ IsSet(r_data) => resp # NoWord)

Complete == \A i \in DOMAIN registered : Len(registered[i]) = RespWords /\ Whole(registered[i])

Responses == RspTypes /\ Stream /\ Held /\ Fresh /\ Complete

\* Steps that touch nothing of the response side.
LEMMA ResponsesSame ==
  ASSUME Responses,
         UNCHANGED << response, ongoing_update, wr, rd, r_data, todo, out, resp, registered >>
  PROVE  Responses'
<1>1. RspTypes' /\ Stream' /\ Complete'
  BY Zenon DEF Responses, RspTypes, Stream, NoWord, Complete, Whole
<1>2. Between' = Between /\ Continues(resbuf)' = Continues(resbuf) /\ Stored' = Stored
  BY Zenon DEF Between, Continues, Follows, NoWord, Stored
<1>3. Held' /\ Fresh'
  BY <1>2, Zenon DEF Responses, Held, Fresh, RspActive, Whole, NoWord, IsSet
<1> QED
  BY <1>1, <1>3, Zenon DEF Responses

\* A command the hardware has collected was submitted: its id is a number and
\* its core a core.
LEMMA ResponsesTakeWord == Commands /\ Responses /\ TakeWord => Responses'
<1> SUFFICES ASSUME Commands, Responses, TakeWord PROVE Responses'
  BY Zenon
<1>1. UNCHANGED << response, ongoing_update, wr, rd, r_data, out, resp, registered >>
  BY Zenon DEF TakeWord
<1>2. todo' \in [Core -> Seq(Nat)]
  <2> DEFINE m == submitted[Head(rx).id]
  <2>1. todo \in [Core -> Seq(Nat)] /\ rx \in Seq(Item) /\ rx # << >> /\ submitted \in Seq(Cmd)
    BY Zenon DEF Responses, RspTypes, Commands, CmdTypes, TakeWord
  <2>2. Head(rx) = rx[1] /\ 1 \in DOMAIN rx
    BY <2>1
  <2>3. Head(rx).id \in DOMAIN submitted
    BY <2>2, Zenon DEF Commands, Words
  <2>4. m \in Cmd
    BY <2>1, <2>3
  <2>5. m.core \in Core /\ m.id \in Nat
    BY <2>4, AxiAssumption DEF Cmd
  <2>6. todo' = todo \/ todo' = [todo EXCEPT ![m.core] = Append(todo[m.core], m.id)]
    BY Zenon DEF TakeWord
  <2> HIDE DEF m
  <2>7. Append(todo[m.core], m.id) \in Seq(Nat)
    BY <2>1, <2>5
  <2> QED
    BY <2>1, <2>5, <2>6, <2>7, Zenon
<1>3. RspTypes' /\ Stream' /\ Complete'
  BY <1>1, <1>2, Zenon DEF Responses, RspTypes, Stream, NoWord, Complete, Whole
<1>4. Between' = Between /\ Continues(resbuf)' = Continues(resbuf) /\ Stored' = Stored
  BY <1>1, Zenon DEF Between, Continues, Follows, NoWord, Stored
<1>5. Held' /\ Fresh'
  BY <1>1, <1>4, Zenon DEF Responses, Held, Fresh, RspActive, Whole, NoWord, IsSet
<1> QED
  BY <1>3, <1>5, Zenon DEF Responses

\* A core starts a response only when all words of the last one have left.
LEMMA ResponsesAnswer ==
  ASSUME Responses, NEW k \in Core, Answer(k)
  PROVE  Responses'
<1>0. RspTypes /\ Stream /\ Held /\ Fresh /\ Complete
  BY Zenon DEF Responses
<1>1. /\ UNCHANGED << response, ongoing_update, wr, rd, r_data, resp, registered >>
      /\ out = << >> /\ todo[k] # << >> /\ todo' = [todo EXCEPT ![k] = Tail(todo[k])]
      /\ out' = [j \in 1 .. RespWords |-> [id |-> Head(todo[k]), beat |-> j]]
  BY Zenon DEF Answer
<1>2. todo[k] \in Seq(Nat) /\ todo \in [Core -> Seq(Nat)] /\ RespWords \in Nat \ {0}
  BY <1>0, AxiAssumption, Zenon DEF RspTypes
<1>3. Head(todo[k]) \in Nat /\ Tail(todo[k]) \in Seq(Nat)
  BY <1>1, <1>2
<1>4. out' \in Seq(Item) /\ Len(out') = RespWords /\ DOMAIN out' = 1 .. RespWords
  BY <1>1, <1>2, <1>3 DEF Item
<1>5. RspTypes'
  <2>1. todo' \in [Core -> Seq(Nat)]
    BY <1>1, <1>2, <1>3, Zenon
  <2> QED
    BY <1>0, <1>1, <1>4, <2>1, Zenon DEF RspTypes
<1>6. Len(out) = 0
  BY <1>1, Zenon
<1>7. Stream'
  <2>1. \A j \in DOMAIN out' : out'[j] = [id |-> out'[1].id, beat |-> RespWords - Len(out') + j]
    BY <1>1, <1>2, <1>4
  <2>2. resp # NoWord => resp.beat = RespWords
    BY <1>0, <1>2, <1>6 DEF Stream
  <2> QED
    BY <1>0, <1>1, <1>2, <1>4, <2>1, <2>2, SMTT(20) DEF Stream, NoWord
<1>8. Between => Between'
  BY <1>1, <1>4, Zenon DEF Between, NoWord
<1>9. Len(resbuf) <= RespWords /\ Continues(resbuf) => Continues(resbuf)'
  <2> SUFFICES ASSUME Len(resbuf) <= RespWords, Continues(resbuf) PROVE Continues(resbuf)'
    BY Zenon
  <2>1. CASE Len(resbuf) \in {0, RespWords}
    BY <1>1, <1>8, <2>1, Zenon DEF Continues
  <2>2. CASE Len(resbuf) \notin {0, RespWords}
    <3>1. Len(resbuf) \in Nat
      BY <1>0 DEF RspTypes
    <3>2. RespWords - Len(resbuf) # 0
      BY <1>2, <2>2, <3>1
    <3>3. resp # NoWord
      BY <1>6, <2>2, <3>2, Zenon DEF Continues, Follows
    <3> QED
      BY <1>1, <2>2, <3>3, Zenon DEF Continues, Follows, NoWord
  <2> QED
    BY <2>1, <2>2, Zenon
<1>10. Held' /\ Fresh' /\ Complete'
  <2>1. Stored' = Stored
    BY <1>1, Zenon DEF Stored
  <2> QED
    BY <1>0, <1>1, <1>8, <1>9, <2>1, Zenon DEF Held, Fresh, Complete, RspActive, Whole, NoWord, IsSet
<1> QED
  BY <1>5, <1>7, <1>10, Zenon DEF Responses

\* The next word of the response enters the register.
LEMMA ResponsesAnswerWord == Responses /\ AnswerWord => Responses'
<1> SUFFICES ASSUME Responses, AnswerWord PROVE Responses'
  BY Zenon
<1>0. RspTypes /\ Stream /\ Held /\ Fresh /\ Complete
  BY Zenon DEF Responses
<1>1. /\ UNCHANGED << response, ongoing_update, wr, rd, r_data, todo, registered >>
      /\ resp = NoWord /\ out # << >> /\ resp' = Head(out) /\ out' = Tail(out)
  BY Zenon DEF AnswerWord
<1>2. out \in Seq(Item) /\ RespWords \in Nat \ {0}
  BY <1>0, AxiAssumption, Zenon DEF RspTypes
<1>3. /\ resp' = out[1] /\ resp' \in Item /\ out' \in Seq(Item) /\ Len(out') = Len(out) - 1
      /\ Len(out) \in Nat \ {0}
      /\ \A j \in DOMAIN out' : j \in Nat /\ j + 1 \in DOMAIN out /\ out'[j] = out[j + 1]
      /\ 1 \in DOMAIN out /\ (Len(out) > 1 => 1 \in DOMAIN out' /\ out'[1] = out[2] /\ 2 \in DOMAIN out)
  BY <1>1, <1>2
<1>4. resp'.beat = RespWords - Len(out) + 1 /\ Len(out) <= RespWords
  BY <1>0, <1>3 DEF Stream
<1>5. resp' # NoWord /\ resp'.beat \in 1 .. RespWords
  BY <1>2, <1>3, <1>4 DEF NoWord
<1>6. RspTypes' /\ Complete'
  BY <1>0, <1>1, <1>3, Zenon DEF RspTypes, Complete, Whole
<1>7. Stream'
  <2>1. ASSUME NEW j \in DOMAIN out'
        PROVE  out'[j] = [id |-> out'[1].id, beat |-> RespWords - Len(out') + j]
    <3>1. out'[j] = [id |-> out[1].id, beat |-> RespWords - Len(out) + (j + 1)]
      BY <1>0, <1>3, Zenon DEF Stream
    <3>2. RspTypes' /\ Len(out) > 1
      BY <1>2, <1>3, <1>6
    <3>3. out'[1].id = out[1].id
      BY <1>0, <1>3, <3>2, SMTT(20) DEF Stream
    <3>4. RespWords - Len(out) + (j + 1) = RespWords - Len(out') + j
      BY <1>2, <1>3
    <3> QED
      BY <3>1, <3>3, <3>4, Zenon
  <2>2. ASSUME resp'.beat < RespWords
        PROVE  Len(out') = RespWords - resp'.beat /\ out'[1].id = resp'.id
    <3>1. Len(out) > 1
      BY <1>2, <1>3, <1>4, <2>2
    <3>2. out'[1].id = out[1].id
      BY <1>0, <1>3, <3>1 DEF Stream
    <3> QED
      BY <1>2, <1>3, <1>4, <3>2
  <2>3. resp'.beat = RespWords => Len(out') = 0
    BY <1>2, <1>3, <1>4, SMTT(20)
  <2>4. Len(out') <= RespWords
    BY <1>2, <1>3, <1>4
  <2> QED
    BY <1>5, <2>1, <2>2, <2>3, <2>4, Zenon DEF Stream
<1>8. Between => Between'
  <2>1. Between => Len(out) = RespWords
    BY <1>1, <1>3, Zenon DEF Between
  <2>2. Len(out) = RespWords => resp'.beat = 1
    BY <1>2, <1>4
  <2> QED
    BY <1>5, <2>1, <2>2, Zenon DEF Between
<1>9. Continues(resbuf) => Continues(resbuf)'
  <2> SUFFICES ASSUME Continues(resbuf) PROVE Continues(resbuf)'
    BY Zenon
  <2>1. CASE Len(resbuf) \in {0, RespWords}
    BY <1>1, <1>8, <2>1, Zenon DEF Continues
  <2>2. CASE Len(resbuf) \notin {0, RespWords}
    <3>1. Len(out) = RespWords - Len(resbuf) /\ out[1].id = resbuf[1].id
      BY <1>1, <2>2, Zenon DEF Continues, Follows
    <3>2. Len(resbuf) \in Nat
      BY <1>0 DEF RspTypes
    <3>3. resp'.beat = Len(resbuf) + 1
      BY <1>2, <1>3, <1>4, <3>1, <3>2
    <3> QED
      BY <1>1, <1>3, <1>5, <2>2, <3>1, <3>3, Zenon DEF Continues, Follows
  <2> QED
    BY <2>1, <2>2, Zenon
<1>10. /\ rsp_state \notin {"BITS_ADDR", "BITS_READ", "READY_ADDR", "READY_WRITE"}
       /\ rsp_state = "READY_WRITE_B" => Stored
  <2>1. \A j \in DOMAIN resbuf : Whole(resbuf) => resbuf[j] # NoWord
    <3>1. resbuf \in Seq(Item)
      BY <1>0, Zenon DEF RspTypes
    <3> QED
      BY <3>1 DEF Whole, NoWord
  <2>2. Len(resbuf) > 0 => Len(resbuf) \in DOMAIN resbuf
    BY <1>0 DEF RspTypes
  <2> QED
    BY <1>0, <1>1, <2>1, <2>2, Zenon DEF Held, RspActive
<1>11. Held'
  <2>1. Stored' = Stored
    BY <1>1, Zenon DEF Stored
  <2> QED
    BY <1>0, <1>1, <1>8, <1>9, <1>10, <2>1, Zenon DEF Held, RspActive, Whole
<1>12. Fresh'
  BY <1>1, <1>5, <1>10, Zenon DEF Fresh
<1> QED
  BY <1>6, <1>7, <1>11, <1>12, Zenon DEF Responses

\* A poll that finds a response finds the first word of one.
LEMMA ResponsesUpdate == Channels /\ Responses /\ UpdateUpdateState => Responses'
<1> SUFFICES ASSUME Channels, Responses, UpdateUpdateState PROVE Responses'
  BY Zenon
<1>0. RspTypes /\ Stream /\ Held /\ Fresh /\ Complete
  BY Zenon DEF Responses
<1>1. UNCHANGED << wr, rd, r_data, todo, out, resp, registered >>
  BY Zenon DEF UpdateUpdateState
<1>2. Stream' /\ Complete' /\ Between' = Between /\ Stored' = Stored
  BY <1>0, <1>1, Zenon DEF Stream, NoWord, Complete, Whole, Between, Stored
<1>3. CASE PollRespWait /\ rd = "r_valid"
  <2>1. /\ resbuf' = << >> /\ ongoing_update = "RESP_WAIT" /\ ongoing_update' = "IDLE_CMD"
        /\ rsp_state' = IF IsSet(r_data) THEN "BITS_ADDR" ELSE rsp_state
    BY <1>3, Zenon DEF PollRespWait
  <2>2. ~RspActive
    BY <2>1, Zenon DEF Channels, BusInv, BusExclusive, PollActive
  <2>3. RspTypes'
    BY <1>0, <1>1, <2>1 DEF RspTypes
  <2>4. Len(resbuf') = 0 /\ Whole(resbuf)' /\ Between
    BY <1>0, <2>1, <2>2 DEF Whole, Held
  <2>5. IsSet(r_data) => resp' # NoWord
    BY <1>0, <1>1, <1>3, <2>1, Zenon DEF Fresh
  <2>6. Continues(resbuf)'
    BY <1>2, <2>4, Zenon DEF Continues
  <2>7. Held'
    <3>1. CASE IsSet(r_data)
      <4>1. rsp_state' = "BITS_ADDR"
        BY <2>1, <3>1, Zenon
      <4> QED
        BY <2>4, <2>5, <2>6, <3>1, <4>1, AxiAssumption DEF Held, RspActive, NoWord
    <3>2. CASE ~IsSet(r_data)
      BY <1>2, <2>1, <2>2, <2>4, <3>2, Zenon DEF Held, RspActive
    <3> QED
      BY <3>1, <3>2, Zenon
  <2>8. Fresh'
    BY <2>1, <2>2, Zenon DEF Fresh, RspActive
  <2> QED
    BY <1>2, <2>3, <2>7, <2>8, Zenon DEF Responses
<1>4. CASE ~(PollRespWait /\ rd = "r_valid")
  <2>1. UNCHANGED response
    BY <1>4, Zenon DEF UpdateUpdateState, Poll, PollAddr, PollRespWait, PollCmdWait
  <2>2. ongoing_update' = "RESP_WAIT" => ongoing_update = "RESP_WAIT" \/ rd # "r_valid"
    BY Zenon DEF UpdateUpdateState, Poll, PollAddr, PollRespWait, PollCmdWait
  <2>3. RspTypes' /\ Continues(resbuf)' = Continues(resbuf)
    BY <1>0, <1>1, <2>1, Zenon DEF RspTypes, Continues, Between, Follows, NoWord
  <2>4. Held'
    BY <1>0, <1>1, <1>2, <2>1, <2>3, Zenon DEF Held, RspActive, Whole, NoWord
  <2>5. Fresh'
    BY <1>0, <1>1, <2>1, <2>2, Zenon DEF Fresh, NoWord, IsSet
  <2> QED
    BY <1>2, <2>3, <2>4, <2>5, Zenon DEF Responses
<1> QED
  BY <1>3, <1>4, Zenon

\* The response machine appends the word it found, acknowledges it, and then
\* looks for the next one or hands over the whole response.
LEMMA ResponsesResponse == Channels /\ Responses /\ UpdateRespState => Responses'
<1> SUFFICES ASSUME Channels, Responses, UpdateRespState PROVE Responses'
  BY Zenon
<1>0. RspTypes /\ Stream /\ Held /\ Fresh /\ Complete
  BY Zenon DEF Responses
<1>1. UNCHANGED << ongoing_update, wr, rd, r_data, todo, out, resp >>
  BY Zenon DEF UpdateRespState
<1>2. Stream' /\ Between' = Between /\ Stored' = Stored
  BY <1>0, <1>1, Zenon DEF Stream, NoWord, Between, Stored
<1>3. CASE RspRead /\ rd = "r_valid"
  <2>1. /\ rsp_state = "BITS_READ" /\ rsp_state' = "READY_ADDR" /\ registered' = registered
        /\ resbuf' = Append(resbuf, resp)
    BY <1>0, <1>3, Zenon DEF RspRead, Fresh
  <2>2. resbuf \in Seq(Item) /\ resp \in Item
    BY <1>0, Zenon DEF RspTypes
  <2>3. /\ Whole(resbuf) /\ Len(resbuf) < RespWords /\ Continues(resbuf) /\ resp # NoWord
    BY <1>0, <2>1, Zenon DEF Held, RspActive
  <2>4. /\ resbuf' \in Seq(Item) /\ Len(resbuf') = Len(resbuf) + 1 /\ Len(resbuf) \in Nat
        /\ DOMAIN resbuf = 1 .. Len(resbuf) /\ DOMAIN resbuf' = 1 .. Len(resbuf) + 1
        /\ \A j \in 1 .. Len(resbuf) : resbuf'[j] = resbuf[j]
        /\ resbuf'[Len(resbuf) + 1] = resp
    BY <2>1, <2>2
  <2>5. RspTypes' /\ Complete'
    BY <1>0, <1>1, <2>1, <2>4, Zenon DEF RspTypes, Complete, Whole
  <2>6. resp = [id |-> resbuf'[1].id, beat |-> Len(resbuf) + 1]
    <3>1. resp.beat = Len(resbuf) + 1
      BY <2>3, <2>4 DEF Continues, Between, Follows
    <3>2. resp.id = resbuf'[1].id
      <4>1. CASE Len(resbuf) = 0
        BY <2>4, <4>1
      <4>2. CASE Len(resbuf) # 0
        <5>1. resbuf'[1] = resbuf[1]
          BY <2>4, <4>2
        <5>2. resp.id = resbuf[1].id
          <6>1. Len(resbuf) < RespWords /\ Len(resbuf) \in Nat /\ RespWords \in Nat
            BY <2>3, <2>4, AxiAssumption, Zenon
          <6>2. Len(resbuf) # RespWords
            BY <6>1
          <6> QED
            BY <2>3, <4>2, <6>2, Zenon DEF Continues, Follows
        <5> QED
          BY <5>1, <5>2, Zenon
      <4> QED
        BY <4>1, <4>2, Zenon
    <3> QED
      BY <2>2, <3>1, <3>2, Zenon DEF Item
  <2>7. Whole(resbuf)'
    <3> SUFFICES ASSUME NEW j \in 1 .. Len(resbuf) + 1
                 PROVE  resbuf'[j] = [id |-> resbuf'[1].id, beat |-> j]
      BY <2>4, Zenon DEF Whole
    <3>1. CASE j = Len(resbuf) + 1
      BY <2>4, <2>6, <3>1, Zenon
    <3>2. CASE j \in 1 .. Len(resbuf)
      <4>1. resbuf'[1] = resbuf[1]
        BY <2>4, <3>2
      <4> QED
        BY <2>3, <2>4, <3>2, <4>1, Zenon DEF Whole
    <3> QED
      BY <2>4, <3>1, <3>2
  <2>8. Held'
    <3>1. Len(resbuf') <= RespWords /\ Len(resbuf') > 0 /\ resp' = resbuf'[Len(resbuf')]
      BY <1>1, <2>3, <2>4, AxiAssumption
    <3> QED
      BY <2>1, <2>7, <3>1, Zenon DEF Held, RspActive
  <2>9. Fresh'
    BY <1>0, <1>1, <2>1, Zenon DEF Fresh, NoWord, IsSet
  <2> QED
    BY <1>2, <2>5, <2>8, <2>9, Zenon DEF Responses
<1>4. CASE RspWriteB /\ wr = "b_valid"
  <2>1. rsp_state = "READY_WRITE_B" /\ Stored
    <3>1. rsp_state \in {"READY_WRITE", "READY_WRITE_B"} /\ ~CmdActive
      BY <1>4, Zenon DEF RspWriteB, Channels, BusInv, BusExclusive, RspActive
    <3>2. Writes => wr # "b_valid"
      BY <3>1, Zenon DEF Channels, WriteChannel, Writes, Awaits, CmdActive
    <3> QED
      BY <1>4, <3>1, <3>2, Zenon DEF Writes, Stored
  <2>2. /\ Whole(resbuf) /\ Len(resbuf) <= RespWords /\ Len(resbuf) > 0 /\ Continues(resbuf)
    BY <1>0, <2>1, Zenon DEF Held, RspActive
  <2>3. RspWordDone /\ resbuf' = resbuf
    BY <1>4, Zenon DEF RspWriteB
  <2>4. resbuf \in Seq(Item) /\ registered \in Seq(Seq(Item)) /\ Len(resbuf) \in Nat
    BY <1>0 DEF RspTypes
  <2>5. CASE Len(resbuf) = RespWords
    <3>1. registered' = Append(registered, resbuf) /\ rsp_state' = "INACTIVE"
      BY <2>3, <2>5, Zenon DEF RspWordDone
    <3>2. /\ registered' \in Seq(Seq(Item))
          /\ \A i \in DOMAIN registered' :
               registered'[i] = resbuf \/ (i \in DOMAIN registered /\ registered'[i] = registered[i])
      BY <2>4, <3>1
    <3>3. RspTypes'
      BY <1>0, <1>1, <2>3, <3>2, Zenon DEF RspTypes
    <3>4. Complete'
      <4>1. ASSUME NEW i \in DOMAIN registered'
            PROVE  Len(registered'[i]) = RespWords /\ Whole(registered'[i])
        BY <1>0, <2>2, <2>5, <3>2 DEF Complete
      <4> QED
        BY <4>1, Zenon DEF Complete, Whole
    <3>5. Between
      BY <2>2, <2>5, Zenon DEF Continues
    <3>6. Held' /\ Fresh'
      <4>1. ongoing_update # "RESP_WAIT"
        BY <2>1, Zenon DEF Channels, BusInv, BusExclusive, PollActive, RspActive
      <4> QED
        BY <1>1, <1>2, <3>1, <3>5, <4>1, Zenon DEF Held, Fresh, RspActive
    <3> QED
      BY <1>2, <3>3, <3>4, <3>6, Zenon DEF Responses
  <2>6. CASE Len(resbuf) # RespWords
    <3>1. registered' = registered /\ rsp_state' = "RECHECK_VALID_ADDR"
      BY <2>3, <2>6, Zenon DEF RspWordDone
    <3>2. RspTypes' /\ Complete'
      BY <1>0, <1>1, <2>3, <3>1, Zenon DEF RspTypes, Complete, Whole
    <3>3. Continues(resbuf)' /\ Whole(resbuf)'
      BY <1>1, <2>2, <2>3, Zenon DEF Continues, Between, Follows, NoWord, Whole
    <3>4. Len(resbuf') \in 1 .. RespWords - 1 /\ Len(resbuf') <= RespWords
      BY <2>2, <2>3, <2>4, <2>6, AxiAssumption
    <3>5. Held' /\ Fresh'
      <4>1. ongoing_update # "RESP_WAIT"
        BY <2>1, Zenon DEF Channels, BusInv, BusExclusive, PollActive, RspActive
      <4> QED
        BY <1>1, <3>1, <3>3, <3>4, <4>1, Zenon DEF Held, Fresh, RspActive
    <3> QED
      BY <1>2, <3>2, <3>5, Zenon DEF Responses
  <2> QED
    BY <2>5, <2>6, Zenon
<1>5. CASE ~(RspRead /\ rd = "r_valid") /\ ~(RspWriteB /\ wr = "b_valid")
  <2>1. UNCHANGED << resbuf, registered >>
    BY <1>5, Zenon DEF UpdateRespState, RspTransfer, RspRead, RspWriteB
  <2>2. \/ rsp_state' = rsp_state
        \/ rsp_state = "BITS_ADDR" /\ rsp_state' = "BITS_READ" /\ rd = "ar_ready"
        \/ rsp_state = "READY_ADDR" /\ rsp_state' = "READY_WRITE"
        \/ rsp_state = "READY_WRITE" /\ rsp_state' = "READY_WRITE_B" /\ wr = "w_ready"
        \/ /\ rsp_state = "RECHECK_VALID_ADDR" /\ rsp_state' = "RECHECK_VALID_READ"
           /\ rd = "ar_ready"
        \/ /\ rsp_state = "RECHECK_VALID_READ" /\ rd = "r_valid"
           /\ rsp_state' = IF IsSet(r_data) THEN "BITS_ADDR" ELSE "RECHECK_VALID_ADDR"
    BY <1>5, ZenonT(40) DEF UpdateRespState, RspTransfer, RspRead, RspWriteB
  <2>3. RspTypes' /\ Complete' /\ Continues(resbuf)' = Continues(resbuf)
    BY <1>0, <1>1, <2>1, Zenon
    DEF RspTypes, Complete, Whole, Continues, Between, Follows, NoWord
  <2>4. /\ Whole(resbuf)' = Whole(resbuf) /\ resbuf' = resbuf /\ resp' = resp
        /\ resbuf \in Seq(Item)
    BY <1>0, <1>1, <2>1, Zenon DEF Whole, RspTypes
  <2>5. Held'
    <3>1. CASE rsp_state' = rsp_state
      BY <1>0, <1>2, <2>3, <2>4, <3>1, Zenon DEF Held, RspActive, NoWord
    <3>2. CASE rsp_state' # rsp_state /\ rsp_state # "RECHECK_VALID_READ"
      BY <1>0, <1>1, <2>2, <2>3, <2>4, <3>2, Zenon DEF Held, RspActive, NoWord, Stored
    <3>3. CASE rsp_state' # rsp_state /\ rsp_state = "RECHECK_VALID_READ"
      <4>1. Len(resbuf) < RespWords /\ Len(resbuf) \in 1 .. RespWords - 1
        BY <1>0, <3>3, AxiAssumption DEF Held
      <4> QED
        BY <1>0, <2>2, <2>3, <2>4, <3>3, <4>1, Zenon DEF Held, Fresh, RspActive, NoWord
    <3> QED
      BY <3>1, <3>2, <3>3, Zenon
  <2>6. Fresh'
    BY <1>0, <1>1, <2>2, Zenon DEF Fresh, NoWord, IsSet
  <2> QED
    BY <1>2, <2>3, <2>5, <2>6, Zenon DEF Responses
<1> QED
  BY <1>3, <1>4, <1>5, Zenon

\* The acknowledgement of a word lets the next one in; the data of a read is
\* what the register holds, until that acknowledgement.
LEMMA ResponsesEdge == Channels /\ Responses /\ Edge => Responses'
<1> SUFFICES ASSUME Channels, Responses, Edge PROVE Responses'
  BY Zenon
<1>0. RspTypes /\ Stream /\ Held /\ Fresh /\ Complete
  BY Zenon DEF Responses
<1>1. UNCHANGED << response, ongoing_update, todo, out, registered >>
  BY Zenon DEF Edge
<1>2. resbuf \in Seq(Item) /\ out \in Seq(Item) /\ resp \in Item /\ RespWords \in Nat \ {0}
  BY <1>0, AxiAssumption, Zenon DEF RspTypes
<1>3. Complete' /\ Whole(resbuf)' = Whole(resbuf)
  BY <1>0, <1>1, Zenon DEF Complete, Whole
<1>4. r_data' \in Item
  <2>1. CASE rd = "r_wait" /\ r_data' = ReadRegister(raddr)
    <3>1. raddr \in {"CMD_READY", "RESP_VALID", "RESP_BITS"}
      BY <2>1, Zenon DEF Channels, ReadChannel, ReadAddr
    <3>2. \/ r_data' = Flag(Len(rx) < Depth) \/ r_data' = Flag(resp # NoWord) \/ r_data' = resp
      BY <2>1, <3>1, Zenon DEF ReadRegister
    <3> QED
      BY <1>2, <3>2 DEF Flag, One, NoWord, Item
  <2>2. CASE r_data' \in {r_data, NoWord}
    BY <1>0, <2>2 DEF RspTypes, NoWord, Item
  <2> QED
    BY <2>1, <2>2, Zenon DEF Edge, ReadEdge
<1>5. ASSUME NEW a \in {"RESP_VALID", "RESP_BITS"}, Reads, ReadAddr = a, rd' = "r_valid"
      PROVE  \/ rd = "r_valid" /\ r_data' = r_data
             \/ r_data' = IF a = "RESP_BITS" THEN resp ELSE Flag(resp # NoWord)
  <2>1. CASE rd = "r_wait" /\ r_data' = ReadRegister(raddr)
    <3>1. raddr = a
      BY <1>5, <2>1, Zenon DEF Channels, ReadChannel
    <3> QED
      BY <2>1, <3>1, Zenon DEF ReadRegister
  <2>2. \/ rd = "r_valid" /\ r_data' = r_data
        \/ rd = "r_wait" /\ r_data' = ReadRegister(raddr)
    BY <1>5, Zenon DEF Edge, ReadEdge
  <2> QED
    BY <2>1, <2>2, Zenon
<1>6. CASE /\ rsp_state = "READY_WRITE_B" /\ ~Stored /\ Stored' /\ resp' = NoWord
  <2>1. Whole(resbuf) /\ Len(resbuf) <= RespWords /\ Len(resbuf) > 0 /\ resp = resbuf[Len(resbuf)]
    BY <1>0, <1>6, Zenon DEF Held, RspActive
  <2>2. Len(resbuf) \in DOMAIN resbuf /\ Len(resbuf) \in Nat
    BY <1>2, <2>1
  <2>3. resp = [id |-> resbuf[1].id, beat |-> Len(resbuf)]
    BY <2>1, <2>2, Zenon DEF Whole
  <2>4. resp.id = resbuf[1].id /\ resp.beat = Len(resbuf)
    BY <2>3, Zenon
  <2>5. resp # NoWord
    BY <2>1, <2>2, <2>4 DEF NoWord
  <2>6. RspTypes' /\ Stream'
    BY <1>0, <1>1, <1>4, <1>6, Zenon DEF RspTypes, Stream, NoWord, Item
  <2>7. Continues(resbuf)'
    <3>1. CASE Len(resbuf) = RespWords
      <4>1. Len(out) \in {0, RespWords}
        BY <1>0, <2>4, <2>5, <3>1, Zenon DEF Stream
      <4> QED
        BY <1>1, <1>6, <3>1, <4>1, Zenon DEF Continues, Between, NoWord
    <3>2. CASE Len(resbuf) # RespWords
      <4>1. Len(resbuf) < RespWords /\ Len(resbuf) \notin {0, RespWords}
        BY <1>2, <2>1, <2>2, <3>2
      <4>2. Len(out) = RespWords - Len(resbuf) /\ out[1].id = resbuf[1].id
        BY <1>0, <2>4, <2>5, <4>1, Zenon DEF Stream
      <4> QED
        BY <1>1, <1>6, <4>1, <4>2, Zenon DEF Continues, Follows, NoWord
    <3> QED
      BY <3>1, <3>2, Zenon
  <2>8. Held' /\ Fresh'
    <3>1. ongoing_update # "RESP_WAIT"
      BY <1>6, Zenon DEF Channels, BusInv, BusExclusive, PollActive, RspActive
    <3> QED
      BY <1>1, <1>3, <1>6, <2>1, <2>7, <3>1, Zenon DEF Held, Fresh, RspActive
  <2> QED
    BY <1>3, <2>6, <2>8, Zenon DEF Responses
<1>7. CASE resp' = resp /\ (rsp_state = "READY_WRITE_B" => Stored /\ Stored')
  <2>1. RspTypes' /\ Stream' /\ Between' = Between /\ Continues(resbuf)' = Continues(resbuf)
    BY <1>0, <1>1, <1>4, <1>7, Zenon DEF RspTypes, Stream, NoWord, Between, Continues, Follows
  <2>2. Held'
    BY <1>0, <1>1, <1>3, <1>7, <2>1, Zenon DEF Held, RspActive, NoWord
  <2>3. Fresh'
    <3>1. ASSUME rsp_state = "BITS_READ", rd' = "r_valid" PROVE r_data' = resp
      <4>1. Reads /\ ReadAddr = "RESP_BITS"
        BY <3>1, Zenon DEF Reads, ReadAddr, Channels, BusInv, BusExclusive, CmdActive, RspActive, PollActive
      <4> QED
        BY <1>0, <1>5, <3>1, <4>1, Zenon DEF Fresh
    <3>2. ASSUME rsp_state = "RECHECK_VALID_READ" \/ ongoing_update = "RESP_WAIT",
                 rd' = "r_valid", IsSet(r_data')
          PROVE  resp # NoWord
      <4>1. Reads /\ ReadAddr = "RESP_VALID"
        BY <3>2, Zenon DEF Reads, ReadAddr, Channels, BusInv, BusExclusive, CmdActive, RspActive, PollActive
      <4>2. CASE rd = "r_valid" /\ r_data' = r_data
        BY <1>0, <3>2, <4>2, Zenon DEF Fresh
      <4>3. CASE r_data' = Flag(resp # NoWord)
        BY <3>2, <4>3, Zenon DEF Flag, IsSet, NoWord
      <4> QED
        BY <1>5, <3>2, <4>1, <4>2, <4>3, Zenon
    <3> QED
      BY <1>1, <1>7, <3>1, <3>2, Zenon DEF Fresh, NoWord
  <2> QED
    BY <1>3, <2>1, <2>2, <2>3, Zenon DEF Responses
<1>8. CASE Awaits /\ waddr = WriteAddr /\ ~Stored /\ Stored' /\ WriteRegister(Datum)
  <2>1. CASE rsp_state = "READY_WRITE_B"
    <3>1. waddr = "RESP_READY"
      BY <1>8, <2>1, Zenon DEF WriteAddr, Channels, BusInv, BusExclusive, CmdActive, RspActive
    <3> QED
      BY <1>6, <1>8, <2>1, <3>1, Zenon DEF WriteRegister
  <2>2. CASE rsp_state # "READY_WRITE_B"
    <3>1. waddr # "RESP_READY"
      BY <1>8, <2>2, Zenon DEF WriteAddr, Awaits
    <3> QED
      BY <1>7, <1>8, <2>2, <3>1, Zenon DEF WriteRegister
  <2> QED
    BY <2>1, <2>2, Zenon
<1>9. CASE UNCHANGED << bits, rx, resp, received >> /\ (Awaits => Stored /\ Stored')
  BY <1>7, <1>9, Zenon DEF Awaits
<1> QED
  BY <1>8, <1>9, EdgeCases, Zenon

\* No response was sent or read at the start.
LEMMA ResponsesInit == Init => Responses
<1> SUFFICES ASSUME Init PROVE Responses
  BY Zenon
<1> USE DEF Init
<1>1. RspTypes
  BY DEF RspTypes, Item, NoWord
<1>2. Len(out) = 0
  BY Zenon
<1>3. Stream /\ Held /\ Fresh /\ Complete
  BY <1>2, AxiAssumption DEF Stream, Held, Fresh, Complete, RspActive, Between
<1> QED
  BY <1>1, <1>3, Zenon DEF Responses

\* Every step keeps the responses in order.
LEMMA ResponsesStep == Channels /\ Commands /\ Responses /\ [Next]_vars => Responses'
<1> SUFFICES ASSUME Channels, Commands, Responses, [Next]_vars PROVE Responses'
  BY Zenon
<1>1. CASE UpdateRespState \/ UpdateUpdateState \/ Edge \/ TakeWord \/ AnswerWord
  BY <1>1, ResponsesResponse, ResponsesUpdate, ResponsesEdge, ResponsesTakeWord,
     ResponsesAnswerWord
<1>2. CASE \E k \in Core : Answer(k)
  BY <1>2, ResponsesAnswer, Zenon
<1>3. CASE \E k \in Core, xd \in BOOLEAN : Submit(k, xd)
  BY <1>3, ResponsesSame, Zenon DEF Submit
<1>4. CASE UpdateCommandState
  BY <1>4, ResponsesSame, Zenon DEF UpdateCommandState
<1>5. CASE Loop \/ Quit \/ Exited \/ UNCHANGED vars
  BY <1>5, ResponsesSame, Zenon DEF Loop, Quit, Exited, vars
<1> QED
  BY <1>1, <1>2, <1>3, <1>4, <1>5, Zenon DEF Next, Simulator

\* register_reponse is always called with all the words of one response, in
\* their order, however the cores answer and whenever the hardware shows the
\* next word.
THEOREM ResponsesInOrder == Spec => []ResponsesWhole
<1>1. ASSUME Responses PROVE ResponsesWhole
  <2> SUFFICES ASSUME NEW i \in DOMAIN registered, NEW j \in 1 .. RespWords
               PROVE  registered[i][j] = [id |-> registered[i][1].id, beat |-> j]
    BY Zenon DEF ResponsesWhole
  <2>1. registered[i] \in Seq(Item)
    BY <1>1 DEF Responses, RspTypes
  <2>2. Len(registered[i]) = RespWords /\ Whole(registered[i])
    BY <1>1, Zenon DEF Responses, Complete
  <2>3. j \in DOMAIN registered[i]
    BY <2>1, <2>2
  <2> QED
    BY <2>2, <2>3, Zenon DEF Whole
<1> QED
  BY <1>1, ChannelsInit, ChannelsStep, CommandsInit, CommandsStep, ResponsesInit, ResponsesStep,
     PTL DEF Spec

-----------------------------------------------------------------------------
(* The order of the answers. *)

\* The words the accelerator has collected, and the last command of which it
\* has all: the commands up to it have started.
Consumed == Len(received) - Len(rx)
Started ==
  IF Consumed = 0 THEN 0
  ELSE IF received[Consumed].beat = CmdWords THEN received[Consumed].id ELSE received[Consumed].id - 1

\* The words in the buffer are the ones received last.
Buffered == Len(rx) <= Len(received) /\ \A j \in DOMAIN rx : rx[j] = received[Consumed + j]

\* The answers between the core and register_reponse: the one that is being
\* read, the one whose word is in the register, the one that leaves its core.
InBuf == IF RspActive /\ Len(resbuf) > 0 THEN {resbuf[1].id} ELSE {}
InReg == IF resp # NoWord THEN {resp.id} ELSE {}
InOut == IF out # << >> THEN {out[1].id} ELSE {}
OnWay == InBuf \cup InReg \cup InOut

\* What a core has still to answer are started commands of its own that ask
\* for a response, in their order.
Queued ==
  \A k \in Core :
    /\ \A n \in DOMAIN todo[k] :
         /\ todo[k][n] \in 1 .. Started /\ todo[k][n] \notin Answered \cup OnWay
         /\ submitted[todo[k][n]].core = k /\ submitted[todo[k][n]].xd
    /\ \A m, n \in DOMAIN todo[k] : m < n => todo[k][m] < todo[k][n]

\* The answers on their way are not registered yet, and older than what their
\* cores have still to answer.
Leaving ==
  \A i \in OnWay :
    /\ i \in 1 .. Started /\ submitted[i].xd /\ i \notin Answered
    /\ \A n \in DOMAIN todo[submitted[i].core] : i < todo[submitted[i].core][n]

\* They do not overtake each other, and once an answer is read whole it is
\* nowhere else.
Lined ==
  /\ \A i \in InBuf, j \in InReg \cup InOut : submitted[i].core = submitted[j].core => i <= j
  /\ \A i \in InReg, j \in InOut : submitted[i].core = submitted[j].core => i <= j
  /\ resp # NoWord /\ resp.beat = RespWords => resp.id \notin InOut
  /\ rsp_state = "READY_WRITE_B" /\ Stored /\ Len(resbuf) = RespWords =>
       resbuf[1].id \notin InReg \cup InOut

\* No started command is forgotten.
Kept ==
  \A i \in 1 .. Started : submitted[i].xd =>
    \/ i \in Answered \cup OnWay
    \/ \E n \in DOMAIN todo[submitted[i].core] : todo[submitted[i].core][n] = i

Answers == Buffered /\ Answered \subseteq 1 .. Started /\ Queued /\ Leaving /\ Lined /\ Kept

\* Two positions of words are equal only if command and beat are.
LEMMA SamePosition ==
  ASSUME NEW w \in Nat \ {0}, NEW p \in Nat, NEW q \in Nat, NEW r \in 1 .. w, NEW s \in 1 .. w,
         w * p + r = w * q + s
  PROVE  p = q /\ r = s
<1>1. r - 1 \in 0 .. w - 1 /\ s - 1 \in 0 .. w - 1 /\ w * p \in Nat /\ w * q \in Nat
  OBVIOUS
<1>2. w * p + (r - 1) = w * q + (s - 1)
  BY <1>1
<1>3. /\ (w * p + (r - 1)) \div w = p /\ (w * p + (r - 1)) % w = r - 1
      /\ (w * q + (s - 1)) \div w = q /\ (w * q + (s - 1)) % w = s - 1
  BY <1>1, Position, Zenon
<1>4. p = q /\ r - 1 = s - 1
  BY <1>2, <1>3, Zenon
<1> QED
  BY <1>4

\* The first word received is the first of command 1, and every other one is
\* the next word of the same command or the first of the next.
LEMMA NextWord ==
  ASSUME Commands, NEW n \in Nat, n + 1 \in DOMAIN received
  PROVE  /\ received[n + 1].id \in 1 .. Len(submitted)
         /\ n = 0 => received[n + 1] = [id |-> 1, beat |-> 1]
         /\ n # 0 => n \in DOMAIN received /\ received[n + 1] =
              IF received[n].beat = CmdWords THEN [id |-> received[n].id + 1, beat |-> 1]
              ELSE [id |-> received[n].id, beat |-> received[n].beat + 1]
<1>0. CmdTypes /\ Sources /\ Words /\ CmdWords \in Nat \ {0}
  BY AxiAssumption, Zenon DEF Commands
<1>1. /\ Taken \in Nat /\ Taken <= Len(submitted) /\ Len(received) \in Nat /\ Len(submitted) \in Nat
      /\ DOMAIN received = 1 .. Len(received) /\ DOMAIN submitted = 1 .. Len(submitted)
  BY <1>0 DEF CmdTypes, Sources, Taken
<1>2. PICK q \in 1 .. Taken, r \in 1 .. CmdWords :
        n + 1 = CmdWords * (q - 1) + r /\ received[n + 1] = [id |-> submitted[q].id, beat |-> r]
  BY <1>0, Zenon DEF Words, IsWord
<1>3. q \in 1 .. Len(submitted) /\ q \in DOMAIN submitted /\ q - 1 \in Nat
  BY <1>1
<1>4. received[n + 1] = [id |-> q, beat |-> r]
  BY <1>0, <1>2, <1>3, Zenon DEF Sources
<1>5. CASE n = 0
  <2>1. CmdWords * 0 + 1 = CmdWords * (q - 1) + r /\ 0 \in Nat /\ 1 \in 1 .. CmdWords
    BY <1>0, <1>2, <1>5
  <2>2. q - 1 = 0 /\ r = 1
    BY <1>0, <1>3, <2>1, SamePosition
  <2> QED
    BY <1>3, <1>4, <1>5, <2>2
<1>6. CASE n # 0
  <2>1. n \in DOMAIN received
    BY <1>1, <1>6
  <2>2. PICK p \in 1 .. Taken, s \in 1 .. CmdWords :
          n = CmdWords * (p - 1) + s /\ received[n] = [id |-> submitted[p].id, beat |-> s]
    BY <1>0, <2>1, Zenon DEF Words, IsWord
  <2>3. p \in DOMAIN submitted /\ p - 1 \in Nat /\ p \in Nat
    BY <1>1
  <2>4. received[n] = [id |-> p, beat |-> s]
    BY <1>0, <2>2, <2>3, Zenon DEF Sources
  <2>5. CASE s = CmdWords
    <3>1. n = CmdWords * p
      BY <1>0, <2>2, <2>3, <2>5
    <3>2. CmdWords * p + 1 = CmdWords * (q - 1) + r /\ 1 \in 1 .. CmdWords
      BY <1>0, <1>2, <3>1
    <3>3. p = q - 1 /\ 1 = r
      BY <1>0, <1>3, <2>3, <3>2, SamePosition
    <3>4. q = p + 1
      BY <1>3, <2>3, <3>3
    <3> QED
      BY <1>3, <1>4, <1>6, <2>1, <2>4, <2>5, <3>3, <3>4, SMTT(20)
  <2>6. CASE s # CmdWords
    <3>1. s + 1 \in 1 .. CmdWords /\ CmdWords * (p - 1) \in Nat
      BY <1>0, <2>3, <2>6
    <3>2. CmdWords * (p - 1) + (s + 1) = CmdWords * (q - 1) + r
      BY <1>2, <2>2, <3>1
    <3>3. p - 1 = q - 1 /\ s + 1 = r
      BY <1>0, <1>3, <2>3, <3>1, <3>2, SamePosition
    <3>4. p = q
      BY <1>3, <2>3, <3>3
    <3> QED
      BY <1>3, <1>4, <1>6, <2>1, <2>4, <2>6, <3>3, <3>4
  <2> QED
    BY <2>5, <2>6, Zenon
<1> QED
  BY <1>5, <1>6, Zenon

\* Only submitted commands have started.
LEMMA StartedRange ==
  ASSUME Commands, Buffered
  PROVE  Started \in Nat /\ Started <= Len(submitted) /\ Consumed \in Nat
<1>1. /\ Len(rx) <= Len(received) /\ Len(rx) \in Nat /\ Len(received) \in Nat /\ Len(submitted) \in Nat
      /\ DOMAIN received = 1 .. Len(received)
  BY DEF Commands, CmdTypes, Buffered
<1>2. Consumed \in Nat
  BY <1>1 DEF Consumed
<1>3. CASE Consumed = 0
  BY <1>1, <1>2, <1>3 DEF Started
<1>4. CASE Consumed # 0
  <2>1. Consumed - 1 \in Nat /\ (Consumed - 1) + 1 = Consumed
    BY <1>2, <1>4
  <2>2. Consumed \in DOMAIN received
    BY <1>1, <1>2, <1>4 DEF Consumed
  <2>3. received[Consumed].id \in 1 .. Len(submitted)
    BY <2>1, <2>2, NextWord, Zenon
  <2> QED
    BY <1>1, <1>2, <1>4, <2>3, SMTT(20) DEF Started
<1> QED
  BY <1>3, <1>4, Zenon

\* Collecting a word starts at most the next command, with its last word.
LEMMA StartedTake ==
  ASSUME Commands, Buffered, TakeWord
  PROVE  /\ Buffered'
         /\ Started' = IF Head(rx).beat = CmdWords THEN Started + 1 ELSE Started
         /\ Head(rx).beat = CmdWords => Head(rx).id = Started + 1
         /\ Head(rx).id \in DOMAIN submitted
<1>1. /\ Len(rx) <= Len(received) /\ Len(rx) \in Nat /\ Len(received) \in Nat /\ rx \in Seq(Item)
      /\ DOMAIN received = 1 .. Len(received) /\ received \in Seq(Item) /\ CmdWords \in Nat \ {0}
  BY AxiAssumption DEF Commands, CmdTypes, Buffered
<1>2. rx # << >> /\ rx' = Tail(rx) /\ received' = received
  BY Zenon DEF TakeWord
<1>3. /\ Len(rx') = Len(rx) - 1 /\ Head(rx) = rx[1] /\ 1 \in DOMAIN rx
      /\ \A j \in DOMAIN rx' : j \in Nat /\ j + 1 \in DOMAIN rx /\ rx'[j] = rx[j + 1]
  BY <1>1, <1>2
<1>4. Consumed \in Nat /\ Consumed' = Consumed + 1 /\ Consumed + 1 \in DOMAIN received
  BY <1>1, <1>2, <1>3 DEF Consumed
<1>5. Head(rx) = received[Consumed + 1]
  BY <1>3, Zenon DEF Buffered
<1>6. Buffered'
  <2>1. ASSUME NEW j \in DOMAIN rx' PROVE rx'[j] = received'[Consumed' + j]
    <3>1. rx'[j] = received[Consumed + (j + 1)]
      BY <1>3, Zenon DEF Buffered
    <3>2. Consumed + (j + 1) = Consumed' + j
      BY <1>3, <1>4
    <3> QED
      BY <1>2, <3>1, <3>2, Zenon
  <2>2. Len(rx') <= Len(received')
    BY <1>1, <1>2, <1>3
  <2> QED
    BY <2>1, <2>2, Zenon DEF Buffered
<1>7. /\ Started' = IF Head(rx).beat = CmdWords THEN Started + 1 ELSE Started
      /\ Head(rx).beat = CmdWords => Head(rx).id = Started + 1
  <2>1. Consumed' # 0 /\ received'[Consumed'] = Head(rx)
    BY <1>2, <1>4, <1>5
  <2>2. Started' = IF Head(rx).beat = CmdWords THEN Head(rx).id ELSE Head(rx).id - 1
    BY <2>1, Zenon DEF Started
  <2>3. CASE Consumed = 0
    <3>1. Head(rx) = [id |-> 1, beat |-> 1] /\ Started = 0
      BY <1>4, <1>5, <2>3, NextWord, Zenon DEF Started
    <3> QED
      BY <2>2, <3>1
  <2>4. CASE Consumed # 0
    <3>1. Head(rx) =
            IF received[Consumed].beat = CmdWords THEN [id |-> received[Consumed].id + 1, beat |-> 1]
            ELSE [id |-> received[Consumed].id, beat |-> received[Consumed].beat + 1]
      BY <1>4, <1>5, <2>4, NextWord
    <3>2. Started = IF received[Consumed].beat = CmdWords THEN received[Consumed].id
                    ELSE received[Consumed].id - 1
      BY <2>4, Zenon DEF Started
    <3>3. received[Consumed].id \in Nat
      <4>1. Consumed \in DOMAIN received
        BY <1>1, <1>4, <2>4
      <4>2. received[Consumed] \in Item
        BY <1>1, <4>1
      <4> QED
        BY <4>2 DEF Item
    <3> QED
      BY <2>2, <3>1, <3>2, <3>3
  <2> QED
    BY <2>3, <2>4, Zenon
<1>8. Head(rx).id \in DOMAIN submitted
  BY <1>3, Zenon DEF Commands, Words
<1> QED
  BY <1>6, <1>7, <1>8, Zenon

\* What Append adds to a queue.
LEMMA Appended ==
  ASSUME NEW q \in Seq(Nat), NEW x \in Nat
  PROVE  /\ DOMAIN Append(q, x) = DOMAIN q \cup {Len(q) + 1}
         /\ Append(q, x)[Len(q) + 1] = x
         /\ \A n \in DOMAIN q : /\ Append(q, x)[n] = q[n]
                                /\ n < Len(q) + 1 /\ ~(Len(q) + 1 < n)
         /\ ~(Len(q) + 1 < Len(q) + 1)
<1>1. DOMAIN Append(q, x) = 1 .. Len(q) + 1 /\ DOMAIN q = 1 .. Len(q) /\ Len(q) \in Nat
  OBVIOUS
<1>2. 1 .. Len(q) + 1 = (1 .. Len(q)) \cup {Len(q) + 1}
  BY <1>1
<1>3. /\ Append(q, x)[Len(q) + 1] = x
      /\ \A n \in DOMAIN q : Append(q, x)[n] = q[n] /\ n < Len(q) + 1 /\ ~(Len(q) + 1 < n)
      /\ ~(Len(q) + 1 < Len(q) + 1)
  OBVIOUS
<1> QED
  BY <1>1, <1>2, <1>3, Zenon

\* A submitted command is a command of a core.
LEMMA CoreOf ==
  ASSUME Commands, NEW i \in DOMAIN submitted
  PROVE  submitted[i].core \in Core /\ submitted[i].xd \in BOOLEAN
<1>1. submitted[i] \in Cmd
  BY DEF Commands, CmdTypes
<1> QED
  BY <1>1 DEF Cmd

\* Steps that touch nothing of the answers.
LEMMA AnswersSame ==
  ASSUME Answers,
         UNCHANGED << submitted, received, rx, todo, out, resp, rsp_state, resbuf, wr, registered >>
  PROVE  Answers'
<1>1. /\ InBuf' = InBuf /\ InReg' = InReg /\ InOut' = InOut /\ OnWay' = OnWay
      /\ Answered' = Answered /\ Started' = Started /\ Consumed' = Consumed /\ Stored' = Stored
  BY Zenon DEF InBuf, InReg, InOut, OnWay, RspActive, NoWord, Answered, Started, Consumed, Stored
<1>2. Buffered' /\ (Answered \subseteq 1 .. Started)' /\ Kept'
  BY <1>1, Zenon DEF Answers, Buffered, Kept
<1>3. Queued'
  BY <1>1, Zenon DEF Answers, Queued
<1>4. Leaving' /\ Lined'
  BY <1>1, Zenon DEF Answers, Leaving, Lined, NoWord
<1> QED
  BY <1>2, <1>3, <1>4, Zenon DEF Answers

\* A command that is submitted has not started.
LEMMA AnswersSubmit ==
  ASSUME Commands, Answers, NEW k \in Core, NEW xd \in BOOLEAN, Submit(k, xd)
  PROVE  Answers'
<1>1. /\ UNCHANGED << received, rx, todo, out, resp, rsp_state, resbuf, wr, registered >>
      /\ submitted' = Append(submitted, [id |-> Len(submitted) + 1, core |-> k, xd |-> xd])
  BY Zenon DEF Submit
<1>2. /\ InBuf' = InBuf /\ InReg' = InReg /\ InOut' = InOut /\ OnWay' = OnWay
      /\ Answered' = Answered /\ Started' = Started /\ Consumed' = Consumed /\ Stored' = Stored
  BY <1>1, Zenon DEF InBuf, InReg, InOut, OnWay, RspActive, NoWord, Answered, Started, Consumed, Stored
<1>3. Started \in Nat /\ Started <= Len(submitted)
  BY StartedRange, Zenon DEF Answers
<1>4. submitted \in Seq(Cmd)
  BY Zenon DEF Commands, CmdTypes
<1>5. \A i \in 1 .. Started : submitted'[i] = submitted[i]
  BY <1>1, <1>3, <1>4
<1>6. OnWay \subseteq 1 .. Started
  BY Zenon DEF Answers, Leaving
<1>7. Buffered' /\ (Answered \subseteq 1 .. Started)'
  BY <1>1, <1>2, Zenon DEF Answers, Buffered
<1>8. Kept'
  <2> SUFFICES ASSUME NEW i \in 1 .. Started, submitted'[i].xd
               PROVE  \/ i \in Answered \cup OnWay
                      \/ \E n \in DOMAIN todo[submitted'[i].core] : todo[submitted'[i].core][n] = i
    BY <1>1, <1>2, Zenon DEF Kept
  <2>1. submitted'[i] = submitted[i]
    BY <1>5, Zenon
  <2> QED
    BY <2>1, Zenon DEF Answers, Kept
<1>9. Queued'
  <2>1. ASSUME NEW l \in Core, NEW n \in DOMAIN todo[l]
        PROVE  /\ todo[l][n] \in 1 .. Started /\ todo[l][n] \notin Answered \cup OnWay
               /\ submitted'[todo[l][n]].core = l /\ submitted'[todo[l][n]].xd
    <3>1. /\ todo[l][n] \in 1 .. Started /\ todo[l][n] \notin Answered \cup OnWay
          /\ submitted[todo[l][n]].core = l /\ submitted[todo[l][n]].xd
      BY Zenon DEF Answers, Queued
    <3>2. submitted'[todo[l][n]] = submitted[todo[l][n]]
      BY <1>5, <3>1, Zenon
    <3> QED
      BY <3>1, <3>2, Zenon
  <2>2. ASSUME NEW l \in Core, NEW m \in DOMAIN todo[l], NEW n \in DOMAIN todo[l], m < n
        PROVE  todo[l][m] < todo[l][n]
    BY <2>2, Zenon DEF Answers, Queued
  <2> QED
    BY <1>1, <1>2, <2>1, <2>2, Zenon DEF Queued
<1>10. Leaving'
  <2> SUFFICES ASSUME NEW i \in OnWay
               PROVE  /\ i \in 1 .. Started /\ submitted'[i].xd /\ i \notin Answered
                      /\ \A n \in DOMAIN todo[submitted'[i].core] : i < todo[submitted'[i].core][n]
    BY <1>1, <1>2, Zenon DEF Leaving
  <2>1. submitted'[i] = submitted[i]
    BY <1>5, <1>6, Zenon
  <2> QED
    BY <2>1, Zenon DEF Answers, Leaving
<1>11. Lined'
  <2>1. \A i \in InBuf \cup InReg \cup InOut : submitted'[i] = submitted[i]
    BY <1>5, <1>6, Zenon DEF OnWay
  <2>2. ASSUME NEW i \in InBuf, NEW j \in InReg \cup InOut, submitted'[i].core = submitted'[j].core
        PROVE  i <= j
    BY <2>1, <2>2, Zenon DEF Answers, Lined
  <2>3. ASSUME NEW i \in InReg, NEW j \in InOut, submitted'[i].core = submitted'[j].core
        PROVE  i <= j
    BY <2>1, <2>3, Zenon DEF Answers, Lined
  <2>4. /\ resp # NoWord /\ resp.beat = RespWords => resp.id \notin InOut
        /\ rsp_state = "READY_WRITE_B" /\ Stored /\ Len(resbuf) = RespWords =>
             resbuf[1].id \notin InReg \cup InOut
    BY Zenon DEF Answers, Lined
  <2> QED
    BY <1>1, <1>2, <2>2, <2>3, <2>4, Zenon DEF Lined, NoWord
<1> QED
  BY <1>7, <1>8, <1>9, <1>10, <1>11, Zenon DEF Answers

\* A command that starts is the youngest of its core.
LEMMA AnswersTakeWord ==
  ASSUME Commands, Responses, Answers, TakeWord
  PROVE  Answers'
<1>1. UNCHANGED << submitted, received, out, resp, rsp_state, resbuf, wr, registered >>
  BY Zenon DEF TakeWord
<1>2. /\ InBuf' = InBuf /\ InReg' = InReg /\ InOut' = InOut /\ OnWay' = OnWay
      /\ Answered' = Answered /\ Stored' = Stored
  BY <1>1, Zenon DEF InBuf, InReg, InOut, OnWay, RspActive, NoWord, Answered, Stored
<1>3. /\ Buffered'
      /\ Started' = IF Head(rx).beat = CmdWords THEN Started + 1 ELSE Started
      /\ Head(rx).beat = CmdWords => Head(rx).id = Started + 1
      /\ Head(rx).id \in DOMAIN submitted
  BY StartedTake, Zenon DEF Answers
<1>4. Started \in Nat /\ todo \in [Core -> Seq(Nat)]
  BY StartedRange, Zenon DEF Answers, Responses, RspTypes
<1>5. Lined'
  BY <1>1, <1>2, Zenon DEF Answers, Lined, NoWord
<1>6. CASE Head(rx).beat # CmdWords
  <2>1. todo' = todo /\ Started' = Started
    BY <1>3, <1>6, Zenon DEF TakeWord
  <2> QED
    BY <1>1, <1>2, <1>3, <1>5, <2>1, Zenon DEF Answers, Queued, Leaving, Kept
<1>7. CASE Head(rx).beat = CmdWords
  <2> DEFINE s == Started + 1
             c == submitted[s].core
  <2>1. Started' = s /\ s \in DOMAIN submitted /\ submitted[s].id = s
    BY <1>3, <1>7, Zenon DEF Commands, Sources
  <2>2. todo' = IF submitted[s].xd THEN [todo EXCEPT ![c] = Append(todo[c], s)] ELSE todo
    BY <1>3, <1>7, <2>1, Zenon DEF TakeWord
  <2>3. submitted[s] \in Cmd /\ s \in Nat /\ s \in 1 .. s /\ 1 .. s = (1 .. Started) \cup {s} /\ s \notin 1 .. Started
    BY <1>4, <2>1 DEF Commands, CmdTypes
  <2>4. c \in Core /\ submitted[s].xd \in BOOLEAN
    BY <2>3 DEF Cmd
  <2>5. \A i \in 1 .. Started : i < s
    BY <1>4
  <2>6. todo[c] \in Seq(Nat)
    BY <1>4, <2>4, Zenon
  <2> HIDE DEF s, c
  <2>7. /\ DOMAIN Append(todo[c], s) = DOMAIN todo[c] \cup {Len(todo[c]) + 1}
        /\ Append(todo[c], s)[Len(todo[c]) + 1] = s
        /\ \A n \in DOMAIN todo[c] : /\ Append(todo[c], s)[n] = todo[c][n]
                                     /\ n < Len(todo[c]) + 1 /\ ~(Len(todo[c]) + 1 < n)
        /\ ~(Len(todo[c]) + 1 < Len(todo[c]) + 1)
    BY <2>3, <2>6, Appended, Zenon
  <2>8. Answered \subseteq 1 .. Started /\ OnWay \subseteq 1 .. Started /\ s \notin Answered \cup OnWay
    BY <2>3, Zenon DEF Answers, Leaving
  <2>9. (Answered \subseteq 1 .. Started)'
    BY <1>2, <2>1, <2>3, <2>8, Zenon
  <2>10. CASE ~ submitted[s].xd
    <3>1. todo' = todo
      BY <2>2, <2>10, Zenon
    <3>2. Queued' /\ Leaving'
      BY <1>1, <1>2, <2>1, <2>3, <3>1, Zenon DEF Answers, Queued, Leaving
    <3>3. Kept'
      BY <1>1, <1>2, <2>1, <2>3, <2>10, <3>1, Zenon DEF Answers, Kept
    <3> QED
      BY <1>3, <1>5, <2>9, <3>2, <3>3, Zenon DEF Answers
  <2>11. CASE submitted[s].xd
    <3>1. /\ todo'[c] = Append(todo[c], s) /\ \A k \in Core : k # c => todo'[k] = todo[k]
      BY <1>4, <2>2, <2>4, <2>11, Zenon
    <3>2. ASSUME NEW k \in Core
          PROVE  \A n \in DOMAIN todo'[k] :
                   \/ n \in DOMAIN todo[k] /\ todo'[k][n] = todo[k][n]
                   \/ k = c /\ n = Len(todo[c]) + 1 /\ todo'[k][n] = s
      BY <2>7, <3>1, Zenon
    <3>3. ASSUME NEW k \in Core, NEW n \in DOMAIN todo'[k]
          PROVE  /\ todo'[k][n] \in 1 .. Started' /\ todo'[k][n] \notin Answered' \cup OnWay'
                 /\ submitted'[todo'[k][n]].core = k /\ submitted'[todo'[k][n]].xd
      <4>1. CASE n \in DOMAIN todo[k] /\ todo'[k][n] = todo[k][n]
        BY <1>1, <1>2, <2>1, <2>3, <4>1 DEF Answers, Queued
      <4>2. CASE k = c /\ todo'[k][n] = s
        BY <1>1, <1>2, <2>1, <2>3, <2>8, <2>11, <4>2, Zenon DEF c
      <4> QED
        BY <3>2, <4>1, <4>2, Zenon
    <3>4. ASSUME NEW k \in Core, NEW m \in DOMAIN todo'[k], NEW n \in DOMAIN todo'[k], m < n
          PROVE  todo'[k][m] < todo'[k][n]
      <4>1. CASE k # c
        BY <3>1, <3>4, <4>1, Zenon DEF Answers, Queued
      <4>2. CASE k = c
        <5>1. m \in DOMAIN todo[c] /\ todo'[k][m] = todo[c][m]
          BY <2>7, <3>1, <3>4, <4>2, Zenon
        <5>2. CASE n \in DOMAIN todo[c]
          <6>1. todo[c][m] < todo[c][n]
            BY <2>4, <3>4, <5>1, <5>2, Zenon DEF Answers, Queued
          <6> QED
            BY <2>7, <3>1, <4>2, <5>1, <5>2, <6>1, Zenon
        <5>3. CASE n = Len(todo[c]) + 1
          <6>1. todo[c][m] \in 1 .. Started
            BY <2>4, <5>1, Zenon DEF Answers, Queued
          <6> QED
            BY <2>5, <2>7, <3>1, <4>2, <5>1, <5>3, <6>1, Zenon
        <5> QED
          BY <2>7, <3>1, <4>2, <5>2, <5>3, Zenon
      <4> QED
        BY <4>1, <4>2, Zenon
    <3>5. Queued'
      BY <3>3, <3>4, Zenon DEF Queued
    <3>6. Leaving'
      <4> SUFFICES ASSUME NEW i \in OnWay
                   PROVE  /\ i \in 1 .. Started' /\ submitted[i].xd /\ i \notin Answered
                          /\ \A n \in DOMAIN todo'[submitted[i].core] : i < todo'[submitted[i].core][n]
        BY <1>1, <1>2, Zenon DEF Leaving
      <4>1. /\ i \in 1 .. Started /\ submitted[i].xd /\ i \notin Answered
            /\ \A n \in DOMAIN todo[submitted[i].core] : i < todo[submitted[i].core][n]
        BY Zenon DEF Answers, Leaving
      <4>2. submitted[i].core \in Core
        <5>1. i \in DOMAIN submitted
          BY <1>4, <2>1, <2>3, <4>1 DEF Commands, CmdTypes
        <5> QED
          BY <5>1, CoreOf, Zenon
      <4> QED
        BY <2>1, <2>3, <2>5, <3>2, <4>1, <4>2, Zenon
    <3>7. Kept'
      <4> SUFFICES ASSUME NEW i \in 1 .. s, submitted[i].xd
                   PROVE  \/ i \in Answered \cup OnWay
                          \/ \E n \in DOMAIN todo'[submitted[i].core] : todo'[submitted[i].core][n] = i
        BY <1>1, <1>2, <2>1, Zenon DEF Kept
      <4>1. CASE i = s
        <5>1. todo'[c][Len(todo[c]) + 1] = s /\ Len(todo[c]) + 1 \in DOMAIN todo'[c]
          BY <2>7, <3>1, Zenon
        <5> QED
          BY <4>1, <5>1, Zenon DEF c
      <4>2. CASE i \in 1 .. Started
        <5>1. CASE submitted[i].core = c
          <6>1. i \in Answered \cup OnWay \/ \E n \in DOMAIN todo[c] : todo[c][n] = i
            BY <4>2, <5>1, Zenon DEF Answers, Kept
          <6> QED
            <7>1. ASSUME NEW n \in DOMAIN todo[c], todo[c][n] = i
                  PROVE  n \in DOMAIN todo'[c] /\ todo'[c][n] = i
              BY <2>7, <3>1, <7>1, Zenon
            <7> QED
              BY <5>1, <6>1, <7>1, Zenon
        <5>2. CASE submitted[i].core # c
          <6>1. i \in DOMAIN submitted
            BY <1>4, <2>1, <2>3, <4>2 DEF Commands, CmdTypes
          <6>2. submitted[i].core \in Core
            BY <6>1, CoreOf, Zenon
          <6> QED
            BY <3>1, <4>2, <5>2, <6>2, Zenon DEF Answers, Kept
        <5> QED
          BY <5>1, <5>2, Zenon
      <4> QED
        BY <2>3, <4>1, <4>2, Zenon
    <3> QED
      BY <1>3, <1>5, <2>9, <3>5, <3>6, <3>7, Zenon DEF Answers
  <2> QED
    BY <2>4, <2>10, <2>11, Zenon
<1> QED
  BY <1>6, <1>7, Zenon

\* A core answers its oldest command.
LEMMA AnswersAnswer ==
  ASSUME Responses, Answers, NEW k \in Core, Answer(k)
  PROVE  Answers'
<1> DEFINE h == Head(todo[k])
<1>1. /\ UNCHANGED << submitted, received, rx, resp, rsp_state, resbuf, wr, registered >>
      /\ out = << >> /\ todo[k] # << >> /\ todo' = [todo EXCEPT ![k] = Tail(todo[k])]
      /\ out' = [j \in 1 .. RespWords |-> [id |-> h, beat |-> j]]
  BY Zenon DEF Answer
<1>2. todo \in [Core -> Seq(Nat)] /\ todo[k] \in Seq(Nat) /\ 1 \in 1 .. RespWords /\ RespWords \in Nat \ {0}
  BY AxiAssumption DEF Responses, RspTypes
<1>3. /\ InBuf' = InBuf /\ InReg' = InReg /\ InOut = {}
      /\ Answered' = Answered /\ Started' = Started /\ Consumed' = Consumed /\ Stored' = Stored
  BY <1>1, Zenon DEF InBuf, InReg, InOut, RspActive, NoWord, Answered, Started, Consumed, Stored
<1>4. InOut' = {h} /\ OnWay' = OnWay \cup {h}
  <2>1. out'[1] = [id |-> h, beat |-> 1] /\ 1 \in DOMAIN out' /\ DOMAIN << >> = {}
    BY <1>1, <1>2
  <2>2. out' # << >>
    BY <2>1, Zenon
  <2> QED
    <3>1. out'[1].id = h
      BY <2>1
    <3>2. InOut' = {h}
      BY <2>2, <3>1, Zenon DEF InOut
    <3> QED
      BY <1>3, <3>2, Zenon DEF OnWay
<1>5. /\ 1 \in DOMAIN todo[k] /\ h = todo[k][1]
      /\ \A n \in DOMAIN Tail(todo[k]) : /\ n \in Nat /\ n + 1 \in DOMAIN todo[k] /\ 1 < n + 1
                                         /\ Tail(todo[k])[n] = todo[k][n + 1]
      /\ \A m, n \in DOMAIN Tail(todo[k]) : m < n => m + 1 < n + 1
      /\ \A n \in DOMAIN todo[k] : n = 1 \/ \E m \in DOMAIN Tail(todo[k]) : n = m + 1
  <2>1. /\ 1 \in DOMAIN todo[k] /\ h = todo[k][1]
        /\ \A n \in DOMAIN Tail(todo[k]) : /\ n \in Nat /\ n + 1 \in DOMAIN todo[k] /\ 1 < n + 1
                                           /\ Tail(todo[k])[n] = todo[k][n + 1]
        /\ \A m, n \in DOMAIN Tail(todo[k]) : m < n => m + 1 < n + 1
    BY <1>1, <1>2
  <2>2. ASSUME NEW n \in DOMAIN todo[k] PROVE n = 1 \/ (n - 1 \in DOMAIN Tail(todo[k]) /\ n = (n - 1) + 1)
    BY <1>1, <1>2
  <2> QED
    BY <2>1, <2>2, Zenon
<1>6. todo'[k] = Tail(todo[k]) /\ \A l \in Core : l # k => todo'[l] = todo[l]
  BY <1>1, <1>2, Zenon
<1> HIDE DEF h
<1>7. /\ h \in 1 .. Started /\ h \notin Answered \cup OnWay /\ submitted[h].core = k /\ submitted[h].xd
      /\ \A n \in DOMAIN Tail(todo[k]) : h < Tail(todo[k])[n]
  <2>1. /\ todo[k][1] \in 1 .. Started /\ todo[k][1] \notin Answered \cup OnWay
        /\ submitted[todo[k][1]].core = k /\ submitted[todo[k][1]].xd
    BY <1>5, Zenon DEF Answers, Queued
  <2>2. ASSUME NEW n \in DOMAIN Tail(todo[k]) PROVE h < Tail(todo[k])[n]
    <3>1. todo[k][1] < todo[k][n + 1]
      BY <1>5, Zenon DEF Answers, Queued
    <3> QED
      BY <1>5, <3>1, Zenon
  <2> QED
    BY <1>5, <2>1, <2>2, Zenon
<1>8. \A n \in DOMAIN Tail(todo[k]) : Tail(todo[k])[n] # h
  <2>1. h \in Nat /\ \A n \in DOMAIN Tail(todo[k]) : Tail(todo[k])[n] \in Nat
    BY <1>2, <1>5 
  <2> QED
    BY <1>7, <2>1
<1>9. Queued'
  <2>1. ASSUME NEW l \in Core, NEW n \in DOMAIN todo'[l]
        PROVE  /\ todo'[l][n] \in 1 .. Started /\ todo'[l][n] \notin Answered \cup OnWay'
               /\ submitted[todo'[l][n]].core = l /\ submitted[todo'[l][n]].xd
    <3>1. CASE l = k
      <4>1. /\ todo[k][n + 1] \in 1 .. Started /\ todo[k][n + 1] \notin Answered \cup OnWay
            /\ submitted[todo[k][n + 1]].core = k /\ submitted[todo[k][n + 1]].xd
        BY <1>5, <1>6, <3>1, Zenon DEF Answers, Queued
      <4>2. todo'[l][n] = todo[k][n + 1] /\ todo'[l][n] # h
        BY <1>5, <1>6, <1>8, <3>1, Zenon
      <4> QED
        BY <1>4, <3>1, <4>1, <4>2, Zenon
    <3>2. CASE l # k
      <4>1. /\ todo[l][n] \in 1 .. Started /\ todo[l][n] \notin Answered \cup OnWay
            /\ submitted[todo[l][n]].core = l /\ submitted[todo[l][n]].xd /\ todo'[l][n] = todo[l][n]
        BY <1>6, <3>2, Zenon DEF Answers, Queued
      <4> QED
        BY <1>4, <1>7, <3>2, <4>1, Zenon
    <3> QED
      BY <3>1, <3>2, Zenon
  <2>2. ASSUME NEW l \in Core, NEW m \in DOMAIN todo'[l], NEW n \in DOMAIN todo'[l], m < n
        PROVE  todo'[l][m] < todo'[l][n]
    <3>1. CASE l = k
      <4>1. todo[k][m + 1] < todo[k][n + 1]
        BY <1>5, <1>6, <2>2, <3>1, Zenon DEF Answers, Queued
      <4> QED
        BY <1>5, <1>6, <3>1, <4>1, Zenon
    <3>2. CASE l # k
      BY <1>6, <2>2, <3>2, Zenon DEF Answers, Queued
    <3> QED
      BY <3>1, <3>2, Zenon
  <2> QED
    BY <1>1, <1>3, <2>1, <2>2, Zenon DEF Queued
<1>10. Leaving'
  <2> SUFFICES ASSUME NEW i \in OnWay \cup {h}
               PROVE  /\ i \in 1 .. Started /\ submitted[i].xd /\ i \notin Answered
                      /\ \A n \in DOMAIN todo'[submitted[i].core] : i < todo'[submitted[i].core][n]
    BY <1>1, <1>3, <1>4, Zenon DEF Leaving
  <2>1. CASE i = h
    BY <1>6, <1>7, <2>1, Zenon
  <2>2. CASE i \in OnWay
    <3>1. /\ i \in 1 .. Started /\ submitted[i].xd /\ i \notin Answered
          /\ \A n \in DOMAIN todo[submitted[i].core] : i < todo[submitted[i].core][n]
      BY <2>2, Zenon DEF Answers, Leaving
    <3>2. CASE submitted[i].core = k
      <4>1. ASSUME NEW n \in DOMAIN Tail(todo[k]) PROVE i < Tail(todo[k])[n]
        <5>1. i < todo[k][n + 1]
          BY <1>5, <3>1, <3>2, Zenon
        <5> QED
          BY <1>5, <5>1, Zenon
      <4> QED
        BY <1>6, <3>1, <3>2, <4>1, Zenon
    <3>3. CASE submitted[i].core # k
      <4>1. todo'[submitted[i].core] = todo[submitted[i].core]
        BY <1>1, <1>2, <3>3
      <4> QED
        BY <3>1, <4>1, Zenon
    <3> QED
      BY <3>1, <3>2, <3>3, Zenon
  <2> QED
    BY <2>1, <2>2, Zenon
<1>11. Lined'
  <2>1. ASSUME NEW i \in OnWay, submitted[i].core = submitted[h].core PROVE i <= h /\ i # h
    <3>1. i < h /\ i \in Nat /\ h \in Nat
      BY <1>2, <1>5, <1>7, <2>1 DEF Answers, Leaving
    <3> QED
      BY <3>1
  <2>2. InBuf \subseteq OnWay /\ InReg \subseteq OnWay
    BY Zenon DEF OnWay
  <2>3. resp # NoWord /\ resp.beat = RespWords => resp.id \in OnWay
    BY Zenon DEF OnWay, InReg
  <2>4. rsp_state = "READY_WRITE_B" /\ Len(resbuf) = RespWords => resbuf[1].id \in OnWay
    BY <1>2 DEF OnWay, InBuf, RspActive
  <2>5. \A i \in InBuf, j \in InReg \cup {h} : submitted[i].core = submitted[j].core => i <= j
    BY <2>1, <2>2, Zenon DEF Answers, Lined
  <2>6. \A i \in InReg, j \in {h} : submitted[i].core = submitted[j].core => i <= j
    BY <2>1, <2>2, Zenon
  <2>7. resp # NoWord /\ resp.beat = RespWords => resp.id \notin {h}
    BY <1>7, <2>3, Zenon
  <2>8. rsp_state = "READY_WRITE_B" /\ Stored /\ Len(resbuf) = RespWords =>
             resbuf[1].id \notin InReg \cup {h}
    BY <1>7, <2>4, Zenon DEF Answers, Lined
  <2> QED
    BY <1>1, <1>3, <1>4, <2>5, <2>6, <2>7, <2>8, Zenon DEF Lined, NoWord
<1>12. Kept'
  <2> SUFFICES ASSUME NEW i \in 1 .. Started, submitted[i].xd
               PROVE  \/ i \in Answered \cup OnWay \cup {h}
                      \/ \E n \in DOMAIN todo'[submitted[i].core] : todo'[submitted[i].core][n] = i
    BY <1>1, <1>3, <1>4, Zenon DEF Kept
  <2>1. CASE i \in Answered \cup OnWay
    BY <2>1, Zenon
  <2>2. ASSUME NEW n \in DOMAIN todo[submitted[i].core], todo[submitted[i].core][n] = i
        PROVE  \/ i = h
               \/ \E m \in DOMAIN todo'[submitted[i].core] : todo'[submitted[i].core][m] = i
    <3>1. CASE submitted[i].core = k
      <4>1. n = 1 \/ \E m \in DOMAIN Tail(todo[k]) : n = m + 1
        BY <1>5, <2>2, <3>1, Zenon
      <4> QED
        <5>1. CASE n = 1
          BY <1>5, <2>2, <3>1, <5>1, Zenon
        <5>2. ASSUME NEW m \in DOMAIN Tail(todo[k]), n = m + 1 PROVE Tail(todo[k])[m] = i
          BY <1>5, <2>2, <3>1, <5>2, Zenon
        <5> QED
          BY <1>6, <3>1, <4>1, <5>1, <5>2, ZenonT(40)
    <3>2. CASE submitted[i].core # k
      <4>1. todo'[submitted[i].core] = todo[submitted[i].core]
        BY <1>1, <1>2, <3>2
      <4> QED
        BY <2>2, <4>1, Zenon
    <3> QED
      BY <3>1, <3>2, Zenon
  <2> QED
    BY <2>1, <2>2, Zenon DEF Answers, Kept
<1> QED
  BY <1>1, <1>3, <1>9, <1>10, <1>11, <1>12, Zenon DEF Answers, Buffered

\* A step that leaves the set of answers on their way as it is.
LEMMA AnswersMove ==
  ASSUME Answers, Lined', Buffered', OnWay' = OnWay, Started' = Started,
         UNCHANGED << submitted, todo, registered >>
  PROVE  Answers'
<1>1. Answered' = Answered
  BY Zenon DEF Answered
<1> QED
  BY <1>1, Zenon DEF Answers, Queued, Leaving, Kept

\* The next word of an answer enters the register.
LEMMA AnswersWord ==
  ASSUME Responses, Answers, AnswerWord
  PROVE  Answers'
<1>1. /\ UNCHANGED << submitted, received, rx, todo, rsp_state, resbuf, wr, registered >>
      /\ resp = NoWord /\ out # << >> /\ resp' = Head(out) /\ out' = Tail(out)
  BY Zenon DEF AnswerWord
<1>2. /\ out \in Seq(Item) /\ RespWords \in Nat \ {0}
      /\ \A j \in DOMAIN out : out[j] = [id |-> out[1].id, beat |-> RespWords - Len(out) + j]
  BY AxiAssumption, Zenon DEF Responses, RspTypes, Stream
<1>3. /\ resp' = out[1] /\ 1 \in DOMAIN out /\ Len(out) \in Nat \ {0}
      /\ out' # << >> => Len(out) > 1 /\ out'[1] = out[2] /\ 2 \in DOMAIN out
  BY <1>1, <1>2
<1>4. resp'.beat = RespWords - Len(out) + 1 /\ (out' # << >> => out'[1].id = out[1].id)
  BY <1>2, <1>3
<1>5. resp' # NoWord
  <2>1. Len(out) <= RespWords
    BY Zenon DEF Responses, Stream
  <2> QED
    BY <1>2, <1>3, <1>4, <2>1 DEF NoWord
<1>6. InBuf' = InBuf /\ InReg = {} /\ InReg' = InOut /\ InOut' \subseteq InOut /\ OnWay' = OnWay
  <2>1. InBuf' = InBuf /\ InReg = {} /\ InOut = {out[1].id} /\ InReg' = {out[1].id}
    BY <1>1, <1>3, <1>5, Zenon DEF InBuf, InReg, InOut, RspActive, NoWord
  <2>2. InOut' \subseteq {out[1].id}
    BY <1>4, Zenon DEF InOut
  <2> QED
    BY <2>1, <2>2, Zenon DEF OnWay
<1>7. resp'.beat = RespWords => InOut' = {}
  <2>1. resp'.beat = RespWords => ~(Len(out) > 1)
    BY <1>2, <1>3, <1>4
  <2> QED
    BY <1>3, <2>1, Zenon DEF InOut
<1>8. Lined'
  <2>1. InReg' \cup InOut' = InReg \cup InOut
    BY <1>6, Zenon
  <2>2. \A i, j \in InOut : i <= j
    <3>1. InOut = {out[1].id} /\ out[1].id \in Nat
      BY <1>1, <1>2, <1>3 DEF InOut, Item
    <3> QED
      BY <3>1
  <2>3. \A i \in InReg', j \in InOut' : submitted[i].core = submitted[j].core => i <= j
    BY <1>6, <2>2, Zenon
  <2>4. Stored' = Stored
    BY <1>1, Zenon DEF Stored
  <2> QED
    BY <1>1, <1>6, <1>7, <2>1, <2>3, <2>4, Zenon DEF Answers, Lined
<1>9. Buffered' /\ Started' = Started
  BY <1>1, Zenon DEF Answers, Buffered, Consumed, Started
<1> QED
  BY <1>1, <1>6, <1>8, <1>9, AnswersMove, Zenon

\* The acknowledgement of a word clears the register; the word is in the
\* buffer of the response machine by then.
LEMMA AnswersEdge ==
  ASSUME Channels, Commands, Responses, Answers, Edge
  PROVE  Answers'
<1>1. UNCHANGED << submitted, todo, out, rsp_state, resbuf, registered, cmd_state >>
  BY Zenon DEF Edge
<1>2. Buffered' /\ Started' = Started
  <2>1. \/ UNCHANGED << rx, received >>
        \/ rx' = Append(rx, bits) /\ received' = Append(received, bits)
    BY EdgeCommand, Zenon
  <2>2. CASE UNCHANGED << rx, received >>
    BY <2>2, Zenon DEF Answers, Buffered, Consumed, Started
  <2>3. CASE rx' = Append(rx, bits) /\ received' = Append(received, bits)
    <3>1. /\ rx \in Seq(Item) /\ received \in Seq(Item) /\ bits \in Item /\ Len(rx) <= Len(received)
          /\ Len(rx) \in Nat /\ Len(received) \in Nat
      BY DEF Commands, CmdTypes, Answers, Buffered
    <3>2. /\ Len(rx') = Len(rx) + 1 /\ Len(received') = Len(received) + 1
          /\ \A n \in 1 .. Len(received) : received'[n] = received[n]
          /\ received'[Len(received) + 1] = bits /\ rx'[Len(rx) + 1] = bits
          /\ \A n \in 1 .. Len(rx) : rx'[n] = rx[n]
          /\ DOMAIN rx' = 1 .. Len(rx) + 1 /\ DOMAIN rx = 1 .. Len(rx)
      BY <2>3, <3>1
    <3>3. Consumed' = Consumed /\ Consumed \in 0 .. Len(received)
      BY <3>1, <3>2 DEF Consumed
    <3>4. Started' = Started
      <4>1. Consumed # 0 => received'[Consumed] = received[Consumed]
        BY <3>1, <3>2, <3>3
      <4> QED
        BY <3>3, <4>1, Zenon DEF Started
    <3>5. ASSUME NEW j \in 1 .. Len(rx) + 1 PROVE rx'[j] = received'[Consumed + j]
      <4>1. CASE j = Len(rx) + 1
        <5>1. Consumed + j = Len(received) + 1
          BY <3>1, <4>1 DEF Consumed
        <5> QED
          BY <3>2, <4>1, <5>1, Zenon
      <4>2. CASE j \in 1 .. Len(rx)
        <5>1. Consumed + j \in 1 .. Len(received)
          BY <3>1, <4>2 DEF Consumed
        <5>2. rx[j] = received[Consumed + j]
          BY <3>2, <4>2, Zenon DEF Answers, Buffered
        <5> QED
          BY <3>2, <4>2, <5>1, <5>2, Zenon
      <4> QED
        BY <3>1, <4>1, <4>2
    <3>6. Len(rx') <= Len(received')
      BY <3>1, <3>2
    <3> QED
      BY <3>2, <3>3, <3>4, <3>5, <3>6, Zenon DEF Buffered
  <2> QED
    BY <2>1, <2>2, <2>3, Zenon
<1>3. InBuf' = InBuf /\ InOut' = InOut
  BY <1>1, Zenon DEF InBuf, InOut, RspActive
<1>4. CASE /\ rsp_state = "READY_WRITE_B" /\ ~Stored /\ resp' = NoWord
  <2>1. Len(resbuf) > 0 /\ resp = resbuf[Len(resbuf)] /\ Whole(resbuf) /\ resbuf \in Seq(Item)
    BY <1>4, Zenon DEF Responses, Held, RspTypes, RspActive
  <2>2. resp = [id |-> resbuf[1].id, beat |-> Len(resbuf)]
    BY <2>1 DEF Whole
  <2>3. resp.id = resbuf[1].id /\ resp.beat = Len(resbuf) /\ resp # NoWord
    BY <2>1, <2>2 DEF NoWord
  <2>4. InBuf = {resp.id} /\ InReg = {resp.id} /\ InReg' = {}
    BY <1>4, <2>1, <2>3, Zenon DEF InBuf, InReg, RspActive, NoWord
  <2>5. OnWay' = OnWay
    BY <1>3, <2>4, Zenon DEF OnWay
  <2>6. Len(resbuf) = RespWords => resbuf[1].id \notin InOut
    BY <2>3, Zenon DEF Answers, Lined
  <2>7. Lined'
    BY <1>1, <1>3, <1>4, <2>4, <2>6, Zenon DEF Answers, Lined, NoWord
  <2> QED
    BY <1>1, <1>2, <2>5, <2>7, AnswersMove, Zenon
<1>5. CASE resp' = resp /\ (rsp_state = "READY_WRITE_B" /\ Stored' => Stored)
  <2>1. InReg' = InReg
    BY <1>5, Zenon DEF InReg, NoWord
  <2>2. OnWay' = OnWay
    BY <1>3, <2>1, Zenon DEF OnWay
  <2>3. Lined'
    BY <1>1, <1>3, <1>5, <2>1, Zenon DEF Answers, Lined, NoWord
  <2> QED
    BY <1>1, <1>2, <2>2, <2>3, AnswersMove, Zenon
<1>6. \/ rsp_state = "READY_WRITE_B" /\ ~Stored /\ resp' = NoWord
      \/ resp' = resp /\ (rsp_state = "READY_WRITE_B" /\ Stored' => Stored)
  <2>1. CASE Awaits /\ waddr = WriteAddr /\ ~Stored /\ Stored' /\ WriteRegister(Datum)
    <3>1. rsp_state = "READY_WRITE_B" => ~CmdActive
      BY Zenon DEF Channels, BusInv, BusExclusive, RspActive
    <3>2. waddr = "RESP_READY" <=> rsp_state = "READY_WRITE_B"
      BY <2>1, <3>1, Zenon DEF WriteAddr, Awaits, CmdActive
    <3> QED
      BY <2>1, <3>2, Zenon DEF WriteRegister
  <2>2. CASE UNCHANGED << bits, rx, resp, received >> /\ (Awaits => Stored /\ Stored')
    BY <2>2, Zenon DEF Awaits
  <2> QED
    BY <2>1, <2>2, EdgeCases, Zenon
<1> QED
  BY <1>4, <1>5, <1>6, Zenon

\* What a step of the response machine can do to the answers: read a word,
\* register a whole one, or neither.
LEMMA RespCases ==
  ASSUME Channels, Responses, UpdateRespState
  PROVE  \/ /\ rsp_state = "BITS_READ" /\ rsp_state' = "READY_ADDR" /\ registered' = registered
            /\ resbuf' = Append(resbuf, resp) /\ resp # NoWord
            /\ Len(resbuf) # 0 => resbuf[1].id = resp.id
         \/ /\ rsp_state = "READY_WRITE_B" /\ Stored /\ rsp_state' = "INACTIVE"
            /\ Len(resbuf) = RespWords
            /\ registered' = Append(registered, resbuf)
         \/ /\ UNCHANGED << resbuf, registered >> /\ RspActive' = RspActive
            /\ rsp_state' = "READY_WRITE_B" => rsp_state = "READY_WRITE_B" \/ ~Stored
<1>0. RspTypes /\ Held /\ Fresh
  BY Zenon DEF Responses
<1>1. CASE RspRead /\ rd = "r_valid"
  <2>1. /\ rsp_state = "BITS_READ" /\ rsp_state' = "READY_ADDR" /\ registered' = registered
        /\ resbuf' = Append(resbuf, resp)
    BY <1>0, <1>1, Zenon DEF RspRead, Fresh
  <2>2. Len(resbuf) < RespWords /\ Continues(resbuf) /\ resp # NoWord
    BY <1>0, <2>1, Zenon DEF Held
  <2>3. Len(resbuf) # RespWords
    BY <1>0, <2>2, AxiAssumption DEF RspTypes
  <2>4. Len(resbuf) # 0 => resbuf[1].id = resp.id
    BY <2>2, <2>3, Zenon DEF Continues, Follows
  <2> QED
    BY <2>1, <2>2, <2>4, Zenon
<1>2. CASE RspWriteB /\ wr = "b_valid"
  <2>1. rsp_state \in {"READY_WRITE", "READY_WRITE_B"} /\ ~CmdActive /\ RspWordDone /\ resbuf' = resbuf
    BY <1>2, Zenon DEF RspWriteB, Channels, BusInv, BusExclusive, RspActive
  <2>2. Writes => wr # "b_valid"
    BY <2>1, Zenon DEF Channels, WriteChannel, Writes, Awaits, CmdActive
  <2>3. rsp_state = "READY_WRITE_B" /\ Stored
    BY <1>2, <2>1, <2>2, Zenon DEF Writes, Stored
  <2> QED
    BY <2>1, <2>3, Zenon DEF RspWordDone, RspActive
<1>3. CASE ~(RspRead /\ rd = "r_valid") /\ ~(RspWriteB /\ wr = "b_valid")
  <2>1. UNCHANGED << resbuf, registered >>
    BY <1>3, Zenon DEF UpdateRespState, RspTransfer, RspRead, RspWriteB
  <2>2. \/ rsp_state' = rsp_state
        \/ /\ rsp_state # "INACTIVE" /\ rsp_state' # "INACTIVE"
           /\ rsp_state' # "READY_WRITE_B" \/ wr = "w_ready"
    BY <1>3, ZenonT(40) DEF UpdateRespState, RspTransfer, RspRead, RspWriteB
  <2> QED
    BY <2>1, <2>2, Zenon DEF RspActive, Stored
<1> QED
  BY <1>1, <1>2, <1>3, Zenon

\* A response that is registered joins the answered ones.
LEMMA RegisterOne ==
  ASSUME Responses, registered' = Append(registered, resbuf)
  PROVE  Answered' = Answered \cup {resbuf[1].id}
<1>1. registered \in Seq(Seq(Item)) /\ resbuf \in Seq(Item)
  BY Zenon DEF Responses, RspTypes
<1>2. /\ DOMAIN registered' = DOMAIN registered \cup {Len(registered) + 1}
      /\ registered'[Len(registered) + 1] = resbuf
      /\ \A i \in DOMAIN registered : registered'[i] = registered[i]
  <2>1. /\ Len(registered) \in Nat /\ DOMAIN registered = 1 .. Len(registered)
        /\ DOMAIN registered' = 1 .. Len(registered) + 1
        /\ registered'[Len(registered) + 1] = resbuf
        /\ \A i \in 1 .. Len(registered) : registered'[i] = registered[i]
    BY <1>1
  <2>2. 1 .. Len(registered) + 1 = (1 .. Len(registered)) \cup {Len(registered) + 1}
    BY <2>1
  <2> QED
    BY <2>1, <2>2, Zenon
<1>3. ASSUME NEW a \in Answered' PROVE a \in Answered \cup {resbuf[1].id}
  BY <1>2, Zenon DEF Answered
<1>4. ASSUME NEW a \in Answered \cup {resbuf[1].id} PROVE a \in Answered'
  BY <1>2, Zenon DEF Answered
<1> QED
  BY <1>3, <1>4, Zenon

\* The response machine takes the word in the register, and registers a
\* response once it is nowhere else.
LEMMA AnswersResponse ==
  ASSUME Channels, Commands, Responses, Answers, UpdateRespState
  PROVE  Answers'
<1>1. UNCHANGED << submitted, received, rx, todo, out, resp, wr >>
  BY Zenon DEF UpdateRespState
<1>2. /\ InReg' = InReg /\ InOut' = InOut /\ Stored' = Stored
      /\ Buffered' /\ Started' = Started
  BY <1>1, Zenon DEF InReg, InOut, NoWord, Stored, Answers, Buffered, Started, Consumed
<1>3. CASE /\ rsp_state = "BITS_READ" /\ rsp_state' = "READY_ADDR" /\ registered' = registered
           /\ resbuf' = Append(resbuf, resp) /\ resp # NoWord
           /\ Len(resbuf) # 0 => resbuf[1].id = resp.id
  <2>1. resbuf \in Seq(Item) /\ resp \in Item
    BY Zenon DEF Responses, RspTypes
  <2>2. Len(resbuf') > 0 /\ resbuf'[1].id = resp.id
    BY <1>3, <2>1
  <2>3. InBuf' = InReg /\ InBuf \subseteq InReg
    <3>1. Len(resbuf) > 0 => Len(resbuf) # 0
      BY <2>1
    <3> QED
      BY <1>3, <2>2, <3>1, Zenon DEF InBuf, InReg, RspActive
  <2>4. OnWay' = OnWay
    BY <1>2, <2>3, Zenon DEF OnWay
  <2>5. Lined'
    <3>1. \A i, j \in InReg : i <= j
      <4>1. InReg = {resp.id} /\ resp.id \in Nat
        BY <1>3, <2>1 DEF InReg, Item
      <4> QED
        BY <4>1
    <3>2. \A i \in InReg, j \in InReg \cup InOut : submitted[i].core = submitted[j].core => i <= j
      BY <3>1, Zenon DEF Answers, Lined
    <3> QED
      BY <1>1, <1>2, <1>3, <2>3, <3>2, Zenon DEF Answers, Lined, NoWord
  <2> QED
    BY <1>1, <1>2, <1>3, <2>4, <2>5, AnswersMove, Zenon
<1>4. CASE /\ rsp_state = "READY_WRITE_B" /\ Stored /\ rsp_state' = "INACTIVE"
           /\ Len(resbuf) = RespWords
           /\ registered' = Append(registered, resbuf)
  <2> DEFINE x == resbuf[1].id
  <2>1. InBuf = {x} /\ InBuf' = {} /\ x \notin InReg \cup InOut
    <3>1. Len(resbuf) > 0
      BY <1>4, AxiAssumption
    <3> QED
      BY <1>4, <3>1, Zenon DEF InBuf, RspActive, Answers, Lined
  <2>2. Answered' = Answered \cup {x}
    BY <1>4, RegisterOne, Zenon
  <2> HIDE DEF x
  <2>3. OnWay = OnWay' \cup {x} /\ x \notin OnWay'
    BY <1>2, <2>1, Zenon DEF OnWay
  <2>4. Queued'
    <3>1. Answered' \cup OnWay' = Answered \cup OnWay
      BY <2>2, <2>3, Zenon
    <3> QED
      BY <1>1, <1>2, <3>1, Zenon DEF Answers, Queued
  <2>5. Leaving' /\ (Answered \subseteq 1 .. Started)'
    BY <1>1, <1>2, <2>2, <2>3, Zenon DEF Answers, Leaving
  <2>6. Lined'
    BY <1>1, <1>2, <1>4, <2>1, Zenon DEF Answers, Lined, NoWord
  <2>7. Kept'
    <3>1. Answered' \cup OnWay' = Answered \cup OnWay
      BY <2>2, <2>3, Zenon
    <3> QED
      BY <1>1, <1>2, <3>1, Zenon DEF Answers, Kept
  <2> QED
    BY <1>2, <2>4, <2>5, <2>6, <2>7, Zenon DEF Answers
<1>5. CASE /\ UNCHANGED << resbuf, registered >> /\ RspActive' = RspActive
           /\ rsp_state' = "READY_WRITE_B" => rsp_state = "READY_WRITE_B" \/ ~Stored
  <2>1. InBuf' = InBuf
    BY <1>5, Zenon DEF InBuf
  <2>2. OnWay' = OnWay
    BY <1>2, <2>1, Zenon DEF OnWay
  <2>3. Lined'
    BY <1>1, <1>2, <1>5, <2>1, Zenon DEF Answers, Lined, NoWord
  <2> QED
    BY <1>1, <1>2, <1>5, <2>2, <2>3, AnswersMove, Zenon
<1> QED
  BY <1>3, <1>4, <1>5, RespCases, Zenon

\* A poll empties the buffer of the response machine only when that is idle.
LEMMA AnswersUpdate ==
  ASSUME Channels, Answers, UpdateUpdateState
  PROVE  Answers'
<1>1. UNCHANGED << submitted, received, rx, todo, out, resp, wr, registered >>
  BY Zenon DEF UpdateUpdateState
<1>2. CASE PollRespWait /\ rd = "r_valid"
  <2>1. /\ resbuf' = << >> /\ ongoing_update = "RESP_WAIT"
        /\ rsp_state' \in {"BITS_ADDR", rsp_state}
    BY <1>2, Zenon DEF PollRespWait
  <2>2. ~RspActive
    BY <2>1, Zenon DEF Channels, BusInv, BusExclusive, PollActive
  <2>3. ~(Len(resbuf') > 0) /\ rsp_state' # "READY_WRITE_B"
    BY <2>1, <2>2 DEF RspActive
  <2>4. InBuf' = InBuf /\ InReg' = InReg /\ InOut' = InOut
    BY <1>1, <2>2, <2>3, Zenon DEF InBuf, InReg, InOut, NoWord
  <2>5. OnWay' = OnWay /\ Buffered' /\ Started' = Started
    BY <1>1, <2>4, Zenon DEF OnWay, Answers, Buffered, Started, Consumed
  <2>6. Lined'
    BY <1>1, <2>3, <2>4, Zenon DEF Answers, Lined, NoWord
  <2> QED
    BY <1>1, <2>5, <2>6, AnswersMove, Zenon
<1>3. CASE ~(PollRespWait /\ rd = "r_valid")
  <2>1. UNCHANGED << rsp_state, resbuf >>
    BY <1>3, Zenon DEF UpdateUpdateState, Poll, PollAddr, PollRespWait, PollCmdWait
  <2> QED
    BY <1>1, <2>1, AnswersSame, Zenon
<1> QED
  BY <1>2, <1>3, Zenon

\* Nothing was asked at the start.
LEMMA AnswersInit == Init => Answers
<1> SUFFICES ASSUME Init PROVE Answers
  BY Zenon
<1> USE DEF Init
<1>1. Len(rx) = 0 /\ Len(received) = 0 /\ DOMAIN rx = {} /\ DOMAIN registered = {}
  OBVIOUS
<1>2. Consumed = 0
  BY <1>1 DEF Consumed
<1>3. Started = 0 /\ Buffered /\ 1 .. 0 = {}
  BY <1>1, <1>2 DEF Started, Buffered
<1>4. Answered = {} /\ InBuf = {} /\ InReg = {} /\ InOut = {}
  BY <1>1, Zenon DEF Answered, InBuf, InReg, InOut, RspActive
<1>5. \A k \in Core : DOMAIN todo[k] = {}
  <2>1. DOMAIN << >> = {}
    OBVIOUS
  <2> QED
    BY <2>1, Zenon
<1> QED
  BY <1>3, <1>4, <1>5, Zenon DEF Answers, OnWay, Queued, Leaving, Lined, Kept

\* Every step keeps the answers of a core in order.
LEMMA AnswersStep ==
  Channels /\ Commands /\ Responses /\ Answers /\ [Next]_vars => Answers'
<1> SUFFICES ASSUME Channels, Commands, Responses, Answers, [Next]_vars PROVE Answers'
  BY Zenon
<1>1. CASE UpdateRespState \/ UpdateUpdateState \/ Edge
  BY <1>1, AnswersResponse, AnswersUpdate, AnswersEdge, Zenon
<1>2. CASE TakeWord \/ AnswerWord
  BY <1>2, AnswersTakeWord, AnswersWord, Zenon
<1>3. CASE \E k \in Core : Answer(k)
  BY <1>3, AnswersAnswer, Zenon
<1>4. CASE \E k \in Core, xd \in BOOLEAN : Submit(k, xd)
  BY <1>4, AnswersSubmit, Zenon
<1>5. CASE UpdateCommandState
  BY <1>5, AnswersSame, Zenon DEF UpdateCommandState
<1>6. CASE Loop \/ Quit \/ Exited \/ UNCHANGED vars
  BY <1>6, AnswersSame, Zenon DEF Loop, Quit, Exited, vars
<1> QED
  BY <1>1, <1>2, <1>3, <1>4, <1>5, <1>6, Zenon DEF Next, Simulator

\* Steps that neither submit nor register are stuttering steps of the queues.
LEMMA QueuesSame ==
  ASSUME UNCHANGED << submitted, registered >>
  PROVE  UNCHANGED Queues!vars
<1>1. Answered' = Answered
  BY Zenon DEF Answered
<1>2. \A k : Waiting(k)' = Waiting(k)
  BY <1>1, Zenon DEF Waiting
<1> QED
  BY <1>2, Zenon DEF Queues!vars

\* A command that is submitted joins the queue of its core.
LEMMA QueuesSubmit ==
  ASSUME Commands, Answers, NEW c \in Core, NEW xd \in BOOLEAN, Submit(c, xd)
  PROVE  Queues!Submit(c, xd)
<1> DEFINE n == Len(submitted)
<1>1. submitted' = Append(submitted, [id |-> n + 1, core |-> c, xd |-> xd]) /\ registered' = registered
  BY Zenon DEF Submit
<1>2. submitted \in Seq(Cmd)
  BY Zenon DEF Commands, CmdTypes
<1>3. /\ n \in Nat /\ Len(submitted') = n + 1 /\ DOMAIN submitted = 1 .. n /\ DOMAIN submitted' = 1 .. n + 1
      /\ submitted'[n + 1] = [id |-> n + 1, core |-> c, xd |-> xd]
      /\ \A i \in 1 .. n : submitted'[i] = submitted[i]
  BY <1>1, <1>2
<1>4. 1 .. n + 1 = (1 .. n) \cup {n + 1} /\ n + 1 \notin 1 .. n
  BY <1>3
<1>5. Answered' = Answered /\ n + 1 \notin Answered
  <2>1. Answered' = Answered
    BY <1>1, Zenon DEF Answered
  <2>2. Started \in Nat /\ Started <= n /\ Answered \subseteq 1 .. Started
    BY StartedRange, Zenon DEF Answers
  <2>3. n + 1 \notin 1 .. Started
    BY <1>3, <2>2
  <2> QED
    BY <2>1, <2>2, <2>3, Zenon
<1>6. submitted'[n + 1].core = c /\ submitted'[n + 1].xd = xd
  BY <1>3
<1> HIDE DEF n
<1>7. ASSUME NEW k \in Core
      PROVE  Waiting(k)' = IF k = c /\ xd THEN Waiting(k) \cup {n + 1} ELSE Waiting(k)
  <2>1. Waiting(k)' = {i \in (1 .. n) \cup {n + 1} :
                         submitted'[i].core = k /\ submitted'[i].xd /\ i \notin Answered}
    BY <1>3, <1>4, <1>5, Zenon DEF Waiting
  <2>2. Waiting(k) = {i \in 1 .. n : submitted[i].core = k /\ submitted[i].xd /\ i \notin Answered}
    BY <1>3, Zenon DEF Waiting
  <2>3. ASSUME NEW i \in Waiting(k)' PROVE i \in Waiting(k) \/ (i = n + 1 /\ k = c /\ xd)
    BY <1>3, <1>6, <2>1, <2>2, Zenon
  <2>4. ASSUME NEW i \in Waiting(k) PROVE i \in Waiting(k)'
    BY <1>3, <2>1, <2>2, Zenon
  <2>5. k = c /\ xd => n + 1 \in Waiting(k)'
    BY <1>5, <1>6, <2>1, Zenon
  <2> QED
    BY <2>3, <2>4, <2>5, Zenon
<1> DEFINE p == [k \in Core |-> Waiting(k)]
           r == [k \in Core |-> Waiting(k)']
<1>8. r = IF xd THEN [p EXCEPT ![c] = p[c] \cup {n + 1}] ELSE p
  <2>1. CASE xd
    <3>1. \A k \in Core : r[k] = [p EXCEPT ![c] = p[c] \cup {n + 1}][k]
      BY <1>7, <2>1, Zenon
    <3> QED
      BY <2>1, <3>1, Zenon
  <2>2. CASE ~xd
    BY <1>7, <2>2, Zenon
  <2> QED
    BY <2>1, <2>2, Zenon
<1> QED
  BY <1>3, <1>8, Zenon DEF Queues!Submit, n

\* A response that is registered is the one its core owes first.
LEMMA QueuesRespond ==
  ASSUME Channels, Commands, Responses, Answers, UpdateRespState, registered' # registered
  PROVE  \E k \in Core : Queues!Respond(k)
<1> DEFINE x == resbuf[1].id
           c == submitted[x].core
<1>1. /\ rsp_state = "READY_WRITE_B" /\ Stored /\ Len(resbuf) = RespWords
      /\ registered' = Append(registered, resbuf)
  BY RespCases, Zenon
<1>2. Answered' = Answered \cup {x} /\ submitted' = submitted
  BY <1>1, RegisterOne, Zenon DEF UpdateRespState
<1>3. x \in InBuf /\ x \in OnWay
  <2>1. Len(resbuf) > 0
    BY <1>1, AxiAssumption
  <2> QED
    BY <1>1, <2>1, Zenon DEF InBuf, OnWay, RspActive
<1>4. Started \in Nat /\ Started <= Len(submitted) /\ DOMAIN submitted = 1 .. Len(submitted) /\ Len(submitted) \in Nat
  BY StartedRange DEF Answers, Commands, CmdTypes
<1>5. /\ x \in 1 .. Started /\ submitted[x].xd /\ x \notin Answered
      /\ \A n \in DOMAIN todo[c] : x < todo[c][n]
  BY <1>3, Zenon DEF Answers, Leaving
<1>6. x \in DOMAIN submitted /\ x \in Nat
  BY <1>4, <1>5
<1>7. c \in Core
  BY <1>6, CoreOf, Zenon
<1> HIDE DEF x, c
<1>8. x \in Waiting(c)
  BY <1>5, <1>6, Zenon DEF Waiting, c
<1>9. ASSUME NEW j \in Waiting(c) PROVE x <= j
  <2>1. j \in DOMAIN submitted /\ submitted[j].core = c /\ submitted[j].xd /\ j \notin Answered
    BY Zenon DEF Waiting
  <2>2. CASE j \in 1 .. Started
    <3>1. j \in OnWay \/ \E n \in DOMAIN todo[c] : todo[c][n] = j
      BY <2>1, <2>2, Zenon DEF Answers, Kept
    <3>2. CASE j \in InReg \cup InOut
      BY <1>3, <2>1, <3>2, Zenon DEF Answers, Lined, c
    <3>3. CASE j \in InBuf
      <4>1. j = x
        BY <1>3, <3>3, Zenon DEF InBuf
      <4> QED
        BY <1>6, <4>1
    <3>4. ASSUME NEW n \in DOMAIN todo[c], todo[c][n] = j PROVE x <= j
      <4>1. x < j
        BY <1>5, <3>4, Zenon
      <4> QED
        BY <1>4, <1>6, <2>2, <4>1
    <3> QED
      BY <3>1, <3>2, <3>3, <3>4, Zenon DEF OnWay
  <2>3. CASE j \notin 1 .. Started
    BY <1>4, <1>5, <2>1, <2>3
  <2> QED
    BY <2>2, <2>3, Zenon
<1>10. ASSUME NEW k \in Core
       PROVE  Waiting(k)' = IF k = c THEN Waiting(k) \ {x} ELSE Waiting(k)
  <2>1. Waiting(k)' = {i \in DOMAIN submitted :
                         submitted[i].core = k /\ submitted[i].xd /\ i \notin Answered \cup {x}}
    BY <1>2, Zenon DEF Waiting
  <2>2. Waiting(k)' = Waiting(k) \ {x}
    BY <2>1, Zenon DEF Waiting
  <2>3. k # c => x \notin Waiting(k)
    BY Zenon DEF Waiting, c
  <2> QED
    BY <2>2, <2>3, Zenon
<1> DEFINE p == [k \in Core |-> Waiting(k)]
           r == [k \in Core |-> Waiting(k)']
<1>11. r = [p EXCEPT ![c] = p[c] \ {x}]
  <2>1. \A k \in Core : r[k] = [p EXCEPT ![c] = p[c] \ {x}][k]
    BY <1>10, Zenon
  <2> QED
    BY <2>1, Zenon
<1>12. p[c] = Waiting(c) /\ Len(submitted)' = Len(submitted)
  BY <1>2, <1>7, Zenon
<1>13. Queues!Respond(c)
  BY <1>8, <1>9, <1>11, <1>12, Zenon DEF Queues!Respond
<1> QED
  BY <1>7, <1>13, Zenon

\* The command queue, the bus machines and the hardware together are what
\* CmdServer.tla assumes of the accelerator, for any number of cores,
\* commands and words: what register_reponse hands over are the responses of
\* each core in the order of its commands, none missed and none twice.
THEOREM QueuesImplemented == Spec => ImplementsQueues
<1>1. Init => Queues!Init
  <2> SUFFICES ASSUME Init PROVE Queues!Init
    BY Zenon
  <2>1. Len(submitted) = 0 /\ DOMAIN submitted = {}
    BY DEF Init
  <2>2. \A k \in Core : Waiting(k) = {}
    BY <2>1, Zenon DEF Waiting
  <2> QED
    BY <2>1, <2>2, Zenon DEF Queues!Init
<1>2. Channels /\ Commands /\ Responses /\ Answers /\ [Next]_vars => [Queues!Next]_(Queues!vars)
  <2> SUFFICES ASSUME Channels, Commands, Responses, Answers, [Next]_vars
               PROVE  Queues!Next \/ UNCHANGED Queues!vars
    BY Zenon
  <2>1. CASE \E k \in Core, xd \in BOOLEAN : Submit(k, xd)
    BY <2>1, QueuesSubmit, Zenon DEF Queues!Next
  <2>2. CASE UpdateRespState
    <3>1. CASE registered' = registered
      BY <2>2, <3>1, QueuesSame, Zenon DEF UpdateRespState
    <3>2. CASE registered' # registered
      BY <2>2, <3>2, QueuesRespond, Zenon DEF Queues!Next
    <3> QED
      BY <3>1, <3>2, Zenon
  <2>3. CASE UpdateCommandState \/ UpdateUpdateState \/ Edge \/ Loop
    BY <2>3, QueuesSame, Zenon DEF UpdateCommandState, UpdateUpdateState, Edge, Loop
  <2>4. CASE TakeWord \/ AnswerWord \/ \E k \in Core : Answer(k)
    BY <2>4, QueuesSame, Zenon DEF TakeWord, AnswerWord, Answer
  <2>5. CASE Quit \/ Exited \/ UNCHANGED vars
    BY <2>5, QueuesSame, Zenon DEF Quit, Exited, vars
  <2> QED
    BY <2>1, <2>2, <2>3, <2>4, <2>5, Zenon DEF Next, Simulator
<1> QED
  BY <1>1, <1>2, ChannelsInit, ChannelsStep, CommandsInit, CommandsStep, ResponsesInit,
     ResponsesStep, AnswersInit, AnswersStep, PTL DEF Spec, ImplementsQueues, Queues!Spec

=============================================================================
