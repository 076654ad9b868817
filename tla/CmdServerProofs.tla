--------------------------- MODULE CmdServerProofs ---------------------------
(***************************************************************************)
(* Proofs about CmdServer.tla, for any number of clients, cores, slots and *)
(* commands: the types, the handshake between a sender and the server,     *)
(* that every step keeps every response slot in one place and every handle *)
(* on its own slot, what the clients see, and the refinement of            *)
(* CommandRpc.tla.                                                         *)
(***************************************************************************)
EXTENDS CmdServer, TLAPS

LEMMA SlotFacts ==
  /\ NoSlot \notin Slot
  /\ 0 \in Slot /\ NumSlots - 1 \in Slot
  /\ Slot \subseteq Nat
BY ConstantsAssumption DEF Slot, NoSlot, ConstantsAssumption

LEMMA HandleType ==
  ASSUME NEW m \in Cmd, NEW s \in Slot \cup {NoSlot}, NEW b \in BOOLEAN
  PROVE  /\ HandleOf(m, s, b) \in Handle
         /\ HandleOf(m, s, b).cmd = m
         /\ HandleOf(m, s, b).slot = s
BY DEF HandleOf, Handle

LEMMA ZeroCmdType == ZeroCmd \in Cmd /\ NoHandle \in Handle
<1>1. ZeroCmd \in Cmd
  BY ConstantsAssumption DEF ZeroCmd, Cmd, ConstantsAssumption
<1> QED
  BY <1>1, HandleType, Zenon DEF NoHandle

\* The steps of the index of the free stack.
LEMMA IndexFacts ==
  /\ Inc(NoSlot) = 0
  /\ \A i \in Slot : Inc(i) = i + 1 /\ Dec(i) \in Slot \cup {NoSlot}
  /\ \A i \in Slot : i # 0 => Dec(i) = i - 1 /\ i - 1 \in Slot
  /\ Dec(0) = NoSlot
BY ConstantsAssumption DEF Slot, NoSlot, Inc, Dec, ConstantsAssumption

TypeInv == TypeOK /\ QueuesAgree

LEMMA TypeInit == Init => TypeInv
<1> SUFFICES ASSUME Init PROVE TypeInv
  OBVIOUS
<1>1. MutexType /\ MessageType
  BY ZeroCmdType, SlotFacts, Zenon DEF Init, MutexType, MessageType
<1>2. SlotType
  BY ZeroCmdType, SlotFacts DEF Init, SlotType
<1>3. DaemonType
  <2>1. << >> \in Seq(Slot) /\ << >> \in Seq(Cmd)
    OBVIOUS
  <2>2. in_flight \in [Core -> Seq(Slot)] /\ pending \in [Core -> Seq(Cmd)]
    BY <2>1 DEF Init
  <2>3. delivered \in Seq(Cmd)
    BY <2>1 DEF Init
  <2> QED
    BY <2>2, <2>3, Zenon DEF Init, DaemonType
<1>4. ClientType
  BY ZeroCmdType DEF Init, ClientType
<1>5. HistoryType
  BY ZeroCmdType, ConstantsAssumption DEF Init, HistoryType, ConstantsAssumption
<1>6. QueuesAgree
  BY DEF Init, QueuesAgree
<1> QED
  BY <1>1, <1>2, <1>3, <1>4, <1>5, <1>6 DEF TypeInv, TypeOK

USE DEF shm, mutexes, slots, free_stack, message, daemon, device, clients, history

\* Every step keeps the types.
LEMMA TypeNext == TypeInv /\ [Next]_vars => TypeInv'
<1> SUFFICES ASSUME TypeInv, [Next]_vars PROVE TypeInv'
  OBVIOUS
<1> USE DEF TypeInv, TypeOK, MutexType, SlotType, MessageType, DaemonType,
           ClientType, HistoryType, QueuesAgree
<1>1. ASSUME NEW c \in Client, Attach(c) PROVE TypeInv'
  BY <1>1, SlotFacts, IndexFacts, ZenonT(30) DEF Attach, Goto
<1>2. ASSUME NEW c \in Client, NEW k \in Core, NEW xd \in BOOLEAN, SendCall(c, k, xd) PROVE TypeInv'
  <2>1. [id |-> issued + 1, core |-> k, xd |-> xd] \in Cmd
    BY <1>2, ConstantsAssumption DEF SendCall, Cmd, ConstantsAssumption
  <2>2. HandleOf([id |-> issued + 1, core |-> k, xd |-> xd], NoSlot, FALSE) \in Handle
    BY <2>1, HandleType, Zenon
  <2>3. issued' \in 0 .. MaxCmds
    BY <1>2, ConstantsAssumption DEF SendCall, ConstantsAssumption
  <2> QED
    <3>1. ClientType'
      BY <1>2, <2>2, Zenon DEF SendCall, Goto
    <3>2. HistoryType'
      BY <1>2, <2>3 DEF SendCall
    <3>3. (MutexType /\ SlotType /\ MessageType /\ DaemonType /\ QueuesAgree)'
      BY <1>2 DEF SendCall
    <3> QED
      BY <3>1, <3>2, <3>3, Zenon
<1>3. ASSUME NEW c \in Client, SendLock(c) PROVE TypeInv'
  BY <1>3, SlotFacts, IndexFacts, SMTT(20) DEF SendLock, Goto, Handle
<1>4. ASSUME NEW c \in Client, SendSignal(c) PROVE TypeInv'
  BY <1>4, SlotFacts, IndexFacts, ZenonT(30) DEF SendSignal, Goto
<1>5. ASSUME NEW c \in Client, SendAck(c) PROVE TypeInv'
  <2>1. call[c].cmd \in Cmd
    BY DEF Handle
  <2>2. HandleOf(call[c].cmd, pthread_wait_id, FALSE) \in Handle
    BY <2>1, HandleType, Zenon
  <2> QED
    BY <1>5, <2>2, ZenonT(40) DEF SendAck, Goto
<1>6. ASSUME NEW c \in Client, SendReturn(c) PROVE TypeInv'
  <2>1. handles' \in [Client -> SUBSET Handle]
    BY <1>6 DEF SendReturn
  <2> QED
    BY <1>6, <2>1, ZenonT(40) DEF SendReturn, Goto
<1>7. ASSUME NEW c \in Client, NEW h \in handles[c], GetCall(c, h) PROVE TypeInv'
  BY <1>7, SlotFacts, IndexFacts DEF GetCall, Goto
<1>8. ASSUME NEW c \in Client, GetWait(c) PROVE TypeInv'
  <2>1. [handle |-> call[c], resp |-> responses[call[c].slot]]
          \in [handle : Handle, resp : Cmd]
    BY <1>8 DEF GetWait, Goto
  <2>2. HistoryType'
    BY <1>8, <2>1 DEF GetWait, TakeResponse
  <2>3. wait_for_response' \in [Slot -> BOOLEAN]
    BY <1>8, Zenon DEF GetWait, TakeResponse
  <2> QED
    BY <1>8, <2>2, <2>3 DEF GetWait, TakeResponse, Goto
<1>9. ASSUME NEW c \in Client, NEW h \in handles[c], TryGet(c, h) PROVE TypeInv'
  <2>1. h \in Handle /\ h.slot \in Slot
    BY <1>9 DEF TryGet
  <2>2. [handle |-> h, resp |-> responses[h.slot]] \in [handle : Handle, resp : Cmd]
    BY <2>1
  <2>3. HistoryType'
    BY <1>9, <2>2 DEF TryGet, TakeResponse
  <2>4. wait_for_response' \in [Slot -> BOOLEAN]
    BY <1>9, <2>1 DEF TryGet, TakeResponse
  <2>5. ClientType'
    BY <1>9, <2>1 DEF TryGet, Goto
  <2> QED
    BY <1>9, <2>3, <2>4, <2>5 DEF TryGet, TakeResponse
<1>10. ASSUME NEW c \in Client, GetRelease(c) PROVE TypeInv'
  <2>1. call[c].slot \in Slot
    BY <1>10 DEF GetRelease, Goto
  <2>2. SlotType'
    BY <1>10, <2>1, SMTT(20) DEF GetRelease
  <2>3. ClientType'
    BY <1>10, SMTT(20) DEF GetRelease, Goto
  <2> QED
    BY <1>10, <2>2, <2>3 DEF GetRelease
<1>11. ASSUME NEW c \in Client, NEW h \in handles[c], CopyHandle(c, h) PROVE TypeInv'
  <2>1. h \in Handle
    OBVIOUS
  <2>2. h.cmd \in Cmd /\ h.slot \in Slot \cup {NoSlot}
    BY <2>1 DEF Handle
  <2>3. HandleOf(h.cmd, h.slot, TRUE) \in Handle
    BY <2>2, HandleType, Zenon
  <2>4. handles' \in [Client -> SUBSET Handle]
    BY <1>11, <2>3, Zenon DEF CopyHandle
  <2>5. UNCHANGED << shm, daemon, device, pc, call, alive, history >>
    BY <1>11 DEF CopyHandle
  <2> QED
    BY <2>4, <2>5
<1>12. ASSUME NEW c \in Client, ShutdownSignal(c) PROVE TypeInv'
  BY <1>12, SlotFacts, IndexFacts, ZenonT(40) DEF ShutdownSignal, Goto
<1>13. ASSUME NEW c \in Client, ShutdownQuit(c) PROVE TypeInv'
  BY <1>13, SlotFacts, IndexFacts, ZenonT(40) DEF ShutdownQuit, Goto
<1>14. ASSUME NEW c \in Client, Crash(c) PROVE TypeInv'
  BY <1>14, SlotFacts, IndexFacts DEF Crash, Goto
<1>15. ASSUME ServerStart PROVE TypeInv'
  BY <1>15, SlotFacts, IndexFacts DEF ServerStart, Goto
<1>16. ASSUME ServerWake PROVE TypeInv'
  BY <1>16, SlotFacts, IndexFacts DEF ServerWake, Goto
<1>17. ASSUME ServerAlloc PROVE TypeInv'
  BY <1>17, SlotFacts, IndexFacts DEF ServerAlloc, Goto
<1>18. ASSUME ServerQuit PROVE TypeInv'
  BY <1>18, SlotFacts, IndexFacts, SMTT(20) DEF ServerQuit, Goto
<1>19. ASSUME ServerSubmit PROVE TypeInv'
  <2>1. delivered' \in Seq(Cmd)
    BY <1>19 DEF ServerSubmit
  <2>2. cmd.core \in Core
    BY DEF Cmd
  <2>3. CASE cmd.xd /\ id # NoSlot
    <3>1. /\ in_flight' = [in_flight EXCEPT ![cmd.core] = Append(@, id)]
          /\ pending' = [pending EXCEPT ![cmd.core] = Append(@, cmd)]
          /\ assigned' = [assigned EXCEPT ![id] = cmd]
          /\ pc_server' = "wait"
      BY <1>19, <2>3 DEF ServerSubmit
    <3>2. in_flight' \in [Core -> Seq(Slot)] /\ pending' \in [Core -> Seq(Cmd)]
      BY <2>2, <2>3, <3>1
    <3>3. QueuesAgree'
      BY <2>2, <2>3, <3>1
    <3>4. HistoryType'
      BY <1>19, <2>3, <3>1 DEF ServerSubmit
    <3> QED
      BY <1>19, <2>1, <2>3, <3>1, <3>2, <3>3, <3>4, Zenon DEF ServerSubmit
  <2>4. CASE ~(cmd.xd /\ id # NoSlot)
    BY <1>19, <2>1, <2>4, Zenon DEF ServerSubmit
  <2> QED
    BY <2>3, <2>4
<1>20. ASSUME NEW k \in Core, Respond(k) PROVE TypeInv'
  BY <1>20, SlotFacts, IndexFacts, SMTT(20) DEF Respond, Goto
<1>21. ASSUME UNCHANGED vars PROVE TypeInv'
  BY <1>21 DEF vars
<1> QED
  BY <1>1, <1>2, <1>3, <1>4, <1>5, <1>6, <1>7, <1>8, <1>9, <1>10, <1>11, <1>12, <1>13, <1>14, <1>15, <1>16, <1>17, <1>18, <1>19, <1>20, <1>21, Zenon DEF Next, ServerNext, ClientNext, ClientStep, Finished

\* Type correctness: whatever the clients do, every variable of the file, the
\* daemon and the clients stays in its type, and register_reponse never reads
\* the front of an empty queue.
THEOREM TypeCorrect == Spec => []TypeOK /\ []QueuesAgree
<1>1. TypeInv /\ [Next]_vars => TypeInv'
  BY TypeNext
<1>2. Spec => []TypeInv
  BY TypeInit, <1>1, PTL DEF Spec
<1>3. TypeInv => TypeOK /\ QueuesAgree
  BY DEF TypeInv
<1> QED
  BY <1>2, <1>3, PTL

-----------------------------------------------------------------------------
(* The handshake between one sender and the server. *)

HandInv == TypeInv /\ OneSender /\ Handshake

\* A client begins a shutdown() or copies a handle.
Misuse == \E c \in Client : ShutdownSignal(c) \/ \E h \in handles[c] : CopyHandle(c, h)

LEMMA HandInit == Init => OneSender /\ Handshake
BY DEF Init, OneSender, InSend, Handshake

LEMMA HandNext ==
  ASSUME ~ Misuse, HandInv, [Next]_vars
  PROVE  OneSender' /\ Handshake'
<1> USE DEF HandInv, OneSender, InSend, Handshake
<1>0. pc \in [Client -> {"new", "idle", "lock", "signal", "ack", "unquit", "get",
                       "release", "sd_quit", "stopped", "fault"}]
  BY DEF TypeInv, TypeOK, ClientType
<1>1. ASSUME NEW c \in Client, Attach(c) PROVE OneSender' /\ Handshake'
  BY <1>0, <1>1, SMTT(20) DEF Attach, Goto
<1>2. ASSUME NEW c \in Client, NEW k \in Core, NEW xd \in BOOLEAN, SendCall(c, k, xd) PROVE OneSender' /\ Handshake'
  <2>1. \A d \in Client : d # c => call'[d] = call[d] /\ pc'[d] = pc[d]
    BY <1>0, <1>2 DEF SendCall, Goto, TypeInv, TypeOK, ClientType
  <2>2. pc[c] = "idle" /\ pc'[c] = "lock"
    BY <1>0, <1>2, SMTT(20) DEF SendCall, Goto
  <2>3. UNCHANGED << shm, daemon >>
    BY <1>2 DEF SendCall
  <2> QED
    BY <1>0, <2>1, <2>2, <2>3
<1>3. ASSUME NEW c \in Client, SendLock(c) PROVE OneSender' /\ Handshake'
  <2>1. \A d \in Client : pc[d] # "ack" /\ pc[d] # "signal"
    BY <1>3 DEF SendLock
  <2>2. \A d \in Client : pc'[d] # "ack" /\ (pc'[d] = "signal" => d = c)
    BY <1>0, <1>3, <2>1 DEF SendLock, Goto
  <2> QED
    BY <1>0, <1>3, <2>1, <2>2, SMTT(20) DEF SendLock, Goto
<1>4. ASSUME NEW c \in Client, SendSignal(c) PROVE OneSender' /\ Handshake'
  BY <1>0, <1>4 DEF SendSignal, Goto
<1>5. ASSUME NEW c \in Client, SendAck(c) PROVE OneSender' /\ Handshake'
  BY <1>0, <1>5, Zenon DEF SendAck, Goto
<1>6. ASSUME NEW c \in Client, SendReturn(c) PROVE OneSender' /\ Handshake'
  BY <1>0, <1>6 DEF SendReturn, Goto
<1>7. ASSUME NEW c \in Client, NEW h \in handles[c], GetCall(c, h) PROVE OneSender' /\ Handshake'
  BY <1>0, <1>7, SMTT(20) DEF GetCall, Goto
<1>8. ASSUME NEW c \in Client, GetWait(c) PROVE OneSender' /\ Handshake'
  BY <1>0, <1>8, SMTT(20) DEF GetWait, TakeResponse, Goto
<1>9. ASSUME NEW c \in Client, NEW h \in handles[c], TryGet(c, h) PROVE OneSender' /\ Handshake'
  BY <1>0, <1>9 DEF TryGet, TakeResponse, Goto
<1>10. ASSUME NEW c \in Client, GetRelease(c) PROVE OneSender' /\ Handshake'
  BY <1>0, <1>10 DEF GetRelease, Goto
<1>11. ASSUME NEW c \in Client, Crash(c) PROVE OneSender' /\ Handshake'
  BY <1>0, <1>11 DEF Crash, Goto
<1>12. ASSUME ServerStart PROVE OneSender' /\ Handshake'
  BY <1>0, <1>12 DEF ServerStart, Goto
<1>13. ASSUME ServerWake PROVE OneSender' /\ Handshake'
  BY <1>0, <1>13 DEF ServerWake, Goto
<1>14. ASSUME ServerAlloc PROVE OneSender' /\ Handshake'
  BY <1>0, <1>14, SlotFacts, SMTT(20) DEF ServerAlloc, TypeInv, TypeOK, SlotType
<1>15. ASSUME ServerSubmit PROVE OneSender' /\ Handshake'
  BY <1>0, <1>15 DEF ServerSubmit
<1>16. ASSUME NEW k \in Core, Respond(k) PROVE OneSender' /\ Handshake'
  BY <1>0, <1>16 DEF Respond, Goto
<1>17. ASSUME NEW c \in Client, ShutdownSignal(c) \/ ShutdownQuit(c) PROVE FALSE
  BY <1>17 DEF Misuse, ShutdownQuit, Goto
<1>18. ASSUME ServerQuit PROVE FALSE
  BY <1>18 DEF ServerQuit
<1>19. ASSUME NEW c \in Client, NEW h \in handles[c], CopyHandle(c, h)
       PROVE OneSender' /\ Handshake'
  BY <1>19 DEF CopyHandle
<1>20. ASSUME UNCHANGED vars PROVE OneSender' /\ Handshake'
  BY <1>20 DEF vars
<1> QED
  BY <1>1, <1>2, <1>3, <1>4, <1>5, <1>6, <1>7, <1>8, <1>9, <1>10, <1>11, <1>12,
     <1>13, <1>14, <1>15, <1>16, <1>17, <1>18, <1>19, <1>20, ZenonT(40)
  DEF Next, ServerNext, ClientNext, ClientStep, Finished

-----------------------------------------------------------------------------
(* The steps of the clients *)

SlotInv == OneOwner /\ Routing /\ ReadyOwn /\ HandlesOwn /\ CallTaken /\ AckOwn

LEMMA SlotInit == Init => SlotInv
<1> SUFFICES ASSUME Init PROVE SlotInv
  OBVIOUS
<1>1. OneOwner
  BY SlotFacts DEF Init, OneOwner, FreePos, Free, Held, Flying, Ready, Releasing, Slot
<1>2. Routing /\ ReadyOwn
  BY DEF Init, Routing, ReadyOwn, Ready
<1>3. HandlesOwn /\ CallTaken /\ AckOwn
  BY DEF Init, HandlesOwn, CallTaken, AckOwn, Claims
<1> QED
  BY <1>1, <1>2, <1>3, Zenon DEF SlotInv

\* A step that moves no slot: the places of the slots, what they were assigned
\* to, and the handles that name them stay the same.
LEMMA SlotFrame ==
  ASSUME SlotInv, CallTaken', AckOwn',
         UNCHANGED << slots, free_stack, id, in_flight, pending, assigned >>,
         (pc_server' = "submit") <=> (pc_server = "submit"),
         \A c \in Client : Claims(c)' = Claims(c),
         \A c \in Client : \A s \in Slot : Releasing(c, s)' <=> Releasing(c, s)
  PROVE  SlotInv'
<1>1. FreePos' = FreePos
  BY ZenonT(40) DEF FreePos
<1>3. OneOwner'
  BY <1>1 DEF SlotInv, OneOwner, Free, Held, Flying, Ready, Releasing
<1>4. Routing' /\ ReadyOwn'
  BY Zenon DEF SlotInv, Routing, ReadyOwn, Ready
<1>5. HandlesOwn'
  BY <1>1 DEF SlotInv, HandlesOwn, Free, Held
<1> QED
  BY <1>3, <1>4, <1>5, Zenon DEF SlotInv

LEMMA AckFrame ==
  ASSUME AckOwn,
         UNCHANGED << cmd_recieve_server_resp_lock, delivered, cmd,
                      pthread_wait_id, assigned, free_stack >>,
         \A c \in Client : Claims(c)' = Claims(c)
  PROVE  AckOwn'
BY Zenon DEF AckOwn, Given, Free, FreePos

\* The client steps that move no slot.
LEMMA SlotClientFrame ==
  ASSUME HandInv, SlotInv, NEW c \in Client,
         \/ Attach(c) \/ SendLock(c) \/ SendSignal(c) \/ SendReturn(c) \/ Crash(c)
         \/ \E k \in Core, xd \in BOOLEAN : SendCall(c, k, xd)
         \/ \E h \in handles[c] : GetCall(c, h)
  PROVE  SlotInv'
<1>0. ClientType
  BY Zenon DEF HandInv, TypeInv, TypeOK
<1>1. CASE Attach(c) \/ SendLock(c) \/ SendSignal(c)
  <2>1. UNCHANGED << call, handles >>
    BY <1>1, Zenon DEF Attach, SendLock, SendSignal
  <2>2. \A d \in Client : pc'[d] \in {"get", "release", "unquit"} \/
                        pc[d] \in {"get", "release", "unquit"} => pc'[d] = pc[d]
    BY <1>0, <1>1, Zenon DEF Attach, SendLock, SendSignal, Goto, ClientType
  <2>3. \A d \in Client : Claims(d)' = Claims(d)
    BY <2>1, <2>2, Zenon DEF Claims
  <2>4. CallTaken'
    BY <2>1, <2>2, Zenon DEF SlotInv, CallTaken
  <2>5. \A d \in Client : \A s \in Slot : Releasing(d, s)' <=> Releasing(d, s)
    BY <2>1, <2>2, Zenon DEF Releasing
  <2>6. AckOwn'
    <3>1. CASE Attach(c) \/ SendSignal(c)
      BY <2>3, <3>1, AckFrame, Zenon DEF SlotInv, Attach, SendSignal
    <3>2. CASE SendLock(c)
      BY <3>2, Zenon DEF HandInv, Handshake, InSend, SendLock, AckOwn
    <3> QED
      BY <1>1, <3>1, <3>2, Zenon
  <2>7. UNCHANGED << slots, free_stack, id, in_flight, pending, assigned, pc_server >>
    BY <1>1, Zenon DEF Attach, SendLock, SendSignal
  <2> QED
    BY <2>3, <2>4, <2>5, <2>6, <2>7, SlotFrame, Zenon
<1>2. ASSUME NEW k \in Core, NEW xd \in BOOLEAN, SendCall(c, k, xd) PROVE SlotInv'
  <2>1. /\ pc[c] = "idle" /\ pc'[c] = "lock"
        /\ \A d \in Client : d # c => pc'[d] = pc[d] /\ call'[d] = call[d]
    BY <1>0, <1>2, Zenon DEF SendCall, Goto, ClientType
  <2>2. UNCHANGED << shm, daemon, device, handles, assigned >>
    BY <1>2, Zenon DEF SendCall
  <2>3. \A d \in Client : Claims(d)' = Claims(d)
    BY <2>1, <2>2, Zenon DEF Claims
  <2>4. CallTaken'
    BY <2>1, <2>2, Zenon DEF SlotInv, CallTaken
  <2>5. \A d \in Client : \A s \in Slot : Releasing(d, s)' <=> Releasing(d, s)
    BY <2>1, Zenon DEF Releasing
  <2>6. AckOwn'
    BY <2>2, <2>3, AckFrame, Zenon DEF SlotInv
  <2> QED
    BY <2>2, <2>3, <2>4, <2>5, <2>6, SlotFrame, Zenon
<1>3. ASSUME SendReturn(c) PROVE SlotInv'
  <2>1. /\ pc[c] = "unquit" /\ pc'[c] = "idle" /\ call' = call
        /\ \A d \in Client : d # c => pc'[d] = pc[d] /\ handles'[d] = handles[d]
        /\ handles'[c] = IF call[c].cmd.xd THEN handles[c] \cup {call[c]} ELSE handles[c]
    BY <1>0, <1>3, Zenon DEF SendReturn, Goto, ClientType
  <2>2. UNCHANGED << mutexes, slots, free_stack, pthread_wait_id, cmd, daemon,
                     device, assigned >>
    BY <1>3, Zenon DEF SendReturn
  <2>3. \A d \in Client : Claims(d)' = Claims(d)
    BY <2>1, ZenonT(40) DEF Claims
  <2>4. CallTaken'
    BY <2>1, Zenon DEF SlotInv, CallTaken
  <2>5. \A d \in Client : \A s \in Slot : Releasing(d, s)' <=> Releasing(d, s)
    BY <2>1, Zenon DEF Releasing
  <2>6. AckOwn'
    BY <2>2, <2>3, AckFrame, Zenon DEF SlotInv
  <2> QED
    BY <2>2, <2>3, <2>4, <2>5, <2>6, SlotFrame, Zenon
<1>4. ASSUME NEW h \in handles[c], GetCall(c, h) PROVE SlotInv'
  <2>0. h \in Claims(c) /\ h.slot \in Slot
    BY Zenon DEF Claims, SlotInv, HandlesOwn
  <2>1. /\ pc[c] = "idle" /\ pc'[c] = "get"
        /\ call'[c] = h /\ handles'[c] = handles[c] \ {h}
        /\ \A d \in Client : d # c =>
             pc'[d] = pc[d] /\ call'[d] = call[d] /\ handles'[d] = handles[d]
    BY <1>0, <1>4, <2>0 DEF GetCall, Goto, ClientType
  <2>2. UNCHANGED << shm, daemon, device, assigned >>
    BY <1>4, Zenon DEF GetCall
  <2>3. \A d \in Client : Claims(d)' = Claims(d)
    BY <2>1, Zenon DEF Claims
  <2>4. CallTaken'
    BY <2>1, Zenon DEF SlotInv, CallTaken
  <2>5. \A d \in Client : \A s \in Slot : Releasing(d, s)' <=> Releasing(d, s)
    BY <2>1, Zenon DEF Releasing
  <2>6. AckOwn'
    BY <2>2, <2>3, AckFrame, Zenon DEF SlotInv
  <2> QED
    BY <2>2, <2>3, <2>4, <2>5, <2>6, SlotFrame, Zenon
<1>5. ASSUME Crash(c) PROVE SlotInv'
  <2>1. UNCHANGED << shm, daemon, device, pc, call, handles, assigned >>
    BY <1>5, Zenon DEF Crash
  <2>2. \A d \in Client : Claims(d)' = Claims(d)
    BY <2>1, Zenon DEF Claims
  <2>3. CallTaken' /\ \A d \in Client : \A s \in Slot : Releasing(d, s)' <=> Releasing(d, s)
    BY <2>1, Zenon DEF SlotInv, CallTaken, Releasing
  <2>4. AckOwn'
    BY <2>1, <2>2, AckFrame, Zenon DEF SlotInv
  <2> QED
    BY <2>1, <2>2, <2>3, <2>4, SlotFrame, Zenon
<1> QED
  BY <1>1, <1>2, <1>3, <1>4, <1>5, Zenon

\* The sender takes the slot the server chose for its command.
LEMMA SlotSendAck ==
  ASSUME HandInv, SlotInv, NEW c \in Client, SendAck(c)
  PROVE  SlotInv'
<1> DEFINE x == HandleOf(cmd, pthread_wait_id, FALSE)
<1>0. ClientType /\ MessageType
  BY Zenon DEF HandInv, TypeInv, TypeOK
<1>1. /\ pc[c] = "ack" /\ pc'[c] = "unquit" /\ cmd = call[c].cmd
      /\ call'[c] = x
      /\ \A d \in Client : d # c => pc'[d] = pc[d] /\ call'[d] = call[d]
      /\ ~cmd_recieve_server_resp_lock
  BY <1>0, Zenon DEF HandInv, Handshake, InSend, SendAck, Goto, ClientType
<1>2. x.cmd = cmd /\ x.slot = pthread_wait_id
  BY <1>0, HandleType, Zenon DEF MessageType
<1>3. UNCHANGED << slots, free_stack, id, in_flight, pending, assigned, pc_server, handles >>
  BY Zenon DEF SendAck
<1>4. pc_server = "wait"
  BY <1>1, Zenon DEF HandInv, Handshake
<1>5. cmd.xd => /\ x.slot \in Slot /\ assigned[x.slot] = cmd /\ ~Free(x.slot)
               /\ \A d \in Client : \A h \in Claims(d) : h.slot # x.slot
  BY <1>1, <1>2, Zenon DEF SlotInv, AckOwn, Given
<1>6. /\ Claims(c) = handles[c]
      /\ Claims(c)' = IF cmd.xd THEN handles[c] \cup {x} ELSE handles[c]
      /\ \A d \in Client : d # c => Claims(d)' = Claims(d)
  BY <1>1, <1>2, <1>3, ZenonT(40) DEF Claims
<1>7. OneOwner' /\ Routing' /\ ReadyOwn'
  <2>1. \A d \in Client : \A s \in Slot : Releasing(d, s)' <=> Releasing(d, s)
    BY <1>1, Zenon DEF Releasing
  <2> QED
    BY <1>3, <2>1, SMTT(20) DEF SlotInv, OneOwner, Routing, ReadyOwn, FreePos, Free, Held,
                      Flying, Ready, Releasing
<1>8. HandlesOwn'
  <2> SUFFICES ASSUME NEW d \in Client, NEW h \in Claims(d)'
               PROVE  /\ h.slot \in Slot /\ assigned[h.slot] = h.cmd
                      /\ ~Free(h.slot) /\ ~Held(h.slot)
                      /\ \A e \in Client : \A g \in Claims(e)' :
                           g.slot = h.slot => e = d /\ g = h
    BY <1>3, Zenon DEF HandlesOwn, Free, FreePos, Held
  <2> HIDE DEF x
  <2>1. \/ h \in Claims(d)
        \/ cmd.xd /\ d = c /\ h = x
    BY <1>6, Zenon
  <2>2. ASSUME NEW e \in Client, NEW g \in Claims(e)'
        PROVE  g \in Claims(e) \/ (cmd.xd /\ e = c /\ g = x)
    BY <1>6, SMTT(20)
  <2>3. CASE h \in Claims(d)
    BY <1>5, <2>2, <2>3 DEF SlotInv, HandlesOwn
  <2>4. CASE cmd.xd /\ d = c /\ h = x
    BY <1>2, <1>4, <1>5, <2>2, <2>4, Zenon DEF Held
  <2> QED
    BY <2>1, <2>3, <2>4, Zenon
<1>9. CallTaken'
  <2> HIDE DEF x
  <2>1. cmd.xd => x \notin handles[c]
    BY <1>5, <1>6, Zenon
  <2>2. \A d \in Client : d # c => pc'[d] = pc[d] /\ call'[d] = call[d] /\ handles'[d] = handles[d]
    BY <1>1, <1>3, Zenon
  <2> QED
    BY <1>1, <1>2, <1>3, <2>1, <2>2, Zenon DEF SlotInv, CallTaken
<1>10. AckOwn'
  BY Zenon DEF SendAck, AckOwn
<1> QED
  BY <1>7, <1>8, <1>9, <1>10, Zenon DEF SlotInv

\* A client reads the response of a slot it names.
LEMMA SlotTake ==
  ASSUME HandInv, SlotInv, NEW c \in Client, NEW h, TakeResponse(h),
         h \in Claims(c), pc[c] # "release", pc'[c] = "release",
         call'[c] = h, CallTaken',
         \A d \in Client : d # c => pc'[d] = pc[d] /\ call'[d] = call[d],
         \A d \in Client : Claims(d)' = Claims(d)
  PROVE  SlotInv'
<1>0. SlotType
  BY Zenon DEF HandInv, TypeInv, TypeOK
<1>1. UNCHANGED << responses, free_stack, message, cmd_recieve_server_resp_lock,
                   daemon, device, assigned >>
  BY Zenon DEF TakeResponse
<1>2. h.slot \in Slot /\ Ready(h.slot)
  BY Zenon DEF SlotInv, HandlesOwn, TakeResponse, Ready
<1>3. \A s \in Slot : Ready(s)' <=> Ready(s) /\ s # h.slot
  BY <1>0, <1>2, Zenon DEF TakeResponse, Ready, SlotType
<1>4. \A d \in Client : \A s \in Slot :
        Releasing(d, s)' <=> Releasing(d, s) \/ (d = c /\ s = h.slot)
  BY ZenonT(40) DEF Releasing
<1>5. OneOwner'
  BY <1>1, <1>2, <1>3, <1>4, SMTT(20)
  DEF SlotInv, OneOwner, FreePos, Free, Held, Flying, Ready, Releasing
<1>6. Routing' /\ ReadyOwn'
  BY <1>1, <1>3, SMTT(20) DEF SlotInv, Routing, ReadyOwn, Ready
<1>7. HandlesOwn'
  BY <1>1 DEF SlotInv, HandlesOwn, Free, FreePos, Held
<1>8. AckOwn'
  BY <1>1, AckFrame, Zenon DEF SlotInv
<1> QED
  BY <1>5, <1>6, <1>7, <1>8, Zenon DEF SlotInv

LEMMA SlotGet ==
  ASSUME HandInv, SlotInv, NEW c \in Client,
         GetWait(c) \/ \E h \in handles[c] : TryGet(c, h)
  PROVE  SlotInv'
<1>0. ClientType
  BY Zenon DEF HandInv, TypeInv, TypeOK
<1>1. CASE GetWait(c)
  <2>1. /\ pc[c] = "get" /\ pc'[c] = "release" /\ UNCHANGED << call, handles >>
        /\ \A d \in Client : d # c => pc'[d] = pc[d]
    BY <1>0, <1>1, Zenon DEF GetWait, Goto, ClientType
  <2>2. \A d \in Client : Claims(d)' = Claims(d)
    BY <2>1, Zenon DEF Claims
  <2>3. call[c] \in Claims(c) /\ CallTaken'
    BY <2>1, Zenon DEF Claims, SlotInv, CallTaken
  <2> QED
    BY <1>1, <2>1, <2>2, <2>3, SlotTake, Zenon DEF GetWait
<1>2. ASSUME NEW h \in handles[c], TryGet(c, h) PROVE SlotInv'
  <2>1. /\ pc[c] = "idle" /\ pc'[c] = "release"
        /\ call'[c] = h /\ handles'[c] = handles[c] \ {h}
        /\ \A d \in Client : d # c =>
             pc'[d] = pc[d] /\ call'[d] = call[d] /\ handles'[d] = handles[d]
    BY <1>0, <1>2, Zenon DEF TryGet, Goto, ClientType
  <2>2. \A d \in Client : Claims(d)' = Claims(d)
    BY <2>1, Zenon DEF Claims
  <2>3. h \in Claims(c) /\ CallTaken'
    BY <2>1, Zenon DEF Claims, SlotInv, CallTaken
  <2> QED
    BY <1>2, <2>1, <2>2, <2>3, SlotTake, Zenon DEF TryGet
<1> QED
  BY <1>1, <1>2, Zenon

\* A client pushes the slot it has read.
LEMMA SlotRelease ==
  ASSUME HandInv, SlotInv, NEW c \in Client, GetRelease(c)
  PROVE  SlotInv'
<1> DEFINE s0 == call[c].slot
           n  == Inc(free_list_idx)
<1>0. ClientType /\ SlotType
  BY Zenon DEF HandInv, TypeInv, TypeOK
<1>1. /\ pc[c] = "release" /\ pc'[c] \in {"idle", "fault"}
      /\ UNCHANGED << call, handles >>
      /\ \A d \in Client : d # c => pc'[d] = pc[d]
  BY <1>0, Zenon DEF GetRelease, Goto, ClientType
<1>2. UNCHANGED << mutexes, slots, message, daemon, device, assigned >>
  BY Zenon DEF GetRelease
<1>3. /\ s0 \in Slot /\ Releasing(c, s0) /\ call[c] \in Claims(c)
      /\ call[c] \notin handles[c]
  BY <1>0, <1>1, Zenon DEF ClientType, Releasing, Claims, SlotInv, CallTaken
<1>4. /\ Claims(c)' = Claims(c) \ {call[c]}
      /\ \A d \in Client : d # c => Claims(d)' = Claims(d)
  BY <1>1, <1>3, Zenon DEF Claims
<1>5. \A d \in Client : \A h \in Claims(d)' : h \in Claims(d) /\ h.slot # s0
  <2>1. \A d \in Client : \A h \in Claims(d) : h.slot = call[c].slot => d = c /\ h = call[c]
    BY <1>3, Zenon DEF SlotInv, HandlesOwn
  <2> QED
    BY <1>4, <2>1, Zenon
<1>6. ~Free(s0) /\ ~Held(s0) /\ ~Flying(s0) /\ ~Ready(s0)
  BY <1>3, Zenon DEF SlotInv, OneOwner
<1>7. \A d \in Client : \A s \in Slot : Releasing(d, s)' <=> Releasing(d, s) /\ d # c
  BY <1>1, Zenon DEF Releasing
<1>8. \A d \in Client : Releasing(d, s0) => d = c
  BY <1>3, Zenon DEF SlotInv, OneOwner
<1>9. /\ \A s \in Slot : Free(s)' <=> Free(s) \/ (n \in Slot /\ s = s0)
      /\ \A i, j \in FreePos' : free_list'[i] = free_list'[j] => i = j
  <2>1. CASE n \notin Slot
    <3>1. UNCHANGED free_stack
      BY <2>1, Zenon DEF GetRelease
    <3> QED
      BY <2>1, <3>1, Zenon DEF SlotInv, OneOwner, Free, FreePos
  <2>2. CASE n \in Slot
    <3>1. free_list_idx' = n /\ free_list' = [free_list EXCEPT ![n] = s0]
      BY <2>2, Zenon DEF GetRelease
    <3>2. FreePos' = FreePos \cup {n} /\ n \notin FreePos /\ FreePos \subseteq Slot
      BY <1>0, <2>2, <3>1, SlotFacts, IndexFacts DEF FreePos, SlotType, Slot
    <3>3. \A i \in FreePos : free_list'[i] = free_list[i] /\ free_list[i] # s0
      BY <1>0, <1>6, <3>1, <3>2, Zenon DEF SlotType, Free
    <3>4. free_list'[n] = s0
      BY <1>0, <2>2, <3>1, Zenon DEF SlotType
    <3> HIDE DEF n, s0
    <3>5. \A s \in Slot : (\E i \in FreePos' : free_list'[i] = s) <=> Free(s) \/ s = s0
      BY <3>2, <3>3, <3>4, Zenon DEF Free
    <3>6. \A i, j \in FreePos' : free_list'[i] = free_list'[j] => i = j
      BY <3>2, <3>3, <3>4 DEF SlotInv, OneOwner
    <3> QED
      BY <2>2, <3>5, <3>6, Zenon DEF Free
  <2> QED
    BY <2>1, <2>2, Zenon
<1> HIDE DEF s0
<1>10. OneOwner'
  <2>1. \A s \in Slot : Held(s)' <=> Held(s)
    BY <1>2, Zenon DEF Held
  <2>2. \A s \in Slot : Flying(s)' <=> Flying(s)
    BY <1>2, Zenon DEF Flying
  <2>3. \A s \in Slot : Ready(s)' <=> Ready(s)
    BY <1>2, Zenon DEF Ready
  <2>4. \A k, l \in Core : \A i \in DOMAIN in_flight'[k], j \in DOMAIN in_flight'[l] :
          in_flight'[k][i] = in_flight'[l][j] => k = l /\ i = j
    BY <1>2 DEF SlotInv, OneOwner
  <2>5. ASSUME NEW s \in Slot
        PROVE /\ Free(s)' => ~Held(s)' /\ ~Flying(s)' /\ ~Ready(s)'
              /\ Held(s)' => ~Flying(s)' /\ ~Ready(s)'
              /\ Flying(s)' => ~Ready(s)'
    BY <1>6, <1>9, <2>1, <2>2, <2>3, Zenon DEF SlotInv, OneOwner
  <2>6. ASSUME NEW s \in Slot, NEW d \in Client, Releasing(d, s)'
        PROVE  /\ ~Free(s)' /\ ~Held(s)' /\ ~Flying(s)' /\ ~Ready(s)'
               /\ \A e \in Client : Releasing(e, s)' => e = d
    BY <1>7, <1>8, <1>9, <2>1, <2>2, <2>3, <2>6, SMTT(30) DEF SlotInv, OneOwner
  <2> QED
    BY <1>9, <2>4, <2>5, <2>6, Zenon DEF OneOwner
<1>11. Routing' /\ ReadyOwn'
  BY <1>2, Zenon DEF SlotInv, Routing, ReadyOwn, Ready
<1>12. HandlesOwn'
  BY <1>2, <1>5, <1>9, SMTT(20) DEF SlotInv, HandlesOwn, Held
<1>13. CallTaken'
  BY <1>1, Zenon DEF SlotInv, CallTaken
<1>14. AckOwn'
  BY <1>2, <1>3, <1>5, <1>9, Zenon DEF SlotInv, AckOwn, Given, s0
<1> QED
  BY <1>10, <1>11, <1>12, <1>13, <1>14, Zenon DEF SlotInv

-----------------------------------------------------------------------------
(* The steps of the server and of the accelerator *)

\* The server wakes up, or pops a slot.
LEMMA SlotWake ==
  ASSUME HandInv, SlotInv, ServerStart \/ ServerWake
  PROVE  SlotInv'
<1>1. UNCHANGED << slots, free_stack, message, cmd_recieve_server_resp_lock, id,
                   in_flight, device, pc, call, handles, assigned >>
  BY Zenon DEF ServerStart, ServerWake
<1>2. pc_server # "submit" /\ pc_server' # "submit"
  BY Zenon DEF ServerStart, ServerWake
<1>3. \A d \in Client : Claims(d)' = Claims(d)
  BY <1>1, Zenon DEF Claims
<1>4. CallTaken' /\ \A d \in Client : \A s \in Slot : Releasing(d, s)' <=> Releasing(d, s)
  BY <1>1, Zenon DEF SlotInv, CallTaken, Releasing
<1>5. AckOwn'
  BY <1>1, <1>3, AckFrame, Zenon DEF SlotInv
<1> QED
  BY <1>1, <1>2, <1>3, <1>4, <1>5, SlotFrame, Zenon

LEMMA SlotAlloc ==
  ASSUME HandInv, SlotInv, ServerAlloc
  PROVE  SlotInv'
<1> DEFINE s0 == free_list[free_list_idx]
           pops == cmd.xd /\ free_list_idx \in Slot
<1>0. SlotType /\ cmd_recieve_server_resp_lock /\ pc_server = "alloc"
  BY Zenon DEF HandInv, TypeInv, TypeOK, Handshake, ServerAlloc, MutexType
<1>1. UNCHANGED << mutexes, slots, free_list, in_flight, device, pc, call, handles,
                   assigned >>
  BY Zenon DEF ServerAlloc
<1>2. pops => /\ id' = s0 /\ free_list_idx' = Dec(free_list_idx)
              /\ pc_server' = "submit"
  BY Zenon DEF ServerAlloc
<1>3. ~pops => /\ UNCHANGED free_list_idx
               /\ pc_server' = "submit" => id' = NoSlot
  BY Zenon DEF ServerAlloc
<1>4. \A s \in Slot : Held(s)' <=> pops /\ s = s0
  BY <1>2, <1>3, SlotFacts, Zenon DEF Held
<1>5. pops => FreePos' = FreePos \ {free_list_idx} /\ free_list_idx \in FreePos
  BY <1>2, SlotFacts, IndexFacts DEF FreePos, Slot
<1>6. \A s \in Slot : Free(s)' <=> Free(s) /\ ~(pops /\ s = s0)
  <2>1. CASE pops
    BY <1>1, <1>5, <2>1, Zenon DEF SlotInv, OneOwner, Free
  <2>2. CASE ~pops
    BY <1>1, <1>3, <2>2, Zenon DEF Free, FreePos
  <2> QED
    BY <2>1, <2>2, Zenon
<1>7. \A i, j \in FreePos' : free_list'[i] = free_list'[j] => i = j
  <2>1. FreePos' \subseteq FreePos
    BY <1>3, <1>5, Zenon DEF FreePos
  <2> QED
    BY <1>1, <2>1, Zenon DEF SlotInv, OneOwner
<1>8. pops => s0 \in Slot /\ Free(s0)
  BY <1>0, <1>5, Zenon DEF SlotType, Free
<1> HIDE DEF s0, pops
<1>9. \A s \in Slot : Flying(s)' <=> Flying(s)
  BY <1>1, Zenon DEF Flying
<1>10. \A s \in Slot : Ready(s)' <=> Ready(s)
  BY <1>1, Zenon DEF Ready
<1>11. \A d \in Client : \A s \in Slot : Releasing(d, s)' <=> Releasing(d, s)
  BY <1>1, Zenon DEF Releasing
<1>12. \A d \in Client : Claims(d)' = Claims(d)
  BY <1>1, Zenon DEF Claims
<1>13. OneOwner'
  <2>1. \A k, l \in Core : \A i \in DOMAIN in_flight'[k], j \in DOMAIN in_flight'[l] :
          in_flight'[k][i] = in_flight'[l][j] => k = l /\ i = j
    BY <1>1 DEF SlotInv, OneOwner
  <2>2. ASSUME NEW s \in Slot
        PROVE /\ Free(s)' => ~Held(s)' /\ ~Flying(s)' /\ ~Ready(s)'
              /\ Held(s)' => ~Flying(s)' /\ ~Ready(s)'
              /\ Flying(s)' => ~Ready(s)'
    BY <1>4, <1>6, <1>8, <1>9, <1>10, Zenon DEF SlotInv, OneOwner
  <2>3. ASSUME NEW s \in Slot, NEW d \in Client, Releasing(d, s)'
        PROVE  /\ ~Free(s)' /\ ~Held(s)' /\ ~Flying(s)' /\ ~Ready(s)'
               /\ \A e \in Client : Releasing(e, s)' => e = d
    BY <1>4, <1>6, <1>8, <1>9, <1>10, <1>11, <2>3 DEF SlotInv, OneOwner
  <2> QED
    BY <1>7, <2>1, <2>2, <2>3, Zenon DEF OneOwner
<1>14. Routing' /\ ReadyOwn' /\ CallTaken'
  BY <1>1, Zenon DEF SlotInv, Routing, ReadyOwn, Ready, CallTaken
<1>15. HandlesOwn'
  BY <1>1, <1>4, <1>6, <1>8, <1>12 DEF SlotInv, HandlesOwn
<1>16. AckOwn'
  BY <1>0, <1>1, Zenon DEF AckOwn
<1> QED
  BY <1>13, <1>14, <1>15, <1>16, Zenon DEF SlotInv

\* The server remembers where the response goes and acknowledges.
LEMMA SlotSubmit ==
  ASSUME HandInv, SlotInv, ServerSubmit
  PROVE  SlotInv'
<1>0. /\ SlotType /\ DaemonType /\ HistoryType /\ cmd \in Cmd /\ QueuesAgree
      /\ pc_server = "submit" /\ id = pthread_wait_id /\ (cmd.xd <=> id # NoSlot)
  BY Zenon DEF HandInv, TypeInv, TypeOK, Handshake, ServerSubmit, MessageType
<1>1. UNCHANGED << slots, free_stack, message, id, pc, call, handles >>
  BY Zenon DEF ServerSubmit
<1>2. /\ pc_server' = "wait" /\ ~cmd_recieve_server_resp_lock'
      /\ delivered' = Append(delivered, cmd)
  BY <1>0, Zenon DEF ServerSubmit
<1>3. cmd.xd => /\ in_flight' = [in_flight EXCEPT ![cmd.core] = Append(@, id)]
               /\ pending' = [pending EXCEPT ![cmd.core] = Append(@, cmd)]
               /\ assigned' = [assigned EXCEPT ![id] = cmd]
               /\ id \in Slot /\ Held(id)
  BY <1>0, Zenon DEF ServerSubmit, DaemonType, Held
<1>4. ~cmd.xd => UNCHANGED << in_flight, pending, assigned >>
  BY Zenon DEF ServerSubmit
<1>5. cmd.core \in Core
  BY <1>0, Zenon DEF Cmd
<1>6. \A s \in Slot : Free(s)' <=> Free(s)
  BY <1>1, Zenon DEF Free, FreePos
<1>7. \A s \in Slot : ~Held(s)'
  BY <1>2, Zenon DEF Held
<1>8. \A s \in Slot : Ready(s)' <=> Ready(s)
  BY <1>1, Zenon DEF Ready
<1>9. \A d \in Client : \A s \in Slot : Releasing(d, s)' <=> Releasing(d, s)
  BY <1>1, Zenon DEF Releasing
<1>10. \A d \in Client : Claims(d)' = Claims(d)
  BY <1>1, Zenon DEF Claims
<1>11. \A k \in Core : \A i \in DOMAIN in_flight'[k] :
         \/ i \in DOMAIN in_flight[k] /\ in_flight'[k][i] = in_flight[k][i]
            /\ pending'[k][i] = pending[k][i]
         \/ cmd.xd /\ k = cmd.core /\ i = Len(in_flight[k]) + 1
            /\ in_flight'[k][i] = id /\ pending'[k][i] = cmd
  <2> SUFFICES ASSUME NEW k \in Core, NEW i \in DOMAIN in_flight'[k]
               PROVE  \/ i \in DOMAIN in_flight[k] /\ in_flight'[k][i] = in_flight[k][i]
                         /\ pending'[k][i] = pending[k][i]
                      \/ cmd.xd /\ k = cmd.core /\ i = Len(in_flight[k]) + 1
                         /\ in_flight'[k][i] = id /\ pending'[k][i] = cmd
    BY Zenon
  <2>1. /\ in_flight[k] \in Seq(Slot) /\ pending[k] \in Seq(Cmd)
        /\ Len(in_flight[k]) = Len(pending[k])
    BY <1>0, ZenonT(40) DEF DaemonType, QueuesAgree
  <2>2. CASE cmd.xd /\ k = cmd.core
    <3>1. /\ in_flight'[k] = Append(in_flight[k], id)
          /\ pending'[k] = Append(pending[k], cmd)
      BY <1>0, <1>3, <2>2, Zenon DEF DaemonType
    <3> QED
      BY <1>0, <1>3, <2>1, <2>2, <3>1
  <2>3. CASE ~(cmd.xd /\ k = cmd.core)
    <3>1. in_flight'[k] = in_flight[k] /\ pending'[k] = pending[k]
      BY <1>0, <1>3, <1>4, <2>3, Zenon DEF DaemonType
    <3> QED
      BY <3>1, Zenon
  <2> QED
    BY <2>2, <2>3, Zenon
<1>12. \A s \in Slot : Flying(s)' => Flying(s) \/ (cmd.xd /\ s = id)
  BY <1>11 DEF Flying
<1>13. cmd.xd => ~Free(id) /\ ~Flying(id) /\ ~Ready(id) /\ \A d \in Client : ~Releasing(d, id)
  BY <1>3, Zenon DEF SlotInv, OneOwner
<1>14. \A s \in Slot : s # id => assigned'[s] = assigned[s]
  BY <1>0, <1>3, <1>4, Zenon DEF HistoryType
<1>15. cmd.xd => assigned'[id] = cmd
  BY <1>0, <1>3, Zenon DEF HistoryType
<1>16. OneOwner'
  <2>1. ASSUME NEW k \in Core, NEW l \in Core, NEW i \in DOMAIN in_flight'[k],
               NEW j \in DOMAIN in_flight'[l], in_flight'[k][i] = in_flight'[l][j]
        PROVE  k = l /\ i = j
    BY <1>11, <1>13, <2>1 DEF SlotInv, OneOwner, Flying
  <2>2. ASSUME NEW s \in Slot
        PROVE /\ Free(s)' => ~Held(s)' /\ ~Flying(s)' /\ ~Ready(s)'
              /\ Held(s)' => ~Flying(s)' /\ ~Ready(s)'
              /\ Flying(s)' => ~Ready(s)'
    BY <1>6, <1>7, <1>8, <1>12, <1>13, Zenon DEF SlotInv, OneOwner
  <2>3. ASSUME NEW s \in Slot, NEW d \in Client, Releasing(d, s)'
        PROVE  /\ ~Free(s)' /\ ~Held(s)' /\ ~Flying(s)' /\ ~Ready(s)'
               /\ \A e \in Client : Releasing(e, s)' => e = d
    BY <1>6, <1>7, <1>8, <1>9, <1>12, <1>13, <2>3 DEF SlotInv, OneOwner
  <2>4. \A i, j \in FreePos' : free_list'[i] = free_list'[j] => i = j
    BY <1>1, Zenon DEF SlotInv, OneOwner, FreePos
  <2> QED
    BY <2>1, <2>2, <2>3, <2>4, ZenonT(40) DEF OneOwner
<1>17. Routing'
  <2> SUFFICES ASSUME NEW k \in Core, NEW i \in DOMAIN in_flight'[k]
               PROVE  assigned'[in_flight'[k][i]] = pending'[k][i]
    BY Zenon DEF Routing
  <2>1. CASE i \in DOMAIN in_flight[k] /\ in_flight'[k][i] = in_flight[k][i]
             /\ pending'[k][i] = pending[k][i]
    <3>1. in_flight[k][i] \in Slot /\ Flying(in_flight[k][i])
      BY <1>0, <2>1 DEF DaemonType, Flying
    <3>2. in_flight[k][i] # id
      BY <1>0, <1>3, <1>13, <3>1, SlotFacts, Zenon
    <3> QED
      BY <1>14, <2>1, <3>1, <3>2, Zenon DEF SlotInv, Routing
  <2> QED
    BY <1>11, <1>15, <2>1, Zenon
<1>18. ReadyOwn'
  BY <1>0, <1>1, <1>3, <1>13, <1>14, SlotFacts, Zenon DEF SlotInv, ReadyOwn, Ready
<1>19. HandlesOwn'
  <2> SUFFICES ASSUME NEW d \in Client, NEW h \in Claims(d)'
               PROVE  /\ h.slot \in Slot /\ assigned'[h.slot] = h.cmd
                      /\ ~Free(h.slot)' /\ ~Held(h.slot)'
                      /\ \A e \in Client : \A g \in Claims(e)' :
                           g.slot = h.slot => e = d /\ g = h
    BY Zenon DEF HandlesOwn
  <2>1. h \in Claims(d) /\ h.slot \in Slot /\ ~Held(h.slot)
    BY <1>10, Zenon DEF SlotInv, HandlesOwn
  <2>2. h.slot # id
    BY <1>0, <2>1, Zenon DEF Held
  <2> QED
    BY <1>6, <1>7, <1>10, <1>14, <2>1, <2>2 DEF SlotInv, HandlesOwn
<1>20. CallTaken'
  BY <1>1, Zenon DEF SlotInv, CallTaken
<1>21. AckOwn'
  <2>1. \E i \in DOMAIN delivered' : delivered'[i] = cmd
    <3>1. delivered \in Seq(Cmd)
      BY <1>0, Zenon DEF DaemonType
    <3>2. /\ Len(delivered) + 1 \in DOMAIN delivered'
          /\ delivered'[Len(delivered) + 1] = cmd
      BY <1>0, <1>2, <3>1
    <3> QED
      BY <3>2, Zenon
  <2>2. Given(cmd, pthread_wait_id)'
    BY <1>0, <1>1, <1>3, <1>15, <2>1, Zenon DEF Given
  <2>3. cmd' = cmd /\ pthread_wait_id' = id /\ free_stack' = free_stack
    BY <1>0, <1>1, Zenon
  <2>4. cmd.xd => ~Free(pthread_wait_id)'
    BY <1>13, <2>3, Zenon DEF Free, FreePos
  <2>5. cmd.xd => \A d \in Client : \A h \in Claims(d)' : h.slot # id
    BY <1>3, <1>10, Zenon DEF SlotInv, HandlesOwn
  <2> QED
    BY <2>2, <2>3, <2>4, <2>5, Zenon DEF AckOwn
<1> QED
  BY <1>16, <1>17, <1>18, <1>19, <1>20, <1>21, Zenon DEF SlotInv

\* A core answers the command at the head of its queue.
LEMMA SlotRespond ==
  ASSUME HandInv, SlotInv, NEW k \in Core, Respond(k)
  PROVE  SlotInv'
<1> DEFINE s0 == Head(in_flight[k])
<1>0. SlotType /\ DaemonType /\ QueuesAgree
  BY Zenon DEF HandInv, TypeInv, TypeOK
<1>1. UNCHANGED << mutexes, free_stack, message, pc_server, id, delivered, pc, call,
                   handles, assigned >>
  BY Zenon DEF Respond
<1>2. /\ in_flight[k] \in Seq(Slot) /\ pending[k] \in Seq(Cmd)
      /\ Len(in_flight[k]) = Len(pending[k]) /\ in_flight[k] # << >> /\ pending[k] # << >>
  BY <1>0 DEF DaemonType, QueuesAgree, Respond
<1>3. /\ s0 \in Slot /\ 1 \in DOMAIN in_flight[k] /\ s0 = in_flight[k][1]
      /\ Head(pending[k]) = pending[k][1]
  BY <1>2
<1>4. /\ Flying(s0) /\ assigned[s0] = Head(pending[k])
      /\ ~Free(s0) /\ ~Held(s0) /\ ~Ready(s0) /\ \A d \in Client : ~Releasing(d, s0)
  <2>1. Flying(s0)
    BY <1>3, Zenon DEF Flying
  <2>2. assigned[s0] = Head(pending[k])
    BY <1>3, Zenon DEF SlotInv, Routing
  <2> QED
    BY <1>3, <2>1, <2>2, Zenon DEF SlotInv, OneOwner
<1>5. \A l \in Core : \A i \in DOMAIN in_flight'[l] :
        LET j == IF l = k THEN i + 1 ELSE i IN
        /\ j \in DOMAIN in_flight[l] /\ in_flight'[l][i] = in_flight[l][j]
        /\ pending'[l][i] = pending[l][j]
        /\ in_flight'[l][i] # s0
  <2> SUFFICES ASSUME NEW l \in Core, NEW i \in DOMAIN in_flight'[l]
               PROVE LET j == IF l = k THEN i + 1 ELSE i IN
                     /\ j \in DOMAIN in_flight[l] /\ in_flight'[l][i] = in_flight[l][j]
                     /\ pending'[l][i] = pending[l][j]
                     /\ in_flight'[l][i] # s0
    BY Zenon
  <2>1. CASE l = k
    <3>1. in_flight'[k] = Tail(in_flight[k]) /\ pending'[k] = Tail(pending[k])
      BY <1>0, Zenon DEF Respond, DaemonType
    <3>2. /\ i + 1 \in DOMAIN in_flight[k] /\ i \in Nat \ {0}
          /\ in_flight'[k][i] = in_flight[k][i + 1]
          /\ pending'[k][i] = pending[k][i + 1]
      BY <1>2, <2>1, <3>1, SMTT(20)
    <3>3. in_flight[k][i + 1] # s0
      <4>1. \A j \in DOMAIN in_flight[k] : in_flight[k][j] = in_flight[k][1] => j = 1
        BY <1>3, ZenonT(40) DEF SlotInv, OneOwner
      <4>2. i + 1 # 1
        BY <3>2
      <4> QED
        BY <1>3, <3>2, <4>1, <4>2, SMTT(20)
    <3> QED
      BY <2>1, <3>2, <3>3, Zenon
  <2>2. CASE l # k
    <3>1. in_flight'[l] = in_flight[l] /\ pending'[l] = pending[l]
      BY <1>0, <2>2, Zenon DEF Respond, DaemonType
    <3>2. in_flight[l][i] # s0
      BY <1>3, <2>2, <3>1 DEF SlotInv, OneOwner
    <3> QED
      BY <2>2, <3>1, <3>2, Zenon
  <2> QED
    BY <2>1, <2>2, Zenon
<1>6. /\ wait_for_response' = [wait_for_response EXCEPT ![s0] = FALSE]
      /\ responses' = [responses EXCEPT ![s0] = Head(pending[k])]
  BY Zenon DEF Respond
<1> HIDE DEF s0
<1>7. \A s \in Slot : Flying(s)' => Flying(s) /\ s # s0
  BY <1>5 DEF Flying
<1>8. \A s \in Slot : Ready(s)' <=> Ready(s) \/ s = s0
  BY <1>0, <1>3, <1>6, Zenon DEF Ready, SlotType
<1>9. \A s \in Slot : Free(s)' <=> Free(s)
  BY <1>1, Zenon DEF Free, FreePos
<1>10. \A s \in Slot : Held(s)' <=> Held(s)
  BY <1>1, Zenon DEF Held
<1>11. \A d \in Client : \A s \in Slot : Releasing(d, s)' <=> Releasing(d, s)
  BY <1>1, Zenon DEF Releasing
<1>12. \A d \in Client : Claims(d)' = Claims(d)
  BY <1>1, Zenon DEF Claims
<1>13. OneOwner'
  <2>1. ASSUME NEW l \in Core, NEW m \in Core, NEW i \in DOMAIN in_flight'[l],
               NEW j \in DOMAIN in_flight'[m], in_flight'[l][i] = in_flight'[m][j]
        PROVE  l = m /\ i = j
    <3>1. i \in Nat /\ j \in Nat
      <4>1. \A n \in Core : in_flight'[n] \in Seq(Slot)
        BY <1>0, <1>2 DEF Respond, DaemonType
      <4> QED
        BY <4>1
    <3>2. \A a, b \in Core : \A x \in DOMAIN in_flight[a], y \in DOMAIN in_flight[b] :
            in_flight[a][x] = in_flight[b][y] => a = b /\ x = y
      BY Zenon DEF SlotInv, OneOwner
    <3>3. PICK x \in DOMAIN in_flight[l] :
            x = (IF l = k THEN i + 1 ELSE i) /\ in_flight'[l][i] = in_flight[l][x]
      BY <1>5, Zenon
    <3>4. PICK y \in DOMAIN in_flight[m] :
            y = (IF m = k THEN j + 1 ELSE j) /\ in_flight'[m][j] = in_flight[m][y]
      BY <1>5, Zenon
    <3>5. l = m /\ x = y
      <4>1. in_flight[l][x] = in_flight[m][y]
        BY <2>1, <3>3, <3>4, Zenon
      <4> QED
        BY <3>2, <4>1, Zenon
    <3> QED
      BY <3>1, <3>3, <3>4, <3>5, SMTT(20)
  <2>2. ASSUME NEW s \in Slot
        PROVE /\ Free(s)' => ~Held(s)' /\ ~Flying(s)' /\ ~Ready(s)'
              /\ Held(s)' => ~Flying(s)' /\ ~Ready(s)'
              /\ Flying(s)' => ~Ready(s)'
    BY <1>4, <1>7, <1>8, <1>9, <1>10, Zenon DEF SlotInv, OneOwner
  <2>3. ASSUME NEW s \in Slot, NEW d \in Client, Releasing(d, s)'
        PROVE  /\ ~Free(s)' /\ ~Held(s)' /\ ~Flying(s)' /\ ~Ready(s)'
               /\ \A e \in Client : Releasing(e, s)' => e = d
    BY <1>4, <1>7, <1>8, <1>9, <1>10, <1>11, <2>3, Zenon DEF SlotInv, OneOwner
  <2>4. \A i, j \in FreePos' : free_list'[i] = free_list'[j] => i = j
    BY <1>1, Zenon DEF SlotInv, OneOwner, FreePos
  <2> QED
    BY <2>1, <2>2, <2>3, <2>4, ZenonT(40) DEF OneOwner
<1>14. Routing'
  BY <1>1, <1>5, SMTT(30) DEF SlotInv, Routing
<1>15. ReadyOwn'
  BY <1>0, <1>1, <1>3, <1>4, <1>6, <1>8, ZenonT(40) DEF SlotInv, ReadyOwn, SlotType
<1>16. HandlesOwn'
  <2> SUFFICES ASSUME NEW d \in Client, NEW h \in Claims(d)'
               PROVE  /\ h.slot \in Slot /\ assigned'[h.slot] = h.cmd
                      /\ ~Free(h.slot)' /\ ~Held(h.slot)'
                      /\ \A e \in Client : \A g \in Claims(e)' :
                           g.slot = h.slot => e = d /\ g = h
    BY Zenon DEF HandlesOwn
  <2>1. h \in Claims(d)
    BY <1>12, Zenon
  <2>2. /\ h.slot \in Slot /\ assigned[h.slot] = h.cmd
        /\ ~Free(h.slot) /\ ~Held(h.slot)
        /\ \A e \in Client : \A g \in Claims(e) : g.slot = h.slot => e = d /\ g = h
    BY <2>1, Zenon DEF SlotInv, HandlesOwn
  <2> QED
    BY <1>1, <1>9, <1>10, <1>12, <2>2, Zenon
<1>17. CallTaken'
  BY <1>1, Zenon DEF SlotInv, CallTaken
<1>18. AckOwn'
  BY <1>1, <1>12, AckFrame, Zenon DEF SlotInv
<1> QED
  BY <1>13, <1>14, <1>15, <1>16, <1>17, <1>18, Zenon DEF SlotInv

LEMMA SlotNext ==
  ASSUME ~ Misuse, HandInv, SlotInv, [Next]_vars
  PROVE  SlotInv'
<1>1. CASE ServerNext
  <2>1. ~ServerQuit
    BY Zenon DEF HandInv, Handshake, ServerQuit
  <2> QED
    BY <1>1, <2>1, SlotWake, SlotAlloc, SlotSubmit, Zenon DEF ServerNext
<1>2. ASSUME NEW k \in Core, Respond(k) PROVE SlotInv'
  BY <1>2, SlotRespond, Zenon
<1>3. ASSUME NEW c \in Client, ClientNext(c) PROVE SlotInv'
  <2>1. ~ShutdownSignal(c) /\ ~ShutdownQuit(c)
    BY Zenon DEF HandInv, Handshake, Misuse, ShutdownQuit, Goto
  <2>2. \A h \in handles[c] : ~CopyHandle(c, h)
    BY Zenon DEF Misuse
  <2> QED
    BY <1>3, <2>1, <2>2, SlotClientFrame, SlotSendAck, SlotGet, SlotRelease, Zenon
    DEF ClientNext, ClientStep
<1>4. CASE UNCHANGED vars
  <2>1. \A d \in Client : Claims(d)' = Claims(d)
    BY <1>4, Zenon DEF vars, Claims
  <2>2. CallTaken' /\ \A d \in Client : \A s \in Slot : Releasing(d, s)' <=> Releasing(d, s)
    BY <1>4, Zenon DEF vars, SlotInv, CallTaken, Releasing
  <2>3. AckOwn'
    BY <1>4, <2>1, AckFrame, Zenon DEF vars, SlotInv
  <2> QED
    BY <1>4, <2>1, <2>2, <2>3, SlotFrame, Zenon DEF vars
<1> QED
  BY <1>1, <1>2, <1>3, <1>4, Zenon DEF Next, Finished

-----------------------------------------------------------------------------
(* What the clients see. *)

LEMMA AckNext ==
  ASSUME HandInv, SlotInv, AckMeansRead, [Next]_vars
  PROVE  AckMeansRead'
<1>0. ClientType /\ DaemonType /\ HistoryType /\ MessageType /\ id \in Slot \cup {NoSlot}
  BY Zenon DEF HandInv, TypeInv, TypeOK, DaemonType
<1>1. ASSUME NEW c \in Client, SendAck(c) PROVE AckMeansRead'
  <2>0. Given(cmd, pthread_wait_id) /\ pc[c] = "ack" /\ cmd = call[c].cmd
    BY <1>1, Zenon DEF SendAck, Goto, HandInv, Handshake, InSend, SlotInv, AckOwn
  <2>1. /\ call'[c] = HandleOf(cmd, pthread_wait_id, FALSE)
        /\ \A d \in Client : d # c => pc'[d] = pc[d] /\ call'[d] = call[d]
    BY <1>0, <1>1, <2>0, Zenon DEF SendAck, Goto, ClientType
  <2>2. call'[c].cmd = cmd /\ call'[c].slot = pthread_wait_id
    BY <2>1 DEF HandleOf
  <2>3. delivered' = delivered /\ assigned' = assigned
    BY <1>1, Zenon DEF SendAck
  <2>4. Given(call[c].cmd, call[c].slot)'
    BY <2>0, <2>2, <2>3, Zenon DEF Given
  <2>5. ASSUME NEW d \in Client, d # c, pc'[d] = "unquit"
        PROVE  Given(call[d].cmd, call[d].slot)'
    BY <2>1, <2>3, <2>5, Zenon DEF AckMeansRead, Given
  <2> QED
    BY <2>4, <2>5, Zenon DEF AckMeansRead
<1>2. CASE ServerSubmit
  <2>1. /\ UNCHANGED << pc, call >> /\ delivered' = Append(delivered, cmd)
        /\ pc_server = "submit"
        /\ \A s \in Slot : s # id => assigned'[s] = assigned[s]
    BY <1>0, <1>2, Zenon DEF ServerSubmit, HistoryType
  <2>2. \A i \in DOMAIN delivered : i \in DOMAIN delivered' /\ delivered'[i] = delivered[i]
    BY <1>0, <2>1 DEF DaemonType, MessageType
  <2>3. ASSUME NEW d \in Client, pc[d] = "unquit", call[d].cmd.xd PROVE call[d].slot # id
    <3>1. call[d] \in Claims(d)
      BY <2>3, Zenon DEF Claims
    <3> QED
      BY <2>1, <3>1, Zenon DEF SlotInv, HandlesOwn, Held
  <2> QED
    BY <2>1, <2>2, <2>3 DEF AckMeansRead, Given
<1>3. ASSUME delivered' = delivered, assigned' = assigned,
             \A d \in Client : pc'[d] = "unquit" => pc[d] = "unquit" /\ call'[d] = call[d]
      PROVE  AckMeansRead'
  BY <1>3, Zenon DEF AckMeansRead, Given
<1>4. CASE ServerStart \/ ServerWake \/ ServerAlloc \/ UNCHANGED vars \/ \E k \in Core : Respond(k)
  BY <1>3, <1>4, Zenon DEF ServerStart, ServerWake, ServerAlloc, Respond, vars
<1>5. ASSUME NEW c \in Client, ClientNext(c), ~SendAck(c) PROVE AckMeansRead'
  <2>1. delivered' = delivered /\ assigned' = assigned
    BY <1>5, Zenon DEF ClientNext, ClientStep, Attach, SendLock, SendSignal, SendReturn, GetWait,
                TakeResponse, GetRelease, ShutdownQuit, ShutdownSignal, Crash, SendCall,
                GetCall, TryGet, CopyHandle
  <2>2. \A d \in Client : pc'[d] = "unquit" => pc[d] = "unquit" /\ call'[d] = call[d]
    <3>1. CASE ClientStep(c) \/ Attach(c) \/ ShutdownSignal(c) \/ Crash(c)
      BY <1>0, <1>5, <3>1, Zenon DEF ClientStep, Attach, SendLock, SendSignal, SendReturn, GetWait,
                GetRelease, ShutdownQuit, ShutdownSignal, Crash, Goto, ClientType
    <3>2. ASSUME NEW k \in Core, NEW xd \in BOOLEAN, SendCall(c, k, xd)
          PROVE  \A d \in Client : pc'[d] = "unquit" => pc[d] = "unquit" /\ call'[d] = call[d]
      BY <1>0, <3>2, Zenon DEF SendCall, Goto, ClientType
    <3>3. ASSUME NEW h \in handles[c], GetCall(c, h) \/ TryGet(c, h) \/ CopyHandle(c, h)
          PROVE  \A d \in Client : pc'[d] = "unquit" => pc[d] = "unquit" /\ call'[d] = call[d]
      BY <1>0, <3>3, Zenon DEF GetCall, TryGet, CopyHandle, Goto, ClientType
    <3> QED
      BY <1>5, <3>1, <3>2, <3>3, Zenon DEF ClientNext
  <2> QED
    BY <1>3, <2>1, <2>2, Zenon
<1>6. ~ServerQuit
  BY Zenon DEF HandInv, Handshake, ServerQuit
<1> QED
  BY <1>1, <1>2, <1>4, <1>5, <1>6, Zenon DEF Next, Finished, ServerNext, ClientNext, ClientStep

LEMMA ResponseNext ==
  ASSUME HandInv, SlotInv, OwnResponse, [Next]_vars
  PROVE  OwnResponse'
<1>1. ASSUME NEW c \in Client, NEW h \in Claims(c), TakeResponse(h) PROVE OwnResponse'
  <2>1. h.slot \in Slot /\ responses[h.slot] = h.cmd
    BY <1>1, Zenon DEF TakeResponse, SlotInv, HandlesOwn, ReadyOwn, Ready
  <2> QED
    BY <1>1, <2>1 DEF TakeResponse, OwnResponse
<1>2. ASSUME NEW c \in Client, GetWait(c) PROVE OwnResponse'
  BY <1>1, <1>2, Zenon DEF GetWait, Goto, Claims
<1>3. ASSUME NEW c \in Client, NEW h \in handles[c], TryGet(c, h) PROVE OwnResponse'
  BY <1>1, <1>3, Zenon DEF TryGet, Claims
<1>4. ASSUME got' = got PROVE OwnResponse'
  BY <1>4, Zenon DEF OwnResponse
<1>5. CASE ServerNext \/ UNCHANGED vars \/ \E k \in Core : Respond(k)
  BY <1>4, <1>5, Zenon DEF ServerNext, ServerStart, ServerWake, ServerAlloc, ServerQuit,
                    ServerSubmit, Respond, vars
<1>6. ASSUME NEW c \in Client, ClientNext(c), ~GetWait(c), \A h \in handles[c] : ~TryGet(c, h)
      PROVE  OwnResponse'
  <2>1. got' = got
    BY <1>6, Zenon DEF ClientNext, ClientStep, Attach, SendLock, SendSignal, SendAck, SendReturn,
                GetRelease, ShutdownQuit, ShutdownSignal, Crash, SendCall, GetCall, CopyHandle
  <2> QED
    BY <1>4, <2>1, Zenon
<1> QED
  BY <1>2, <1>3, <1>5, <1>6, Zenon DEF Next, Finished

LEMMA InvInit == Init => IInv
BY TypeInit, HandInit, SlotInit, Zenon DEF IInv, TypeInv, SlotInv, Init, AckMeansRead, OwnResponse

LEMMA InvStep ==
  ASSUME ~ Misuse, IInv, [Next]_vars
  PROVE  IInv'
<1>1. TypeInv /\ HandInv /\ SlotInv /\ AckMeansRead /\ OwnResponse
  BY Zenon DEF IInv, TypeInv, HandInv, SlotInv
<1>2. TypeInv' /\ OneSender' /\ Handshake' /\ SlotInv' /\ AckMeansRead' /\ OwnResponse'
  BY <1>1, TypeNext, HandNext, SlotNext, AckNext, ResponseNext, Zenon
<1> QED
  BY <1>2, Zenon DEF IInv, TypeInv, SlotInv

\* Clients that neither shut the server down nor copy their handles, however
\* many they are, whenever they start and whenever they are killed: the
\* invariant IInv holds.
THEOREM Invariance ==
  ASSUME Quitters = {}, Copiers = {}
  PROVE  Spec => []IInv
<1>1. Init => IInv  BY InvInit, Zenon
<1>2. ~ Misuse  BY Zenon DEF Misuse, ShutdownSignal, CopyHandle
<1>3. IInv /\ [Next]_vars => IInv'  BY <1>2, InvStep, Zenon
<1> QED
  BY <1>1, <1>3, PTL DEF Spec

\* For such clients: no response slot is ever in two places, and the slots of
\* a core's in_flight queue are those of the commands it works on; get and try_get
\* return the response to the caller's own command; and when send goes on, the
\* accelerator has its command and the handle is the command's own.
THEOREM SlotSafety ==
  ASSUME Quitters = {}, Copiers = {}
  PROVE  Spec => []OneOwner /\ []Routing /\ []OwnResponse /\ []AckMeansRead
<1>1. IInv => OneOwner /\ Routing /\ OwnResponse /\ AckMeansRead
  BY Zenon DEF IInv
<1> QED
  BY <1>1, Invariance, PTL

\* For such clients the daemon's assert(id != 0xffff) never fails.
THEOREM AssertSafety ==
  ASSUME Quitters = {}, Copiers = {}
  PROVE  Spec => []AssertHolds
<1>1. IInv => AssertHolds
  BY Zenon DEF IInv, Handshake, AssertHolds
<1> QED
  BY <1>1, Invariance, PTL

-----------------------------------------------------------------------------
(* Clients that do shut down or copy: up to there *)

\* A copied handle that a call has used is kept in the history.
CopiesKept ==
  \A c \in Client : call[c].copy =>
    pc[c] \in {"get", "fault"} \/ \E g \in got : g.handle = call[c]

UntilMisused == TypeInv /\ CopiesKept /\ SafeUntilMisused

\* What a step of client c does with its handles.
Follows(c) ==
  /\ \A d \in Client \ {c} : pc'[d] = pc[d] /\ call'[d] = call[d] /\ handles'[d] = handles[d]
  /\ got \subseteq got'
  /\ pc[c] \in {"sd_quit", "stopped"} => pc'[c] \in {"sd_quit", "stopped"}
  /\ \A h \in handles[c] : h \in handles'[c] \/ h = call'[c]
  /\ call'[c] = call[c] \/ pc[c] \notin {"get", "fault"}
  /\ call'[c].copy => pc'[c] \in {"get", "fault"} \/ \E g \in got' : g.handle = call'[c]

LEMMA Recorded ==
  ASSUME NEW h, TakeResponse(h)
  PROVE  (\E g \in got' : g.handle = h) /\ got \subseteq got'
<1>1. got' = got \cup {[handle |-> h, resp |-> responses[h.slot]]}  BY Zenon DEF TakeResponse
<1>2. [handle |-> h, resp |-> responses[h.slot]].handle = h  BY Zenon
<1> QED
  BY <1>1, <1>2, Zenon

LEMMA CopiesKeptStep ==
  ASSUME TypeInv, CopiesKept, [Next]_vars
  PROVE  CopiesKept' /\ (Proper' => Proper)
<1>0. ClientType /\ \A c \in Client : \A h \in handles[c] : h \in Handle
  BY Zenon DEF TypeInv, TypeOK, ClientType
<1>1. CASE UNCHANGED << pc, call, handles, got >>
  BY <1>1, Zenon DEF CopiesKept, Proper
<1>2. CASE ServerNext \/ UNCHANGED vars \/ \E k \in Core : Respond(k)
  BY <1>1, <1>2, Zenon DEF ServerNext, ServerStart, ServerWake, ServerAlloc, ServerQuit, ServerSubmit, Respond, vars
<1>3. ASSUME NEW c \in Client, Follows(c) PROVE CopiesKept' /\ (Proper' => Proper)
  <2>1. CopiesKept'
    BY <1>3, Zenon DEF Follows, CopiesKept
  <2>2. ASSUME Proper', NEW d \in Client
        PROVE  /\ pc[d] \notin {"sd_quit", "stopped"}
               /\ \A h \in handles[d] \cup {call[d]} \cup {g.handle : g \in got} : ~h.copy
    <3>1. pc[d] \notin {"sd_quit", "stopped"}
      BY <1>3, <2>2, Zenon DEF Follows, Proper
    <3>2. \A g \in got : ~g.handle.copy
      BY <1>3, <2>2, Zenon DEF Follows, Proper
    <3>3. \A h \in handles[d] : ~h.copy
      BY <1>3, <2>2, Zenon DEF Follows, Proper
    <3>4. ~call[d].copy
      BY <1>3, <2>2, <3>2, Zenon DEF Follows, Proper, CopiesKept
    <3> QED
      BY <3>1, <3>2, <3>3, <3>4, Zenon
  <2> QED
    BY <2>1, <2>2, Zenon DEF Proper
<1>4. ASSUME NEW c \in Client, ClientNext(c) PROVE Follows(c)
  <2>1. CASE \/ Attach(c) \/ ShutdownSignal(c) \/ Crash(c)
             \/ SendLock(c) \/ SendSignal(c) \/ SendReturn(c) \/ GetRelease(c) \/ ShutdownQuit(c)
    <3>1. call' = call /\ got' = got
      BY <2>1, Zenon DEF Attach, ShutdownSignal, Crash, SendLock, SendSignal, SendReturn, GetRelease, ShutdownQuit
    <3>2. /\ \A d \in Client \ {c} : pc'[d] = pc[d]
          /\ pc'[c] = pc[c] \/ pc[c] \notin {"get", "fault", "sd_quit", "stopped"} \/ pc'[c] = "stopped"
          /\ pc'[c] # pc[c] => pc[c] \notin {"get", "fault"}
      BY <1>0, <2>1, Zenon DEF Attach, ShutdownSignal, Crash, SendLock, SendSignal, SendReturn, GetRelease,
        ShutdownQuit, Goto, ClientType
    <3>3. /\ \A d \in Client \ {c} : handles'[d] = handles[d]
          /\ handles[c] \subseteq handles'[c]
      <4>1. CASE SendReturn(c)  BY <1>0, <4>1, Zenon DEF SendReturn, ClientType
      <4>2. CASE ~ SendReturn(c)
        BY <2>1, <4>2, Zenon DEF Attach, ShutdownSignal, Crash, SendLock, SendSignal, GetRelease, ShutdownQuit
      <4> QED
        BY <4>1, <4>2, Zenon
    <3>4. call[c].copy => pc[c] \in {"get", "fault"} \/ \E g \in got : g.handle = call[c]  BY ZenonT(40) DEF CopiesKept
    <3> QED
      BY <3>1, <3>2, <3>3, <3>4, Zenon DEF Follows
  <2>2. CASE SendAck(c) \/ \E k \in Core, xd \in BOOLEAN : SendCall(c, k, xd)
    BY <1>0, <2>2, SMTT(20) DEF Follows, SendAck, SendCall, HandleOf, Goto, ClientType
  <2>3. CASE GetWait(c)
    <3>1. /\ UNCHANGED << call, handles >> /\ pc[c] = "get" /\ pc' = [pc EXCEPT ![c] = "release"]
          /\ \E g \in got' : g.handle = call[c]
          /\ got \subseteq got'
      BY <2>3, Recorded, Zenon DEF GetWait, TakeResponse, Goto
    <3> QED
      BY <1>0, <3>1, Zenon DEF Follows, ClientType
  <2>4. ASSUME NEW h \in handles[c], TryGet(c, h) PROVE Follows(c)
    <3>1. /\ pc[c] = "idle" /\ pc' = [pc EXCEPT ![c] = "release"] /\ call' = [call EXCEPT ![c] = h]
          /\ handles' = [handles EXCEPT ![c] = @ \ {h}]
          /\ \E g \in got' : g.handle = h
          /\ got \subseteq got'
      BY <2>4, Recorded, Zenon DEF TryGet, TakeResponse, Goto
    <3> QED
      BY <1>0, <3>1, Zenon DEF Follows, ClientType
  <2>5. ASSUME NEW h \in handles[c], GetCall(c, h) PROVE Follows(c)
    BY <1>0, <2>5, Zenon DEF Follows, GetCall, Goto, ClientType
  <2>6. ASSUME NEW h \in handles[c], CopyHandle(c, h) PROVE Follows(c)
    <3>1. /\ UNCHANGED << pc, call, got >> /\ pc[c] = "idle"
          /\ handles' = [handles EXCEPT ![c] = @ \cup {HandleOf(h.cmd, h.slot, TRUE)}]
      BY <2>6, Zenon DEF CopyHandle
    <3>2. call[c].copy => \E g \in got : g.handle = call[c]  BY <3>1, Zenon DEF CopiesKept
    <3> QED
      BY <1>0, <3>1, <3>2, Zenon DEF Follows, ClientType
  <2> QED
    BY <1>4, <2>1, <2>2, <2>3, <2>4, <2>5, <2>6, Zenon DEF ClientNext, ClientStep
<1> QED
  BY <1>2, <1>3, <1>4, Zenon DEF Next, Finished

\* No assumption on the clients: they may come early, die at any point, copy
\* handles and call shutdown().  Until one of them has done one of the last
\* two, no slot has two owners and every response reaches its own call.
THEOREM MisuseSafety == Spec => []SafeUntilMisused
<1>1. Init => UntilMisused
  <2>1. Init => CopiesKept  BY DEF Init, CopiesKept, NoHandle, HandleOf
  <2> QED
    BY <2>1, InvInit, TypeInit, ZenonT(40) DEF UntilMisused, SafeUntilMisused
<1>2. UntilMisused /\ [Next]_vars => UntilMisused'
  <2> SUFFICES ASSUME UntilMisused, [Next]_vars PROVE UntilMisused'
    BY Zenon
  <2>1. TypeInv' /\ CopiesKept' /\ (Proper' => Proper)
    BY TypeNext, CopiesKeptStep, Zenon DEF UntilMisused
  <2>2. Proper' => ~ Misuse
    <3>1. ASSUME NEW c \in Client, ShutdownSignal(c) PROVE ~ Proper'
      BY <3>1, Zenon DEF UntilMisused, TypeInv, TypeOK, ClientType, ShutdownSignal, Goto, Proper
    <3>2. ASSUME NEW c \in Client, NEW h \in handles[c], CopyHandle(c, h) PROVE ~ Proper'
      <4>1. HandleOf(h.cmd, h.slot, TRUE) \in handles'[c]
        BY <3>2, Zenon DEF UntilMisused, TypeInv, TypeOK, ClientType, CopyHandle
      <4> QED
        BY <4>1 DEF Proper, HandleOf
    <3> QED
      BY <3>1, <3>2, Zenon DEF Misuse
  <2> QED
    BY <2>1, <2>2, InvStep, Zenon DEF UntilMisused, SafeUntilMisused
<1>3. UntilMisused => SafeUntilMisused
  BY Zenon DEF UntilMisused
<1> QED
  BY <1>1, <1>2, <1>3, PTL DEF Spec

-----------------------------------------------------------------------------
(* The abstract remote call *)

\* The command of client c has still to be given to the accelerator.
Unsent(c) ==
  \/ pc[c] \in {"lock", "signal"}
  \/ pc[c] = "ack" /\ cmd_recieve_server_resp_lock

\* A number names one command, and no command sent so far is forgotten.
Numbered ==
  /\ \A m \in Named : m.id \in 0 .. issued
  /\ \A m, n \in Named : m.id = n.id => m = n
  /\ \A i \in 1 .. issued : \E m \in Named : m.id = i

\* A command that is unsent is one client's alone; all others were given to
\* the accelerator.
Callers ==
  /\ \A c \in Client : Unsent(c) => call[c].cmd.id # 0 /\ call[c].cmd \notin Sent
  /\ \A c, d \in Client : Unsent(c) /\ Unsent(d) /\ call[c].cmd = call[d].cmd => c = d
  /\ \A c \in Client : Unsent(c) \/ call[c].cmd \in Sent \cup {ZeroCmd}
  /\ \A c \in Client : \A h \in handles[c] : h.cmd \in Sent
  /\ \A m \in Sent : m.id # 0

\* A command given to the accelerator is in one place: in the queue of its
\* core, in a slot with its response, or read.
Tracked ==
  /\ \A k \in Core : \A i \in DOMAIN pending[k] :
       /\ pending[k][i] \in Sent
       /\ pending[k][i] \notin Read /\ pending[k][i] \notin Waiting
       /\ pending[k][i].xd /\ pending[k][i].core = k
  /\ \A k \in Core : \A i, j \in DOMAIN pending[k] : pending[k][i] = pending[k][j] => i = j
  /\ Waiting \subseteq Sent
  /\ \A m \in Waiting : m \notin Read
  /\ \A s, t \in Slot : Ready(s) /\ Ready(t) /\ responses[s] = responses[t] => s = t
  /\ Read \subseteq Sent

CallInv == Numbered /\ Callers /\ Tracked

LEMMA RpcInit == Init => CallInv /\ Rpc!Init
<1> SUFFICES ASSUME Init PROVE CallInv /\ Rpc!Init
  BY Zenon
<1>1. issued = 0 /\ delivered = << >> /\ got = {} /\ pending = [k \in Core |-> << >>]
  BY Zenon DEF Init
<1>2. \A s \in Slot : ~ Ready(s)
  BY Zenon DEF Init, Ready
<1>3. DOMAIN delivered = {} /\ \A k \in Core : pending[k] = << >> /\ DOMAIN pending[k] = {}
  BY <1>1
<1>4. Sent = {} /\ Read = {} /\ Waiting = {}
  BY <1>1, <1>2, <1>3, Zenon DEF Sent, Read, Waiting
<1>5. \A c \in Client : call[c].cmd = ZeroCmd /\ pc[c] = "new" /\ handles[c] = {}
  BY DEF Init, NoHandle, HandleOf
<1>6. \A m \in Named : m = ZeroCmd
  BY <1>4, <1>5, Zenon DEF Named
<1>7. ZeroCmd.id = 0
  BY DEF ZeroCmd
<1>8. Numbered
  BY <1>1, <1>6, <1>7 DEF Numbered
<1>9. Callers /\ Tracked
  BY <1>2, <1>3, <1>4, <1>5, Zenon DEF Callers, Tracked, Unsent
<1>10. \A i \in 1 .. MaxCmds : ~(i <= issued)
  BY <1>1, ConstantsAssumption
<1>11. \A i \in 1 .. MaxCmds : StageOf(i) = "unsent" /\ CommandOf(i) = [core |-> "none", xd |-> FALSE]
  BY <1>4, <1>10, Zenon DEF StageOf, CommandOf
<1>12. \A k \in Core : [j \in DOMAIN pending[k] |-> pending[k][j].id] = << >>
  BY <1>3
<1> QED
  BY <1>8, <1>9, <1>11, <1>12, Zenon DEF CallInv, Rpc!Init, Rpc!Id, Rpc!NoCommand

\* The steps that send no new command keep what the numbers stand for.
LEMMA NumberedKept ==
  ASSUME Numbered, Callers, UNCHANGED issued,
         Sent \subseteq Sent', Sent' \subseteq Named,
         \A c \in Client : call'[c].cmd = call[c].cmd \/ (~Unsent(c) /\ call'[c].cmd \in Sent)
  PROVE  Numbered' /\ \A i \in 1 .. MaxCmds : CommandOf(i)' = CommandOf(i)
<1>1. Named' \subseteq Named
  BY Zenon DEF Named
<1>2. \A m \in Named : m.id # 0 => m \in Named'
  <2> SUFFICES ASSUME NEW m \in Named, m.id # 0 PROVE m \in Named'
    BY Zenon
  <2>1. CASE m \in Sent
    BY <2>1, Zenon DEF Named
  <2>2. ASSUME NEW c \in Client, m = call[c].cmd, m \notin Sent PROVE m \in Named'
    <3>1. m # ZeroCmd
      BY DEF ZeroCmd
    <3>2. call'[c].cmd = m
      BY <2>2, <3>1, Zenon DEF Callers
    <3> QED
      BY <3>2, Zenon DEF Named
  <2> QED
    BY <2>1, <2>2, Zenon DEF Named
<1>3. \A i \in 1 .. issued : i # 0
  BY SMT
<1>4. Numbered'
  BY <1>1, <1>2, <1>3, Zenon DEF Numbered
<1> SUFFICES ASSUME NEW i \in 1 .. MaxCmds PROVE CommandOf(i)' = CommandOf(i)
  BY <1>4, Zenon
<1>5. CASE i <= issued
  <2>1. i \in 1 .. issued
    BY <1>5, ConstantsAssumption
  <2>2. PICK m \in Named : m.id = i
    BY <2>1, Zenon DEF Numbered
  <2>3. m \in Named'
    BY <1>2, <1>3, <2>1, <2>2, Zenon
  <2>4. (CHOOSE x \in Named : x.id = i) = m /\ (CHOOSE x \in Named' : x.id = i) = m
    BY <1>1, <2>2, <2>3, Zenon DEF Numbered
  <2> QED
    BY <1>5, <2>4, Zenon DEF CommandOf
<1> QED
  BY <1>5, Zenon DEF CommandOf

\* A step that changes nothing the abstract call shows.
LEMMA RpcQuiet ==
  ASSUME CallInv, UNCHANGED << issued, delivered, pending, got, slots >>,
         \A c \in Client : Unsent(c)' <=> Unsent(c),
         \A c \in Client : call'[c].cmd = call[c].cmd \/ (~Unsent(c) /\ call'[c].cmd \in Sent),
         \A c \in Client : \A h \in handles'[c] : h.cmd \in Sent
  PROVE  CallInv' /\ UNCHANGED Rpc!vars
<1>1. Sent' = Sent /\ Read' = Read /\ Waiting' = Waiting
  BY Zenon DEF Sent, Read, Waiting, Ready
<1>2. Numbered' /\ \A i \in 1 .. MaxCmds : CommandOf(i)' = CommandOf(i)
  BY <1>1, NumberedKept, Zenon DEF CallInv, Named
<1>3. Callers'
  BY <1>1, Zenon DEF CallInv, Callers
<1>4. Tracked'
  BY <1>1, Zenon DEF CallInv, Tracked, Ready
<1>5. \A i \in 1 .. MaxCmds : StageOf(i)' = StageOf(i)
  BY <1>1, Zenon DEF StageOf
<1> QED
  BY <1>2, <1>3, <1>4, <1>5, Zenon DEF CallInv, Rpc!vars

LEMMA RpcServer ==
  ASSUME IInv, CallInv, ServerStart \/ ServerWake \/ ServerAlloc \/ ServerQuit
  PROVE  CallInv' /\ UNCHANGED Rpc!vars
<1>1. UNCHANGED << issued, delivered, pending, got, slots, pc, call, handles,
                   cmd_recieve_server_resp_lock >>
  BY Zenon DEF ServerStart, ServerWake, ServerAlloc, ServerQuit
<1>2. \A c \in Client : Unsent(c)' <=> Unsent(c)
  BY <1>1, Zenon DEF Unsent
<1> QED
  BY <1>1, <1>2, RpcQuiet, Zenon DEF CallInv, Callers

\* A client goes on while cmd_recieve_server_resp_lock stays as it is.
LEMMA RpcGoto ==
  ASSUME CallInv, NEW c \in Client, NEW to, IInv,
         pc' = [pc EXCEPT ![c] = to],
         UNCHANGED << issued, delivered, pending, got, slots, cmd_recieve_server_resp_lock >>,
         Unsent(c)' <=> Unsent(c),
         \A d \in Client : d # c => call'[d] = call[d] /\ handles'[d] = handles[d],
         call'[c].cmd = call[c].cmd \/ (~Unsent(c) /\ call'[c].cmd \in Sent),
         \A h \in handles'[c] : h.cmd \in Sent
  PROVE  CallInv' /\ UNCHANGED Rpc!vars
<1>1. \A d \in Client : d # c => pc'[d] = pc[d]
  BY Zenon DEF IInv, TypeOK, ClientType
<1>2. \A d \in Client : Unsent(d)' <=> Unsent(d)
  BY <1>1, Zenon DEF Unsent
<1>3. \A d \in Client : call'[d].cmd = call[d].cmd \/ (~Unsent(d) /\ call'[d].cmd \in Sent)
  BY Zenon
<1>4. \A d \in Client : \A h \in handles'[d] : h.cmd \in Sent
  BY Zenon DEF CallInv, Callers
<1> QED
  BY <1>2, <1>3, <1>4, RpcQuiet, Zenon

LEMMA RpcClient ==
  ASSUME IInv, CallInv, NEW c \in Client,
         \/ Attach(c) \/ SendLock(c) \/ SendSignal(c) \/ SendAck(c) \/ SendReturn(c)
         \/ GetRelease(c) \/ ShutdownQuit(c) \/ ShutdownSignal(c) \/ Crash(c)
         \/ \E h \in handles[c] : GetCall(c, h)
  PROVE  CallInv' /\ UNCHANGED Rpc!vars
<1>0. ClientType /\ MutexType /\ Handshake /\ OneSender /\ Callers
  BY Zenon DEF IInv, TypeOK, CallInv
<1>a. \A to : pc' = [pc EXCEPT ![c] = to] => pc'[c] = to
  BY <1>0, Zenon DEF ClientType
<1>b. \A h \in handles[c] : h.cmd \in Sent
  BY <1>0, Zenon DEF Callers
<1>1. CASE Attach(c)
  <2>1. pc[c] = "new" /\ pc'[c] = "idle"
    BY <1>1, <1>a, Zenon DEF Attach, Goto
  <2>2. Unsent(c)' <=> Unsent(c)
    BY <2>1, Zenon DEF Unsent
  <2> QED
    BY <1>1, <1>b, <2>2, RpcGoto, Zenon DEF Attach, Goto
<1>2. CASE SendLock(c)
  <2>1. pc[c] = "lock" /\ pc'[c] = "signal"
    BY <1>2, <1>a, Zenon DEF SendLock, Goto
  <2>2. Unsent(c)' <=> Unsent(c)
    BY <2>1, Zenon DEF Unsent
  <2> QED
    BY <1>2, <1>b, <2>2, RpcGoto, Zenon DEF SendLock, Goto
<1>3. CASE SendSignal(c)
  <2>1. pc[c] = "signal" /\ pc'[c] = "ack" /\ UNCHANGED cmd_recieve_server_resp_lock
    BY <1>3, <1>a, Zenon DEF SendSignal, Goto
  <2>2. \A d \in Client : pc[d] # "ack"
    BY <1>0, <2>1, Zenon DEF OneSender, InSend
  <2>3. cmd_recieve_server_resp_lock
    BY <1>0, <2>2, Zenon DEF Handshake
  <2>4. Unsent(c)' <=> Unsent(c)
    BY <2>1, <2>3, Zenon DEF Unsent
  <2> QED
    BY <1>3, <1>b, <2>4, RpcGoto, Zenon DEF SendSignal, Goto
<1>4. CASE SendAck(c)
  <2>1. pc[c] = "ack" /\ pc'[c] = "unquit" /\ ~cmd_recieve_server_resp_lock
    BY <1>4, <1>a, Zenon DEF SendAck, Goto
  <2>2. ~Unsent(c)' /\ ~Unsent(c)
    BY <2>1, Zenon DEF Unsent
  <2>3. \A d \in Client : d # c => pc[d] # "ack" /\ pc'[d] = pc[d]
    BY <1>0, <1>4, <2>1, Zenon DEF OneSender, InSend, SendAck, Goto, ClientType
  <2>4. \A d \in Client : Unsent(d)' <=> Unsent(d)
    BY <2>2, <2>3, ZenonT(40) DEF Unsent
  <2>5. \A d \in Client : call'[d].cmd = call[d].cmd
    BY <1>0, <1>4 DEF SendAck, HandleOf, ClientType
  <2>6. UNCHANGED << issued, delivered, pending, got, slots, handles >>
    BY <1>4, Zenon DEF SendAck
  <2> QED
    BY <1>0, <2>4, <2>5, <2>6, RpcQuiet, Zenon DEF Callers
<1>5. CASE SendReturn(c)
  <2>1. pc[c] = "unquit" /\ pc'[c] = "idle"
    BY <1>5, <1>a, Zenon DEF SendReturn, Goto
  <2>2. Unsent(c)' <=> Unsent(c)
    BY <2>1, Zenon DEF Unsent
  <2>3. call[c].cmd \in Sent
    BY <2>1, Zenon DEF IInv, AckMeansRead, Given, Sent
  <2>4. handles'[c] \subseteq handles[c] \cup {call[c]}
    BY <1>0, <1>5, Zenon DEF SendReturn, ClientType
  <2>5. \A d \in Client : d # c => handles'[d] = handles[d]
    BY <1>0, <1>5, Zenon DEF SendReturn, ClientType
  <2> QED
    BY <1>5, <1>b, <2>2, <2>3, <2>4, <2>5, RpcGoto, Zenon DEF SendReturn, Goto
<1>6. CASE GetRelease(c)
  <2>1. PICK to \in {"idle", "fault"} : pc[c] = "release" /\ pc' = [pc EXCEPT ![c] = to]
    BY <1>6, Zenon DEF GetRelease, Goto
  <2>2. Unsent(c)' <=> Unsent(c)
    BY <1>a, <2>1, Zenon DEF Unsent
  <2> QED
    BY <1>6, <1>b, <2>1, <2>2, RpcGoto, Zenon DEF GetRelease
<1>7. CASE ShutdownQuit(c)
  BY <1>0, <1>7, Zenon DEF ShutdownQuit, Goto, Handshake
<1>8. CASE ShutdownSignal(c)
  <2>1. pc[c] = "idle" /\ pc'[c] = "sd_quit"
    BY <1>8, <1>a, Zenon DEF ShutdownSignal, Goto
  <2>2. Unsent(c)' <=> Unsent(c)
    BY <2>1, Zenon DEF Unsent
  <2> QED
    BY <1>8, <1>b, <2>2, RpcGoto, Zenon DEF ShutdownSignal, Goto
<1>9. CASE Crash(c)
  <2>1. UNCHANGED << issued, delivered, pending, got, slots, pc, call, handles,
                     cmd_recieve_server_resp_lock >>
    BY <1>9, Zenon DEF Crash
  <2>2. \A d \in Client : Unsent(d)' <=> Unsent(d)
    BY <2>1, Zenon DEF Unsent
  <2> QED
    BY <1>0, <2>1, <2>2, RpcQuiet, Zenon DEF Callers
<1>10. ASSUME NEW h \in handles[c], GetCall(c, h) PROVE CallInv' /\ UNCHANGED Rpc!vars
  <2>1. PICK to \in {"get", "fault"} : pc[c] = "idle" /\ pc' = [pc EXCEPT ![c] = to]
    BY <1>10, Zenon DEF GetCall, Goto
  <2>2. ~Unsent(c)' /\ ~Unsent(c)
    BY <1>a, <2>1, Zenon DEF Unsent
  <2>3. call'[c] = h /\ handles'[c] \subseteq handles[c]
    BY <1>0, <1>10, ZenonT(40) DEF GetCall, ClientType
  <2>4. \A d \in Client : d # c => call'[d] = call[d] /\ handles'[d] = handles[d]
    BY <1>0, <1>10, Zenon DEF GetCall, ClientType
  <2> QED
    BY <1>10, <1>b, <2>1, <2>2, <2>3, <2>4, RpcGoto, Zenon DEF GetCall
<1> QED
  BY <1>1, <1>2, <1>3, <1>4, <1>5, <1>6, <1>7, <1>8, <1>9, <1>10, Zenon

\* One command goes from one stage to another.
LEMMA StageMoves ==
  ASSUME NEW i \in 1 .. MaxCmds, NEW from, NEW to, StageOf(i) = from, StageOf(i)' = to,
         \A j \in 1 .. MaxCmds : j # i => StageOf(j)' = StageOf(j)
  PROVE  Rpc!Move(i, from, to)
BY Zenon DEF Rpc!Move

LEMMA RpcSend ==
  ASSUME IInv, CallInv, NEW c \in Client, NEW k \in Core, NEW xd \in BOOLEAN, SendCall(c, k, xd)
  PROVE  CallInv' /\ Rpc!Next
<1>0. ClientType /\ HistoryType /\ Numbered /\ Callers /\ Tracked
  BY Zenon DEF IInv, TypeOK, CallInv
<1>p. PICK i0 \in 1 .. MaxCmds : i0 = issued + 1
  BY <1>0, ConstantsAssumption DEF SendCall, HistoryType
<1> DEFINE m == [id |-> i0, core |-> k, xd |-> xd]
<1>1. UNCHANGED << delivered, pending, got, slots, handles, cmd_recieve_server_resp_lock >>
  BY Zenon DEF SendCall
<1>2. Sent' = Sent /\ Read' = Read /\ Waiting' = Waiting
  BY <1>1, Zenon DEF Sent, Read, Waiting, Ready
<1>3. i0 \in 1 .. MaxCmds /\ issued' = i0 /\ issued \in Nat
  BY <1>0, <1>p, SMTT(20) DEF SendCall, HistoryType
<1>4. call'[c].cmd = m /\ \A d \in Client : d # c => call'[d] = call[d]
  BY <1>0, <1>p DEF SendCall, HandleOf, ClientType
<1>5. pc[c] = "idle" /\ pc'[c] = "lock" /\ \A d \in Client : d # c => pc'[d] = pc[d]
  BY <1>0, Zenon DEF SendCall, Goto, ClientType
<1>6. ~Unsent(c) /\ Unsent(c)'
  BY <1>5, Zenon DEF Unsent
<1>7. \A d \in Client : d # c => (Unsent(d)' <=> Unsent(d))
  BY <1>1, <1>5, Zenon DEF Unsent
<1>8. call[c].cmd \in Sent \cup {ZeroCmd}
  BY <1>0, <1>6, Zenon DEF Callers
<1>9. m.id = i0 /\ m.core = k /\ m.xd = xd /\ i0 # 0 /\ ZeroCmd.id = 0
  BY <1>3 DEF ZeroCmd
<1>10. \A x \in Named : x.id # i0 /\ x.id \in 0 .. i0
  BY <1>0, <1>3, <1>p DEF Numbered
<1> HIDE DEF m
<1>11. Named' \subseteq Named \cup {m} /\ m \in Named'
  BY <1>2, <1>4, Zenon DEF Named
<1>12. \A x \in Named : x.id # 0 => x \in Named'
  <2> SUFFICES ASSUME NEW x \in Named, x.id # 0 PROVE x \in Named'
    BY Zenon
  <2>1. CASE x \in Sent
    BY <1>2, <2>1, Zenon DEF Named
  <2>2. ASSUME NEW d \in Client, x = call[d].cmd, x \notin Sent PROVE x \in Named'
    <3>1. d # c
      BY <1>8, <1>9, <2>2, Zenon
    <3> QED
      BY <1>4, <2>2, <3>1, Zenon DEF Named
  <2> QED
    BY <2>1, <2>2, Zenon DEF Named
<1>13. i0 \in 0 .. i0 /\ \A i \in 1 .. i0 : i # 0 /\ (i # i0 => i \in 1 .. issued /\ i <= issued)
  BY <1>3, <1>p
<1>14. Numbered'
  <2>1. \A x \in Named' : x.id \in 0 .. issued'
    BY <1>3, <1>9, <1>10, <1>11, <1>13, Zenon
  <2>2. \A x, y \in Named' : x.id = y.id => x = y
    BY <1>0, <1>9, <1>10, <1>11, Zenon DEF Numbered
  <2>3. \A i \in 1 .. issued' : \E x \in Named' : x.id = i
    BY <1>0, <1>3, <1>9, <1>11, <1>12, <1>13, Zenon DEF Numbered
  <2> QED
    BY <2>1, <2>2, <2>3, Zenon DEF Numbered
<1>15. m \notin Sent /\ \A d \in Client : call[d].cmd # m
  BY <1>9, <1>10, Zenon DEF Named
<1>16. Callers'
  <2>1. \A d \in Client : Unsent(d)' => call'[d].cmd.id # 0 /\ call'[d].cmd \notin Sent'
    BY <1>0, <1>2, <1>4, <1>7, <1>9, <1>15, Zenon DEF Callers
  <2>2. \A d, e \in Client : Unsent(d)' /\ Unsent(e)' /\ call'[d].cmd = call'[e].cmd => d = e
    BY <1>0, <1>4, <1>7, <1>15, Zenon DEF Callers
  <2>3. \A d \in Client : Unsent(d)' \/ call'[d].cmd \in Sent' \cup {ZeroCmd}
    BY <1>0, <1>2, <1>4, <1>6, <1>7, Zenon DEF Callers
  <2> QED
    BY <1>0, <1>1, <1>2, <2>1, <2>2, <2>3, Zenon DEF Callers
<1>17. Tracked'
  BY <1>0, <1>1, <1>2, Zenon DEF Tracked, Ready
<1>18. \A x : x \in Sent \/ x \in Read \/ x \in Waiting => x.id # i0
  BY <1>0, <1>10, Zenon DEF Tracked, Named
<1>19. ~(i0 <= issued) /\ i0 <= i0
  BY <1>3, <1>p
<1>20. StageOf(i0) = "unsent" /\ StageOf(i0)' = "sent"
  BY <1>2, <1>3, <1>18, <1>19, Zenon DEF StageOf
<1>21. \A j \in 1 .. MaxCmds : j # i0 => (j <= i0 <=> j <= issued)
  BY <1>3, <1>p
<1>22. \A j \in 1 .. MaxCmds : j # i0 => StageOf(j)' = StageOf(j)
  BY <1>2, <1>3, <1>21, Zenon DEF StageOf
<1>23. CommandOf(i0)' = [core |-> k, xd |-> xd]
  <2>1. (CHOOSE x \in Named' : x.id = i0) = m
    BY <1>9, <1>11, <1>14, Zenon DEF Numbered
  <2> QED
    BY <1>3, <1>9, <1>19, <2>1, Zenon DEF CommandOf
<1>24. \A j \in 1 .. MaxCmds : j # i0 => CommandOf(j)' = CommandOf(j)
  <2> SUFFICES ASSUME NEW j \in 1 .. MaxCmds, j # i0 PROVE CommandOf(j)' = CommandOf(j)
    BY Zenon
  <2>1. CASE j <= issued
    <3>1. j \in 1 .. issued /\ j # 0
      BY <1>3, <2>1
    <3>2. PICK x \in Named : x.id = j
      BY <1>0, <3>1, Zenon DEF Numbered
    <3>3. x \in Named'
      BY <1>12, <3>1, <3>2, Zenon
    <3>4. (CHOOSE y \in Named : y.id = j) = x /\ (CHOOSE y \in Named' : y.id = j) = x
      BY <1>0, <1>14, <3>2, <3>3, Zenon DEF Numbered
    <3> QED
      BY <1>3, <1>21, <2>1, <3>4, Zenon DEF CommandOf
  <2>2. CASE ~(j <= issued)
    BY <1>3, <1>21, <2>2, Zenon DEF CommandOf
  <2> QED
    BY <2>1, <2>2, Zenon
<1>25. [j \in 1 .. MaxCmds |-> CommandOf(j)]' =
         [[j \in 1 .. MaxCmds |-> CommandOf(j)] EXCEPT ![i0] = [core |-> k, xd |-> xd]]
  BY <1>3, <1>23, <1>24, Zenon
<1>26. Rpc!Move(i0, "unsent", "sent")
  BY <1>3, <1>20, <1>22, StageMoves, Zenon
<1>27. Rpc!Send(i0)
  BY <1>1, <1>25, <1>26, Zenon DEF Rpc!Send
<1> QED
  BY <1>3, <1>14, <1>16, <1>17, <1>27, Zenon DEF CallInv, Rpc!Next, Rpc!Id

\* Sequences of commands and the sequences of their numbers.
LEMMA AppendCmd ==
  ASSUME NEW q \in Seq(Cmd), NEW m \in Cmd
  PROVE  /\ DOMAIN Append(q, m) = DOMAIN q \cup {Len(q) + 1}
         /\ Append(q, m)[Len(q) + 1] = m
         /\ \A i \in DOMAIN q : Append(q, m)[i] = q[i]
<1>1. DOMAIN Append(q, m) = 1 .. Len(q) + 1 /\ DOMAIN q = 1 .. Len(q) /\ Len(q) \in Nat
  OBVIOUS
<1>2. 1 .. Len(q) + 1 = (1 .. Len(q)) \cup {Len(q) + 1}
  BY <1>1
<1>3. Append(q, m)[Len(q) + 1] = m /\ \A i \in DOMAIN q : Append(q, m)[i] = q[i]
  OBVIOUS
<1> QED
  BY <1>1, <1>2, <1>3, Zenon

LEMMA IdsSeq ==
  ASSUME NEW q \in Seq(Cmd)
  PROVE  /\ [j \in DOMAIN q |-> q[j].id] \in Seq(Int)
         /\ Len([j \in DOMAIN q |-> q[j].id]) = Len(q)
         /\ \A i \in 1 .. Len(q) : [j \in DOMAIN q |-> q[j].id][i] = q[i].id
<1> DEFINE r == [j \in DOMAIN q |-> q[j].id]
<1>1. Len(q) \in Nat /\ DOMAIN q = 1 .. Len(q) /\ \A j \in DOMAIN q : q[j] \in Cmd
  OBVIOUS
<1>2. \A x \in Cmd : x.id \in Int
  BY DEF Cmd
<1>3. r \in [1 .. Len(q) -> Int] /\ DOMAIN r = 1 .. Len(q)
  BY <1>1, <1>2, Zenon
<1>4. r \in Seq(Int)
  BY <1>1, <1>3
<1> QED
  BY <1>1, <1>3, <1>4

LEMMA AppendIds ==
  ASSUME NEW q \in Seq(Cmd), NEW m \in Cmd
  PROVE  [j \in DOMAIN Append(q, m) |-> Append(q, m)[j].id] = Append([j \in DOMAIN q |-> q[j].id], m.id)
<1> DEFINE r == [j \in DOMAIN q |-> q[j].id]
<1>0. r \in Seq(Int) /\ Len(r) = Len(q)
  BY IdsSeq, Zenon
<1>1. r \in Seq(Int) /\ Len(r) = Len(q) /\ m.id \in Int
  BY <1>0 DEF Cmd
<1>2. \A j \in 1 .. Len(q) : r[j] = q[j].id
  BY IdsSeq, Zenon
<1> HIDE DEF r
<1>3. DOMAIN Append(r, m.id) = 1 .. Len(q) + 1
  BY <1>1
<1>4. \A j \in 1 .. Len(q) + 1 : Append(r, m.id)[j] = Append(q, m)[j].id
  BY <1>1, <1>2
<1>5. DOMAIN Append(q, m) = 1 .. Len(q) + 1
  OBVIOUS
<1>6. Append(r, m.id) \in Seq(Int)
  BY <1>1
<1>7. Append(r, m.id) = [j \in DOMAIN Append(q, m) |-> Append(q, m)[j].id]
  BY <1>3, <1>4, <1>5, <1>6
<1> QED
  BY <1>7 DEF r

LEMMA TailCmd ==
  ASSUME NEW q \in Seq(Cmd), q # << >>, NEW r, r = Tail(q)
  PROVE  /\ 1 \in DOMAIN q /\ Head(q) = q[1]
         /\ \A i \in DOMAIN r : i + 1 \in DOMAIN q /\ r[i] = q[i + 1] /\ i + 1 # 1
         /\ \A i, j \in DOMAIN r : i + 1 = j + 1 => i = j
BY SMT

LEMMA TailIds ==
  ASSUME NEW q \in Seq(Cmd), q # << >>, NEW p, p = Tail(q)
  PROVE  /\ [j \in DOMAIN p |-> p[j].id] = Tail([j \in DOMAIN q |-> q[j].id])
         /\ Head([j \in DOMAIN q |-> q[j].id]) = q[1].id
<1> DEFINE r == [j \in DOMAIN q |-> q[j].id]
<1>0. r \in Seq(Int) /\ Len(r) = Len(q)
  BY IdsSeq, Zenon
<1>2. \A j \in 1 .. Len(q) : r[j] = q[j].id
  BY IdsSeq, Zenon
<1>1. r \in Seq(Int) /\ Len(r) = Len(q) /\ Len(q) \in Nat \ {0}
  BY <1>0
<1> HIDE DEF r
<1>3. DOMAIN Tail(r) = 1 .. Len(q) - 1 /\ DOMAIN p = 1 .. Len(q) - 1
  BY <1>1
<1>4. \A j \in 1 .. Len(q) - 1 : Tail(r)[j] = p[j].id
  BY <1>1, <1>2
<1>a. Tail(r) \in Seq(Int)
  BY <1>1
<1>b. \A t \in Seq(Int) : t = [j \in DOMAIN t |-> t[j]]
  BY SMT
<1>5. Tail(r) = [j \in DOMAIN p |-> p[j].id]
  BY <1>3, <1>4, <1>a, <1>b, Zenon
<1>6. Head(r) = q[1].id
  BY <1>1, <1>2
<1> QED
  BY <1>5, <1>6 DEF r

\* What a number stands for.
LEMMA CommandIs ==
  ASSUME Numbered, HistoryType, NEW m \in Named, m.id # 0
  PROVE  /\ m.id \in 1 .. MaxCmds /\ m.id <= issued
         /\ CommandOf(m.id) = [core |-> m.core, xd |-> m.xd]
<1>1. m.id \in 0 .. issued /\ issued \in 0 .. MaxCmds
  BY Zenon DEF Numbered, HistoryType
<1>2. m.id \in 1 .. MaxCmds /\ m.id <= issued
  BY <1>1, ConstantsAssumption
<1>3. (CHOOSE x \in Named : x.id = m.id) = m
  BY Zenon DEF Numbered
<1> QED
  BY <1>2, <1>3, Zenon DEF CommandOf

LEMMA RpcSubmit ==
  ASSUME IInv, CallInv, ServerSubmit
  PROVE  CallInv' /\ Rpc!Next
<1>0. /\ ClientType /\ MutexType /\ HistoryType /\ DaemonType /\ MessageType
      /\ Handshake /\ OneSender /\ Numbered /\ Callers /\ Tracked
  BY Zenon DEF IInv, TypeOK, CallInv
<1>1. PICK m \in Cmd : m = cmd
  BY <1>0, Zenon DEF MessageType
<1>2. PICK c \in Client : pc[c] = "ack"
  BY <1>0, Zenon DEF Handshake, ServerSubmit
<1>3. cmd_recieve_server_resp_lock /\ call[c].cmd = m
  BY <1>0, <1>1, <1>2, Zenon DEF Handshake, ServerSubmit, InSend
<1>4. Unsent(c)
  BY <1>2, <1>3, Zenon DEF Unsent
<1>5. m.id # 0 /\ m \notin Sent /\ m \in Named
  BY <1>0, <1>3, <1>4, Zenon DEF Callers, Named
<1>6. /\ UNCHANGED << slots, got, issued, pc, call, handles >>
      /\ ~cmd_recieve_server_resp_lock'
      /\ delivered' = Append(delivered, m)
      /\ IF m.xd THEN pending' = [pending EXCEPT ![m.core] = Append(@, m)]
                 ELSE UNCHANGED pending
  BY <1>0, <1>1, Zenon DEF ServerSubmit, Handshake
<1>7. Read' = Read /\ Waiting' = Waiting
  BY <1>6, Zenon DEF Read, Waiting, Ready
<1>8. Sent' = Sent \cup {m}
  <2>1. delivered \in Seq(Cmd)
    BY <1>0, Zenon DEF DaemonType
  <2>2. /\ DOMAIN delivered' = DOMAIN delivered \cup {Len(delivered) + 1}
        /\ delivered'[Len(delivered) + 1] = m
        /\ \A j \in DOMAIN delivered : delivered'[j] = delivered[j]
    BY <1>6, <2>1, AppendCmd, Zenon
  <2>5. Sent' \subseteq Sent \cup {m}
    BY <2>2, Zenon DEF Sent
  <2>6. Sent \subseteq Sent'
    BY <2>2, Zenon DEF Sent
  <2>7. m \in Sent'
    BY <2>2, Zenon DEF Sent
  <2> QED
    BY <2>5, <2>6, <2>7, Zenon
<1>9. Numbered' /\ \A i \in 1 .. MaxCmds : CommandOf(i)' = CommandOf(i)
  <2>1. Sent' \subseteq Named
    BY <1>5, <1>8, Zenon DEF Named
  <2> QED
    BY <1>0, <1>6, <1>8, <2>1, NumberedKept, Zenon
<1>10. \A d \in Client : d # c => pc[d] # "ack"
  BY <1>0, <1>2, Zenon DEF OneSender, InSend
<1>11. ~Unsent(c)' /\ \A d \in Client : d # c => (Unsent(d)' <=> Unsent(d))
  BY <1>2, <1>6, <1>10, Zenon DEF Unsent
<1>12. Callers'
  <2>1. \A d \in Client : Unsent(d)' => d # c /\ Unsent(d)
    BY <1>11, Zenon
  <2>2. \A d \in Client : Unsent(d)' => call'[d].cmd.id # 0 /\ call'[d].cmd \notin Sent'
    BY <1>0, <1>3, <1>4, <1>6, <1>8, <2>1, Zenon DEF Callers
  <2>3. \A d, e \in Client : Unsent(d)' /\ Unsent(e)' /\ call'[d].cmd = call'[e].cmd => d = e
    BY <1>0, <1>6, <2>1, Zenon DEF Callers
  <2>4. \A d \in Client : Unsent(d)' \/ call'[d].cmd \in Sent' \cup {ZeroCmd}
    BY <1>0, <1>3, <1>6, <1>8, <1>11, Zenon DEF Callers
  <2> QED
    BY <1>0, <1>5, <1>6, <1>8, <2>2, <2>3, <2>4, Zenon DEF Callers
<1>a. m.core \in Core
  BY DEF Cmd
<1>13. m.core \in Core /\ pending \in [Core -> Seq(Cmd)]
  BY <1>0, <1>a, Zenon DEF DaemonType
<1>14. \A k \in Core : \A i \in DOMAIN pending'[k] :
         \/ i \in DOMAIN pending[k] /\ pending'[k][i] = pending[k][i]
         \/ m.xd /\ k = m.core /\ pending'[k][i] = m /\ i = Len(pending[k]) + 1
  <2> SUFFICES ASSUME NEW k \in Core, NEW i \in DOMAIN pending'[k]
               PROVE  \/ i \in DOMAIN pending[k] /\ pending'[k][i] = pending[k][i]
                      \/ m.xd /\ k = m.core /\ pending'[k][i] = m /\ i = Len(pending[k]) + 1
    BY Zenon
  <2>1. CASE m.xd /\ k = m.core
    <3>1. pending'[k] = Append(pending[k], m) /\ pending[k] \in Seq(Cmd)
      BY <1>6, <1>13, <2>1, Zenon
    <3>2. /\ DOMAIN pending'[k] = DOMAIN pending[k] \cup {Len(pending[k]) + 1}
          /\ pending'[k][Len(pending[k]) + 1] = m
          /\ \A j \in DOMAIN pending[k] : pending'[k][j] = pending[k][j]
      BY <3>1, AppendCmd
    <3> QED
      BY <2>1, <3>2, Zenon
  <2>2. CASE ~(m.xd /\ k = m.core)
    BY <1>6, <1>13, <2>2, Zenon
  <2> QED
    BY <2>1, <2>2, Zenon
<1>15. m \notin Read /\ m \notin Waiting /\ \A k \in Core : \A i \in DOMAIN pending[k] : pending[k][i] # m
  <2>1. \A k \in Core : \A i \in DOMAIN pending[k] : pending[k][i] \in Sent
    BY <1>0, Zenon DEF Tracked
  <2>2. Read \subseteq Sent /\ Waiting \subseteq Sent
    BY <1>0, Zenon DEF Tracked
  <2> QED
    BY <1>5, <2>1, <2>2, Zenon
<1>16. Tracked'
  <2>1. ASSUME NEW k \in Core, NEW i \in DOMAIN pending'[k]
        PROVE  /\ pending'[k][i] \in Sent'
               /\ pending'[k][i] \notin Read' /\ pending'[k][i] \notin Waiting'
               /\ pending'[k][i].xd /\ pending'[k][i].core = k
    <3>1. CASE i \in DOMAIN pending[k] /\ pending'[k][i] = pending[k][i]
      <4>1. pending[k][i] \in Sent /\ pending[k][i] \notin Read /\ pending[k][i] \notin Waiting
            /\ pending[k][i].xd /\ pending[k][i].core = k
        BY <1>0, <3>1, Zenon DEF Tracked
      <4> QED
        BY <1>7, <1>8, <3>1, <4>1, Zenon
    <3>2. CASE m.xd /\ k = m.core /\ pending'[k][i] = m
      BY <1>7, <1>8, <1>15, <3>2, Zenon
    <3> QED
      BY <1>14, <2>1, <3>1, <3>2, Zenon
  <2>2. ASSUME NEW k \in Core, NEW i \in DOMAIN pending'[k], NEW j \in DOMAIN pending'[k],
               pending'[k][i] = pending'[k][j]
        PROVE  i = j
    <3>1. CASE pending'[k][i] = m
      <4>1. i = Len(pending[k]) + 1 /\ j = Len(pending[k]) + 1
        <5>1. \A l \in DOMAIN pending'[k] : pending'[k][l] = m => l = Len(pending[k]) + 1
          <6> SUFFICES ASSUME NEW l \in DOMAIN pending'[k], pending'[k][l] = m
                       PROVE  l = Len(pending[k]) + 1
            BY Zenon
          <6>1. CASE l \in DOMAIN pending[k] /\ pending'[k][l] = pending[k][l]
            BY <1>15, <2>2, <6>1, Zenon
          <6> QED
            BY <1>14, <2>2, <6>1, Zenon
        <5> QED
          BY <2>2, <3>1, <5>1, Zenon
      <4> QED
        BY <4>1, Zenon
    <3>2. CASE pending'[k][i] # m
      <4>1. /\ i \in DOMAIN pending[k] /\ pending'[k][i] = pending[k][i]
            /\ j \in DOMAIN pending[k] /\ pending'[k][j] = pending[k][j]
        BY <1>14, <2>2, <3>2, Zenon
      <4> QED
        <5>1. \A a, b \in DOMAIN pending[k] : pending[k][a] = pending[k][b] => a = b
          BY <1>0, <2>2, Zenon DEF Tracked
        <5>2. pending[k][i] = pending[k][j]
          BY <2>2, <4>1, Zenon
        <5> QED
          BY <4>1, <5>1, <5>2, Zenon
    <3> QED
      BY <3>1, <3>2, Zenon
  <2> QED
    BY <1>0, <1>6, <1>7, <1>8, <2>1, <2>2, Zenon DEF Tracked, Ready
<1>17. m.id \in 1 .. MaxCmds /\ m.id <= issued /\ CommandOf(m.id) = [core |-> m.core, xd |-> m.xd]
  BY <1>0, <1>5, CommandIs, Zenon
<1>18. \A x \in Sent : x.id # m.id
  BY <1>0, <1>5, Zenon DEF Numbered, Named
<1>19. StageOf(m.id) = "sent"
  BY <1>0, <1>17, <1>18, Zenon DEF StageOf, Tracked
<1>20. StageOf(m.id)' = "given"
  BY <1>0, <1>7, <1>8, <1>18, Zenon DEF StageOf, Tracked
<1>21. \A j \in 1 .. MaxCmds : j # m.id => StageOf(j)' = StageOf(j)
  BY <1>6, <1>7, <1>8, Zenon DEF StageOf
<1>22. Rpc!Move(m.id, "sent", "given")
  BY <1>17, <1>19, <1>20, <1>21, StageMoves, Zenon
<1> DEFINE queue == [k \in Core |-> [j \in DOMAIN pending[k] |-> pending[k][j].id]]
           command == [i \in 1 .. MaxCmds |-> CommandOf(i)]
<1>23. command[m.id].xd = m.xd /\ command[m.id].core = m.core
  BY <1>17
<1>24. queue' = IF m.xd THEN [queue EXCEPT ![m.core] = Append(@, m.id)] ELSE queue
  <2>1. CASE ~m.xd
    BY <1>6, <2>1, Zenon
  <2>2. CASE m.xd
    <3>1. pending'[m.core] = Append(pending[m.core], m)
          /\ \A k \in Core : k # m.core => pending'[k] = pending[k]
      BY <1>6, <1>13, <2>2, Zenon
    <3>2. [j \in DOMAIN pending'[m.core] |-> pending'[m.core][j].id] = Append(queue[m.core], m.id)
      <4>1. pending[m.core] \in Seq(Cmd) /\ queue[m.core] = [j \in DOMAIN pending[m.core] |-> pending[m.core][j].id]
        BY <1>13, Zenon
      <4> HIDE DEF queue
      <4>2. PICK q \in Seq(Cmd) : q = pending[m.core]
        BY <4>1, Zenon
      <4>3. [j \in DOMAIN Append(q, m) |-> Append(q, m)[j].id] = Append([j \in DOMAIN q |-> q[j].id], m.id)
        BY <1>0, <1>5, AppendIds, Zenon
      <4>4. pending'[m.core] = Append(q, m) /\ queue[m.core] = [j \in DOMAIN q |-> q[j].id]
        BY <3>1, <4>1, <4>2, Zenon
      <4> QED
        BY <4>3, <4>4, Zenon
    <3>3. \A k \in Core : k # m.core => queue'[k] = queue[k]
      BY <3>1, Zenon
    <3> QED
      BY <1>13, <2>2, <3>1, <3>2, ZenonT(40)
  <2> QED
    BY <2>1, <2>2, Zenon
<1>25. command' = command
  BY <1>9, Zenon
<1>26. Rpc!Give(m.id)
  BY <1>22, <1>23, <1>24, <1>25, Zenon DEF Rpc!Give
<1> QED
  BY <1>9, <1>12, <1>16, <1>17, <1>26, Zenon DEF CallInv, Rpc!Next, Rpc!Id

LEMMA RpcRespond ==
  ASSUME IInv, CallInv, NEW k \in Core, Respond(k)
  PROVE  CallInv' /\ Rpc!Next
<1>0. /\ ClientType /\ HistoryType /\ DaemonType /\ SlotType /\ QueuesAgree /\ OneOwner
      /\ Numbered /\ Callers /\ Tracked
  BY Zenon DEF IInv, TypeOK, CallInv
<1>1. /\ pending \in [Core -> Seq(Cmd)] /\ pending[k] \in Seq(Cmd) /\ pending[k] # << >>
      /\ in_flight[k] \in Seq(Slot) /\ Len(in_flight[k]) = Len(pending[k])
  BY <1>0, Zenon DEF DaemonType, QueuesAgree, Respond
<1>2. /\ Head(pending[k]) = pending[k][1] /\ 1 \in DOMAIN pending[k] /\ pending[k][1] \in Cmd
      /\ Head(in_flight[k]) = in_flight[k][1] /\ 1 \in DOMAIN in_flight[k] /\ in_flight[k][1] \in Slot
  BY <1>1
<1>3. PICK m \in Cmd : m = pending[k][1]
  BY <1>2, Zenon
<1>4. PICK s \in Slot : s = in_flight[k][1]
  BY <1>2, Zenon
<1>5. /\ UNCHANGED << got, issued, delivered, pc, call, handles, cmd_recieve_server_resp_lock >>
      /\ responses' = [responses EXCEPT ![s] = m]
      /\ wait_for_response' = [wait_for_response EXCEPT ![s] = FALSE]
      /\ pending' = [pending EXCEPT ![k] = Tail(@)]
  BY <1>2, <1>3, <1>4, Zenon DEF Respond
<1>6. ~Ready(s)
  BY <1>0, <1>2, <1>4, Zenon DEF OneOwner, Flying
<1>7. m \in Sent /\ m \notin Read /\ m \notin Waiting /\ m.xd /\ m.core = k
  BY <1>0, <1>2, <1>3, Zenon DEF Tracked
<1>8. Sent' = Sent /\ Read' = Read
  BY <1>5, Zenon DEF Sent, Read
<1>9. responses'[s] = m /\ \A t \in Slot : t # s => responses'[t] = responses[t]
  BY <1>0, <1>5, Zenon DEF SlotType
<1>10. Ready(s)' /\ \A t \in Slot : t # s => (Ready(t)' <=> Ready(t))
  BY <1>0, <1>5, Zenon DEF SlotType, Ready
<1>11. Waiting' = Waiting \cup {m}
  <2>1. Waiting' \subseteq Waiting \cup {m}
    BY <1>9, <1>10, Zenon DEF Waiting
  <2>2. Waiting \subseteq Waiting'
    <3> SUFFICES ASSUME NEW t \in Slot, Ready(t) PROVE responses[t] \in Waiting'
      BY Zenon DEF Waiting
    <3> QED
      BY <1>6, <1>9, <1>10, Zenon DEF Waiting
  <2>3. m \in Waiting'
    BY <1>9, <1>10, Zenon DEF Waiting
  <2> QED
    BY <2>1, <2>2, <2>3, Zenon
<1>12. Numbered' /\ \A i \in 1 .. MaxCmds : CommandOf(i)' = CommandOf(i)
  BY <1>0, <1>5, <1>8, NumberedKept, Zenon DEF Named
<1>13. Callers'
  <2>1. \A c \in Client : Unsent(c)' <=> Unsent(c)
    BY <1>5, Zenon DEF Unsent
  <2> QED
    BY <1>0, <1>5, <1>8, <2>1, Zenon DEF Callers
<1>14. pending'[k] = Tail(pending[k]) /\ \A l \in Core : l # k => pending'[l] = pending[l]
  BY <1>1, <1>5, Zenon
<1>15. /\ \A i \in DOMAIN pending'[k] :
            i + 1 \in DOMAIN pending[k] /\ pending'[k][i] = pending[k][i + 1] /\ i + 1 # 1
       /\ \A i, j \in DOMAIN pending'[k] : i + 1 = j + 1 => i = j
  BY <1>1, <1>14, TailCmd
<1>16. \A l \in Core : \A i \in DOMAIN pending'[l] :
         pending'[l][i] # m /\ \E j \in DOMAIN pending[l] : pending'[l][i] = pending[l][j]
  <2> SUFFICES ASSUME NEW l \in Core, NEW i \in DOMAIN pending'[l]
               PROVE  pending'[l][i] # m /\ \E j \in DOMAIN pending[l] : pending'[l][i] = pending[l][j]
    BY Zenon
  <2>1. CASE l = k
    <3>1. i + 1 \in DOMAIN pending[k] /\ pending'[l][i] = pending[k][i + 1] /\ i + 1 # 1
      BY <1>15, <2>1, Zenon
    <3>2. pending[k][i + 1] # m
      BY <1>0, <1>2, <1>3, <3>1, Zenon DEF Tracked
    <3> QED
      BY <2>1, <3>1, <3>2, Zenon
  <2>2. CASE l # k
    <3>1. pending'[l] = pending[l]
      BY <1>14, <2>2, Zenon
    <3>2. i \in DOMAIN pending[l]
      BY <3>1, Zenon
    <3>3. pending[l][i].core = l
      BY <1>0, <3>2, Zenon DEF Tracked
    <3> QED
      BY <1>7, <2>2, <3>1, <3>2, <3>3, Zenon
  <2> QED
    BY <2>1, <2>2, Zenon
<1>17. Tracked'
  <2>1. ASSUME NEW l \in Core, NEW i \in DOMAIN pending'[l]
        PROVE  /\ pending'[l][i] \in Sent'
               /\ pending'[l][i] \notin Read' /\ pending'[l][i] \notin Waiting'
               /\ pending'[l][i].xd /\ pending'[l][i].core = l
    <3>1. PICK j \in DOMAIN pending[l] : pending'[l][i] = pending[l][j]
      BY <1>16, <2>1, Zenon
    <3>2. /\ pending[l][j] \in Sent
          /\ pending[l][j] \notin Read /\ pending[l][j] \notin Waiting
          /\ pending[l][j].xd /\ pending[l][j].core = l
      BY <1>0, Zenon DEF Tracked
    <3>3. pending'[l][i] # m
      BY <1>16, <2>1, Zenon
    <3> QED
      BY <1>8, <1>11, <3>1, <3>2, <3>3, Zenon
  <2>2. ASSUME NEW l \in Core, NEW i \in DOMAIN pending'[l], NEW j \in DOMAIN pending'[l],
               pending'[l][i] = pending'[l][j]
        PROVE  i = j
    <3>1. CASE l = k
      <4>1. /\ i + 1 \in DOMAIN pending[k] /\ pending'[k][i] = pending[k][i + 1]
            /\ j + 1 \in DOMAIN pending[k] /\ pending'[k][j] = pending[k][j + 1]
        BY <1>15, <2>2, <3>1, Zenon
      <4>2. pending[k][i + 1] = pending[k][j + 1]
        BY <2>2, <3>1, <4>1, Zenon
      <4>3. i + 1 = j + 1
        BY <1>0, <4>1, <4>2, Zenon DEF Tracked
      <4> QED
        BY <1>15, <2>2, <3>1, <4>3, Zenon
    <3>2. CASE l # k
      <4>1. pending'[l] = pending[l]
        BY <1>14, <3>2, Zenon
      <4> QED
        <5>1. \A a, b \in DOMAIN pending[l] : pending[l][a] = pending[l][b] => a = b
          BY <1>0, Zenon DEF Tracked
        <5> QED
          BY <2>2, <4>1, <5>1, Zenon
    <3> QED
      BY <3>1, <3>2, Zenon
  <2>3. \A t, u \in Slot : Ready(t)' /\ Ready(u)' /\ responses'[t] = responses'[u] => t = u
    <3>1. \A t \in Slot : Ready(t) => responses[t] # m
      BY <1>7, Zenon DEF Waiting
    <3> QED
      BY <1>0, <1>9, <1>10, <3>1, Zenon DEF Tracked
  <2>4. Waiting' \subseteq Sent' /\ Read' \subseteq Sent' /\ \A x \in Waiting' : x \notin Read'
    BY <1>0, <1>7, <1>8, <1>11, Zenon DEF Tracked
  <2> QED
    BY <2>1, <2>2, <2>3, <2>4, Zenon DEF Tracked
<1>18. m.id # 0 /\ m \in Named
  BY <1>0, <1>7, Zenon DEF Callers, Named
<1>19. m.id \in 1 .. MaxCmds /\ CommandOf(m.id) = [core |-> m.core, xd |-> m.xd]
  BY <1>0, <1>18, CommandIs, Zenon
<1>20. \A x \in Sent : x.id = m.id => x = m
  BY <1>0, <1>18, Zenon DEF Numbered, Named
<1>21. (\A x \in Read : x.id # m.id) /\ (\A x \in Waiting : x.id # m.id)
  BY <1>0, <1>7, <1>20, Zenon DEF Tracked
<1>22. StageOf(m.id) = "given" /\ StageOf(m.id)' = "answered"
  BY <1>7, <1>8, <1>11, <1>21, Zenon DEF StageOf
<1>23. \A j \in 1 .. MaxCmds : j # m.id => StageOf(j)' = StageOf(j)
  BY <1>5, <1>8, <1>11, Zenon DEF StageOf
<1>24. Rpc!Move(m.id, "given", "answered")
  BY <1>19, <1>22, <1>23, StageMoves, Zenon
<1> DEFINE queue == [l \in Core |-> [j \in DOMAIN pending[l] |-> pending[l][j].id]]
           command == [i \in 1 .. MaxCmds |-> CommandOf(i)]
<1>25. command[m.id].xd = m.xd /\ command[m.id].core = m.core
  BY <1>19
<1>26. queue[k] = [j \in DOMAIN pending[k] |-> pending[k][j].id]
  BY Zenon
<1>27. Head(queue[k]) = m.id
  BY <1>1, <1>3, <1>26, TailIds, ZenonT(40)
<1>28. [j \in DOMAIN pending'[k] |-> pending'[k][j].id] = Tail(queue[k])
  <2> HIDE DEF queue
  <2> QED
    BY <1>1, <1>14, <1>26, TailIds
<1>29. queue' = [queue EXCEPT ![k] = Tail(@)]
  <2>1. \A l \in Core : l # k => queue'[l] = queue[l]
    BY <1>14, Zenon
  <2> QED
    BY <1>28, <2>1, Zenon
<1>30. command' = command
  BY <1>12, Zenon
<1>31. Rpc!Answer(m.id)
  BY <1>7, <1>24, <1>25, <1>27, <1>29, <1>30, Zenon DEF Rpc!Answer
<1> QED
  BY <1>12, <1>13, <1>17, <1>19, <1>31, Zenon DEF CallInv, Rpc!Next, Rpc!Id

\* A client reads the response to handle h.
LEMMA RpcTake ==
  ASSUME IInv, CallInv, NEW c \in Client, NEW h \in Claims(c), TakeResponse(h),
         \A d \in Client : Unsent(d)' <=> Unsent(d),
         \A d \in Client : call'[d].cmd = call[d].cmd \/ (~Unsent(d) /\ call'[d] = h),
         \A d \in Client : handles'[d] \subseteq handles[d]
  PROVE  CallInv' /\ Rpc!Next
<1>0. /\ ClientType /\ HistoryType /\ SlotType /\ HandlesOwn /\ ReadyOwn
      /\ Numbered /\ Callers /\ Tracked
  BY Zenon DEF IInv, TypeOK, CallInv
<1>1. /\ h.slot \in Slot /\ Ready(h.slot) /\ responses[h.slot] = h.cmd
      /\ responses[h.slot] \in Cmd
  BY <1>0, Zenon DEF TakeResponse, HandlesOwn, ReadyOwn, SlotType, Ready
<1>2. PICK s \in Slot : s = h.slot
  BY <1>1, Zenon
<1>3. PICK m \in Cmd : m = h.cmd /\ responses[s] = m
  BY <1>1, <1>2, Zenon
<1>4. /\ UNCHANGED << responses, issued, delivered, pending, cmd_recieve_server_resp_lock >>
      /\ wait_for_response' = [wait_for_response EXCEPT ![s] = TRUE]
      /\ got' = got \cup {[handle |-> h, resp |-> m]}
  BY <1>2, <1>3, Zenon DEF TakeResponse
<1>5. m \in Waiting /\ m \in Sent /\ m \notin Read
  BY <1>0, <1>1, <1>2, <1>3, ZenonT(40) DEF Waiting, Tracked
<1>6. Sent' = Sent
  BY <1>4, Zenon DEF Sent
<1>7. Read' = Read \cup {m}
  <2>1. [handle |-> h, resp |-> m].handle.cmd = m
    BY <1>3
  <2>2. Read' \subseteq Read \cup {m}
    BY <1>4, <2>1, Zenon DEF Read
  <2>3. Read \subseteq Read' /\ m \in Read'
    BY <1>4, <2>1, Zenon DEF Read
  <2> QED
    BY <2>2, <2>3, Zenon
<1>8. ~Ready(s)' /\ \A t \in Slot : t # s => (Ready(t)' <=> Ready(t))
  BY <1>0, <1>4, Zenon DEF SlotType, Ready
<1>9. \A t \in Slot : Ready(t) /\ responses[t] = m => t = s
  BY <1>0, <1>1, <1>2, <1>3, Zenon DEF Tracked
<1>10. \A x : x \in Waiting' <=> x \in Waiting /\ x # m
  <2>1. ASSUME NEW x \in Waiting' PROVE x \in Waiting /\ x # m
    <3>1. PICK t \in Slot : Ready(t)' /\ responses'[t] = x
      BY <2>1, Zenon DEF Waiting
    <3>2. t # s /\ Ready(t) /\ responses[t] = x
      BY <1>4, <1>8, <3>1, Zenon
    <3> QED
      BY <1>9, <3>2, Zenon DEF Waiting
  <2>2. ASSUME NEW x \in Waiting, x # m PROVE x \in Waiting'
    <3>1. PICK t \in Slot : Ready(t) /\ responses[t] = x
      BY <2>2, Zenon DEF Waiting
    <3>2. t # s /\ Ready(t)' /\ responses'[t] = x
      BY <1>3, <1>4, <1>8, <2>2, <3>1, Zenon
    <3> QED
      BY <3>2, Zenon DEF Waiting
  <2> QED
    BY <2>1, <2>2, Zenon
<1>11. \A d \in Client : call'[d].cmd = call[d].cmd \/ (~Unsent(d) /\ call'[d].cmd \in Sent)
  BY <1>3, <1>5, Zenon
<1>12. Numbered' /\ \A i \in 1 .. MaxCmds : CommandOf(i)' = CommandOf(i)
  BY <1>0, <1>4, <1>6, <1>11, NumberedKept, Zenon DEF Named
<1>13. Callers'
  BY <1>0, <1>6, <1>11, Zenon DEF Callers
<1>14. \A k \in Core : \A i \in DOMAIN pending[k] : pending[k][i] # m
  <2>1. \A k \in Core : \A i \in DOMAIN pending[k] : pending[k][i] \notin Waiting
    BY <1>0, Zenon DEF Tracked
  <2> QED
    BY <1>5, <2>1, Zenon
<1>15. Tracked'
  <2>1. \A k \in Core : \A i \in DOMAIN pending[k] :
          /\ pending[k][i] \in Sent
          /\ pending[k][i] \notin Read' /\ pending[k][i] \notin Waiting'
          /\ pending[k][i].xd /\ pending[k][i].core = k
    <3> SUFFICES ASSUME NEW k \in Core, NEW i \in DOMAIN pending[k]
                 PROVE  /\ pending[k][i] \in Sent
                        /\ pending[k][i] \notin Read' /\ pending[k][i] \notin Waiting'
                        /\ pending[k][i].xd /\ pending[k][i].core = k
      BY Zenon
    <3>1. /\ pending[k][i] \in Sent
          /\ pending[k][i] \notin Read /\ pending[k][i] \notin Waiting
          /\ pending[k][i].xd /\ pending[k][i].core = k
      BY <1>0, Zenon DEF Tracked
    <3> QED
      BY <1>7, <1>10, <1>14, <3>1, Zenon
  <2>2. \A t, u \in Slot : Ready(t)' /\ Ready(u)' /\ responses'[t] = responses'[u] => t = u
    BY <1>0, <1>4, <1>8, Zenon DEF Tracked
  <2>3. Waiting' \subseteq Sent /\ Read' \subseteq Sent /\ \A x \in Waiting' : x \notin Read'
    BY <1>0, <1>5, <1>7, <1>10, Zenon DEF Tracked
  <2> QED
    BY <1>0, <1>4, <1>6, <2>1, <2>2, <2>3, Zenon DEF Tracked
<1>16. m.id # 0 /\ m \in Named
  BY <1>0, <1>5, Zenon DEF Callers, Named
<1>17. m.id \in 1 .. MaxCmds
  BY <1>0, <1>16, CommandIs, Zenon
<1>18. \A x \in Sent : x.id = m.id => x = m
  BY <1>0, <1>16, Zenon DEF Numbered, Named
<1>19. \A x \in Read : x.id # m.id
  BY <1>0, <1>5, <1>18, Zenon DEF Tracked
<1>20. StageOf(m.id) = "answered" /\ StageOf(m.id)' = "collected"
  BY <1>5, <1>7, <1>19, Zenon DEF StageOf
<1>21. \A j \in 1 .. MaxCmds : j # m.id => StageOf(j)' = StageOf(j)
  <2> SUFFICES ASSUME NEW j \in 1 .. MaxCmds, j # m.id PROVE StageOf(j)' = StageOf(j)
    BY Zenon
  <2>1. (\E x \in Read' : x.id = j) <=> (\E x \in Read : x.id = j)
    BY <1>7, Zenon
  <2>2. (\E x \in Waiting' : x.id = j) <=> (\E x \in Waiting : x.id = j)
    BY <1>10, Zenon
  <2> QED
    BY <1>4, <1>6, <2>1, <2>2, Zenon DEF StageOf
<1>22. Rpc!Move(m.id, "answered", "collected")
  BY <1>17, <1>20, <1>21, StageMoves, Zenon
<1>23. Rpc!Collect(m.id)
  BY <1>4, <1>12, <1>22, Zenon DEF Rpc!Collect
<1> QED
  BY <1>12, <1>13, <1>15, <1>17, <1>23, Zenon DEF CallInv, Rpc!Next, Rpc!Id

LEMMA RpcGet ==
  ASSUME IInv, CallInv, NEW c \in Client, GetWait(c) \/ \E h \in handles[c] : TryGet(c, h)
  PROVE  CallInv' /\ Rpc!Next
<1>0. ClientType
  BY Zenon DEF IInv, TypeOK
<1>1. ASSUME NEW h, TakeResponse(h), pc[c] \in {"get", "idle"}, pc' = [pc EXCEPT ![c] = "release"]
      PROVE  ~Unsent(c) /\ \A d \in Client : Unsent(d)' <=> Unsent(d)
  <2>1. UNCHANGED cmd_recieve_server_resp_lock
    BY <1>1, Zenon DEF TakeResponse
  <2>2. pc'[c] = "release" /\ \A d \in Client : d # c => pc'[d] = pc[d]
    BY <1>0, <1>1, Zenon DEF ClientType
  <2>3. ~Unsent(c) /\ ~Unsent(c)'
    BY <1>1, <2>2, Zenon DEF Unsent
  <2>4. \A d \in Client : d # c => (Unsent(d)' <=> Unsent(d))
    BY <2>1, <2>2, Zenon DEF Unsent
  <2> QED
    BY <2>3, <2>4, Zenon
<1>2. CASE GetWait(c)
  <2>1. /\ TakeResponse(call[c]) /\ pc[c] = "get" /\ pc' = [pc EXCEPT ![c] = "release"]
        /\ UNCHANGED << call, handles >>
    BY <1>2, Zenon DEF GetWait, Goto
  <2>2. call[c] \in Claims(c)
    BY <2>1, Zenon DEF Claims
  <2>3. \A d \in Client : Unsent(d)' <=> Unsent(d)
    BY <1>1, <2>1, Zenon
  <2> QED
    BY <2>1, <2>2, <2>3, RpcTake, Zenon
<1>3. ASSUME NEW h \in handles[c], TryGet(c, h) PROVE CallInv' /\ Rpc!Next
  <2>1. /\ TakeResponse(h) /\ pc[c] = "idle" /\ pc' = [pc EXCEPT ![c] = "release"]
        /\ handles' = [handles EXCEPT ![c] = @ \ {h}] /\ call' = [call EXCEPT ![c] = h]
    BY <1>3, Zenon DEF TryGet, Goto
  <2>2. h \in Claims(c)
    BY Zenon DEF Claims
  <2>3. ~Unsent(c) /\ \A d \in Client : Unsent(d)' <=> Unsent(d)
    BY <1>1, <2>1, Zenon
  <2>4. \A d \in Client : call'[d].cmd = call[d].cmd \/ (~Unsent(d) /\ call'[d] = h)
    BY <1>0, <2>1, <2>3, Zenon DEF ClientType
  <2>5. \A d \in Client : handles'[d] \subseteq handles[d]
    BY <1>0, <2>1, Zenon DEF ClientType
  <2> QED
    BY <2>1, <2>2, <2>3, <2>4, <2>5, RpcTake, Zenon
<1> QED
  BY <1>2, <1>3, Zenon

LEMMA RpcStep ==
  ASSUME ~ Misuse, IInv, CallInv, [Next]_vars
  PROVE  CallInv' /\ [Rpc!Next]_(Rpc!vars)
<1>1. CASE ServerNext
  BY <1>1, RpcServer, RpcSubmit, Zenon DEF ServerNext
<1>2. CASE \E k \in Core : Respond(k)
  BY <1>2, RpcRespond, Zenon
<1>3. ASSUME NEW c \in Client, ClientNext(c) PROVE CallInv' /\ [Rpc!Next]_(Rpc!vars)
  <2>1. \A h \in handles[c] : ~CopyHandle(c, h)
    BY Zenon DEF Misuse
  <2> QED
    BY <1>3, <2>1, RpcClient, RpcSend, RpcGet, Zenon DEF ClientNext, ClientStep
<1>4. CASE UNCHANGED vars
  <2>1. UNCHANGED << issued, delivered, pending, got, slots, pc, call, handles,
                     cmd_recieve_server_resp_lock >>
    BY <1>4, Zenon DEF vars
  <2>2. \A d \in Client : Unsent(d)' <=> Unsent(d)
    BY <2>1, Zenon DEF Unsent
  <2> QED
    BY <2>1, <2>2, RpcQuiet, Zenon DEF CallInv, Callers
<1> QED
  BY <1>1, <1>2, <1>3, <1>4, Zenon DEF Next, Finished

\* For clients that neither shut the server down nor copy their handles: the
\* command path implements the abstract remote call of CommandRpc, but for its
\* fairness.  Whatever the interleaving, the accelerator is given every command
\* at most once and as it was sent, answers it at most once, in the order of its
\* core, and its response is collected at most once.
THEOREM RpcImplemented ==
  ASSUME Quitters = {}, Copiers = {}
  PROVE  Spec => Rpc!SafeSpec
<1>1. ~ Misuse  BY Zenon DEF Misuse, ShutdownSignal, CopyHandle
<1>2. Init => CallInv /\ Rpc!Init  BY RpcInit, Zenon
<1>3. IInv /\ CallInv /\ [Next]_vars => CallInv' /\ [Rpc!Next]_(Rpc!vars)
  BY <1>1, RpcStep, Zenon
<1> QED
  BY <1>2, <1>3, Invariance, PTL DEF Spec, Rpc!SafeSpec

=============================================================================
