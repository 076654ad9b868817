--------------------------- MODULE DramController ---------------------------
(***************************************************************************)
(* The DRAM simulator that the runtime steps: one channel of DRAMsim3's    *)
(* JedecDRAMSystem (controller, command queues, bank states, refresh), as  *)
(* the runtime's configurations use it: separate read and write queues,    *)
(* rows left open, a refresh of one rank after the other.                  *)
(*                                                                         *)
(* The simulator thread alternates ClockTick with try_to_enqueue_ddr,      *)
(* which adds at most one read and then at most one write.  DDR timing is  *)
(* abstracted: at a tick any command whose bank is in the right state may  *)
(* or may not meet its timing, so any of the commands that the arbitration *)
(* allows is issued, or none.  Two commands that need the same of the same *)
(* bank have the same timing, and the one in front wins.                   *)
(***************************************************************************)
EXTENDS Integers, Sequences, SequencesExt

CONSTANTS
  Ranks, Banks,   \* ranks, and banks of a rank
  Addr,           \* addresses in use: rank, bank, row, column
  Structures,     \* the queue_structures in use: PER_RANK, PER_BANK
  TransQ, CmdQ,   \* trans_queue_size, cmd_queue_size
  LowMark,        \* writes left waiting when the command queues run empty, 8
  HitLimit,       \* row hits before another row may take the bank, 4
  ReadDelay,      \* read_delay
  MaxTrans,       \* bound on the number of transactions
  MaxRefresh      \* bound on the number of refreshes

ASSUME DramAssumption ==
  /\ Ranks \in Nat \ {0} /\ Banks \in Nat \ {0}
  /\ \A a \in Addr : a.rank \in 0 .. Ranks - 1 /\ a.bank \in 0 .. Banks - 1 /\ a.row \in Nat
  /\ Structures \subseteq {"PER_RANK", "PER_BANK"}
  /\ TransQ \in Nat \ {0} /\ CmdQ \in Nat \ {0} /\ LowMark \in Nat
  /\ HitLimit \in Nat \ {0} /\ ReadDelay \in Nat \ {0}
  /\ MaxTrans \in Nat /\ MaxRefresh \in Nat

VARIABLES
  queue_structure,            \* chosen by the configuration file
  read_queue, write_buffer,   \* transactions without a command yet
  pending_rd, pending_wr,     \* transactions not done: reads per address, writes
  return_queue,               \* those done, with the ticks until they return
  write_draining,
  queues,                     \* the command queues
  bank,                       \* of each bank the open row and its hits
  refresh_q, next_rank, ref,  \* refreshes due, the next, queues held for one
  turn,                       \* what try_to_enqueue_ddr may still add
  exited,                     \* a sanity check of the simulator failed
  unanswered, added, refreshes \* history

queueing == << read_queue, write_buffer, pending_rd, pending_wr, return_queue >>
refreshing == << refresh_q, next_rank, ref, refreshes >>
vars == << queue_structure, queueing, write_draining, queues, bank, refreshing, turn, exited, unanswered, added >>

Rank == 0 .. Ranks - 1
Bank == Rank \X (0 .. Banks - 1)
BankOf(a) == << a.rank, a.bank >>
\* GetQueueIndex, and the queues of a rank (GetRefQIndices).
QueueOf(b) == IF queue_structure = "PER_RANK" THEN << b[1], 0 >> ELSE b
Queue == {QueueOf(b) : b \in Bank}
QueuesOf(k) == {q \in Queue : q[1] = k}
Closed == -1

Trans(a, w) == [addr |-> a, write |-> w]
Kind == [addr : Addr, write : BOOLEAN]

Init ==
  /\ queue_structure \in Structures
  /\ read_queue = << >> /\ write_buffer = << >> /\ return_queue = << >>
  /\ pending_rd = [a \in Addr |-> 0] /\ pending_wr = {}
  /\ write_draining = 0
  /\ queues = [q \in Queue |-> << >>]
  /\ bank = [b \in Bank |-> [row |-> Closed, hits |-> 0]]
  /\ refresh_q = << >> /\ next_rank = 0 /\ ref = {} /\ refreshes = 0
  /\ turn = "tick" /\ exited = FALSE
  /\ unanswered = [k \in Kind |-> 0] /\ added = 0

-----------------------------------------------------------------------------
(* try_to_enqueue_ddr, WillAcceptTransaction and AddTransaction *)

Return(t, n) == [addr |-> t.addr, write |-> t.write, due |-> n]

Take(t) ==
  /\ ~exited /\ added < MaxTrans
  /\ added' = added + 1
  /\ unanswered' = [unanswered EXCEPT ![t] = @ + 1]
  /\ UNCHANGED << queue_structure, write_draining, queues, bank, refreshing, exited >>

\* Mutant of AddRead: a read answered from the write buffer is queued too.
AddRead_Both(a) ==
  /\ turn = "read" /\ Len(read_queue) < TransQ
  /\ Take(Trans(a, FALSE))
  /\ turn' = "write"
  /\ return_queue' = IF a \in pending_wr
                     THEN Append(return_queue, Return(Trans(a, FALSE), 1)) ELSE return_queue
  /\ pending_rd' = [pending_rd EXCEPT ![a] = @ + 1]
  /\ read_queue' = IF pending_rd[a] = 0 THEN Append(read_queue, a) ELSE read_queue
  /\ UNCHANGED << write_buffer, pending_wr >>

\* A read of an address with a write pending is answered from the write
\* buffer; one with another read pending waits for that one's command.
AddRead(a) ==
  /\ turn = "read" /\ Len(read_queue) < TransQ
  /\ Take(Trans(a, FALSE))
  /\ turn' = "write"
  /\ IF a \in pending_wr
     THEN /\ return_queue' = Append(return_queue, Return(Trans(a, FALSE), 1))
          /\ UNCHANGED << read_queue, pending_rd >>
     ELSE /\ pending_rd' = [pending_rd EXCEPT ![a] = @ + 1]
          /\ read_queue' = IF pending_rd[a] = 0 THEN Append(read_queue, a) ELSE read_queue
          /\ UNCHANGED return_queue
  /\ UNCHANGED << write_buffer, pending_wr >>

\* Mutant of AddWrite: writes are not merged.
AddWrite_NoMerge(a) ==
  /\ turn \in {"read", "write"} /\ Len(write_buffer) < TransQ
  /\ Take(Trans(a, TRUE))
  /\ turn' = "tick"
  /\ pending_wr' = pending_wr \cup {a}
  /\ write_buffer' = Append(write_buffer, a)
  /\ return_queue' = Append(return_queue, Return(Trans(a, TRUE), 1))
  /\ UNCHANGED << read_queue, pending_rd >>

\* Writes of an address that has one pending are merged with it.  Every
\* write is answered at once.
AddWrite(a) ==
  /\ turn \in {"read", "write"} /\ Len(write_buffer) < TransQ
  /\ Take(Trans(a, TRUE))
  /\ turn' = "tick"
  /\ IF a \in pending_wr
     THEN UNCHANGED << pending_wr, write_buffer >>
     ELSE /\ pending_wr' = pending_wr \cup {a}
          /\ write_buffer' = Append(write_buffer, a)
  /\ return_queue' = Append(return_queue, Return(Trans(a, TRUE), 1))
  /\ UNCHANGED << read_queue, pending_rd >>

-----------------------------------------------------------------------------
(* The command to issue *)

\* BankState::GetReadyCommand: what a transaction needs of its bank first.
Required(t) ==
  CASE bank[BankOf(t.addr)].row = Closed -> "ACTIVATE"
    [] bank[BankOf(t.addr)].row = t.addr.row -> IF t.write THEN "WRITE" ELSE "READ"
    [] OTHER -> "PRECHARGE"

\* ArbitratePrecharge: an open row is given up for the first command of the
\* bank, once no command waits for the row or it has had its hits.
MayPrecharge(q, i) ==
  LET b == BankOf(queues[q][i].addr) IN
  /\ \A j \in 1 .. i - 1 : BankOf(queues[q][j].addr) # b
  /\ \/ bank[b].hits >= HitLimit
     \/ \A j \in i .. Len(queues[q]) :
          ~(BankOf(queues[q][j].addr) = b /\ queues[q][j].addr.row = bank[b].row)

\* HasRWDependency: a write waits for the reads of its address in front.
BehindRead(q, i) == \E j \in 1 .. i - 1 : queues[q][j] = Trans(queues[q][i].addr, FALSE)

Allowed(q, i) ==
  CASE Required(queues[q][i]) = "PRECHARGE" -> MayPrecharge(q, i)
    [] Required(queues[q][i]) = "WRITE" -> ~BehindRead(q, i)
    [] OTHER -> TRUE

\* GetFirstReadyInQueue
FirstReady(q, i) ==
  /\ Allowed(q, i)
  /\ \A j \in 1 .. i - 1 :
       ~(/\ Allowed(q, j)
         /\ BankOf(queues[q][j].addr) = BankOf(queues[q][i].addr)
         /\ Required(queues[q][j]) = Required(queues[q][i]))

Command(c, b, t) == [cmd |-> c, bank |-> b, trans |-> t]
NoTrans == [addr |-> {}, write |-> FALSE]

\* GetCommandToIssue: from the queues that no refresh holds.
Commands(held) ==
  UNION {{Command(Required(queues[q][i]), BankOf(queues[q][i].addr), queues[q][i]) :
            i \in {n \in DOMAIN queues[q] : FirstReady(q, n)}} : q \in Queue \ held}

\* FinishRefresh: the open banks of the rank are precharged, then it is
\* refreshed.
RefreshCommands(k) ==
  LET open == {b \in Bank : b[1] = k /\ bank[b].row # Closed}
  IN IF open # {} THEN {Command("PRECHARGE", b, NoTrans) : b \in open}
     ELSE {Command("REFRESH", << k, 0 >>, NoTrans)}

-----------------------------------------------------------------------------
(* ClockTick *)

\* ReturnDoneTrans, called until nothing more is due.
Due(t) == Cardinality({n \in DOMAIN return_queue :
                        /\ return_queue[n].due = 0
                        /\ Trans(return_queue[n].addr, return_queue[n].write) = t})
Later == SelectSeq(return_queue, LAMBDA e : e.due > 0)
Advance(q) == [n \in DOMAIN q |-> [q[n] EXCEPT !.due = @ - 1]]

\* Refresh::ClockTick at the end of an interval.
InsertRefresh(due) ==
  IF due THEN /\ refreshes < MaxRefresh
              /\ refreshes' = refreshes + 1
              /\ next_rank' = (next_rank + 1) % Ranks
         ELSE UNCHANGED << refreshes, next_rank >>
RefreshQ(due) == IF due THEN Append(refresh_q, next_rank) ELSE refresh_q

\* IssueCommand and BankState::UpdateState
BankAfter(c) ==
  CASE c.cmd = "ACTIVATE" -> [bank EXCEPT ![c.bank] = [row |-> c.trans.addr.row, hits |-> 0]]
    [] c.cmd = "PRECHARGE" -> [bank EXCEPT ![c.bank] = [row |-> Closed, hits |-> 0]]
    [] c.cmd \in {"READ", "WRITE"} /\ bank[c.bank].hits < HitLimit -> [bank EXCEPT ![c.bank].hits = @ + 1]
    [] OTHER -> bank

\* The sanity checks: a transaction that was issued is pending.
Fails(c) ==
  \/ c.cmd = "WRITE" /\ c.trans.addr \notin pending_wr
  \/ c.cmd = "READ" /\ pending_rd[c.trans.addr] = 0

\* Mutant of Done: one read is returned.
Done_One(c) ==
  IF c.cmd = "READ" THEN << Return(c.trans, ReadDelay) >> ELSE << >>

\* "if there are multiple reads pending return them all"
Done(c) ==
  IF c.cmd = "READ"
  THEN [n \in 1 .. pending_rd[c.trans.addr] |-> Return(c.trans, ReadDelay)]
  ELSE << >>
PendingRd(c) ==
  IF c.cmd = "READ" THEN [pending_rd EXCEPT ![c.trans.addr] = 0] ELSE pending_rd
PendingWr(c) ==
  IF c.cmd = "WRITE" THEN pending_wr \ {c.trans.addr} ELSE pending_wr

\* EraseRWCommand
QueuesAfter(c) ==
  IF c.cmd \in {"READ", "WRITE"}
  THEN [queues EXCEPT ![QueueOf(c.bank)] = RemoveFirst(@, c.trans)]
  ELSE queues

\* Mutant of WaitsForRead: a write never waits.
WaitsForRead_Never(a, reads) == FALSE

\* "Enforce R->W dependency"
WaitsForRead(a, reads) == reads[a] > 0

\* ScheduleTransaction: a command for the first transaction whose queue has
\* room, of the writes once they fill the buffer, of the reads otherwise.
Draining(qs) ==
  IF /\ write_draining = 0
     /\ \/ Len(write_buffer) >= TransQ
        \/ Len(write_buffer) > LowMark /\ \A q \in Queue : qs[q] = << >>
  THEN Len(write_buffer) ELSE write_draining

Room(qs, a) == Len(qs[QueueOf(BankOf(a))]) < CmdQ
WithRoom(qs, s) == {n \in DOMAIN s : Room(qs, s[n])}
Push(qs, t) == [qs EXCEPT ![QueueOf(BankOf(t.addr))] = Append(@, t)]

ScheduleTransaction(qs, reads) ==
  LET drain == Draining(qs)
      from == IF drain > 0 THEN write_buffer ELSE read_queue
      n == Min(WithRoom(qs, from))
  IN IF WithRoom(qs, from) = {}
     THEN /\ write_draining' = drain
          /\ queues' = qs /\ UNCHANGED << read_queue, write_buffer >>
     ELSE IF drain = 0
     THEN /\ queues' = Push(qs, Trans(from[n], FALSE))
          /\ read_queue' = RemoveAt(read_queue, n)
          /\ UNCHANGED << write_draining, write_buffer >>
     ELSE IF WaitsForRead(from[n], reads)
     THEN /\ write_draining' = 0
          /\ queues' = qs /\ UNCHANGED << read_queue, write_buffer >>
     ELSE /\ write_draining' = drain - 1
          /\ queues' = Push(qs, Trans(from[n], TRUE))
          /\ write_buffer' = RemoveAt(write_buffer, n)
          /\ UNCHANGED read_queue

NoCommand == Command("NONE", << 0, 0 >>, NoTrans)

\* The commands that a tick may issue, when a refresh comes due or not: one
\* of the refresh, or one of the queues it does not hold.
Held(due) ==
  IF RefreshQ(due) = << >> THEN {} ELSE IF ref # {} THEN ref ELSE QueuesOf(Head(RefreshQ(due)))
Issuable(due) ==
  Commands(Held(due)) \cup
    (IF RefreshQ(due) = << >> THEN {} ELSE RefreshCommands(Head(RefreshQ(due))))

ClockTick(due, c) ==
  /\ ~exited
  /\ turn' = "read" /\ bank' = BankAfter(c)
  /\ InsertRefresh(due)
  /\ refresh_q' = IF c.cmd = "REFRESH" THEN Tail(RefreshQ(due)) ELSE RefreshQ(due)
  /\ ref' = IF c.cmd = "REFRESH" THEN {} ELSE Held(due)
  /\ exited' = Fails(c)
  /\ pending_rd' = PendingRd(c) /\ pending_wr' = PendingWr(c)
  /\ return_queue' = Advance(Later \o Done(c))
  /\ ScheduleTransaction(QueuesAfter(c), PendingRd(c))
  /\ unanswered' = [t \in Kind |-> unanswered[t] - Due(t)]
  /\ UNCHANGED << queue_structure, added >>

-----------------------------------------------------------------------------

TickIssues == \E due \in BOOLEAN : \E c \in Issuable(due) : ClockTick(due, c)
TickWaits == \E due \in BOOLEAN : ClockTick(due, NoCommand)
Next == TickIssues \/ TickWaits \/ \E a \in Addr : AddRead(a) \/ AddWrite(a)

Spec == Init /\ [][Next]_vars

\* The clock runs, and timing constraints expire: not every tick passes
\* without a command when one is wanted.
FairSpec == Spec /\ WF_vars(TickIssues) /\ WF_vars(TickWaits)

-----------------------------------------------------------------------------
(* Properties *)

Occurs(s, x) == Cardinality({n \in DOMAIN s : s[n] = x})
InQueues(t) == Occurs(queues[QueueOf(BankOf(t.addr))], t)

\* "there should be only 1 write to the same location at a time": the
\* transactions that are not done and the commands for them agree.  A write
\* has one place, in the buffer or in its bank's command queue; the reads of
\* an address share one.  IssueCommand therefore finds what it issues and its
\* checks, which call exit(1), never fail.
PendingExact ==
  /\ ~exited
  /\ \A a \in Addr :
       /\ Occurs(read_queue, a) + InQueues(Trans(a, FALSE)) = (IF pending_rd[a] > 0 THEN 1 ELSE 0)
       /\ Occurs(write_buffer, a) + InQueues(Trans(a, TRUE)) = (IF a \in pending_wr THEN 1 ELSE 0)

\* A write does not overtake an older read of its address: it becomes a
\* command only when no such read is waiting, and from then on reads of the
\* address are answered from the write.
NoOvertaking ==
  \A q \in Queue : \A n \in DOMAIN queues[q] :
    queues[q][n].write => pending_rd[queues[q][n].addr] = 0

\* Every transaction taken is answered once and nothing else is.
DramOf == INSTANCE DramMemory
ImplementsMemory == DramOf!Memory

\* A write waits for a read that has no command yet, and there are so many
\* writes that only they get commands: the read never gets one.
Jammed ==
  /\ Len(write_buffer) >= TransQ \/ Len(write_buffer) > LowMark
  /\ \E a \in Range(read_queue) : a \in Range(write_buffer)

\* Nothing else keeps a transaction from its answer.
AllAnswered == []<>(Jammed \/ \A t \in Kind : unanswered[t] = 0)
=============================================================================
