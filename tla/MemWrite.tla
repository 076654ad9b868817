------------------------------ MODULE MemWrite ------------------------------
(***************************************************************************)
(* The write half of the simulated memory controller.  The accelerator     *)
(* requests writes on the AXI AW channel and sends their data on the W     *)
(* channel; the simulator thread stores a beat as it arrives, offers the   *)
(* finished writes to DRAMsim3 in DRAM bursts and answers on the B channel *)
(* when the DRAM says so.                                                  *)
(*                                                                         *)
(* The DRAM is as in MemRead.tla.  The accelerator is external: it sends   *)
(* the data of its writes in the order of its requests and not before the  *)
(* tick in which it makes the request.                                     *)
(***************************************************************************)
EXTENDS Integers, Sequences, SequencesExt

CONSTANTS
  Id,            \* AXI ids
  Addr,          \* addresses of writes, counted in DRAM bursts
  Lens,          \* their lengths, in AXI beats
  Mult, Burst,   \* DDR bus beats of an AXI beat and of a DRAM burst
  MaxInFlight,   \* max_in_flight_writes, 32
  MaxWrites      \* bound on the number of writes

ASSUME WriteAssumption ==
  /\ Addr \subseteq Nat /\ Lens \subseteq Nat \ {0}
  /\ Mult \in Nat \ {0} /\ Burst \in Nat \ {0} /\ MaxInFlight \in Nat \ {0} /\ MaxWrites \in Nat

VARIABLES
  tx,                             \* the memory_transactions, in the order of their requests
  write_transactions,             \* those with data to come
  ddr_write_q, in_flight_writes,  \* those with bursts to give to the DRAM, and in it
  to_enqueue, send_ids,           \* ids to answer
  num_in_flight_writes,
  b, aw_ready, w_ready,           \* the signals driven
  next, beat,                     \* the accelerator: the write whose data is next, its beat
  answered                        \* history: the ids on the B channel

dram == << ddr_write_q, in_flight_writes >>
answers == << to_enqueue, send_ids, b, answered >>
vars == << tx, write_transactions, dram, answers, num_in_flight_writes, aw_ready, w_ready,
           next, beat >>

None == "none"
Requests == [id : Id, addr : Addr, len : Lens]
Bursts(len) == IF len * Mult < Burst THEN 1 ELSE (len * Mult) \div Burst
DimmAddr == UNION {a .. a + Bursts(n) - 1 : a \in Addr, n \in Lens}

Init ==
  /\ tx = << >> /\ write_transactions = << >>
  /\ ddr_write_q = << >> /\ in_flight_writes = [a \in DimmAddr |-> << >>]
  /\ to_enqueue = << >> /\ send_ids = << >> /\ b = None /\ answered = << >>
  /\ num_in_flight_writes = 0 /\ aw_ready = FALSE /\ w_ready = FALSE
  /\ next = 1 /\ beat = 0

-----------------------------------------------------------------------------

\* Mutant of WriteCallback: every burst answers.
WriteCallback_EveryBurst(a) ==
  /\ in_flight_writes[a] # << >>
  /\ to_enqueue' = Append(to_enqueue, tx[Head(in_flight_writes[a])].id)
  /\ in_flight_writes' = [in_flight_writes EXCEPT ![a] = Tail(@)]
  /\ UNCHANGED << tx, write_transactions, ddr_write_q, send_ids, b, answered,
                  num_in_flight_writes, aw_ready, w_ready, next, beat >>

\* Mutant of WriteCallback: the second burst answers.
WriteCallback_OffByOne(a) ==
  /\ in_flight_writes[a] # << >>
  /\ LET i == Head(in_flight_writes[a]) IN
     /\ tx' = [tx EXCEPT ![i].progress = @ - 1]
     /\ to_enqueue' = IF tx[i].progress = 0 THEN Append(to_enqueue, tx[i].id) ELSE to_enqueue
  /\ in_flight_writes' = [in_flight_writes EXCEPT ![a] = Tail(@)]
  /\ UNCHANGED << write_transactions, ddr_write_q, send_ids, b, answered,
                  num_in_flight_writes, aw_ready, w_ready, next, beat >>

\* The write callback of the DRAM: the count of a write that is in the DRAM
\* starts at one, so that its first burst answers it.
WriteCallback(a) ==
  /\ in_flight_writes[a] # << >>
  /\ LET i == Head(in_flight_writes[a]) IN
     /\ tx' = [tx EXCEPT ![i].progress = @ - 1]
     /\ to_enqueue' = IF tx[i].progress = 1 THEN Append(to_enqueue, tx[i].id) ELSE to_enqueue
  /\ in_flight_writes' = [in_flight_writes EXCEPT ![a] = Tail(@)]
  /\ UNCHANGED << write_transactions, ddr_write_q, send_ids, b, answered,
                  num_in_flight_writes, aw_ready, w_ready, next, beat >>

NextBurst(i) == tx[i].addr + tx[i].enqueued
Candidates(accept) == {n \in DOMAIN ddr_write_q : NextBurst(ddr_write_q[n]) \in accept}

\* The write half of try_to_enqueue_ddr, when the DRAM, which takes the
\* addresses accept, takes a burst.
EnqueueWrite(accept) ==
  /\ Candidates(accept) # {}
  /\ LET n == Min(Candidates(accept))
         i == ddr_write_q[n]
     IN /\ in_flight_writes' = [in_flight_writes EXCEPT ![NextBurst(i)] = Append(@, i)]
        /\ tx' = [tx EXCEPT ![i].enqueued = @ + 1]
        /\ ddr_write_q' = IF tx[i].enqueued + 1 >= Bursts(tx[i].len)
                          THEN RemoveAt(ddr_write_q, n) ELSE ddr_write_q
  /\ UNCHANGED << write_transactions, answers, num_in_flight_writes, aw_ready, w_ready,
                  next, beat >>

\* memory_transaction: progress counts beats, then (from one) bursts; stored
\* is the history of the beats written to its memory.
Transaction(q) ==
  [id |-> q.id, addr |-> q.addr, len |-> q.len, enqueued |-> 0, progress |-> 0, stored |-> << >>]

\* Mutant of WReady: W is ready without regard to AW.
WReady_Always(fire, last, open, n) == TRUE

\* w.ready after a tick that leaves open the writes with data to come.  While
\* a write waits for data and none comes, ready stays as it is.
WReady(fire, last, open, n) ==
  IF last \/ (open = << >>) THEN open # << >> \/ n < MaxInFlight
  ELSE fire \/ w_ready

AwReady(n) == n < MaxInFlight

FirstOf(q) == IF q = << >> THEN << >> ELSE << Head(q) >>
AllButFirst(q) == IF q = << >> THEN << >> ELSE Tail(q)

\* The B part of a tick.  The signal is driven before an id moves from
\* to_enqueue to send_ids.
Answer(take) ==
  LET ids == IF take THEN Tail(send_ids) ELSE send_ids IN
  /\ answered' = IF take THEN Append(answered, b) ELSE answered
  /\ b' = IF ids = << >> THEN None ELSE Head(ids)
  /\ send_ids' = ids \o FirstOf(to_enqueue)
  /\ to_enqueue' = AllButFirst(to_enqueue)

\* The B, AW and W part of tick_signals.  The accelerator takes the answer
\* that is offered (take), makes the requests new (none or one) and offers a
\* beat of data (data): of a write requested before or in this tick.
Tick(take, new, data) ==
  LET accepted == IF aw_ready THEN new ELSE << >>
      txs == tx \o [j \in DOMAIN accepted |-> Transaction(accepted[j])]
      open == write_transactions \o [j \in DOMAIN accepted |-> Len(tx) + j]
      sending == data /\ w_ready
      len == IF next <= Len(tx) THEN tx[next].len ELSE new[1].len
      last == sending /\ beat + 1 = len
      fire == sending /\ open # << >>
      n == num_in_flight_writes - (IF take THEN 1 ELSE 0) + Len(accepted)
  IN /\ take => b # None
     /\ Len(tx) + Len(new) <= MaxWrites
     /\ data => next <= Len(tx) + Len(new)
     /\ Answer(take)
     /\ tx' = IF fire
              THEN [txs EXCEPT ![Head(open)] =
                      [@ EXCEPT !.stored = Append(@, << next, beat >>),
                                !.progress = IF last THEN 1 ELSE @ + 1]]
              ELSE txs
     /\ write_transactions' = IF fire /\ last THEN Tail(open) ELSE open
     /\ ddr_write_q' = IF fire /\ last THEN Append(ddr_write_q, Head(open)) ELSE ddr_write_q
     /\ num_in_flight_writes' = n
     /\ w_ready' = WReady(fire, fire /\ last, write_transactions', n)
     /\ aw_ready' = AwReady(n)
     /\ next' = IF last THEN next + 1 ELSE next
     /\ beat' = IF ~sending THEN beat ELSE IF last THEN 0 ELSE beat + 1
     /\ UNCHANGED in_flight_writes

-----------------------------------------------------------------------------

Dram == \E a \in DimmAddr : WriteCallback(a)
Offered == {NextBurst(i) : i \in Range(ddr_write_q)}
Enqueue == \E accept \in SUBSET Offered : EnqueueWrite(accept)
Ticks ==
  \E take, data \in BOOLEAN, new \in {<< >>} \cup {<< q >> : q \in Requests} :
    Tick(take, new, data)

Next == Dram \/ Enqueue \/ Ticks

Spec == Init /\ [][Next]_vars

\* The clock runs, the DRAM completes what it takes and does not refuse for
\* ever, and the accelerator sends the data of its requests and takes the
\* answers.
FairSpec ==
  /\ Spec
  /\ \A a \in DimmAddr : WF_vars(WriteCallback(a))
  /\ WF_vars(Enqueue) /\ WF_vars(Tick(b # None, << >>, next <= Len(tx)))

-----------------------------------------------------------------------------
(* Properties *)

\* Every beat that the W channel takes is stored, by the write it belongs to
\* and in order: although the controller drops a beat when no write is open,
\* w.ready is never up for one whose request it has not taken.
BeatsStored ==
  \A i \in DOMAIN tx :
    tx[i].stored = [n \in 1 .. (IF i < next THEN tx[i].len ELSE IF i = next THEN beat ELSE 0)
                      |-> << i, n - 1 >>]

\* A write is answered once, and not before its last beat is stored: the
\* answers of an id, given or queued, never outnumber its finished writes.
AnswersEarned ==
  \A i \in Id :
    Len(SelectSeq(answered \o send_ids \o to_enqueue, LAMBDA x : x = i))
      <= Cardinality({j \in 1 .. next - 1 : j <= Len(tx) /\ tx[j].id = i})

\* Every write is answered.
WritesComplete == \A i \in 1 .. MaxWrites : Len(tx) >= i ~> Len(answered) >= i
=============================================================================
