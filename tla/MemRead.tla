------------------------------ MODULE MemRead ------------------------------
(***************************************************************************)
(* The read half of the simulated memory controller: on every tick the     *)
(* simulator thread takes a read request of the accelerator from the AXI   *)
(* AR channel, offers its requests to DRAMsim3 in DRAM bursts, and returns *)
(* the data on the R channel as the DRAM completes the bursts.             *)
(*                                                                         *)
(* DRAMsim3 is taken by its promise, which DramController.tla is shown to  *)
(* keep: it refuses or takes a burst, and completes the bursts it took in  *)
(* any order, one of an address at a time.  Addresses count DRAM bursts.   *)
(* A beat is of the full width of the AXI bus.                             *)
(***************************************************************************)
EXTENDS Integers, Sequences, FiniteSetsExt

CONSTANTS
  Id,        \* AXI ids
  Addr,      \* addresses of read requests
  Configs,   \* memory configurations, see config
  MaxQ,      \* max_q_length, 40
  MaxReads   \* bound on the number of requests

ASSUME ReadAssumption ==
  /\ Addr \subseteq Nat /\ MaxQ \in Nat \ {0} /\ MaxReads \in Nat
  /\ \A f \in Configs : /\ f.mult \in Nat \ {0} /\ f.burst \in Nat \ {0}
                        /\ f.lens \subseteq Nat \ {0}

VARIABLES
  config,             \* what mem_ctrl::init reads from the DRAM's ini file
  tx,                 \* the memory_transactions, in the order of their requests
  ddr_read_q,         \* those with bursts the DRAM has not taken
  in_flight_reads,    \* per address, those whose burst the DRAM is reading
  read_transactions,  \* beats to return
  r, ar_ready,        \* the signals driven: the R beat, AR ready
  sent                \* history: the beats the accelerator took

vars == << config, tx, ddr_read_q, in_flight_reads, read_transactions, r, ar_ready, sent >>

None == [tx |-> 0, beat |-> 0, last |-> FALSE]
\* axi_ddr_bus_multiplicity and TOTAL_BURST: the DDR bus beats of an AXI beat
\* and of a DRAM burst.  config.lens are the lengths of reads, in AXI beats.
Mult == config.mult
Burst == config.burst
Requests == [id : Id, addr : Addr, len : config.lens]

\* dram_tx_n_enqueues
Bursts(len) == IF len * Mult < Burst THEN 1 ELSE (len * Mult) \div Burst
DimmAddr ==
  UNION {UNION {a .. a + n * f.mult : a \in Addr, n \in f.lens} : f \in Configs}

Init ==
  /\ config \in Configs
  /\ tx = << >> /\ ddr_read_q = << >> /\ read_transactions = << >>
  /\ in_flight_reads = [a \in DimmAddr |-> << >>]
  /\ r = None /\ ar_ready = FALSE /\ sent = << >>

-----------------------------------------------------------------------------

\* memory_transaction: enqueued and retrieved count bursts, progress beats.
Transaction(q) ==
  [id |-> q.id, addr |-> q.addr, len |-> q.len, enqueued |-> 0, retrieved |-> {}, progress |-> 0]

\* dramsim_hasBeatReady for beat n: the DRAM has returned all of it.
BeatReady(t, n) ==
  \A i \in 0 .. Mult - 1 : (n * Mult + i) \div Burst \in t.retrieved

\* Mutant of Ready: beats whose data is there count behind one without it.
Ready_AnyOrder(t) == {n \in t.progress .. t.len - 1 : BeatReady(t, n)}

\* The beats that a transaction can return now: the next ones in order.
Ready(t) ==
  {n \in t.progress .. t.len - 1 : \A j \in t.progress .. n : BeatReady(t, j)}

Beats(i, t) ==
  [j \in 1 .. Cardinality(Ready(t)) |->
    [tx |-> i, beat |-> t.progress + j - 1, last |-> t.progress + j = t.len]]

\* Mutant of ReadCallback: the transaction stays in the queue of the address.
ReadCallback_NoPop(a) ==
  /\ in_flight_reads[a] # << >>
  /\ LET i == Head(in_flight_reads[a])
         t == [tx[i] EXCEPT !.retrieved = @ \cup {a - tx[i].addr}]
     IN /\ read_transactions' = read_transactions \o Beats(i, t)
        /\ tx' = [tx EXCEPT ![i] = [t EXCEPT !.progress = @ + Cardinality(Ready(t))]]
  /\ UNCHANGED << config, in_flight_reads, ddr_read_q, r, ar_ready, sent >>

\* The read callback of the DRAM.
ReadCallback(a) ==
  /\ in_flight_reads[a] # << >>
  /\ LET i == Head(in_flight_reads[a])
         t == [tx[i] EXCEPT !.retrieved = @ \cup {a - tx[i].addr}]
     IN /\ read_transactions' = read_transactions \o Beats(i, t)
        /\ tx' = [tx EXCEPT ![i] = [t EXCEPT !.progress = @ + Cardinality(Ready(t))]]
  /\ in_flight_reads' = [in_flight_reads EXCEPT ![a] = Tail(@)]
  /\ UNCHANGED << config, ddr_read_q, r, ar_ready, sent >>

NextBurst(i) == tx[i].addr + tx[i].enqueued

\* Mutant of Candidates: ids are not looked at.
Candidates_AnyId(accept) ==
  {n \in DOMAIN ddr_read_q :
    tx[ddr_read_q[n]].addr \in accept /\ NextBurst(ddr_read_q[n]) \in accept}

\* The transactions whose next burst may go to a DRAM that takes the
\* addresses accept: not one that has an older one of its id in the queue.
Candidates(accept) ==
  {n \in DOMAIN ddr_read_q :
    /\ tx[ddr_read_q[n]].addr \in accept /\ NextBurst(ddr_read_q[n]) \in accept
    /\ \A m \in 1 .. n - 1 : tx[ddr_read_q[m]].id # tx[ddr_read_q[n]].id}

\* erase of the queue's vector.
Erase(q, n) == SubSeq(q, 1, n - 1) \o SubSeq(q, n + 1, Len(q))

\* Mutant of EnqueueRead: the transaction leaves the queue with its first burst.
EnqueueRead_Once(accept) ==
  /\ Candidates(accept) # {}
  /\ LET n == Min(Candidates(accept))
         i == ddr_read_q[n]
     IN /\ in_flight_reads' = [in_flight_reads EXCEPT ![NextBurst(i)] = Append(@, i)]
        /\ tx' = [tx EXCEPT ![i].enqueued = @ + 1]
        /\ ddr_read_q' = Erase(ddr_read_q, n)
  /\ UNCHANGED << config, read_transactions, r, ar_ready, sent >>

\* The read half of try_to_enqueue_ddr, when it finds a candidate.
EnqueueRead(accept) ==
  /\ Candidates(accept) # {}
  /\ LET n == Min(Candidates(accept))
         i == ddr_read_q[n]
     IN /\ in_flight_reads' = [in_flight_reads EXCEPT ![NextBurst(i)] = Append(@, i)]
        /\ tx' = [tx EXCEPT ![i].enqueued = @ + 1]
        /\ ddr_read_q' = IF tx[i].enqueued + 1 >= Bursts(tx[i].len)
                         THEN Erase(ddr_read_q, n) ELSE ddr_read_q
  /\ UNCHANGED << config, read_transactions, r, ar_ready, sent >>

CanAcceptRead(q) == Len(q) < MaxQ

\* The AR and R part of tick_signals.  The accelerator takes the beat that is
\* offered (take) and makes the requests new (none or one).  Every beat is a
\* transaction of its own here, popped when it is taken.
Tick(take, new) ==
  LET taken == take /\ r # None
      accepted == IF ar_ready /\ Len(tx) < MaxReads THEN new ELSE << >>
  IN /\ sent' = IF taken THEN Append(sent, r) ELSE sent
     /\ read_transactions' = IF taken THEN Tail(read_transactions) ELSE read_transactions
     /\ tx' = tx \o [j \in DOMAIN accepted |-> Transaction(accepted[j])]
     /\ ddr_read_q' = ddr_read_q \o [j \in DOMAIN accepted |-> Len(tx) + j]
     /\ r' = IF read_transactions' = << >> THEN None ELSE Head(read_transactions')
     /\ ar_ready' = CanAcceptRead(ddr_read_q')
     /\ UNCHANGED << config, in_flight_reads >>

-----------------------------------------------------------------------------

Dram == \E a \in DimmAddr : ReadCallback(a)
Offered == UNION {{tx[i].addr, NextBurst(i)} : i \in Range(ddr_read_q)}
Enqueue == \E accept \in SUBSET Offered : EnqueueRead(accept)
Ticks == \E take \in BOOLEAN, new \in {<< >>} \cup {<< q >> : q \in Requests} : Tick(take, new)

Next == Dram \/ Enqueue \/ Ticks

Spec == Init /\ [][Next]_vars

\* The clock runs, the DRAM completes what it takes and does not refuse for
\* ever, and the accelerator takes its data.
FairSpec ==
  /\ Spec
  /\ \A a \in DimmAddr : WF_vars(ReadCallback(a))
  /\ WF_vars(Enqueue) /\ WF_vars(Tick(TRUE, << >>))

-----------------------------------------------------------------------------
(* Properties *)

\* However the DRAM orders its bursts and however requests of the same
\* addresses share in_flight_reads, the accelerator gets the beats of a read
\* in order, none twice and none left out, each with its data, and last is on
\* the last one and on no other.
BeatsInOrder ==
  \A n \in DOMAIN sent :
    LET s == sent[n] IN
    /\ s.tx \in DOMAIN tx
    /\ s.beat < tx[s.tx].len /\ BeatReady(tx[s.tx], s.beat)
    /\ s.last <=> s.beat = tx[s.tx].len - 1
    /\ \A m \in 1 .. n - 1 : sent[m].tx = s.tx => sent[m].beat < s.beat
    /\ \A k \in 0 .. s.beat - 1 :
         \E m \in 1 .. n - 1 : sent[m].tx = s.tx /\ sent[m].beat = k

\* Every request that the DRAM works for is known to it once per burst that
\* is out: a callback always finds its transaction.
BurstsExact ==
  \A i \in DOMAIN tx : \A k \in 0 .. Bursts(tx[i].len) - 1 :
    Cardinality({n \in DOMAIN in_flight_reads[tx[i].addr + k] :
                   in_flight_reads[tx[i].addr + k][n] = i}) =
      IF k < tx[i].enqueued /\ k \notin tx[i].retrieved THEN 1 ELSE 0

\* "AXI stipulates that for multiple transactions on the same ID, the
\* returned packets need to be serialized": a read goes to the DRAM only once
\* it has all of every older read of its id.  The DRAM may still overtake.
SameIdInOrder ==
  \A i, j \in DOMAIN tx :
    i < j /\ tx[i].id = tx[j].id /\ tx[j].enqueued > 0 => tx[i].enqueued = Bursts(tx[i].len)

\* Again and again every read has been answered completely.
Complete(i) == \E n \in DOMAIN sent : sent[n].tx = i /\ sent[n].last
ReadsComplete == []<>(\A i \in DOMAIN tx : Complete(i))
=============================================================================
