------------------------ MODULE DramControllerProofs ------------------------
(***************************************************************************)
(* Proofs about DramController.tla, for any geometry, queue structure and  *)
(* sizes: what IssueCommand checks before it erases a transaction always   *)
(* holds, and a write never overtakes a read of its address.               *)
(***************************************************************************)
EXTENDS DramController, TLAPS

In(s, x) == \E n \in DOMAIN s : s[n] = x
Unique(s) == \A m, n \in DOMAIN s : s[m] = s[n] => m = n
Place(a) == QueueOf(BankOf(a))

\* One place for the work pending on an address: w says whether the queue of
\* transactions, c whether the command queue has it.
OnePlace(w, c, pending) == ((w \/ c) <=> pending) /\ ~(w /\ c)

\* No command is in a queue twice, and each is in the queue of its bank.
Lined(qs) ==
  /\ qs \in [Queue -> Seq(Kind)]
  /\ \A q \in Queue : Unique(qs[q]) /\ \A n \in DOMAIN qs[q] : Place(qs[q][n].addr) = q

\* What is pending has one place.
Placed(rq, wb, rd, wr, qs) ==
  /\ Unique(rq) /\ Unique(wb) /\ Lined(qs)
  /\ \A a \in Addr : OnePlace(In(rq, a), In(qs[Place(a)], Trans(a, FALSE)), rd[a] > 0)
  /\ \A a \in Addr : OnePlace(In(wb, a), In(qs[Place(a)], Trans(a, TRUE)), a \in wr)

\* No write has a command while reads of its address are pending.
WritesLast(rd, qs) ==
  \A a \in Addr : In(qs[Place(a)], Trans(a, TRUE)) => rd[a] = 0

Types(rq, wb, rd, wr) ==
  /\ rq \in Seq(Addr) /\ wb \in Seq(Addr)
  /\ rd \in [Addr -> Nat] /\ wr \in SUBSET Addr

Sound(rq, wb, rd, wr, qs) ==
  Types(rq, wb, rd, wr) /\ Placed(rq, wb, rd, wr, qs) /\ WritesLast(rd, qs)

IInv ==
  /\ queue_structure \in Structures /\ ~ exited /\ write_draining \in Nat
  /\ Sound(read_queue, write_buffer, pending_rd, pending_wr, queues)

-----------------------------------------------------------------------------
(* Sequences without repetition *)

LEMMA AppendIn ==
  ASSUME NEW S, NEW s \in Seq(S), NEW x \in S
  PROVE  /\ Append(s, x) \in Seq(S)
         /\ \A y : In(Append(s, x), y) <=> In(s, y) \/ y = x
         /\ Unique(s) /\ ~ In(s, x) => Unique(Append(s, x))
<1>1. /\ Append(s, x) \in Seq(S) /\ Len(s) \in Nat
      /\ DOMAIN s = 1 .. Len(s) /\ DOMAIN Append(s, x) = 1 .. Len(s) + 1
      /\ \A n \in 1 .. Len(s) : Append(s, x)[n] = s[n]
      /\ Append(s, x)[Len(s) + 1] = x
  OBVIOUS
<1>2. /\ \A n \in 1 .. Len(s) + 1 : n \in 1 .. Len(s) \/ n = Len(s) + 1
      /\ 1 .. Len(s) \subseteq 1 .. Len(s) + 1 /\ Len(s) + 1 \in 1 .. Len(s) + 1
  BY <1>1
<1>3. \A y : In(Append(s, x), y) <=> In(s, y) \/ y = x  BY <1>1, <1>2, Zenon DEF In
<1>4. Unique(s) /\ ~ In(s, x) => Unique(Append(s, x))  BY <1>1, <1>2, Zenon DEF In, Unique
<1> QED  BY <1>1, <1>3, <1>4, Zenon

LEMMA Joined ==
  ASSUME NEW S, NEW s \in Seq(S), NEW t \in Seq(S)
  PROVE  /\ s \o t \in Seq(S) /\ Len(s \o t) = Len(s) + Len(t)
         /\ \A n \in 1 .. Len(s) + Len(t) : (s \o t)[n] = IF n <= Len(s) THEN s[n] ELSE t[n - Len(s)]
OBVIOUS

LEMMA RemoveAtIn ==
  ASSUME NEW S, NEW s \in Seq(S), NEW k \in DOMAIN s, Unique(s)
  PROVE  /\ RemoveAt(s, k) \in Seq(S) /\ Unique(RemoveAt(s, k))
         /\ \A y : In(RemoveAt(s, k), y) <=> In(s, y) /\ y # s[k]
<1>1. k \in 1 .. Len(s) /\ Len(s) \in Nat /\ DOMAIN s = 1 .. Len(s)
  OBVIOUS
<1>2. /\ SubSeq(s, 1, k - 1) \in Seq(S) /\ Len(SubSeq(s, 1, k - 1)) = k - 1
      /\ \A n \in 1 .. k - 1 : SubSeq(s, 1, k - 1)[n] = s[n]
  BY <1>1
<1>3. /\ SubSeq(s, k + 1, Len(s)) \in Seq(S) /\ Len(SubSeq(s, k + 1, Len(s))) = Len(s) - k
      /\ \A n \in 1 .. Len(s) - k : SubSeq(s, k + 1, Len(s))[n] = s[n + k]
  BY <1>1, SMTT(20)
<1> DEFINE r == RemoveAt(s, k)
<1>4. /\ r \in Seq(S) /\ Len(r) = Len(s) - 1 /\ DOMAIN r = 1 .. Len(s) - 1
      /\ \A n \in 1 .. Len(s) - 1 : r[n] = IF n < k THEN s[n] ELSE s[n + 1]
  <2> DEFINE a == SubSeq(s, 1, k - 1)
  <2> DEFINE b == SubSeq(s, k + 1, Len(s))
  <2>1. r = a \o b  BY Zenon DEF RemoveAt
  <2>2. /\ a \in Seq(S) /\ Len(a) = k - 1 /\ \A n \in 1 .. k - 1 : a[n] = s[n]
        /\ b \in Seq(S) /\ Len(b) = Len(s) - k /\ \A n \in 1 .. Len(s) - k : b[n] = s[n + k]
    BY <1>2, <1>3, Zenon
  <2> HIDE DEF a, b, r
  <2>3. /\ r \in Seq(S) /\ Len(r) = Len(a) + Len(b)
        /\ \A n \in 1 .. Len(a) + Len(b) : r[n] = IF n <= Len(a) THEN a[n] ELSE b[n - Len(a)]
    BY <2>1, <2>2, Joined, Zenon
  <2>4. Len(a) + Len(b) = Len(s) - 1  BY <1>1, <2>2
  <2>5. ASSUME NEW n \in 1 .. Len(s) - 1  PROVE r[n] = IF n < k THEN s[n] ELSE s[n + 1]
    <3>1. CASE n < k  BY <1>1, <2>2, <2>3, <2>4, <3>1, SMTT(20)
    <3>2. CASE ~(n < k)
      <4>1. n - (k - 1) \in 1 .. Len(s) - k /\ (n - (k - 1)) + k = n + 1 /\ ~(n <= k - 1)  BY <1>1, <3>2
      <4> QED  BY <2>2, <2>3, <2>4, <3>2, <4>1, SMTT(20)
    <3> QED  BY <3>1, <3>2, Zenon
  <2>6. Len(r) = Len(s) - 1 /\ DOMAIN r = 1 .. Len(s) - 1  BY <2>3, <2>4
  <2> QED  BY <2>3, <2>5, <2>6, Zenon
<1> HIDE DEF r
<1>5. \A n \in 1 .. Len(s) - 1 : n \in 1 .. Len(s) /\ n + 1 \in 1 .. Len(s)  BY <1>1
<1>6. Unique(r)
  <2> SUFFICES ASSUME NEW m \in 1 .. Len(s) - 1, NEW n \in 1 .. Len(s) - 1, r[m] = r[n]  PROVE m = n
    BY <1>4, Zenon DEF Unique
  <2> DEFINE up(i) == IF i < k THEN i ELSE i + 1
  <2>1. r[m] = s[up(m)] /\ r[n] = s[up(n)] /\ up(m) \in 1 .. Len(s) /\ up(n) \in 1 .. Len(s)
    BY <1>4, <1>5, Zenon
  <2>2. up(m) = up(n)  BY <1>1, <2>1, Zenon DEF Unique
  <2> QED  BY <1>1, <2>2
<1>7. \A n \in 1 .. Len(s) - 1 : In(s, r[n]) /\ r[n] # s[k]
  <2> TAKE n \in 1 .. Len(s) - 1
  <2>1. CASE n < k
    <3>1. n # k /\ r[n] = s[n] /\ n \in DOMAIN s  BY <1>1, <1>4, <1>5, <2>1, SMTT(20)
    <3> QED  BY <3>1, Zenon DEF In, Unique
  <2>2. CASE ~(n < k)
    <3>1. n + 1 # k /\ r[n] = s[n + 1] /\ n + 1 \in DOMAIN s  BY <1>1, <1>4, <1>5, <2>2, SMTT(20)
    <3> QED  BY <3>1, Zenon DEF In, Unique
  <2> QED  BY <2>1, <2>2, Zenon
<1>8. \A n \in 1 .. Len(s) : n # k => In(r, s[n])
  <2> TAKE n \in 1 .. Len(s)
  <2>1. CASE n < k
    <3>1. n \in 1 .. Len(s) - 1 /\ r[n] = s[n]  BY <1>1, <1>4, <2>1
    <3> QED  BY <1>4, <3>1, Zenon DEF In
  <2>2. CASE n > k
    <3>1. n - 1 \in 1 .. Len(s) - 1 /\ ~(n - 1 < k) /\ (n - 1) + 1 = n  BY <1>1, <2>2
    <3>2. r[n - 1] = s[n]  BY <1>4, <3>1, Zenon
    <3> QED  BY <1>4, <3>1, <3>2, Zenon DEF In
  <2> QED  BY <1>1, <2>1, <2>2
<1>9. \A y : In(r, y) <=> In(s, y) /\ y # s[k]
  <2> TAKE y
  <2>1. In(r, y) => In(s, y) /\ y # s[k]  BY <1>4, <1>7, Zenon DEF In
  <2>2. In(s, y) /\ y # s[k] => In(r, y)
    <3> HAVE In(s, y) /\ y # s[k]
    <3>1. PICK n \in 1 .. Len(s) : s[n] = y  BY <1>1, Zenon DEF In
    <3> QED  BY <1>8, <3>1, Zenon
  <2> QED  BY <2>1, <2>2, Zenon
<1> QED  BY <1>4, <1>6, <1>9, Zenon DEF r

\* What the proofs use of the natural numbers: a set of them has a least one.
Least == \A S \in SUBSET Nat : S # {} => \E x \in S : \A y \in S : x <= y

LEMMA MinIn ==
  ASSUME Least, NEW S \in SUBSET Nat, S # {}
  PROVE  Min(S) \in S
<1>1. \E x \in S : \A y \in S : x =< y  BY Zenon DEF Least
<1> QED  BY <1>1, Zenon DEF Min

LEMMA RemoveFirstIn ==
  ASSUME Least, NEW S, NEW s \in Seq(S), NEW x, In(s, x), Unique(s)
  PROVE  /\ RemoveFirst(s, x) \in Seq(S) /\ Unique(RemoveFirst(s, x))
         /\ \A y : In(RemoveFirst(s, x), y) <=> In(s, y) /\ y # x
<1> DEFINE I == {n \in 1 .. Len(s) : s[n] = x}
<1>1. DOMAIN s = 1 .. Len(s) /\ I \in SUBSET Nat /\ I # {}
  <2>1. DOMAIN s = 1 .. Len(s) /\ 1 .. Len(s) \subseteq Nat
    OBVIOUS
  <2> QED  BY <2>1, Zenon DEF In
<1>2. Min(I) \in I  BY <1>1, MinIn, Zenon
<1>3. RemoveFirst(s, x) = RemoveAt(s, Min(I))
  BY <1>1, Zenon DEF RemoveFirst, SelectInSeq
<1>4. PICK k \in DOMAIN s : s[k] = x /\ RemoveFirst(s, x) = RemoveAt(s, k)  BY <1>1, <1>2, <1>3, Zenon
<1>5. /\ RemoveAt(s, k) \in Seq(S) /\ Unique(RemoveAt(s, k))
      /\ \A y : In(RemoveAt(s, k), y) <=> In(s, y) /\ y # s[k]
  BY RemoveAtIn, Zenon
<1> QED  BY <1>4, <1>5, Zenon

-----------------------------------------------------------------------------
(* Placed, when a transaction comes and when one goes *)

LEMMA Places ==
  ASSUME NEW a \in Addr
  PROVE  Place(a) \in Queue
BY DramAssumption, Zenon DEF DramAssumption, Place, Queue, Bank, BankOf, Rank

\* A transaction that is pending anew is put at the end of its queue.
LEMMA ReadComes ==
  ASSUME NEW rq, NEW wb, NEW rd, NEW wr, NEW qs, Sound(rq, wb, rd, wr, qs), NEW a \in Addr, a \notin wr
  PROVE  Sound(IF rd[a] = 0 THEN Append(rq, a) ELSE rq, wb, [rd EXCEPT ![a] = rd[a] + 1], wr, qs)
<1> USE DEF Sound
<1>1. rq \in Seq(Addr) /\ rd \in [Addr -> Nat] /\ rd[a] \in Nat  BY Zenon DEF Types
<1> DEFINE s == IF rd[a] = 0 THEN Append(rq, a) ELSE rq
<1> DEFINE f == [rd EXCEPT ![a] = rd[a] + 1]
<1>2. f \in [Addr -> Nat] /\ f[a] > 0 /\ \A b \in Addr : b # a => f[b] = rd[b]  BY <1>1
<1>3. s \in Seq(Addr) /\ Unique(s) /\ \A y \in Addr : In(s, y) <=> In(rq, y) \/ (rd[a] = 0 /\ y = a)
  <2>1. CASE rd[a] = 0
    <3>0. ~(rd[a] > 0)  BY <2>1
    <3>1. ~ In(rq, a)  BY <3>0, Zenon DEF Placed, OnePlace
    <3>2. s = Append(rq, a)  BY <2>1, Zenon
    <3> QED  BY <1>1, <2>1, <3>1, <3>2, AppendIn, Zenon DEF Placed
  <2>2. CASE rd[a] # 0  BY <1>1, <2>2, Zenon DEF Placed
  <2> QED  BY <2>1, <2>2, Zenon
<1> HIDE DEF s, f
<1>4. ~ In(qs[Place(a)], Trans(a, TRUE))  BY Zenon DEF Placed, OnePlace
<1>5. Types(s, wb, f, wr)  BY <1>2, <1>3, Zenon DEF Types
<1>6. WritesLast(f, qs)  BY <1>2, <1>4, Zenon DEF WritesLast
<1>7. \A b \in Addr : OnePlace(In(s, b), In(qs[Place(b)], Trans(b, FALSE)), f[b] > 0)
  <2> TAKE b \in Addr
  <2>1. CASE b # a  BY <1>2, <1>3, <2>1, Zenon DEF Placed, OnePlace
  <2>2. CASE b = a /\ rd[a] = 0
    <3>0. ~(rd[a] > 0)  BY <2>2
    <3>1. ~ In(qs[Place(a)], Trans(a, FALSE))  BY <3>0, Zenon DEF Placed, OnePlace
    <3> QED  BY <1>2, <1>3, <2>2, <3>1, Zenon DEF OnePlace
  <2>3. CASE b = a /\ rd[a] # 0
    <3>1. rd[a] > 0  BY <1>1, <2>3
    <3> QED  BY <1>2, <1>3, <2>3, <3>1, Zenon DEF Placed, OnePlace
  <2> QED  BY <2>1, <2>2, <2>3, Zenon
<1>8. Placed(s, wb, f, wr, qs)  BY <1>3, <1>7, Zenon DEF Placed
<1> QED  BY <1>5, <1>6, <1>8, Zenon DEF s, f

LEMMA WriteComes ==
  ASSUME NEW rq, NEW wb, NEW rd, NEW wr, NEW qs, Sound(rq, wb, rd, wr, qs), NEW a \in Addr, a \notin wr
  PROVE  Sound(rq, Append(wb, a), rd, wr \cup {a}, qs)
<1> USE DEF Sound
<1>1. wb \in Seq(Addr) /\ wr \in SUBSET Addr  BY Zenon DEF Types
<1>2. ~ In(wb, a) /\ ~ In(qs[Place(a)], Trans(a, TRUE))  BY Zenon DEF Placed, OnePlace
<1>3. Append(wb, a) \in Seq(Addr) /\ Unique(Append(wb, a)) /\ \A y : In(Append(wb, a), y) <=> In(wb, y) \/ y = a
  BY <1>1, <1>2, AppendIn, Zenon DEF Placed
<1>4. \A b \in Addr : OnePlace(In(Append(wb, a), b), In(qs[Place(b)], Trans(b, TRUE)), b \in wr \cup {a})
  <2> TAKE b \in Addr
  <2>1. CASE b # a  BY <1>3, <2>1, Zenon DEF Placed, OnePlace
  <2>2. CASE b = a  BY <1>2, <1>3, <2>2, Zenon DEF OnePlace
  <2> QED  BY <2>1, <2>2, Zenon
<1>5. Placed(rq, Append(wb, a), rd, wr \cup {a}, qs)  BY <1>3, <1>4, Zenon DEF Placed
<1> QED  BY <1>1, <1>3, <1>5, Zenon DEF Types

\* A command is appended to the queue of its bank ...
LEMMA Pushed ==
  ASSUME NEW qs, Lined(qs), NEW t \in Kind, ~ In(qs[Place(t.addr)], t)
  PROVE  /\ Lined(Push(qs, t))
         /\ \A x \in Kind : In(Push(qs, t)[Place(x.addr)], x) <=> In(qs[Place(x.addr)], x) \/ x = t
<1> USE DEF Lined
<1>1. t.addr \in Addr /\ Place(t.addr) \in Queue  BY Places, Zenon DEF Kind
<1>2. PICK p \in Queue : p = Place(t.addr)  BY <1>1, Zenon
<1>3. Push(qs, t) = [qs EXCEPT ![p] = Append(qs[p], t)]  BY <1>2, Zenon DEF Push, Place
<1>4. /\ Append(qs[p], t) \in Seq(Kind) /\ Unique(Append(qs[p], t))
      /\ \A y : In(Append(qs[p], t), y) <=> In(qs[p], y) \/ y = t
  BY <1>2, AppendIn, Zenon
<1>5. /\ Push(qs, t) \in [Queue -> Seq(Kind)] /\ Push(qs, t)[p] = Append(qs[p], t)
      /\ \A q \in Queue : q # p => Push(qs, t)[q] = qs[q]
  BY <1>3, <1>4, Zenon
<1>6. \A n \in DOMAIN Append(qs[p], t) : Place(Append(qs[p], t)[n].addr) = p
  <2> TAKE n \in DOMAIN Append(qs[p], t)
  <2>1. In(Append(qs[p], t), Append(qs[p], t)[n])  BY Zenon DEF In
  <2>2. Append(qs[p], t)[n] = t \/ In(qs[p], Append(qs[p], t)[n])  BY <1>4, <2>1, Zenon
  <2> QED  BY <1>2, <2>2, Zenon DEF In
<1>7. \A q \in Queue : Unique(Push(qs, t)[q]) /\ \A n \in DOMAIN Push(qs, t)[q] : Place(Push(qs, t)[q][n].addr) = q
  <2> TAKE q \in Queue
  <2>1. CASE q = p  BY <1>4, <1>5, <1>6, <2>1, Zenon
  <2>2. CASE q # p  BY <1>5, <2>2, Zenon
  <2> QED  BY <2>1, <2>2, Zenon
<1>8. \A x \in Kind : In(Push(qs, t)[Place(x.addr)], x) <=> In(qs[Place(x.addr)], x) \/ x = t
  <2> TAKE x \in Kind
  <2>1. Place(x.addr) \in Queue  BY Places, Zenon DEF Kind
  <2>2. CASE Place(x.addr) = p  BY <1>4, <1>5, <2>2, Zenon
  <2>3. CASE Place(x.addr) # p  BY <1>2, <1>5, <2>1, <2>3, SMTT(20)
  <2> QED  BY <2>2, <2>3, Zenon
<1> QED  BY <1>5, <1>7, <1>8, Zenon

\* ... and erased from it.
Erase(qs, t) == [qs EXCEPT ![Place(t.addr)] = RemoveFirst(qs[Place(t.addr)], t)]

LEMMA Erased ==
  ASSUME Least, NEW qs, Lined(qs), NEW t \in Kind, In(qs[Place(t.addr)], t)
  PROVE  /\ Lined(Erase(qs, t))
         /\ \A x \in Kind : In(Erase(qs, t)[Place(x.addr)], x) <=> In(qs[Place(x.addr)], x) /\ x # t
<1> USE DEF Lined
<1> DEFINE after == Erase(qs, t)
<1>0. PICK p \in Queue : p = Place(t.addr)  BY Places, Zenon DEF Kind
<1>1. PICK r : r = RemoveFirst(qs[p], t)
  BY Zenon
<1>2. r \in Seq(Kind) /\ Unique(r) /\ \A y : In(r, y) <=> In(qs[p], y) /\ y # t
  BY <1>0, <1>1, RemoveFirstIn, SMTT(20)
<1>3. after \in [Queue -> Seq(Kind)] /\ after[p] = r /\ \A q \in Queue : q # p => after[q] = qs[q]
  BY <1>0, <1>1, <1>2, SMTT(20) DEF Erase
<1> HIDE DEF after
<1>4. \A n \in DOMAIN r : Place(r[n].addr) = p
  <2> TAKE n \in DOMAIN r
  <2>1. In(qs[p], r[n])  BY <1>2, Zenon DEF In
  <2> QED  BY <2>1, Zenon DEF In
<1>5. \A q \in Queue : Unique(after[q]) /\ \A n \in DOMAIN after[q] : Place(after[q][n].addr) = q
  <2> TAKE q \in Queue
  <2>1. CASE q = p  BY <1>2, <1>3, <1>4, <2>1, SMTT(20)
  <2>2. CASE q # p  BY <1>3, <2>2, Zenon
  <2> QED  BY <2>1, <2>2, Zenon
<1>6. \A x \in Kind : In(after[Place(x.addr)], x) <=> In(qs[Place(x.addr)], x) /\ x # t
  <2> TAKE x \in Kind
  <2>1. Place(x.addr) \in Queue  BY Places, Zenon DEF Kind
  <2>2. CASE Place(x.addr) = p  BY <1>2, <1>3, <2>2, SMTT(20)
  <2>3. CASE Place(x.addr) # p  BY <1>0, <1>3, <2>1, <2>3, SMTT(20)
  <2> QED  BY <2>2, <2>3, Zenon
<1> QED  BY <1>3, <1>5, <1>6, SMTT(20) DEF after

-----------------------------------------------------------------------------
(* A tick *)

\* A read or write that is issued is the command of a transaction that waits
\* in the queue of its bank.
LEMMA CommandsWait ==
  ASSUME IInv, NEW due \in BOOLEAN, NEW c, c \in Issuable(due) \/ c = NoCommand, c.cmd \in {"READ", "WRITE"}
  PROVE  /\ c.trans \in Kind /\ (c.trans.write <=> c.cmd = "WRITE")
         /\ QueueOf(c.bank) = Place(c.trans.addr) /\ In(queues[Place(c.trans.addr)], c.trans)
<1>1. c \in Commands(Held(due))
  <2>1. c # NoCommand  BY DEF NoCommand, Command
  <2>2. \A k : c \notin RefreshCommands(k)  BY DEF RefreshCommands, Command
  <2> QED  BY <2>1, <2>2, Zenon DEF Issuable
<1>0. PICK q \in Queue : \E i \in DOMAIN queues[q] :
        c = Command(Required(queues[q][i]), BankOf(queues[q][i].addr), queues[q][i])
  BY <1>1, Zenon DEF Commands
<1>2. PICK i \in DOMAIN queues[q] : c = Command(Required(queues[q][i]), BankOf(queues[q][i].addr), queues[q][i])
  BY <1>0, Zenon
<1>3. PICK t : t = queues[q][i]
  BY Zenon
<1>4. t \in Kind /\ Place(t.addr) = q
  <2>1. Lined(queues)  BY Zenon DEF IInv, Sound, Placed
  <2>2. queues[q] \in Seq(Kind) /\ Place(queues[q][i].addr) = q  BY <2>1, Zenon DEF Lined
  <2> QED  BY <1>3, <2>2
<1>5. c.cmd = Required(t) /\ c.bank = BankOf(t.addr) /\ c.trans = t  BY <1>2, <1>3, Zenon DEF Command
<1>6. t.write \in BOOLEAN /\ t.addr \in Addr  BY <1>4, Zenon DEF Kind
<1>7. t.write <=> c.cmd = "WRITE"
  <2>1. bank[BankOf(t.addr)].row = Closed => Required(t) = "ACTIVATE"
    <3>1. t.addr.row # Closed  BY <1>6, DramAssumption DEF DramAssumption, Closed
    <3> QED  BY <3>1, Zenon DEF Required
  <2>2. bank[BankOf(t.addr)].row = t.addr.row => Required(t) = IF t.write THEN "WRITE" ELSE "READ"
    <3>1. t.addr.row # Closed  BY <1>6, DramAssumption DEF DramAssumption, Closed
    <3> QED  BY <3>1, Zenon DEF Required
  <2>3. bank[BankOf(t.addr)].row # Closed /\ bank[BankOf(t.addr)].row # t.addr.row => Required(t) = "PRECHARGE"
    BY Zenon DEF Required
  <2> QED  BY <1>5, <1>6, <2>1, <2>2, <2>3, SMTT(20)
<1> QED  BY <1>3, <1>4, <1>5, <1>7, SMTT(20) DEF In, Place

\* IssueCommand: its checks hold, and the transaction is gone.
LEMMA Issues ==
  ASSUME Least, IInv, NEW due \in BOOLEAN, NEW c, c \in Issuable(due) \/ c = NoCommand
  PROVE  ~ Fails(c) /\ Sound(read_queue, write_buffer, PendingRd(c), PendingWr(c), QueuesAfter(c))
<1> USE DEF Sound
<1>1. /\ Types(read_queue, write_buffer, pending_rd, pending_wr)
      /\ Placed(read_queue, write_buffer, pending_rd, pending_wr, queues) /\ WritesLast(pending_rd, queues)
  BY Zenon DEF IInv
<1>2. CASE c.cmd \notin {"READ", "WRITE"}
  <2>1. ~ Fails(c) /\ PendingRd(c) = pending_rd /\ PendingWr(c) = pending_wr /\ QueuesAfter(c) = queues
    BY <1>2, Zenon DEF Fails, PendingRd, PendingWr, QueuesAfter
  <2> QED  BY <1>1, <2>1, Zenon
<1>3. CASE c.cmd \in {"READ", "WRITE"}
  <2>1. PICK t \in Kind : t = c.trans /\ (t.write <=> c.cmd = "WRITE") /\ QueueOf(c.bank) = Place(t.addr)
                          /\ In(queues[Place(t.addr)], t)
    BY <1>3, CommandsWait, Zenon
  <2>2. PICK a \in Addr : a = t.addr /\ t = Trans(a, t.write) /\ t.write \in BOOLEAN  BY Zenon DEF Kind, Trans
  <2>4. PICK after : after = QueuesAfter(c)
    BY Zenon
  <2>5. after = Erase(queues, t)  BY <1>3, <2>1, <2>4, SMTT(20) DEF QueuesAfter, Erase
  <2>6. /\ Lined(after)
        /\ \A x \in Kind : In(after[Place(x.addr)], x) <=> In(queues[Place(x.addr)], x) /\ x # t
    <3>1. Lined(queues)  BY <1>1, Zenon DEF Placed
    <3> QED  BY <2>1, <2>5, <3>1, Erased, SMTT(20)
  <2>7. \A b \in Addr, w \in BOOLEAN :
          In(after[Place(b)], Trans(b, w)) <=> In(queues[Place(b)], Trans(b, w)) /\ ~(b = a /\ w = t.write)
    <3> TAKE b \in Addr, w \in BOOLEAN
    <3>1. Trans(b, w) \in Kind /\ Trans(b, w).addr = b /\ Trans(b, w).write = w  BY Zenon DEF Trans, Kind
    <3>2. Trans(b, w) = t <=> b = a /\ w = t.write  BY <2>2, <3>1, Zenon
    <3> QED  BY <2>6, <3>1, <3>2, SMTT(20)
  <2>8. CASE c.cmd = "READ"
    <3>1. t.write = FALSE  BY <2>1, <2>2, <2>8, SMTT(20)
    <3>2. PendingWr(c) = pending_wr /\ PendingRd(c) = [pending_rd EXCEPT ![a] = 0]
      BY <2>1, <2>2, <2>8, SMTT(20) DEF PendingWr, PendingRd
    <3>3. pending_rd \in [Addr -> Nat] /\ pending_rd[a] > 0
      <4>1. In(queues[Place(a)], Trans(a, FALSE))  BY <2>1, <2>2, <3>1, Zenon
      <4> QED  BY <1>1, <4>1, Zenon DEF Types, Placed, OnePlace
    <3>4. ~ Fails(c)  BY <2>1, <2>2, <2>8, <3>3, SMTT(20) DEF Fails
    <3>5. PICK f : f = [pending_rd EXCEPT ![a] = 0]
      BY Zenon
    <3>6. f \in [Addr -> Nat] /\ f[a] = 0 /\ ~(f[a] > 0) /\ \A b \in Addr : b # a => f[b] = pending_rd[b]
      BY <3>3, <3>5, SMTT(20)
    <3>7. Types(read_queue, write_buffer, f, pending_wr)  BY <1>1, <2>6, <3>6, SMTT(20) DEF Types
    <3>8. WritesLast(f, after)  BY <1>1, <2>7, <3>6, Zenon DEF WritesLast
    <3>9. \A b \in Addr : OnePlace(In(read_queue, b), In(after[Place(b)], Trans(b, FALSE)), f[b] > 0)
      <4> TAKE b \in Addr
      <4>1. CASE b # a  BY <1>1, <2>7, <3>6, <4>1, Zenon DEF Placed, OnePlace
      <4>2. CASE b = a
        <5>1. ~ In(read_queue, a)  BY <1>1, <2>1, <2>2, <3>1, Zenon DEF Placed, OnePlace
        <5> QED  BY <2>7, <3>1, <3>6, <4>2, <5>1, Zenon DEF OnePlace
      <4> QED  BY <4>1, <4>2, Zenon
    <3>10. \A b \in Addr : OnePlace(In(write_buffer, b), In(after[Place(b)], Trans(b, TRUE)), b \in pending_wr)
      <4>1. \A b \in Addr : In(after[Place(b)], Trans(b, TRUE)) <=> In(queues[Place(b)], Trans(b, TRUE))  BY <2>7, <3>1, Zenon
      <4> QED  BY <1>1, <4>1, Zenon DEF Placed, OnePlace
    <3>11. Placed(read_queue, write_buffer, f, pending_wr, after)  BY <1>1, <2>6, <3>9, <3>10, Zenon DEF Placed
    <3> QED  BY <2>4, <3>2, <3>4, <3>5, <3>7, <3>8, <3>11, SMTT(20)
  <2>9. CASE c.cmd = "WRITE"
    <3>1. t.write = TRUE  BY <2>1, <2>2, <2>9, SMTT(20)
    <3>2. PendingWr(c) = pending_wr \ {a} /\ PendingRd(c) = pending_rd
      BY <2>1, <2>2, <2>9, SMTT(20) DEF PendingWr, PendingRd
    <3>3. In(queues[Place(a)], Trans(a, TRUE))  BY <2>1, <2>2, <3>1, Zenon
    <3>4. a \in pending_wr /\ ~ In(write_buffer, a)  BY <1>1, <3>3, Zenon DEF Placed, OnePlace
    <3>5. ~ Fails(c)  BY <2>1, <2>2, <2>9, <3>4, SMTT(20) DEF Fails
    <3>6. Types(read_queue, write_buffer, pending_rd, pending_wr \ {a})  BY <1>1, <2>6, Zenon DEF Types
    <3>7. WritesLast(pending_rd, after)  BY <1>1, <2>7, Zenon DEF WritesLast
    <3>8. \A b \in Addr : OnePlace(In(read_queue, b), In(after[Place(b)], Trans(b, FALSE)), pending_rd[b] > 0)
      <4>1. \A b \in Addr : In(after[Place(b)], Trans(b, FALSE)) <=> In(queues[Place(b)], Trans(b, FALSE))  BY <2>7, <3>1, Zenon
      <4> QED  BY <1>1, <4>1, Zenon DEF Placed, OnePlace
    <3>9. \A b \in Addr : OnePlace(In(write_buffer, b), In(after[Place(b)], Trans(b, TRUE)), b \in pending_wr \ {a})
      <4> TAKE b \in Addr
      <4>1. CASE b # a  BY <1>1, <2>7, <4>1, Zenon DEF Placed, OnePlace
      <4>2. CASE b = a  BY <2>7, <3>1, <3>4, <4>2, Zenon DEF OnePlace
      <4> QED  BY <4>1, <4>2, Zenon
    <3>10. Placed(read_queue, write_buffer, pending_rd, pending_wr \ {a}, after)
      BY <1>1, <2>6, <3>8, <3>9, Zenon DEF Placed
    <3> QED  BY <2>4, <3>2, <3>5, <3>6, <3>7, <3>10, SMTT(20)
  <2> QED  BY <1>3, <2>8, <2>9, SMTT(20)
<1> QED  BY <1>2, <1>3, Zenon

\* ScheduleTransaction: a transaction moves from its queue to the command
\* queue, a write only when no read of its address is pending.
LEMMA Moves ==
  ASSUME NEW s \in Seq(Addr), Unique(s), NEW n \in DOMAIN s, NEW w \in BOOLEAN, NEW qs, Lined(qs),
         ~ In(qs[Place(s[n])], Trans(s[n], w))
  PROVE  /\ RemoveAt(s, n) \in Seq(Addr) /\ Unique(RemoveAt(s, n)) /\ Lined(Push(qs, Trans(s[n], w)))
         /\ \A a \in Addr : In(RemoveAt(s, n), a) <=> In(s, a) /\ a # s[n]
         /\ \A a \in Addr, v \in BOOLEAN :
              In(Push(qs, Trans(s[n], w))[Place(a)], Trans(a, v)) <=>
                In(qs[Place(a)], Trans(a, v)) \/ (a = s[n] /\ v = w)
<1> DEFINE to == Push(qs, Trans(s[n], w))
<1>1. /\ RemoveAt(s, n) \in Seq(Addr) /\ Unique(RemoveAt(s, n))
      /\ \A y : In(RemoveAt(s, n), y) <=> In(s, y) /\ y # s[n]
  BY RemoveAtIn, Zenon
<1>2. PICK t \in Kind : t = Trans(s[n], w)  BY DEF Trans, Kind
<1>3. t.addr = s[n] /\ t.write = w /\ s[n] \in Addr  BY <1>2 DEF Trans
<1>4. ~ In(qs[Place(t.addr)], t)  BY <1>2, <1>3, Zenon
<1>5. Lined(to) /\ \A x \in Kind : In(to[Place(x.addr)], x) <=> In(qs[Place(x.addr)], x) \/ x = t
  BY <1>2, <1>4, Pushed, Zenon
<1> HIDE DEF to
<1>6. \A a \in Addr, v \in BOOLEAN : In(to[Place(a)], Trans(a, v)) <=> In(qs[Place(a)], Trans(a, v)) \/ (a = s[n] /\ v = w)
  <2> TAKE a \in Addr, v \in BOOLEAN
  <2>1. Trans(a, v) \in Kind /\ Trans(a, v).addr = a /\ Trans(a, v).write = v  BY Zenon DEF Trans, Kind
  <2>2. Trans(a, v) = t <=> a = s[n] /\ v = w  BY <1>2, <1>3, <2>1, SMTT(20)
  <2> QED  BY <1>5, <2>1, <2>2, Zenon
<1> QED  BY <1>1, <1>5, <1>6 DEF to

LEMMA Schedules ==
  ASSUME Least, write_draining \in Nat, NEW rd, NEW wr, NEW qs, Sound(read_queue, write_buffer, rd, wr, qs),
         ScheduleTransaction(qs, rd)
  PROVE  write_draining' \in Nat /\ Sound(read_queue', write_buffer', rd, wr, queues')
<1> USE DEF Sound
<1>1. /\ read_queue \in Seq(Addr) /\ write_buffer \in Seq(Addr) /\ rd \in [Addr -> Nat] /\ wr \in SUBSET Addr
  BY Zenon DEF Types
<1>2. PICK drain \in Nat : drain = Draining(qs)
  <2>1. Len(write_buffer) \in Nat  BY <1>1
  <2>2. Draining(qs) \in Nat  BY <2>1, Zenon DEF Draining
  <2> QED  BY <2>2, Zenon
<1>3. PICK from \in Seq(Addr) : from = IF drain > 0 THEN write_buffer ELSE read_queue  BY <1>1, Zenon
<1>4. CASE WithRoom(qs, from) = {}
  <2>1. write_draining' = drain /\ queues' = qs /\ UNCHANGED << read_queue, write_buffer >>
    BY <1>2, <1>3, <1>4, Zenon DEF ScheduleTransaction
  <2> QED  BY <2>1, Zenon
<1>5. CASE WithRoom(qs, from) # {}
  <2>1. PICK n : n = Min(WithRoom(qs, from))
    BY Zenon
  <2>2. n \in DOMAIN from /\ from[n] \in Addr
    <3>1. DOMAIN from = 1 .. Len(from) /\ WithRoom(qs, from) \subseteq DOMAIN from  BY DEF WithRoom
    <3>2. WithRoom(qs, from) \in SUBSET Nat  BY <3>1
    <3>3. n \in WithRoom(qs, from)  BY <1>5, <2>1, <3>2, MinIn, Zenon
    <3> QED  BY <3>1, <3>3
  <2>3. CASE drain = 0
    <3>1. from = read_queue  BY <1>3, <2>3
    <3>2. /\ queues' = Push(qs, Trans(read_queue[n], FALSE)) /\ read_queue' = RemoveAt(read_queue, n)
          /\ UNCHANGED << write_draining, write_buffer >>
      BY <1>2, <1>3, <1>5, <2>1, <2>3, <3>1, Zenon DEF ScheduleTransaction
    <3>3. ~ In(qs[Place(read_queue[n])], Trans(read_queue[n], FALSE))
      <4>1. In(read_queue, read_queue[n])  BY <2>2, <3>1, Zenon DEF In
      <4> QED  BY <2>2, <3>1, <4>1, Zenon DEF Placed, OnePlace
    <3>4. /\ read_queue' \in Seq(Addr) /\ Unique(read_queue') /\ Lined(queues')
          /\ \A a \in Addr : In(read_queue', a) <=> In(read_queue, a) /\ a # read_queue[n]
          /\ \A a \in Addr, v \in BOOLEAN :
               In(queues'[Place(a)], Trans(a, v)) <=> In(qs[Place(a)], Trans(a, v)) \/ (a = read_queue[n] /\ v = FALSE)
      <4>1. read_queue \in Seq(Addr) /\ Unique(read_queue) /\ n \in DOMAIN read_queue /\ Lined(qs) /\ FALSE \in BOOLEAN
        BY <1>1, <2>2, <3>1, SMTT(20) DEF Placed
      <4>2. /\ RemoveAt(read_queue, n) \in Seq(Addr) /\ Unique(RemoveAt(read_queue, n)) /\ Lined(Push(qs, Trans(read_queue[n], FALSE)))
            /\ \A a \in Addr : In(RemoveAt(read_queue, n), a) <=> In(read_queue, a) /\ a # read_queue[n]
            /\ \A a \in Addr, v \in BOOLEAN :
                 In(Push(qs, Trans(read_queue[n], FALSE))[Place(a)], Trans(a, v)) <=>
                   In(qs[Place(a)], Trans(a, v)) \/ (a = read_queue[n] /\ v = FALSE)
        BY <3>3, <4>1, Moves, ZenonT(60)
      <4> QED  BY <3>2, <4>2, Zenon
    <3>5. Types(read_queue', write_buffer', rd, wr)  BY <1>1, <3>2, <3>4, Zenon DEF Types
    <3>6. WritesLast(rd, queues')  BY <3>4, Zenon DEF WritesLast
    <3>7. \A a \in Addr : OnePlace(In(read_queue', a), In(queues'[Place(a)], Trans(a, FALSE)), rd[a] > 0)
      <4> TAKE a \in Addr
      <4>1. In(read_queue, read_queue[n])  BY <2>2, <3>1, Zenon DEF In
      <4> QED  BY <3>3, <3>4, <4>1, Zenon DEF Placed, OnePlace
    <3>8. \A a \in Addr : OnePlace(In(write_buffer', a), In(queues'[Place(a)], Trans(a, TRUE)), a \in wr)
      BY <3>2, <3>4, Zenon DEF Placed, OnePlace
    <3>9. Placed(read_queue', write_buffer', rd, wr, queues')  BY <3>2, <3>4, <3>7, <3>8, Zenon DEF Placed
    <3> QED  BY <3>2, <3>5, <3>6, <3>9, Zenon
  <2>4. CASE drain # 0 /\ WaitsForRead(from[n], rd)
    <3>1. write_draining' = 0 /\ queues' = qs /\ UNCHANGED << read_queue, write_buffer >>
      BY <1>2, <1>3, <1>5, <2>1, <2>4, SMTT(20) DEF ScheduleTransaction
    <3> QED  BY <3>1, Zenon
  <2>5. CASE drain # 0 /\ ~ WaitsForRead(from[n], rd)
    <3>1. from = write_buffer /\ drain - 1 \in Nat  BY <1>3, <2>5
    <3>2. /\ queues' = Push(qs, Trans(write_buffer[n], TRUE)) /\ write_buffer' = RemoveAt(write_buffer, n)
          /\ write_draining' = drain - 1 /\ UNCHANGED read_queue
      BY <1>2, <1>3, <1>5, <2>1, <2>5, <3>1, Zenon DEF ScheduleTransaction
    <3>3. ~ In(qs[Place(write_buffer[n])], Trans(write_buffer[n], TRUE)) /\ rd[write_buffer[n]] = 0
      <4>1. In(write_buffer, write_buffer[n])  BY <2>2, <3>1, Zenon DEF In
      <4>2. rd[write_buffer[n]] = 0  BY <1>1, <2>2, <2>5, <3>1, SMTT(20) DEF WaitsForRead
      <4> QED  BY <2>2, <3>1, <4>1, <4>2, Zenon DEF Placed, OnePlace
    <3>4. /\ write_buffer' \in Seq(Addr) /\ Unique(write_buffer') /\ Lined(queues')
          /\ \A a \in Addr : In(write_buffer', a) <=> In(write_buffer, a) /\ a # write_buffer[n]
          /\ \A a \in Addr, v \in BOOLEAN :
               In(queues'[Place(a)], Trans(a, v)) <=> In(qs[Place(a)], Trans(a, v)) \/ (a = write_buffer[n] /\ v = TRUE)
      <4>1. write_buffer \in Seq(Addr) /\ Unique(write_buffer) /\ n \in DOMAIN write_buffer /\ Lined(qs) /\ TRUE \in BOOLEAN
        BY <1>1, <2>2, <3>1, SMTT(20) DEF Placed
      <4>2. /\ RemoveAt(write_buffer, n) \in Seq(Addr) /\ Unique(RemoveAt(write_buffer, n)) /\ Lined(Push(qs, Trans(write_buffer[n], TRUE)))
            /\ \A a \in Addr : In(RemoveAt(write_buffer, n), a) <=> In(write_buffer, a) /\ a # write_buffer[n]
            /\ \A a \in Addr, v \in BOOLEAN :
                 In(Push(qs, Trans(write_buffer[n], TRUE))[Place(a)], Trans(a, v)) <=>
                   In(qs[Place(a)], Trans(a, v)) \/ (a = write_buffer[n] /\ v = TRUE)
        BY <3>3, <4>1, Moves, ZenonT(60)
      <4> QED  BY <3>2, <4>2, Zenon
    <3>5. Types(read_queue', write_buffer', rd, wr)  BY <1>1, <3>2, <3>4, SMTT(20) DEF Types
    <3>6. WritesLast(rd, queues')  BY <3>3, <3>4, Zenon DEF WritesLast
    <3>7. \A a \in Addr : OnePlace(In(write_buffer', a), In(queues'[Place(a)], Trans(a, TRUE)), a \in wr)
      <4> TAKE a \in Addr
      <4>1. In(write_buffer, write_buffer[n])  BY <2>2, <3>1, Zenon DEF In
      <4> QED  BY <3>3, <3>4, <4>1, Zenon DEF Placed, OnePlace
    <3>8. \A a \in Addr : OnePlace(In(read_queue', a), In(queues'[Place(a)], Trans(a, FALSE)), rd[a] > 0)
      BY <3>2, <3>4, Zenon DEF Placed, OnePlace
    <3>9. Placed(read_queue', write_buffer', rd, wr, queues')  BY <3>2, <3>4, <3>7, <3>8, Zenon DEF Placed
    <3> QED  BY <3>1, <3>2, <3>5, <3>6, <3>9, Zenon
  <2> QED  BY <2>3, <2>4, <2>5, Zenon
<1> QED  BY <1>4, <1>5, Zenon

-----------------------------------------------------------------------------
(* Every step *)

LEMMA SoundNext ==
  ASSUME UNCHANGED queue_structure, Sound(read_queue', write_buffer', pending_rd', pending_wr', queues')
  PROVE  Sound(read_queue, write_buffer, pending_rd, pending_wr, queues)'
<1>1. Queue' = Queue /\ \A a : Place(a)' = Place(a)  BY Zenon DEF Queue, Place, QueueOf
<1>2. Lined(queues')  => Lined(queues)'  BY <1>1, Zenon DEF Lined
<1>3. Placed(read_queue', write_buffer', pending_rd', pending_wr', queues') =>
        Placed(read_queue, write_buffer, pending_rd, pending_wr, queues)'
  BY <1>1, <1>2, Zenon DEF Placed
<1>4. WritesLast(pending_rd', queues') => WritesLast(pending_rd, queues)'  BY <1>1, Zenon DEF WritesLast
<1> QED  BY <1>3, <1>4, Zenon DEF Sound, Types

LEMMA TickStep ==
  ASSUME Least, IInv, TickIssues \/ TickWaits
  PROVE  IInv'
<1>0. PICK due \in BOOLEAN : \E c : ClockTick(due, c) /\ (c \in Issuable(due) \/ c = NoCommand)
  BY Zenon DEF TickIssues, TickWaits
<1>1. PICK c : ClockTick(due, c) /\ (c \in Issuable(due) \/ c = NoCommand)  BY <1>0, Zenon
<1>2. ~ Fails(c) /\ Sound(read_queue, write_buffer, PendingRd(c), PendingWr(c), QueuesAfter(c))
  BY <1>1, Issues, Zenon
<1>3. /\ exited' = Fails(c) /\ pending_rd' = PendingRd(c) /\ pending_wr' = PendingWr(c)
      /\ ScheduleTransaction(QueuesAfter(c), PendingRd(c)) /\ UNCHANGED queue_structure
  BY <1>1, Zenon DEF ClockTick
<1>4. write_draining' \in Nat /\ Sound(read_queue', write_buffer', PendingRd(c), PendingWr(c), queues')
  BY <1>2, <1>3, Schedules DEF IInv
<1>5. Sound(read_queue, write_buffer, pending_rd, pending_wr, queues)'  BY <1>3, <1>4, SoundNext, SMTT(20)
<1> QED  BY <1>2, <1>3, <1>4, <1>5, SMTT(20) DEF IInv

LEMMA AddStep ==
  ASSUME IInv, NEW a \in Addr, AddRead(a) \/ AddWrite(a)
  PROVE  IInv'
<1>1. UNCHANGED << queue_structure, write_draining, queues, exited >>  BY Zenon DEF AddRead, AddWrite, Take
<1>2. Sound(read_queue, write_buffer, pending_rd, pending_wr, queues)  BY Zenon DEF IInv
<1>3. Sound(read_queue', write_buffer', pending_rd', pending_wr', queues')
  <2>1. CASE UNCHANGED << read_queue, write_buffer, pending_rd, pending_wr >>  BY <1>1, <1>2, <2>1
  <2>2. CASE AddRead(a) /\ a \notin pending_wr
    <3>1. /\ pending_rd' = [pending_rd EXCEPT ![a] = pending_rd[a] + 1]
          /\ read_queue' = IF pending_rd[a] = 0 THEN Append(read_queue, a) ELSE read_queue
          /\ UNCHANGED << write_buffer, pending_wr >>
      BY <2>2, Zenon DEF AddRead
    <3> QED  BY <1>1, <1>2, <2>2, <3>1, ReadComes, Zenon
  <2>3. CASE AddWrite(a) /\ a \notin pending_wr
    <3>1. /\ pending_wr' = pending_wr \cup {a} /\ write_buffer' = Append(write_buffer, a)
          /\ UNCHANGED << read_queue, pending_rd >>
      BY <2>3, Zenon DEF AddWrite
    <3> QED  BY <1>1, <1>2, <2>3, <3>1, WriteComes, SMTT(20)
  <2> QED  BY <2>1, <2>2, <2>3, Zenon DEF AddRead, AddWrite
<1> QED  BY <1>1, <1>3, SoundNext, SMTT(20) DEF IInv

LEMMA InvInit ==
  ASSUME Init
  PROVE  IInv
<1>1. /\ queue_structure \in Structures /\ ~ exited /\ write_draining \in Nat
      /\ read_queue = << >> /\ write_buffer = << >> /\ pending_wr = {}
      /\ pending_rd = [a \in Addr |-> 0] /\ queues = [q \in Queue |-> << >>]
  BY Zenon DEF Init
<1>2. Types(read_queue, write_buffer, pending_rd, pending_wr)  BY <1>1 DEF Types
<1>3. Unique(<< >>) /\ \A x : ~ In(<< >>, x)  BY DEF Unique, In
<1>4. Lined(queues)  BY <1>1, <1>3 DEF Lined
<1>5. \A a \in Addr : queues[Place(a)] = << >>  BY <1>1, Places, Zenon
<1>6. Placed(read_queue, write_buffer, pending_rd, pending_wr, queues)
  <2>1. \A a \in Addr : ~(pending_rd[a] > 0) /\ a \notin pending_wr  BY <1>1
  <2> QED  BY <1>1, <1>3, <1>4, <1>5, <2>1, Zenon DEF Placed, OnePlace
<1>7. WritesLast(pending_rd, queues)  BY <1>1, Zenon DEF WritesLast
<1> QED  BY <1>1, <1>2, <1>6, <1>7, SMTT(20) DEF IInv, Sound

LEMMA InvStep ==
  ASSUME Least, IInv, [Next]_vars
  PROVE  IInv'
<1>1. CASE TickIssues \/ TickWaits  BY <1>1, TickStep, Zenon
<1>2. CASE \E a \in Addr : AddRead(a) \/ AddWrite(a)  BY <1>2, AddStep, Zenon
<1>3. CASE UNCHANGED vars
  <2>1. UNCHANGED << queue_structure, exited, write_draining, read_queue, write_buffer, pending_rd, pending_wr, queues >>
    BY <1>3, Zenon DEF vars, queueing
  <2>2. Sound(read_queue', write_buffer', pending_rd', pending_wr', queues')  BY <2>1, Zenon DEF IInv
  <2> QED  BY <2>1, <2>2, SoundNext, SMTT(20) DEF IInv
<1> QED  BY <1>1, <1>2, <1>3 DEF Next

-----------------------------------------------------------------------------
\* The library comes in here only, since what is in scope slows every proof.
LOCAL F == INSTANCE FiniteSetTheorems

LEMMA NaturalsHaveLeast == Least
<1> SUFFICES ASSUME NEW S \in SUBSET Nat, S # {}
             PROVE  \E x \in S : \A y \in S : x <= y
  BY Zenon DEF Least
<1> DEFINE R == {p \in Nat \X Nat : p[1] < p[2]}
<1>1. F!IsWellFoundedOn(R, Nat)  BY F!NatLessThanWellFounded, Zenon DEF F!OpToRel
<1>2. \A x, y \in Nat : << y, x >> \in R <=> y < x
  BY Zenon
<1> HIDE DEF R
<1>3. PICK x \in S : \A y \in S : ~(<< y, x >> \in R)  BY <1>1, F!WFMin, Zenon
<1>4. \A y \in S : ~(y < x)  BY <1>2, <1>3, Zenon
<1>5. \A y \in S : x <= y  BY <1>4
<1> QED  BY <1>5

LEMMA OccursOnce ==
  ASSUME NEW s, Unique(s), NEW x
  PROVE  Occurs(s, x) = IF In(s, x) THEN 1 ELSE 0
<1>1. \A S : F!Cardinality(S) = Cardinality(S)  BY Zenon DEF F!Cardinality, Cardinality
<1>2. CASE ~ In(s, x)
  <2>1. {n \in DOMAIN s : s[n] = x} = {}  BY <1>2, SMTT(20) DEF In
  <2>2. Cardinality({}) = 0  BY <1>1, F!FS_EmptySet, SMTT(20)
  <2> QED  BY <1>2, <2>1, <2>2, SMTT(20) DEF Occurs
<1>3. CASE In(s, x)
  <2>1. PICK m \in DOMAIN s : s[m] = x  BY <1>3 DEF In
  <2>2. {n \in DOMAIN s : s[n] = x} = {m}  BY <2>1 DEF Unique
  <2>3. Cardinality({m}) = 1  BY <1>1, F!FS_Singleton, SMTT(20)
  <2> QED  BY <1>3, <2>2, <2>3, SMTT(20) DEF Occurs
<1> QED  BY <1>2, <1>3, SMTT(20)

\* Every reachable state has one place for each transaction that is pending.
THEOREM DramInvariant == Spec => []IInv
<1>1. Init => IInv  BY InvInit, SMTT(20)
<1>2. IInv /\ [Next]_vars => IInv'  BY InvStep, NaturalsHaveLeast, SMTT(20)
<1> QED  BY <1>1, <1>2, PTL DEF Spec

\* The transactions pending and the commands for them agree, and IssueCommand
\* never reaches its exit(1).
THEOREM PendingIsExact == Spec => []PendingExact
<1>1. IInv => PendingExact
  <2> SUFFICES ASSUME IInv  PROVE PendingExact
    BY Zenon
  <2>1. Placed(read_queue, write_buffer, pending_rd, pending_wr, queues) /\ ~ exited  BY Zenon DEF IInv, Sound
  <2> SUFFICES ASSUME NEW a \in Addr
               PROVE  /\ Occurs(read_queue, a) + InQueues(Trans(a, FALSE)) = (IF pending_rd[a] > 0 THEN 1 ELSE 0)
                      /\ Occurs(write_buffer, a) + InQueues(Trans(a, TRUE)) = (IF a \in pending_wr THEN 1 ELSE 0)
    BY <2>1, Zenon DEF PendingExact
  <2>2. Unique(read_queue) /\ Unique(write_buffer) /\ Unique(queues[Place(a)])
    BY <2>1, Places, SMTT(20) DEF Placed, Lined
  <2>3. /\ Occurs(read_queue, a) = IF In(read_queue, a) THEN 1 ELSE 0
        /\ Occurs(write_buffer, a) = IF In(write_buffer, a) THEN 1 ELSE 0
    BY <2>2, OccursOnce, SMTT(20)
  <2>4. \A w \in BOOLEAN : InQueues(Trans(a, w)) = IF In(queues[Place(a)], Trans(a, w)) THEN 1 ELSE 0
    <3> TAKE w \in BOOLEAN
    <3>1. InQueues(Trans(a, w)) = Occurs(queues[Place(a)], Trans(a, w))  BY Zenon DEF InQueues, Trans, Place
    <3> QED  BY <2>2, <3>1, OccursOnce, SMTT(20)
  <2>5. /\ OnePlace(In(read_queue, a), In(queues[Place(a)], Trans(a, FALSE)), pending_rd[a] > 0)
        /\ OnePlace(In(write_buffer, a), In(queues[Place(a)], Trans(a, TRUE)), a \in pending_wr)
    BY <2>1, Zenon DEF Placed
  <2>6. /\ InQueues(Trans(a, FALSE)) = IF In(queues[Place(a)], Trans(a, FALSE)) THEN 1 ELSE 0
        /\ InQueues(Trans(a, TRUE)) = IF In(queues[Place(a)], Trans(a, TRUE)) THEN 1 ELSE 0
    BY <2>4, Zenon
  <2>0. 1 + 0 = 1 /\ 0 + 1 = 1 /\ 0 + 0 = 0
    OBVIOUS
  <2>7. Occurs(read_queue, a) + InQueues(Trans(a, FALSE)) = (IF pending_rd[a] > 0 THEN 1 ELSE 0)
    <3>1. pending_rd[a] > 0 => \/ Occurs(read_queue, a) = 1 /\ InQueues(Trans(a, FALSE)) = 0
                               \/ Occurs(read_queue, a) = 0 /\ InQueues(Trans(a, FALSE)) = 1
      BY <2>3, <2>5, <2>6, Zenon DEF OnePlace
    <3>2. ~(pending_rd[a] > 0) => Occurs(read_queue, a) = 0 /\ InQueues(Trans(a, FALSE)) = 0
      BY <2>3, <2>5, <2>6, Zenon DEF OnePlace
    <3> QED  BY <2>0, <3>1, <3>2, Zenon
  <2>8. Occurs(write_buffer, a) + InQueues(Trans(a, TRUE)) = (IF a \in pending_wr THEN 1 ELSE 0)
    <3>1. a \in pending_wr => \/ Occurs(write_buffer, a) = 1 /\ InQueues(Trans(a, TRUE)) = 0
                              \/ Occurs(write_buffer, a) = 0 /\ InQueues(Trans(a, TRUE)) = 1
      BY <2>3, <2>5, <2>6, Zenon DEF OnePlace
    <3>2. a \notin pending_wr => Occurs(write_buffer, a) = 0 /\ InQueues(Trans(a, TRUE)) = 0
      BY <2>3, <2>5, <2>6, Zenon DEF OnePlace
    <3> QED  BY <2>0, <3>1, <3>2, Zenon
  <2> QED  BY <2>7, <2>8, Zenon
<1> QED  BY <1>1, DramInvariant, PTL

\* No write becomes a command, or stays one, while an older read of its
\* address waits.
THEOREM WritesDoNotOvertake == Spec => []NoOvertaking
<1>1. IInv => NoOvertaking
  <2> SUFFICES ASSUME IInv, NEW q \in Queue, NEW n \in DOMAIN queues[q], queues[q][n].write
               PROVE  pending_rd[queues[q][n].addr] = 0
    BY Zenon DEF NoOvertaking
  <2>1. Lined(queues) /\ WritesLast(pending_rd, queues)  BY Zenon DEF IInv, Sound, Placed
  <2>2. PICK t \in Kind : t = queues[q][n] /\ Place(t.addr) = q  BY <2>1, SMTT(20) DEF Lined
  <2>3. t.addr \in Addr /\ t = Trans(t.addr, TRUE)
    <3>1. t.addr \in Addr /\ t.write = TRUE  BY <2>2, Zenon DEF Kind
    <3> QED  BY <3>1, Zenon DEF Kind, Trans
  <2>4. In(queues[Place(t.addr)], Trans(t.addr, TRUE))  BY <2>2, <2>3, Zenon DEF In
  <2> QED  BY <2>1, <2>2, <2>3, <2>4, Zenon DEF WritesLast
<1> QED  BY <1>1, DramInvariant, PTL
=============================================================================
