--------------------------- MODULE MemReadProofs ---------------------------
(***************************************************************************)
(* Proofs about MemRead.tla, for any number of reads, ids and addresses,   *)
(* any widths of the AXI bus, the DDR bus and the DRAM burst, and any      *)
(* order in which the DRAM takes and completes bursts.                     *)
(***************************************************************************)
EXTENDS MemRead, TLAPS

In(s, x) == \E n \in DOMAIN s : s[n] = x
Unique(s) == \A m, n \in DOMAIN s : s[m] = s[n] => m = n

Beat == [tx : Nat, beat : Nat, last : BOOLEAN]
Trans ==
  [id : Id, addr : Addr, len : Nat \ {0}, enqueued : Nat, retrieved : SUBSET Nat, progress : Nat]

Types ==
  /\ config \in Configs
  /\ tx \in Seq(Trans) /\ \A i \in DOMAIN tx : tx[i].len \in config.lens
  /\ ddr_read_q \in Seq(Nat)
  /\ in_flight_reads \in [DimmAddr -> Seq(Nat)]
  /\ read_transactions \in Seq(Beat) /\ sent \in Seq(Beat)

\* ddr_read_q holds, in the order of the requests, those with bursts to give
\* to the DRAM.
Lined ==
  /\ \A m, n \in DOMAIN ddr_read_q : m < n => ddr_read_q[m] < ddr_read_q[n]
  /\ \A i : In(ddr_read_q, i) <=> i \in DOMAIN tx /\ tx[i].enqueued < Bursts(tx[i].len)
  /\ \A i \in DOMAIN tx : tx[i].enqueued <= Bursts(tx[i].len)

\* Burst k of read i is with the DRAM.
Out(i, k) == k \in 0 .. tx[i].enqueued - 1 /\ k \notin tx[i].retrieved

\* in_flight_reads holds the bursts that are with the DRAM, each once.
Flying ==
  /\ \A a \in DimmAddr : Unique(in_flight_reads[a])
  /\ \A a \in DimmAddr : \A i :
       In(in_flight_reads[a], i) <=> i \in DOMAIN tx /\ Out(i, a - tx[i].addr)
  /\ \A i \in DOMAIN tx : tx[i].retrieved \subseteq 0 .. tx[i].enqueued - 1

\* The beats counted by progress have their data.
Loaded ==
  \A i \in DOMAIN tx :
    /\ tx[i].progress <= tx[i].len
    /\ \A n \in 0 .. tx[i].progress - 1 : BeatReady(tx[i], n)

Whole(s) ==
  \A n \in DOMAIN s :
    /\ s[n].tx \in DOMAIN tx /\ s[n].beat < tx[s[n].tx].progress
    /\ s[n].last <=> s[n].beat = tx[s[n].tx].len - 1
Rising(s) ==
  \A m, n \in DOMAIN s : m < n /\ s[m].tx = s[n].tx => s[m].beat < s[n].beat
Has(s, i, k) == \E n \in DOMAIN s : s[n].tx = i /\ s[n].beat = k

\* The beats that the accelerator took, and after them those that wait, are
\* the beats counted by progress, in order.
All == sent \o read_transactions
Streamed ==
  /\ r = None \/ (read_transactions # << >> /\ r = Head(read_transactions))
  /\ Whole(All) /\ Rising(All)
  /\ \A i \in DOMAIN tx : \A k \in 0 .. tx[i].progress - 1 : Has(All, i, k)

IInv == Types /\ Lined /\ SameIdInOrder /\ Flying /\ Loaded /\ Streamed

-----------------------------------------------------------------------------
(* Bursts and addresses *)

LEMMA Quotient ==
  ASSUME NEW x \in Nat, NEW b \in Nat \ {0}, x >= b
  PROVE  x \div b \in Nat /\ 1 <= x \div b /\ x \div b <= x
<1> DEFINE q == x \div b
<1>1. q \in Int /\ b * q <= x /\ x < b * q + b
  OBVIOUS
<1> HIDE DEF q
<1>2. q >= 1
  <2> SUFFICES ASSUME q <= 0 PROVE FALSE
    BY <1>1
  <2>1. b * q <= 0
    BY <1>1
  <2> QED
    BY <1>1, <2>1
<1>3. q <= b * q
  BY <1>1, <1>2
<1> QED
  BY <1>1, <1>2, <1>3 DEF q

\* A read has a burst, and its bursts are addresses of the DRAM.
LEMMA BurstFacts ==
  ASSUME config \in Configs, NEW n \in config.lens
  PROVE  /\ Bursts(n) \in Nat /\ 0 < Bursts(n)
         /\ \A a \in Addr : \A k \in 0 .. Bursts(n) - 1 : a + k \in DimmAddr
<1>1. config.mult \in Nat \ {0} /\ config.burst \in Nat \ {0} /\ n \in Nat \ {0}
  BY ReadAssumption, Zenon DEF ReadAssumption
<1> DEFINE x == n * config.mult
<1>2. x \in Nat \ {0}
  BY <1>1
<1> HIDE DEF x
<1>3. Bursts(n) = IF x < config.burst THEN 1 ELSE x \div config.burst
  BY Zenon DEF Bursts, Mult, Burst, x
<1>4. Bursts(n) \in Nat /\ 1 <= Bursts(n) /\ Bursts(n) <= x
  <2>1. CASE x < config.burst
    BY <1>2, <1>3, <2>1
  <2>2. CASE ~(x < config.burst)
    <3>1. x >= config.burst
      BY <1>1, <1>2, <2>2
    <3>2. Bursts(n) = x \div config.burst
      BY <1>3, <2>2, Zenon
    <3> QED
      BY <1>1, <1>2, <3>1, <3>2, Quotient, Zenon
  <2> QED
    BY <2>1, <2>2, Zenon
<1>5. ASSUME NEW a \in Addr, NEW k \in 0 .. Bursts(n) - 1 PROVE a + k \in DimmAddr
  <2>1. a \in Nat
    BY ReadAssumption, Zenon DEF ReadAssumption
  <2>2. a + k \in a .. a + x
    BY <1>2, <1>4, <1>5, <2>1
  <2>3. a .. a + x = a .. a + n * config.mult
    BY Zenon DEF x
  <2> QED
    <3> DEFINE of(f) == UNION {c .. c + l * f.mult : c \in Addr, l \in f.lens}
    <3> DEFINE X == {c .. c + l * config.mult : c \in Addr, l \in config.lens}
    <3>a. a .. a + n * config.mult \in X
      OBVIOUS
    <3>b. of(config) = UNION X
      OBVIOUS
    <3> HIDE DEF X, of
    <3>2. a + k \in of(config)
      BY <2>2, <2>3, <3>a, <3>b, Zenon
    <3>3. a + k \in UNION {of(f) : f \in Configs}
      BY <3>2, Zenon
    <3> QED
      BY <3>3 DEF DimmAddr, of
<1> QED
  BY <1>4, <1>5

-----------------------------------------------------------------------------
(* Sequences *)

LEMMA SeqFacts ==
  ASSUME NEW S, NEW s \in Seq(S)
  PROVE  /\ Len(s) \in Nat /\ DOMAIN s = 1 .. Len(s)
         /\ \A n \in DOMAIN s : s[n] \in S
         /\ s # << >> => 1 \in DOMAIN s /\ Head(s) = s[1]
         /\ s = << >> => DOMAIN s = {}
OBVIOUS

LEMMA Joined ==
  ASSUME NEW S, NEW s \in Seq(S), NEW t \in Seq(S)
  PROVE  /\ s \o t \in Seq(S) /\ Len(s \o t) = Len(s) + Len(t)
         /\ DOMAIN (s \o t) = 1 .. Len(s) + Len(t)
         /\ \A n \in 1 .. Len(s) + Len(t) : (s \o t)[n] = IF n <= Len(s) THEN s[n] ELSE t[n - Len(s)]
OBVIOUS

\* What is put at the end of a sequence.
LEMMA Appended ==
  ASSUME NEW S, NEW s \in Seq(S), NEW x \in S
  PROVE  /\ Append(s, x) \in Seq(S)
         /\ DOMAIN Append(s, x) = DOMAIN s \cup {Len(s) + 1}
         /\ Append(s, x)[Len(s) + 1] = x
         /\ \A n \in DOMAIN s : Append(s, x)[n] = s[n]
         /\ \A n \in DOMAIN s : n < Len(s) + 1 /\ ~(Len(s) + 1 < n) /\ n # Len(s) + 1
         /\ ~(Len(s) + 1 < Len(s) + 1)
<1>1. /\ DOMAIN Append(s, x) = 1 .. Len(s) + 1 /\ DOMAIN s = 1 .. Len(s) /\ Len(s) \in Nat
      /\ Append(s, x) \in Seq(S)
  OBVIOUS
<1>2. 1 .. Len(s) + 1 = (1 .. Len(s)) \cup {Len(s) + 1}
  BY <1>1
<1>3. Append(s, x)[Len(s) + 1] = x /\ \A n \in DOMAIN s : Append(s, x)[n] = s[n]
  OBVIOUS
<1>4. /\ \A n \in 1 .. Len(s) : n < Len(s) + 1 /\ ~(Len(s) + 1 < n) /\ n # Len(s) + 1
      /\ ~(Len(s) + 1 < Len(s) + 1)
  BY <1>1
<1> QED
  BY <1>1, <1>2, <1>3, <1>4, Zenon

LEMMA AppendIn ==
  ASSUME NEW S, NEW s \in Seq(S), NEW x \in S
  PROVE  /\ Append(s, x) \in Seq(S)
         /\ \A y : In(Append(s, x), y) <=> In(s, y) \/ y = x
         /\ Unique(s) /\ ~ In(s, x) => Unique(Append(s, x))
<1> DEFINE t == Append(s, x)
<1>1. /\ t \in Seq(S) /\ DOMAIN t = DOMAIN s \cup {Len(s) + 1} /\ t[Len(s) + 1] = x
      /\ \A n \in DOMAIN s : t[n] = s[n]
  BY Appended
<1> HIDE DEF t
<1>2. \A y : In(t, y) <=> In(s, y) \/ y = x
  BY <1>1, Zenon DEF In
<1>3. Unique(s) /\ ~ In(s, x) => Unique(t)
  BY <1>1, Zenon DEF In, Unique
<1> QED
  BY <1>1, <1>2, <1>3, Zenon DEF t

\* What is taken from the front of a sequence without repetition.
LEMMA TailIn ==
  ASSUME NEW S, NEW s \in Seq(S), s # << >>, Unique(s)
  PROVE  /\ Tail(s) \in Seq(S) /\ Unique(Tail(s)) /\ In(s, Head(s))
         /\ \A y : In(Tail(s), y) <=> In(s, y) /\ y # Head(s)
<1>1. /\ Tail(s) \in Seq(S) /\ Head(s) = s[1] /\ 1 \in DOMAIN s
      /\ \A n \in DOMAIN Tail(s) : n + 1 \in DOMAIN s /\ n + 1 # 1 /\ Tail(s)[n] = s[n + 1]
      /\ \A m, n \in DOMAIN Tail(s) : m + 1 = n + 1 => m = n
  OBVIOUS
<1>2. \A n \in DOMAIN s : n # 1 => n - 1 \in DOMAIN Tail(s) /\ Tail(s)[n - 1] = s[n]
  OBVIOUS
<1> DEFINE t == Tail(s)
<1> HIDE DEF t
<1>3. Unique(t)
  <2> SUFFICES ASSUME NEW m \in DOMAIN t, NEW n \in DOMAIN t, t[m] = t[n] PROVE m = n
    BY Zenon DEF Unique
  <2>1. /\ m + 1 \in DOMAIN s /\ n + 1 \in DOMAIN s /\ s[m + 1] = s[n + 1]
    BY <1>1, Zenon DEF t
  <2>2. m + 1 = n + 1
    BY <2>1, Zenon DEF Unique
  <2> QED
    BY <1>1, <2>2, Zenon DEF t
<1>4. \A y : In(t, y) => In(s, y) /\ y # Head(s)
  <2> SUFFICES ASSUME NEW n \in DOMAIN t PROVE In(s, t[n]) /\ t[n] # Head(s)
    BY Zenon DEF In
  <2>1. n + 1 \in DOMAIN s /\ n + 1 # 1 /\ t[n] = s[n + 1] /\ 1 \in DOMAIN s /\ Head(s) = s[1]
    BY <1>1, Zenon DEF t
  <2> QED
    BY <2>1, Zenon DEF In, Unique
<1>5. \A y : In(s, y) /\ y # Head(s) => In(t, y)
  <2> SUFFICES ASSUME NEW n \in DOMAIN s, s[n] # Head(s) PROVE In(t, s[n])
    BY Zenon DEF In
  <2>1. n # 1
    BY <1>1, Zenon
  <2>2. n - 1 \in DOMAIN t /\ t[n - 1] = s[n]
    BY <1>2, <2>1, Zenon DEF t
  <2> QED
    BY <2>2, Zenon DEF In
<1>6. In(s, Head(s))
  BY <1>1, Zenon DEF In
<1> QED
  BY <1>1, <1>3, <1>4, <1>5, <1>6, Zenon DEF t

\* Erase skips one element.
LEMMA EraseSkips ==
  ASSUME NEW S, NEW s \in Seq(S), NEW k \in DOMAIN s
  PROVE  /\ Erase(s, k) \in Seq(S) /\ DOMAIN Erase(s, k) = 1 .. Len(s) - 1
         /\ \A n \in 1 .. Len(s) - 1 : Erase(s, k)[n] = s[IF n < k THEN n ELSE n + 1]
<1> DEFINE a == SubSeq(s, 1, k - 1)
           b == SubSeq(s, k + 1, Len(s))
<1>1. k \in 1 .. Len(s) /\ Len(s) \in Nat
  OBVIOUS
<1>2. a \in Seq(S) /\ Len(a) = k - 1 /\ \A n \in 1 .. k - 1 : a[n] = s[n]
  BY <1>1
<1>3. b \in Seq(S) /\ Len(b) = Len(s) - k /\ \A n \in 1 .. Len(s) - k : b[n] = s[n + k]
  BY <1>1
<1>4. Erase(s, k) = a \o b
  BY Zenon DEF Erase
<1> HIDE DEF a, b
<1>5. /\ a \o b \in Seq(S) /\ DOMAIN (a \o b) = 1 .. Len(a) + Len(b)
      /\ \A n \in 1 .. Len(a) + Len(b) : (a \o b)[n] = IF n <= Len(a) THEN a[n] ELSE b[n - Len(a)]
  BY <1>2, <1>3, Joined, Zenon
<1>6. Len(a) + Len(b) = Len(s) - 1
  BY <1>1, <1>2, <1>3
<1>7. ASSUME NEW n \in 1 .. Len(s) - 1 PROVE (a \o b)[n] = s[IF n < k THEN n ELSE n + 1]
  <2>1. CASE n < k
    <3>1. n <= Len(a) /\ n \in 1 .. k - 1
      BY <1>1, <1>2, <2>1
    <3> QED
      BY <1>2, <1>5, <1>6, <2>1, <3>1, Zenon
  <2>2. CASE ~(n < k)
    <3>1. /\ ~(n <= Len(a)) /\ n - Len(a) \in 1 .. Len(s) - k /\ (n - Len(a)) + k = n + 1
      BY <1>1, <1>2, <2>2
    <3> QED
      BY <1>3, <1>5, <1>6, <2>2, <3>1, Zenon
  <2> QED
    BY <2>1, <2>2, Zenon
<1> QED
  BY <1>4, <1>5, <1>6, <1>7, Zenon

Increasing(s) == \A m, n \in DOMAIN s : m < n => s[m] < s[n]

LEMMA EraseIn ==
  ASSUME NEW s \in Seq(Nat), NEW k \in DOMAIN s, Increasing(s)
  PROVE  /\ Erase(s, k) \in Seq(Nat) /\ Increasing(Erase(s, k))
         /\ \A y : In(Erase(s, k), y) <=> In(s, y) /\ y # s[k]
<1> DEFINE t == Erase(s, k)
           up(n) == IF n < k THEN n ELSE n + 1
<1>1. /\ t \in Seq(Nat) /\ DOMAIN t = 1 .. Len(s) - 1
      /\ \A n \in 1 .. Len(s) - 1 : t[n] = s[up(n)]
  BY EraseSkips, Zenon
<1>2. /\ DOMAIN s = 1 .. Len(s) /\ Len(s) \in Nat /\ k \in 1 .. Len(s)
      /\ \A n \in DOMAIN s : s[n] \in Nat
  OBVIOUS
<1>3. \A n \in 1 .. Len(s) - 1 : up(n) \in DOMAIN s /\ up(n) # k
  BY <1>2
<1>4. \A m, n \in 1 .. Len(s) - 1 : m < n => up(m) < up(n)
  BY <1>2, SMTT(20)
<1>5. \A n \in DOMAIN s : n # k => \E m \in 1 .. Len(s) - 1 : up(m) = n
  <2> SUFFICES ASSUME NEW n \in DOMAIN s, n # k PROVE \E m \in 1 .. Len(s) - 1 : up(m) = n
    OBVIOUS
  <2>1. CASE n < k
    BY <1>2, <2>1
  <2>2. CASE n > k
    <3>1. n - 1 \in 1 .. Len(s) - 1 /\ up(n - 1) = n
      BY <1>2, <2>2
    <3> QED
      BY <3>1, Zenon
  <2> QED
    BY <1>2, <2>1, <2>2
<1>6. \A m, n \in DOMAIN s : s[m] = s[n] => m = n
  <2> SUFFICES ASSUME NEW m \in DOMAIN s, NEW n \in DOMAIN s, s[m] = s[n], m # n PROVE FALSE
    BY Zenon
  <2>1. m < n \/ n < m
    BY <1>2
  <2>2. s[m] < s[n] \/ s[n] < s[m]
    BY <2>1, Zenon DEF Increasing
  <2> QED
    BY <1>2, <2>2
<1> HIDE DEF t, up
<1>7. Increasing(t)
  BY <1>1, <1>3, <1>4, Zenon DEF Increasing
<1>8. \A y : In(t, y) => In(s, y) /\ y # s[k]
  BY <1>1, <1>3, <1>6, Zenon DEF In
<1>9. \A y : In(s, y) /\ y # s[k] => In(t, y)
  <2> SUFFICES ASSUME NEW n \in DOMAIN s, s[n] # s[k] PROVE In(t, s[n])
    BY Zenon DEF In
  <2>1. PICK m \in 1 .. Len(s) - 1 : up(m) = n
    BY <1>5, Zenon
  <2> QED
    BY <1>1, <2>1, Zenon DEF In
<1> QED
  BY <1>1, <1>7, <1>8, <1>9, Zenon DEF t

\* What the proofs use of the natural numbers: a set of them has a least one.
Least == \A S \in SUBSET Nat : S # {} => \E x \in S : \A y \in S : x <= y

LEMMA MinIn ==
  ASSUME Least, NEW S \in SUBSET Nat, S # {}
  PROVE  Min(S) \in S
<1>1. \E x \in S : \A y \in S : x =< y
  BY Zenon DEF Least
<1> QED
  BY <1>1, Zenon DEF Min

LEMMA SeqEqual ==
  ASSUME NEW S, NEW s \in Seq(S), NEW t \in Seq(S), Len(s) = Len(t),
         \A n \in 1 .. Len(s) : s[n] = t[n]
  PROVE  s = t
OBVIOUS

\* Moving the head of one sequence to the end of another changes nothing in
\* the two put together.
LEMMA Moved ==
  ASSUME NEW S, NEW s \in Seq(S), NEW t \in Seq(S), t # << >>
  PROVE  /\ Append(s, Head(t)) \in Seq(S) /\ Tail(t) \in Seq(S)
         /\ Append(s, Head(t)) \o Tail(t) = s \o t
<1> DEFINE a == Append(s, Head(t))
           b == Tail(t)
<1>1. /\ a \in Seq(S) /\ Len(a) = Len(s) + 1 /\ Len(s) \in Nat /\ Len(t) \in Nat /\ Len(t) >= 1
      /\ \A n \in 1 .. Len(s) : a[n] = s[n]
      /\ a[Len(s) + 1] = t[1]
  OBVIOUS
<1>2. b \in Seq(S) /\ Len(b) = Len(t) - 1 /\ \A n \in 1 .. Len(t) - 1 : b[n] = t[n + 1]
  OBVIOUS
<1> HIDE DEF a, b
<1>3. /\ a \o b \in Seq(S) /\ Len(a \o b) = Len(a) + Len(b) /\ DOMAIN (a \o b) = 1 .. Len(a) + Len(b)
      /\ \A n \in 1 .. Len(a) + Len(b) : (a \o b)[n] = IF n <= Len(a) THEN a[n] ELSE b[n - Len(a)]
  BY <1>1, <1>2, Joined, ZenonT(40)
<1>4. /\ s \o t \in Seq(S) /\ Len(s \o t) = Len(s) + Len(t) /\ DOMAIN (s \o t) = 1 .. Len(s) + Len(t)
      /\ \A n \in 1 .. Len(s) + Len(t) : (s \o t)[n] = IF n <= Len(s) THEN s[n] ELSE t[n - Len(s)]
  BY Joined, Zenon
<1>5. Len(a) + Len(b) = Len(s) + Len(t)
  BY <1>1, <1>2
<1>6. ASSUME NEW n \in 1 .. Len(s) + Len(t) PROVE (a \o b)[n] = (s \o t)[n]
  <2>1. CASE n \in 1 .. Len(s)
    <3>1. n <= Len(a) /\ n <= Len(s)
      BY <1>1, <2>1
    <3> QED
      BY <1>1, <1>3, <1>4, <1>5, <2>1, <3>1, Zenon
  <2>2. CASE n = Len(s) + 1
    <3>1. n <= Len(a) /\ ~(n <= Len(s)) /\ n - Len(s) = 1
      BY <1>1, <2>2
    <3> QED
      BY <1>1, <1>3, <1>4, <1>5, <2>2, <3>1, Zenon
  <2>3. CASE n \in Len(s) + 2 .. Len(s) + Len(t)
    <3>1. /\ ~(n <= Len(a)) /\ ~(n <= Len(s)) /\ n - Len(a) \in 1 .. Len(t) - 1
          /\ (n - Len(a)) + 1 = n - Len(s)
      BY <1>1, <2>3
    <3> QED
      BY <1>2, <1>3, <1>4, <1>5, <3>1, Zenon
  <2>4. Len(s) \in Nat /\ Len(t) \in Nat
    BY <1>1, Zenon
  <2>5. n \in 1 .. Len(s) \/ n = Len(s) + 1 \/ n \in Len(s) + 2 .. Len(s) + Len(t)
    BY <2>4
  <2> QED
    BY <2>1, <2>2, <2>3, <2>5, Zenon
<1>7. Len(a \o b) = Len(s) + Len(t) /\ Len(s \o t) = Len(s) + Len(t)
  BY <1>3, <1>4, <1>5, Zenon
<1>8. a \o b = s \o t
  BY <1>3, <1>4, <1>6, <1>7, SeqEqual, Zenon
<1> QED
  BY <1>1, <1>2, <1>8, Zenon DEF a, b

LEMMA Associative ==
  ASSUME NEW S, NEW s \in Seq(S), NEW t \in Seq(S), NEW u \in Seq(S)
  PROVE  s \o (t \o u) = (s \o t) \o u
<1> DEFINE a == s \o t
           b == t \o u
           N == Len(s) + Len(t) + Len(u)
<1>1. Len(s) \in Nat /\ Len(t) \in Nat /\ Len(u) \in Nat
  OBVIOUS
<1>2. /\ a \in Seq(S) /\ Len(a) = Len(s) + Len(t)
      /\ \A n \in 1 .. Len(s) + Len(t) : a[n] = IF n <= Len(s) THEN s[n] ELSE t[n - Len(s)]
  BY Joined, Zenon
<1>3. /\ b \in Seq(S) /\ Len(b) = Len(t) + Len(u)
      /\ \A n \in 1 .. Len(t) + Len(u) : b[n] = IF n <= Len(t) THEN t[n] ELSE u[n - Len(t)]
  BY Joined, Zenon
<1> HIDE DEF a, b
<1>10. a \in Seq(S) /\ b \in Seq(S)
  BY <1>2, <1>3, Zenon
<1>4. /\ s \o b \in Seq(S) /\ DOMAIN (s \o b) = 1 .. Len(s) + Len(b)
      /\ \A n \in 1 .. Len(s) + Len(b) : (s \o b)[n] = IF n <= Len(s) THEN s[n] ELSE b[n - Len(s)]
  BY <1>10, Joined, Zenon
<1>5. /\ a \o u \in Seq(S) /\ DOMAIN (a \o u) = 1 .. Len(a) + Len(u)
      /\ \A n \in 1 .. Len(a) + Len(u) : (a \o u)[n] = IF n <= Len(a) THEN a[n] ELSE u[n - Len(a)]
  BY <1>10, Joined, Zenon
<1>6. Len(s) + Len(b) = N /\ Len(a) + Len(u) = N /\ N \in Nat
  BY <1>1, <1>2, <1>3
<1>7. ASSUME NEW n \in 1 .. N PROVE (s \o b)[n] = (a \o u)[n]
  <2>1. CASE n <= Len(s)
    <3>1. n <= Len(a) /\ n \in 1 .. Len(s) + Len(t)
      BY <1>1, <1>2, <2>1
    <3> QED
      BY <1>2, <1>4, <1>5, <1>6, <2>1, <3>1, Zenon
  <2>2. CASE ~(n <= Len(s)) /\ n <= Len(a)
    <3>1. /\ n \in 1 .. Len(s) + Len(t) /\ n - Len(s) \in 1 .. Len(t) + Len(u)
          /\ n - Len(s) <= Len(t)
      BY <1>1, <1>2, <2>2
    <3> QED
      BY <1>2, <1>3, <1>4, <1>5, <1>6, <2>2, <3>1, Zenon
  <2>3. CASE ~(n <= Len(a))
    <3>1. /\ ~(n <= Len(s)) /\ n - Len(s) \in 1 .. Len(t) + Len(u) /\ ~(n - Len(s) <= Len(t))
          /\ (n - Len(s)) - Len(t) = n - Len(a)
      BY <1>1, <1>2, <2>3
    <3> QED
      BY <1>3, <1>4, <1>5, <1>6, <2>3, <3>1, Zenon
  <2> QED
    BY <2>1, <2>2, <2>3, Zenon
<1>8. Len(s \o b) = N /\ Len(a \o u) = N
  BY <1>4, <1>5, <1>6
<1>9. s \o b = a \o u
  BY <1>4, <1>5, <1>7, <1>8, SeqEqual, Zenon
<1> QED
  BY <1>9, Zenon DEF a, b

-----------------------------------------------------------------------------
(* What a step does to a read *)

\* What the proofs use of cardinalities: of the numbers from p to l - 1, a set
\* with no gap is the first of them.
Runs ==
  \A p, l \in Nat : p <= l =>
    \A R \in SUBSET (p .. l - 1) : (\A n \in R : p .. n \subseteq R) =>
      /\ Cardinality(R) \in Nat /\ p + Cardinality(R) <= l
      /\ R = p .. p + Cardinality(R) - 1

LEMMA Retrieved ==
  ASSUME NEW u \in Trans, NEW k \in Nat
  PROVE  LET t == [u EXCEPT !.retrieved = @ \cup {k}]
         IN /\ t \in Trans /\ t.retrieved = u.retrieved \cup {k}
            /\ t.id = u.id /\ t.addr = u.addr /\ t.len = u.len
            /\ t.enqueued = u.enqueued /\ t.progress = u.progress
BY DEF Trans

LEMMA Progressed ==
  ASSUME NEW u \in Trans, NEW k \in Nat
  PROVE  LET t == [u EXCEPT !.progress = @ + k]
         IN /\ t \in Trans /\ t.progress = u.progress + k
            /\ t.id = u.id /\ t.addr = u.addr /\ t.len = u.len
            /\ t.enqueued = u.enqueued /\ t.retrieved = u.retrieved
BY DEF Trans

LEMMA Enqueued ==
  ASSUME NEW u \in Trans
  PROVE  LET t == [u EXCEPT !.enqueued = @ + 1]
         IN /\ t \in Trans /\ t.enqueued = u.enqueued + 1
            /\ t.id = u.id /\ t.addr = u.addr /\ t.len = u.len
            /\ t.progress = u.progress /\ t.retrieved = u.retrieved
BY DEF Trans

LEMMA SeqUpdate ==
  ASSUME NEW S, NEW s \in Seq(S), NEW i \in DOMAIN s, NEW x \in S
  PROVE  /\ [s EXCEPT ![i] = x] \in Seq(S) /\ DOMAIN [s EXCEPT ![i] = x] = DOMAIN s
         /\ [s EXCEPT ![i] = x][i] = x
         /\ \A j \in DOMAIN s : j # i => [s EXCEPT ![i] = x][j] = s[j]
OBVIOUS

\* Data that is there stays there.
LEMMA ReadyKept ==
  ASSUME NEW t, NEW u, t.retrieved \subseteq u.retrieved, NEW n, BeatReady(t, n)
  PROVE  BeatReady(u, n)
BY Zenon DEF BeatReady

LEMMA ReadySame ==
  ASSUME NEW t, NEW u, t.retrieved = u.retrieved, NEW n
  PROVE  BeatReady(t, n) <=> BeatReady(u, n)
BY Zenon DEF BeatReady

LEMMA ReadyRun ==
  ASSUME Runs, NEW t \in Trans, t.progress <= t.len
  PROVE  /\ Cardinality(Ready(t)) \in Nat /\ t.progress + Cardinality(Ready(t)) <= t.len
         /\ \A n \in t.progress .. t.progress + Cardinality(Ready(t)) - 1 : BeatReady(t, n)
<1>1. t.progress \in Nat /\ t.len \in Nat
  BY DEF Trans
<1>2. Ready(t) \in SUBSET (t.progress .. t.len - 1)
  BY Zenon DEF Ready
<1>3. ASSUME NEW n \in Ready(t) PROVE t.progress .. n \subseteq Ready(t)
  <2>1. n \in t.progress .. t.len - 1 /\ \A j \in t.progress .. n : BeatReady(t, j)
    BY <1>3, Zenon DEF Ready
  <2> SUFFICES ASSUME NEW m \in t.progress .. n PROVE m \in Ready(t)
    BY Zenon
  <2>2. m \in t.progress .. t.len - 1 /\ t.progress .. m \subseteq t.progress .. n
    BY <1>1, <2>1
  <2> QED
    BY <2>1, <2>2, Zenon DEF Ready
<1>4. /\ Cardinality(Ready(t)) \in Nat /\ t.progress + Cardinality(Ready(t)) <= t.len
      /\ Ready(t) = t.progress .. t.progress + Cardinality(Ready(t)) - 1
  BY <1>1, <1>2, <1>3, Zenon DEF Runs
<1>5. ASSUME NEW n \in Ready(t) PROVE BeatReady(t, n)
  <2>1. n \in t.progress .. t.len - 1 /\ \A j \in t.progress .. n : BeatReady(t, j)
    BY <1>5, Zenon DEF Ready
  <2>2. n \in t.progress .. n
    BY <1>1, <2>1
  <2> QED
    BY <2>1, <2>2, Zenon
<1> QED
  BY <1>4, <1>5, Zenon

\* The read callback for burst k of read i, with c beats to return.
Returned(i, k, c) ==
  /\ config' = config /\ tx' \in Seq(Trans) /\ DOMAIN tx' = DOMAIN tx
  /\ \A j \in DOMAIN tx : j # i => tx'[j] = tx[j]
  /\ \A j \in DOMAIN tx : /\ tx'[j].id = tx[j].id /\ tx'[j].addr = tx[j].addr
                          /\ tx'[j].len = tx[j].len /\ tx'[j].enqueued = tx[j].enqueued
  /\ tx'[i].retrieved = tx[i].retrieved \cup {k}
  /\ tx'[i].progress = tx[i].progress + c /\ tx[i].progress + c <= tx[i].len
  /\ \A n \in tx[i].progress .. tx[i].progress + c - 1 : BeatReady(tx'[i], n)

NewBeats(i, c) ==
  [j \in 1 .. c |->
    [tx |-> i, beat |-> tx[i].progress + j - 1, last |-> tx[i].progress + j = tx[i].len]]

LEMMA CallbackFacts ==
  ASSUME Runs, IInv, NEW a \in DimmAddr, ReadCallback(a)
  PROVE  \E i \in DOMAIN tx, c \in Nat :
           /\ i = Head(in_flight_reads[a]) /\ Out(i, a - tx[i].addr)
           /\ Returned(i, a - tx[i].addr, c)
           /\ read_transactions' = read_transactions \o NewBeats(i, c)
<1>1. /\ tx \in Seq(Trans) /\ in_flight_reads[a] \in Seq(Nat) /\ in_flight_reads[a] # << >>
      /\ Unique(in_flight_reads[a])
  BY Zenon DEF IInv, Types, Flying, ReadCallback
<1> DEFINE i == Head(in_flight_reads[a])
           k == a - tx[i].addr
           t == [tx[i] EXCEPT !.retrieved = @ \cup {k}]
           c == Cardinality(Ready(t))
           u == [t EXCEPT !.progress = @ + c]
<1>2. In(in_flight_reads[a], i)
  BY <1>1, TailIn, Zenon
<1>3. i \in DOMAIN tx /\ Out(i, k)
  BY <1>2, Zenon DEF IInv, Flying
<1>4. tx[i] \in Trans /\ k \in Nat /\ tx[i].progress <= tx[i].len
  <2>1. tx[i] \in Trans
    BY <1>1, <1>3, SeqFacts, Zenon
  <2>2. k \in 0 .. tx[i].enqueued - 1 /\ tx[i].progress <= tx[i].len
    BY <1>3, Zenon DEF Out, IInv, Loaded
  <2>3. tx[i].enqueued \in Nat
    BY <2>1 DEF Trans
  <2>4. k \in Nat
    BY <2>2, <2>3
  <2> QED
    BY <2>1, <2>2, <2>4, Zenon
<1>5. /\ t \in Trans /\ t.retrieved = tx[i].retrieved \cup {k}
      /\ t.id = tx[i].id /\ t.addr = tx[i].addr /\ t.len = tx[i].len
      /\ t.enqueued = tx[i].enqueued /\ t.progress = tx[i].progress
  BY <1>4, Retrieved, Zenon
<1>6. /\ read_transactions' = read_transactions \o Beats(i, t)
      /\ tx' = [tx EXCEPT ![i] = u] /\ config' = config
  BY Zenon DEF ReadCallback
<1> HIDE DEF i, k, t
<1>7. /\ c \in Nat /\ t.progress + c <= t.len
      /\ \A n \in t.progress .. t.progress + c - 1 : BeatReady(t, n)
  BY <1>4, <1>5, ReadyRun, Zenon
<1>8. Beats(i, t) = NewBeats(i, c)
  BY <1>5, Zenon DEF Beats, NewBeats
<1> HIDE DEF c
<1>9. /\ u \in Trans /\ u.progress = t.progress + c /\ u.id = t.id /\ u.addr = t.addr
      /\ u.len = t.len /\ u.enqueued = t.enqueued /\ u.retrieved = t.retrieved
  BY <1>5, <1>7, Progressed, Zenon
<1> HIDE DEF u
<1>10. /\ tx' \in Seq(Trans) /\ DOMAIN tx' = DOMAIN tx /\ tx'[i] = u
       /\ \A j \in DOMAIN tx : j # i => tx'[j] = tx[j]
  BY <1>1, <1>3, <1>6, <1>9, SeqUpdate, Zenon
<1>11. \A n \in tx[i].progress .. tx[i].progress + c - 1 : BeatReady(u, n)
  BY <1>5, <1>7, <1>9, ReadySame, Zenon
<1>12. Returned(i, k, c)
  BY <1>5, <1>6, <1>7, <1>9, <1>10, <1>11, Zenon DEF Returned
<1> QED
  BY <1>3, <1>6, <1>7, <1>8, <1>12, Zenon DEF i, k

-----------------------------------------------------------------------------
(* The read callback *)

LEMMA CallbackLined ==
  ASSUME IInv, NEW i \in DOMAIN tx, NEW k, NEW c, Returned(i, k, c), ddr_read_q' = ddr_read_q
  PROVE  Lined' /\ SameIdInOrder'
<1>1. \A n : Bursts(n)' = Bursts(n)
  BY Zenon DEF Returned, Bursts, Mult, Burst
<1>2. /\ DOMAIN tx' = DOMAIN tx
      /\ \A j \in DOMAIN tx : /\ tx'[j].id = tx[j].id /\ tx'[j].len = tx[j].len
                              /\ tx'[j].enqueued = tx[j].enqueued
  BY Zenon DEF Returned
<1>3. \A j \in DOMAIN tx : Bursts(tx[j].len)' = Bursts(tx[j].len)
  BY <1>2, Zenon DEF Returned, Bursts, Mult, Burst
<1>4. Lined'
  <2>1. /\ \A m, n \in DOMAIN ddr_read_q : m < n => ddr_read_q[m] < ddr_read_q[n]
        /\ \A j : In(ddr_read_q, j) <=> j \in DOMAIN tx /\ tx[j].enqueued < Bursts(tx[j].len)
        /\ \A j \in DOMAIN tx : tx[j].enqueued <= Bursts(tx[j].len)
    BY Zenon DEF IInv, Lined
  <2>2. \A j : In(ddr_read_q, j)' <=> In(ddr_read_q, j)
    BY Zenon DEF In
  <2>3. \A j : In(ddr_read_q, j)' <=> j \in DOMAIN tx' /\ tx'[j].enqueued < Bursts(tx[j].len)'
    BY <1>2, <1>3, <2>1, <2>2, Zenon
  <2>4. \A j \in DOMAIN tx' : tx'[j].enqueued <= Bursts(tx[j].len)'
    BY <1>2, <1>3, <2>1, Zenon
  <2>5. \A m, n \in DOMAIN ddr_read_q' : m < n => ddr_read_q'[m] < ddr_read_q'[n]
    BY <2>1, Zenon
  <2> QED
    BY <2>3, <2>4, <2>5, Zenon DEF Lined
<1>5. SameIdInOrder'
  BY <1>2, <1>3, ZenonT(40) DEF IInv, SameIdInOrder
<1> QED
  BY <1>4, <1>5, Zenon

LEMMA AddrsAreNumbers == DimmAddr \subseteq Int
<1> DEFINE I(f) == {x .. x + n * f.mult : x \in Addr, n \in f.lens}
           D(f) == UNION I(f)
<1>1. ASSUME NEW f, NEW X \in I(f) PROVE X \subseteq Int
  <2>1. PICK x \in Addr, n \in f.lens : X = x .. x + n * f.mult
    OBVIOUS
  <2> QED
    BY <2>1
<1>2. DimmAddr = UNION {D(f) : f \in Configs}
  BY DEF DimmAddr
<1> HIDE DEF I
<1> QED
  BY <1>1, <1>2, Zenon

LEMMA CallbackFlying ==
  ASSUME IInv, NEW a \in DimmAddr, ReadCallback(a), NEW i \in DOMAIN tx, NEW c,
         i = Head(in_flight_reads[a]), Out(i, a - tx[i].addr), Returned(i, a - tx[i].addr, c)
  PROVE  in_flight_reads' \in [DimmAddr -> Seq(Nat)] /\ Flying'
<1> DEFINE f == in_flight_reads
           k == a - tx[i].addr
<1>1. /\ f \in [DimmAddr -> Seq(Nat)] /\ f[a] # << >>
      /\ \A b \in DimmAddr : f[b] \in Seq(Nat) /\ Unique(f[b])
      /\ f' = [f EXCEPT ![a] = Tail(f[a])]
  BY Zenon DEF IInv, Types, Flying, ReadCallback
<1>2. /\ Tail(f[a]) \in Seq(Nat) /\ Unique(Tail(f[a]))
      /\ \A j : In(Tail(f[a]), j) <=> In(f[a], j) /\ j # i
  BY <1>1, TailIn, Zenon
<1>3. /\ f' \in [DimmAddr -> Seq(Nat)] /\ f'[a] = Tail(f[a])
      /\ \A b \in DimmAddr : b # a => f'[b] = f[b]
  BY <1>1, <1>2, Zenon
<1>4. /\ DOMAIN tx' = DOMAIN tx /\ \A j \in DOMAIN tx : j # i => tx'[j] = tx[j]
      /\ tx'[i].addr = tx[i].addr /\ tx'[i].enqueued = tx[i].enqueued
      /\ tx'[i].retrieved = tx[i].retrieved \cup {k}
  BY Zenon DEF Returned
<1>5. /\ \A b \in DimmAddr : \A j : In(f[b], j) <=> j \in DOMAIN tx /\ Out(j, b - tx[j].addr)
      /\ \A j \in DOMAIN tx : tx[j].retrieved \subseteq 0 .. tx[j].enqueued - 1
  BY Zenon DEF IInv, Flying
<1>6. k \in 0 .. tx[i].enqueued - 1
  BY Zenon DEF Out
<1>7. \A b \in DimmAddr : b # a => b - tx[i].addr # k
  <2>1. tx[i].addr \in Nat /\ DimmAddr \subseteq Int
    <3>1. tx[i] \in Trans
      BY SeqFacts, Zenon DEF IInv, Types
    <3>2. tx[i].addr \in Addr
      BY <3>1 DEF Trans
    <3>3. tx[i].addr \in Nat
      BY <3>2, ReadAssumption, Zenon DEF ReadAssumption
    <3> QED
      BY <3>3, AddrsAreNumbers, Zenon
  <2> QED
    BY <2>1
<1> HIDE DEF k, f
<1>8. \A b \in DimmAddr : Unique(f'[b])
  BY <1>1, <1>2, <1>3, Zenon
<1>9. \A j \in DOMAIN tx' : tx'[j].retrieved \subseteq 0 .. tx'[j].enqueued - 1
  BY <1>4, <1>5, <1>6, Zenon
<1>10. ASSUME NEW b \in DimmAddr, NEW j
       PROVE  In(f'[b], j) <=> j \in DOMAIN tx /\ Out(j, b - tx[j].addr)'
  <2>1. CASE j \in DOMAIN tx /\ j # i
    BY <1>2, <1>3, <1>4, <1>5, <2>1, ZenonT(40) DEF Out
  <2>2. CASE j = i /\ b = a
    <3>1. ~ In(f'[b], j)
      BY <1>2, <1>3, <2>2, Zenon
    <3>2. ~ Out(j, b - tx[j].addr)'
      BY <1>4, <2>2, Zenon DEF Out, k
    <3> QED
      BY <3>1, <3>2, Zenon
  <2>3. CASE j = i /\ b # a
    <3>1. Out(i, b - tx[i].addr)' <=> Out(i, b - tx[i].addr)
      BY <1>4, <1>7, <2>3, Zenon DEF Out
    <3> QED
      BY <1>3, <1>5, <2>3, <3>1, Zenon
  <2>4. CASE j \notin DOMAIN tx
    BY <1>2, <1>3, <1>5, <2>4, Zenon
  <2> QED
    BY <2>1, <2>2, <2>3, <2>4, Zenon
<1>11. Flying'
  BY <1>4, <1>8, <1>9, <1>10, Zenon DEF Flying, f
<1> QED
  BY <1>3, <1>11, Zenon DEF f

LEMMA CallbackLoaded ==
  ASSUME IInv, NEW i \in DOMAIN tx, NEW k, NEW c \in Nat, Returned(i, k, c)
  PROVE  Loaded'
<1>1. /\ DOMAIN tx' = DOMAIN tx /\ \A j \in DOMAIN tx : j # i => tx'[j] = tx[j]
      /\ tx'[i].len = tx[i].len /\ tx[i].retrieved \subseteq tx'[i].retrieved
      /\ tx'[i].progress = tx[i].progress + c /\ tx[i].progress + c <= tx[i].len
      /\ \A n \in tx[i].progress .. tx[i].progress + c - 1 : BeatReady(tx'[i], n)
  BY Zenon DEF Returned
<1>2. \A j \in DOMAIN tx : \A n : BeatReady(tx[j], n)' <=> BeatReady(tx'[j], n)
  BY Zenon DEF BeatReady, Mult, Burst, Returned
<1>3. tx[i].progress \in Nat
  <2>1. tx[i] \in Trans
    BY SeqFacts, Zenon DEF IInv, Types
  <2> QED
    BY <2>1 DEF Trans
<1>4. \A n \in 0 .. tx'[i].progress - 1 : BeatReady(tx'[i], n)
  <2> SUFFICES ASSUME NEW n \in 0 .. tx'[i].progress - 1 PROVE BeatReady(tx'[i], n)
    BY Zenon
  <2>1. n \in 0 .. tx[i].progress - 1 \/ n \in tx[i].progress .. tx[i].progress + c - 1
    <3>1. tx'[i].progress = tx[i].progress + c
      BY <1>1, Zenon
    <3> QED
      BY <1>3, <3>1
  <2>2. CASE n \in 0 .. tx[i].progress - 1
    <3>1. BeatReady(tx[i], n)
      BY <2>2, Zenon DEF IInv, Loaded
    <3> QED
      BY <1>1, <3>1, ReadyKept, Zenon
  <2> QED
    BY <1>1, <2>1, <2>2, Zenon
<1>5. ASSUME NEW j \in DOMAIN tx
      PROVE  tx'[j].progress <= tx'[j].len /\ \A n \in 0 .. tx'[j].progress - 1 : BeatReady(tx'[j], n)
  <2>1. CASE j = i
    BY <1>1, <1>4, <2>1, Zenon
  <2>2. CASE j # i
    BY <1>1, <2>2, Zenon DEF IInv, Loaded
  <2> QED
    BY <2>1, <2>2, Zenon
<1> QED
  BY <1>1, <1>2, <1>5, Zenon DEF Loaded

LEMMA JoinFacts ==
  ASSUME NEW S, NEW s \in Seq(S), NEW t \in Seq(S)
  PROVE  /\ \A n \in DOMAIN s : n \in DOMAIN (s \o t) /\ (s \o t)[n] = s[n]
         /\ \A j \in DOMAIN t : Len(s) + j \in DOMAIN (s \o t) /\ (s \o t)[Len(s) + j] = t[j]
         /\ \A n \in DOMAIN (s \o t) : n \in DOMAIN s \/ \E j \in DOMAIN t : n = Len(s) + j
         /\ \A n \in DOMAIN s, j \in DOMAIN t : n < Len(s) + j /\ ~(Len(s) + j < n)
         /\ \A h, j \in DOMAIN t : Len(s) + h < Len(s) + j => h < j
<1>1. /\ DOMAIN (s \o t) = 1 .. Len(s) + Len(t)
      /\ \A n \in 1 .. Len(s) + Len(t) : (s \o t)[n] = IF n <= Len(s) THEN s[n] ELSE t[n - Len(s)]
  BY Joined, Zenon
<1>2. /\ DOMAIN s = 1 .. Len(s) /\ DOMAIN t = 1 .. Len(t) /\ Len(s) \in Nat /\ Len(t) \in Nat
  OBVIOUS
<1>3. ASSUME NEW n \in DOMAIN s PROVE n \in DOMAIN (s \o t) /\ (s \o t)[n] = s[n]
  <2>1. n \in 1 .. Len(s) + Len(t) /\ n <= Len(s)
    BY <1>2
  <2> QED
    BY <1>1, <2>1, Zenon
<1>4. ASSUME NEW j \in DOMAIN t PROVE Len(s) + j \in DOMAIN (s \o t) /\ (s \o t)[Len(s) + j] = t[j]
  <2>1. /\ Len(s) + j \in 1 .. Len(s) + Len(t) /\ ~(Len(s) + j <= Len(s))
        /\ (Len(s) + j) - Len(s) = j
    BY <1>2
  <2> QED
    BY <1>1, <2>1, Zenon
<1>5. ASSUME NEW n \in DOMAIN (s \o t) PROVE n \in DOMAIN s \/ \E j \in DOMAIN t : n = Len(s) + j
  <2>1. n \in 1 .. Len(s) + Len(t)
    BY <1>1, Zenon
  <2>2. n \in DOMAIN s \/ (n - Len(s) \in DOMAIN t /\ n = Len(s) + (n - Len(s)))
    BY <1>2, <2>1
  <2> QED
    BY <2>2, Zenon
<1>6. /\ \A n \in DOMAIN s, j \in DOMAIN t : n < Len(s) + j /\ ~(Len(s) + j < n)
      /\ \A h, j \in DOMAIN t : Len(s) + h < Len(s) + j => h < j
  BY <1>2
<1> QED
  BY <1>3, <1>4, <1>5, <1>6, Zenon

LEMMA NewBeatFacts ==
  ASSUME NEW i \in Nat, NEW c \in Nat, tx[i] \in Trans
  PROVE  /\ NewBeats(i, c) \in Seq(Beat) /\ DOMAIN NewBeats(i, c) = 1 .. c
         /\ \A j \in 1 .. c : /\ NewBeats(i, c)[j].tx = i
                              /\ NewBeats(i, c)[j].beat = tx[i].progress + j - 1
                              /\ NewBeats(i, c)[j].last <=> tx[i].progress + j = tx[i].len
<1>1. tx[i].progress \in Nat
  BY DEF Trans
<1> DEFINE b(j) == [tx |-> i, beat |-> tx[i].progress + j - 1, last |-> tx[i].progress + j = tx[i].len]
<1>2. ASSUME NEW j \in 1 .. c PROVE b(j) \in Beat
  <2>1. tx[i].progress + j - 1 \in Nat
    BY <1>1, <1>2
  <2>2. (tx[i].progress + j = tx[i].len) \in BOOLEAN
    BY Zenon
  <2> QED
    BY <2>1, <2>2, Zenon DEF Beat
<1>3. NewBeats(i, c) = [j \in 1 .. c |-> b(j)]
  BY Zenon DEF NewBeats
<1>4. \A j \in 1 .. c : /\ b(j).tx = i /\ b(j).beat = tx[i].progress + j - 1
                        /\ b(j).last <=> tx[i].progress + j = tx[i].len
  BY Zenon
<1> HIDE DEF b
<1>5. [j \in 1 .. c |-> b(j)] \in Seq(Beat)
  BY <1>2
<1> QED
  BY <1>3, <1>4, <1>5, Zenon

Queued(i, c) ==
  read_transactions' = read_transactions \o NewBeats(i, c) /\ r' = r /\ sent' = sent

LEMMA CallbackStreamed ==
  ASSUME IInv, NEW i \in DOMAIN tx, NEW k, NEW c \in Nat, Returned(i, k, c), Queued(i, c)
  PROVE  read_transactions' \in Seq(Beat) /\ Streamed'
<1> DEFINE b == NewBeats(i, c)
           p == tx[i].progress
           A == All
           L == Len(A)
<1>1. /\ sent \in Seq(Beat) /\ read_transactions \in Seq(Beat) /\ tx \in Seq(Trans)
      /\ r = None \/ (read_transactions # << >> /\ r = Head(read_transactions))
      /\ Whole(A) /\ Rising(A)
      /\ \A j \in DOMAIN tx : \A n \in 0 .. tx[j].progress - 1 : Has(A, j, n)
  BY Zenon DEF IInv, Types, Streamed
<1>2. /\ i \in Nat /\ tx[i] \in Trans
  BY <1>1
<1>3. p \in Nat /\ tx[i].len \in Nat /\ \A j \in DOMAIN tx : tx[j].progress \in Nat
  <2>1. \A j \in DOMAIN tx : tx[j] \in Trans
    BY <1>1
  <2> QED
    BY <1>2, <2>1 DEF Trans
<1>4. /\ b \in Seq(Beat) /\ DOMAIN b = 1 .. c
      /\ \A j \in 1 .. c : b[j].tx = i /\ b[j].beat = p + j - 1 /\ (b[j].last <=> p + j = tx[i].len)
  <2>1. NewBeats(i, c) \in Seq(Beat) /\ DOMAIN NewBeats(i, c) = 1 .. c
    BY <1>2, NewBeatFacts
  <2>2. ASSUME NEW j \in 1 .. c
        PROVE  /\ NewBeats(i, c)[j].tx = i
               /\ NewBeats(i, c)[j].beat = tx[i].progress + j - 1
               /\ NewBeats(i, c)[j].last <=> tx[i].progress + j = tx[i].len
    BY <1>2, NewBeatFacts, Zenon
  <2> QED
    BY <2>1, <2>2, Zenon
<1>5. /\ DOMAIN tx' = DOMAIN tx /\ \A j \in DOMAIN tx : j # i => tx'[j] = tx[j]
      /\ \A j \in DOMAIN tx : tx'[j].len = tx[j].len
      /\ tx'[i].progress = p + c
  BY Zenon DEF Returned
<1> HIDE DEF b, p
<1>6. A \in Seq(Beat) /\ A' = A \o b
  <2>1. b \in Seq(Beat) /\ sent \in Seq(Beat) /\ read_transactions \in Seq(Beat)
    BY <1>1, <1>4, Zenon
  <2>2. sent \o (read_transactions \o b) = (sent \o read_transactions) \o b
    BY <2>1, Associative, SMTT(20)
  <2>3. sent \o read_transactions \in Seq(Beat)
    BY <2>1, Joined, Zenon
  <2> QED
    BY <2>2, <2>3, Zenon DEF All, b, Queued
<1> HIDE DEF A
<1>7. /\ \A n \in DOMAIN A : n \in DOMAIN A' /\ A'[n] = A[n]
      /\ \A j \in 1 .. c : L + j \in DOMAIN A' /\ A'[L + j] = b[j]
      /\ \A n \in DOMAIN A' : n \in DOMAIN A \/ \E j \in 1 .. c : n = L + j
      /\ \A n \in DOMAIN A, j \in 1 .. c : n < L + j /\ ~(L + j < n)
      /\ \A h, j \in 1 .. c : L + h < L + j => h < j
  <2>1. b \in Seq(Beat) /\ DOMAIN b = 1 .. c
    BY <1>4, Zenon
  <2>2. /\ \A n \in DOMAIN A : n \in DOMAIN (A \o b) /\ (A \o b)[n] = A[n]
        /\ \A j \in DOMAIN b : L + j \in DOMAIN (A \o b) /\ (A \o b)[L + j] = b[j]
        /\ \A n \in DOMAIN (A \o b) : n \in DOMAIN A \/ \E j \in DOMAIN b : n = L + j
        /\ \A n \in DOMAIN A, j \in DOMAIN b : n < L + j /\ ~(L + j < n)
        /\ \A h, j \in DOMAIN b : L + h < L + j => h < j
    BY <1>6, <2>1, JoinFacts, Zenon
  <2>3. A' = A \o b
    BY <1>6, Zenon
  <2> HIDE DEF L
  <2> QED
    BY <2>1, <2>2, <2>3, Zenon
<1> HIDE DEF L
<1>8. /\ \A j \in 1 .. c : p + j - 1 < p + c /\ (p + j = tx[i].len <=> p + j - 1 = tx[i].len - 1)
      /\ \A h, j \in 1 .. c : h < j => p + h - 1 < p + j - 1
  <2>1. p \in Nat /\ tx[i].len \in Nat
    BY <1>3, Zenon
  <2> QED
    BY <2>1
<1>9. \A n \in DOMAIN A : A[n].beat \in Nat
  <2>1. \A n \in DOMAIN A : A[n] \in Beat
    BY <1>6, SeqFacts, Zenon
  <2> QED
    BY <2>1 DEF Beat
<1>10. \A x \in Nat : x < p => x < p + c /\ \A j \in 1 .. c : x < p + j - 1
  BY <1>3
<1>11. Whole(A)'
  <2> SUFFICES ASSUME NEW n \in DOMAIN A'
               PROVE  /\ A'[n].tx \in DOMAIN tx' /\ A'[n].beat < tx'[A'[n].tx].progress
                      /\ A'[n].last <=> A'[n].beat = tx'[A'[n].tx].len - 1
    BY Zenon DEF Whole
  <2>1. CASE n \in DOMAIN A
    <3>1. /\ A[n].tx \in DOMAIN tx /\ A[n].beat < tx[A[n].tx].progress
          /\ A[n].last <=> A[n].beat = tx[A[n].tx].len - 1
      BY <1>1, <2>1, Zenon DEF Whole
    <3>2. A[n].tx = i => A[n].beat < p + c
      BY <1>9, <1>10, <2>1, <3>1, Zenon DEF p
    <3>3. A'[n] = A[n]
      BY <1>7, <2>1, Zenon
    <3>4. CASE A[n].tx = i
      BY <1>5, <3>1, <3>2, <3>3, <3>4, Zenon
    <3>5. CASE A[n].tx # i
      BY <1>5, <3>1, <3>3, <3>5, Zenon
    <3> QED
      BY <3>4, <3>5, Zenon
  <2>2. CASE \E j \in 1 .. c : n = L + j
    <3>1. PICK j \in 1 .. c : n = L + j
      BY <2>2, Zenon
    <3>2. /\ A'[n].tx = i /\ A'[n].beat = p + j - 1 /\ (A'[n].last <=> p + j - 1 = tx[i].len - 1)
      BY <1>4, <1>7, <1>8, <3>1, ZenonT(40)
    <3> QED
      BY <1>5, <1>8, <3>2, Zenon
  <2> QED
    BY <1>7, <2>1, <2>2, Zenon
<1>12. Rising(A)'
  <2> SUFFICES ASSUME NEW m \in DOMAIN A', NEW n \in DOMAIN A', m < n, A'[m].tx = A'[n].tx
               PROVE  A'[m].beat < A'[n].beat
    BY Zenon DEF Rising
  <2>1. CASE m \in DOMAIN A /\ n \in DOMAIN A
    BY <1>1, <1>7, <2>1, Zenon DEF Rising
  <2>2. CASE m \in DOMAIN A /\ \E j \in 1 .. c : n = L + j
    <3>1. PICK j \in 1 .. c : n = L + j
      BY <2>2, Zenon
    <3>a. A'[n] = b[j] /\ A'[m] = A[m]
      BY <1>7, <2>2, <3>1, Zenon
    <3>2. A'[n].tx = i /\ A'[n].beat = p + j - 1 /\ A'[m] = A[m]
      BY <1>4, <3>a, Zenon
    <3>3. A[m].tx = i
      BY <3>2, Zenon
    <3>4. A[m].beat < p
      BY <1>1, <2>2, <3>3, Zenon DEF Whole, p
    <3> QED
      BY <1>9, <1>10, <2>2, <3>2, <3>4, Zenon
  <2>3. CASE n \in DOMAIN A /\ \E j \in 1 .. c : m = L + j
    <3>1. PICK j \in 1 .. c : m = L + j
      BY <2>3, Zenon
    <3>2. ~(L + j < n)
      BY <1>7, <2>3, Zenon
    <3> QED
      BY <3>1, <3>2, Zenon
  <2>4. CASE (\E j \in 1 .. c : m = L + j) /\ (\E j \in 1 .. c : n = L + j)
    <3>1. PICK h \in 1 .. c : m = L + h
      BY <2>4, Zenon
    <3>2. PICK j \in 1 .. c : n = L + j
      BY <2>4, Zenon
    <3>3. A'[m].beat = p + h - 1 /\ A'[n].beat = p + j - 1 /\ h < j
      BY <1>4, <1>7, <3>1, <3>2, Zenon
    <3> QED
      BY <1>8, <3>3, Zenon
  <2> QED
    BY <1>7, <2>1, <2>2, <2>3, <2>4, Zenon
<1>13. ASSUME NEW j \in DOMAIN tx', NEW n \in 0 .. tx'[j].progress - 1 PROVE Has(A, j, n)'
  <2>1. Has(A, j, n) => Has(A, j, n)'
    BY <1>7, Zenon DEF Has
  <2>2. CASE j # i
    BY <1>1, <1>5, <1>13, <2>1, <2>2, Zenon
  <2>3. CASE j = i
    <3>1. n \in 0 .. p + c - 1
      <4>1. tx'[j].progress = p + c
        BY <1>5, <2>3, Zenon
      <4> QED
        BY <1>3, <4>1
    <3>2. n \in 0 .. p - 1 \/ (n - p + 1 \in 1 .. c /\ n = p + (n - p + 1) - 1)
      BY <1>3, <3>1
    <3>3. CASE n \in 0 .. p - 1
      BY <1>1, <2>1, <2>3, <3>3, Zenon DEF p
    <3>4. CASE n - p + 1 \in 1 .. c /\ n = p + (n - p + 1) - 1
      <4>1. PICK h \in 1 .. c : n = p + h - 1
        BY <3>4, Zenon
      <4>2. L + h \in DOMAIN A' /\ A'[L + h] = b[h]
        BY <1>7, Zenon
      <4>3. b[h].tx = i /\ b[h].beat = n
        BY <1>4, <4>1, Zenon
      <4> QED
        BY <2>3, <4>2, <4>3, Zenon DEF Has
    <3> QED
      BY <3>2, <3>3, <3>4, Zenon
  <2> QED
    BY <2>2, <2>3, Zenon
<1>14. r' = None \/ (read_transactions' # << >> /\ r' = Head(read_transactions'))
  <2>1. read_transactions # << >> =>
          read_transactions \o b # << >> /\ Head(read_transactions \o b) = Head(read_transactions)
    BY <1>1, <1>4
  <2> QED
    BY <1>1, <2>1, Zenon DEF b, Queued
<1>15. read_transactions' \in Seq(Beat)
  <2>1. b \in Seq(Beat) /\ read_transactions \in Seq(Beat)
    BY <1>1, <1>4, Zenon
  <2>2. read_transactions \o b \in Seq(Beat)
    BY <2>1, Joined, Zenon
  <2> QED
    BY <2>2, Zenon DEF b, Queued
<1> QED
  BY <1>11, <1>12, <1>13, <1>14, <1>15, Zenon DEF Streamed, A

LEMMA InvCallback ==
  ASSUME Runs, IInv, NEW a \in DimmAddr, ReadCallback(a)
  PROVE  IInv'
<1>1. PICK i \in DOMAIN tx, c \in Nat :
        /\ i = Head(in_flight_reads[a]) /\ Out(i, a - tx[i].addr)
        /\ Returned(i, a - tx[i].addr, c)
        /\ read_transactions' = read_transactions \o NewBeats(i, c)
  BY CallbackFacts, Zenon
<1>2. ddr_read_q' = ddr_read_q /\ Queued(i, c)
  BY <1>1, Zenon DEF ReadCallback, Queued
<1>3. Lined' /\ SameIdInOrder'
  BY <1>1, <1>2, CallbackLined, Zenon
<1>4. in_flight_reads' \in [DimmAddr -> Seq(Nat)] /\ Flying'
  BY <1>1, CallbackFlying, Zenon
<1>5. Loaded'
  BY <1>1, CallbackLoaded, Zenon
<1>6. read_transactions' \in Seq(Beat) /\ Streamed'
  BY <1>1, <1>2, CallbackStreamed, Zenon
<1>7. Types'
  BY <1>1, <1>2, <1>4, <1>6, Zenon DEF IInv, Types, Returned, Queued
<1> QED
  BY <1>3, <1>4, <1>5, <1>6, <1>7, Zenon DEF IInv

-----------------------------------------------------------------------------
(* A burst given to the DRAM *)

\* The reads of the queue are reads with bursts to give.
LEMMA InQueue ==
  ASSUME IInv, NEW n \in DOMAIN ddr_read_q
  PROVE  /\ ddr_read_q[n] \in DOMAIN tx
         /\ tx[ddr_read_q[n]].enqueued < Bursts(tx[ddr_read_q[n]].len)
BY Zenon DEF IInv, Lined, In

LEMMA TransFacts ==
  ASSUME IInv, NEW i \in DOMAIN tx
  PROVE  /\ tx[i] \in Trans /\ i \in Nat /\ tx[i].addr \in Addr /\ tx[i].addr \in Nat
         /\ tx[i].enqueued \in Nat /\ tx[i].progress \in Nat
         /\ tx[i].len \in config.lens /\ tx[i].len \in Nat /\ config \in Configs
         /\ Bursts(tx[i].len) \in Nat /\ 0 < Bursts(tx[i].len)
         /\ \A k \in 0 .. Bursts(tx[i].len) - 1 : tx[i].addr + k \in DimmAddr
<1>1. tx \in Seq(Trans) /\ tx[i].len \in config.lens /\ config \in Configs
  BY Zenon DEF IInv, Types
<1>2. tx[i] \in Trans /\ i \in Nat
  BY <1>1
<1>3. tx[i].addr \in Addr /\ tx[i].enqueued \in Nat /\ tx[i].progress \in Nat /\ tx[i].len \in Nat
  BY <1>2 DEF Trans
<1>4. tx[i].addr \in Nat
  BY <1>3, ReadAssumption, Zenon DEF ReadAssumption
<1>5. /\ Bursts(tx[i].len) \in Nat /\ 0 < Bursts(tx[i].len)
      /\ \A k \in 0 .. Bursts(tx[i].len) - 1 : tx[i].addr + k \in DimmAddr
  BY <1>1, <1>3, BurstFacts, Zenon
<1> QED
  BY <1>1, <1>2, <1>3, <1>4, <1>5, Zenon

\* The next burst of read i, at place n of the queue, goes to the DRAM.
Given(i) ==
  /\ config' = config /\ tx' \in Seq(Trans) /\ DOMAIN tx' = DOMAIN tx
  /\ \A j \in DOMAIN tx : j # i => tx'[j] = tx[j]
  /\ \A j \in DOMAIN tx : /\ tx'[j].id = tx[j].id /\ tx'[j].addr = tx[j].addr
                          /\ tx'[j].len = tx[j].len /\ tx'[j].retrieved = tx[j].retrieved
                          /\ tx'[j].progress = tx[j].progress
  /\ tx'[i].enqueued = tx[i].enqueued + 1

LEMMA EnqueueFacts ==
  ASSUME Least, IInv, NEW accept, EnqueueRead(accept)
  PROVE  \E n \in DOMAIN ddr_read_q : \E i \in DOMAIN tx :
           /\ i = ddr_read_q[n] /\ Given(i) /\ tx[i].enqueued < Bursts(tx[i].len)
           /\ \A m \in 1 .. n - 1 : tx[ddr_read_q[m]].id # tx[i].id
           /\ in_flight_reads' =
                [in_flight_reads EXCEPT ![NextBurst(i)] = Append(in_flight_reads[NextBurst(i)], i)]
           /\ ddr_read_q' = IF tx[i].enqueued + 1 >= Bursts(tx[i].len)
                            THEN Erase(ddr_read_q, n) ELSE ddr_read_q
<1> DEFINE n == Min(Candidates(accept))
           i == ddr_read_q[n]
           u == [tx[i] EXCEPT !.enqueued = @ + 1]
<1>1. ddr_read_q \in Seq(Nat) /\ tx \in Seq(Trans)
  BY Zenon DEF IInv, Types
<1>2. DOMAIN ddr_read_q \subseteq Nat
  BY <1>1
<1>3. Candidates(accept) \in SUBSET Nat /\ Candidates(accept) # {}
  BY <1>2, Zenon DEF Candidates, EnqueueRead
<1>4. n \in Candidates(accept)
  BY <1>3, MinIn, Zenon
<1>5. n \in DOMAIN ddr_read_q /\ \A m \in 1 .. n - 1 : tx[ddr_read_q[m]].id # tx[i].id
  BY <1>4, Zenon DEF Candidates
<1>6. i \in DOMAIN tx /\ tx[i].enqueued < Bursts(tx[i].len)
  BY <1>5, InQueue, Zenon
<1>7. tx[i] \in Trans
  BY <1>6, TransFacts, Zenon
<1>8. /\ u \in Trans /\ u.enqueued = tx[i].enqueued + 1
      /\ u.id = tx[i].id /\ u.addr = tx[i].addr /\ u.len = tx[i].len
      /\ u.progress = tx[i].progress /\ u.retrieved = tx[i].retrieved
  BY <1>7, Enqueued, Zenon
<1>9. /\ tx' = [tx EXCEPT ![i] = u] /\ config' = config
      /\ in_flight_reads' =
           [in_flight_reads EXCEPT ![NextBurst(i)] = Append(in_flight_reads[NextBurst(i)], i)]
      /\ ddr_read_q' = IF tx[i].enqueued + 1 >= Bursts(tx[i].len)
                       THEN Erase(ddr_read_q, n) ELSE ddr_read_q
  BY Zenon DEF EnqueueRead
<1> HIDE DEF n, i, u
<1>10. /\ tx' \in Seq(Trans) /\ DOMAIN tx' = DOMAIN tx /\ tx'[i] = u
       /\ \A j \in DOMAIN tx : j # i => tx'[j] = tx[j]
  BY <1>1, <1>6, <1>8, <1>9, SeqUpdate, Zenon
<1>11. Given(i)
  BY <1>8, <1>9, <1>10, Zenon DEF Given
<1>12. i = ddr_read_q[n]
  BY Zenon DEF i
<1> QED
  BY <1>5, <1>6, <1>9, <1>11, <1>12, Zenon

\* A step that leaves the data and the beats of the reads alone.
LEMMA BeatsKept ==
  ASSUME IInv, config' = config, DOMAIN tx' = DOMAIN tx,
         \A j \in DOMAIN tx : /\ tx'[j].len = tx[j].len /\ tx'[j].retrieved = tx[j].retrieved
                              /\ tx'[j].progress = tx[j].progress,
         UNCHANGED << read_transactions, r, sent >>
  PROVE  Loaded' /\ Streamed'
<1>1. \A j \in DOMAIN tx : \A n : BeatReady(tx[j], n) => BeatReady(tx[j], n)'
  BY Zenon DEF BeatReady, Mult, Burst
<1>2. Loaded'
  BY <1>1, Zenon DEF IInv, Loaded
<1>3. All' = All
  BY Zenon DEF All
<1>4. Whole(All)'
  BY <1>3, Zenon DEF Whole, IInv, Streamed
<1>5. Rising(All)'
  BY <1>3, Zenon DEF Rising, IInv, Streamed
<1>6. \A i \in DOMAIN tx' : \A k \in 0 .. tx'[i].progress - 1 : Has(All, i, k)'
  <2>1. \A i \in DOMAIN tx : \A k \in 0 .. tx[i].progress - 1 : Has(All, i, k)
    BY Zenon DEF IInv, Streamed
  <2>2. \A i, k : Has(All, i, k)' <=> Has(All, i, k)
    BY <1>3, Zenon DEF Has
  <2>3. \A i \in DOMAIN tx : tx'[i].progress - 1 = tx[i].progress - 1
    BY Zenon
  <2> QED
    BY <2>1, <2>2, <2>3, Zenon
<1>7. r' = None \/ (read_transactions' # << >> /\ r' = Head(read_transactions'))
  BY Zenon DEF IInv, Streamed
<1> QED
  BY <1>2, <1>4, <1>5, <1>6, <1>7, Zenon DEF Streamed

LEMMA EnqueueLined ==
  ASSUME IInv, NEW n \in DOMAIN ddr_read_q, NEW i \in DOMAIN tx, i = ddr_read_q[n], Given(i),
         tx[i].enqueued < Bursts(tx[i].len),
         ddr_read_q' = IF tx[i].enqueued + 1 >= Bursts(tx[i].len)
                       THEN Erase(ddr_read_q, n) ELSE ddr_read_q
  PROVE  ddr_read_q' \in Seq(Nat) /\ Lined'
<1> DEFINE q == ddr_read_q
           e == tx[i].enqueued
           B(j) == Bursts(tx[j].len)
<1>1. /\ q \in Seq(Nat) /\ Increasing(q)
      /\ \A j : In(q, j) <=> j \in DOMAIN tx /\ tx[j].enqueued < B(j)
      /\ \A j \in DOMAIN tx : tx[j].enqueued <= B(j)
  BY Zenon DEF IInv, Types, Lined, Increasing
<1>2. /\ DOMAIN tx' = DOMAIN tx /\ \A j \in DOMAIN tx : j # i => tx'[j].enqueued = tx[j].enqueued
      /\ tx'[i].enqueued = e + 1
      /\ \A j \in DOMAIN tx : B(j)' = B(j)
  BY Zenon DEF Given, Bursts, Mult, Burst
<1>3. e \in Nat /\ B(i) \in Nat /\ e < B(i)
  BY TransFacts, Zenon
<1>4. e + 1 <= B(i) /\ (e + 1 < B(i) <=> ~(e + 1 >= B(i)))
  BY <1>3
<1>5. /\ Erase(q, n) \in Seq(Nat) /\ Increasing(Erase(q, n))
      /\ \A j : In(Erase(q, n), j) <=> In(q, j) /\ j # i
  BY <1>1, EraseIn, Zenon
<1>6. q' = IF e + 1 >= B(i) THEN Erase(q, n) ELSE q
  BY Zenon
<1> HIDE DEF q, e, B
<1>7. q' \in Seq(Nat) /\ Increasing(q')
  BY <1>1, <1>5, <1>6, Zenon
<1>8. ASSUME NEW j PROVE In(q', j) <=> j \in DOMAIN tx' /\ tx'[j].enqueued < B(j)'
  <2>1. CASE j \in DOMAIN tx /\ j # i
    <3>1. In(q', j) <=> In(q, j)
      BY <1>5, <1>6, <2>1, Zenon
    <3> QED
      BY <1>1, <1>2, <2>1, <3>1, Zenon
  <2>2. CASE j = i
    <3>1. In(q, i)
      BY <1>1, <1>3, Zenon DEF e
    <3>2. In(q', i) <=> ~(e + 1 >= B(i))
      BY <1>5, <1>6, <3>1, Zenon
    <3> QED
      BY <1>2, <1>4, <2>2, <3>2, Zenon
  <2>3. CASE j \notin DOMAIN tx
    <3>1. ~ In(q, j)
      BY <1>1, <2>3, Zenon
    <3>2. ~ In(q', j)
      BY <1>5, <1>6, <3>1, Zenon
    <3> QED
      BY <1>2, <2>3, <3>2, Zenon
  <2> QED
    BY <2>1, <2>2, <2>3, Zenon
<1>9. \A j \in DOMAIN tx' : tx'[j].enqueued <= B(j)'
  BY <1>1, <1>2, <1>4, Zenon
<1> QED
  BY <1>7, <1>8, <1>9, Zenon DEF Lined, Increasing, q, B

LEMMA EnqueueSameId ==
  ASSUME IInv, NEW n \in DOMAIN ddr_read_q, NEW i \in DOMAIN tx, i = ddr_read_q[n], Given(i),
         tx[i].enqueued < Bursts(tx[i].len),
         \A m \in 1 .. n - 1 : tx[ddr_read_q[m]].id # tx[i].id
  PROVE  SameIdInOrder'
<1>1. /\ DOMAIN tx' = DOMAIN tx /\ \A j \in DOMAIN tx : j # i => tx'[j] = tx[j]
      /\ tx'[i].enqueued = tx[i].enqueued + 1 /\ tx'[i].id = tx[i].id /\ tx'[i].len = tx[i].len
      /\ config' = config
  BY Zenon DEF Given
<1>2. \A j \in DOMAIN tx : Bursts(tx[j].len)' = Bursts(tx[j].len)
  BY <1>1, Zenon DEF Bursts, Mult, Burst
<1>3. /\ tx[i].enqueued \in Nat /\ Bursts(tx[i].len) \in Nat
      /\ \A j \in DOMAIN tx : j \in Nat /\ tx[j].enqueued \in Nat /\ Bursts(tx[j].len) \in Nat
  BY TransFacts, Zenon
<1> SUFFICES ASSUME NEW h \in DOMAIN tx', NEW j \in DOMAIN tx', h < j, tx'[h].id = tx'[j].id,
                    tx'[j].enqueued > 0
             PROVE  tx'[h].enqueued = Bursts(tx[h].len)'
  BY Zenon DEF SameIdInOrder
<1> SUFFICES tx'[h].enqueued = Bursts(tx[h].len)
  BY <1>1, <1>2, Zenon
<1> h \in DOMAIN tx /\ j \in DOMAIN tx
  BY <1>1, Zenon
<1>4. CASE h # i /\ j # i
  BY <1>1, <1>4, Zenon DEF IInv, SameIdInOrder
<1>5. CASE h = i
  <2>1. j # i
    BY <1>3, <1>5
  <2>2. tx[i].enqueued = Bursts(tx[i].len)
    BY <1>1, <1>5, <2>1, Zenon DEF IInv, SameIdInOrder
  <2> QED
    BY <1>3, <2>2
<1>6. CASE h # i /\ j = i
  <2>1. tx'[h] = tx[h] /\ tx[h].id = tx[i].id
    BY <1>1, <1>6, Zenon
  <2>2. ~ In(ddr_read_q, h)
    <3> SUFFICES ASSUME NEW m \in DOMAIN ddr_read_q, ddr_read_q[m] = h PROVE FALSE
      BY Zenon DEF In
    <3>1. DOMAIN ddr_read_q \subseteq Nat /\ DOMAIN ddr_read_q = 1 .. Len(ddr_read_q)
      BY SeqFacts, SMTT(20) DEF IInv, Types
    <3>2. m \notin 1 .. n - 1
      BY <2>1, Zenon
    <3>3. m = n \/ n < m
      BY <3>1, <3>2
    <3>4. n < m => i < h
      BY Zenon DEF IInv, Lined
    <3>5. h \in Nat /\ i \in Nat /\ h < i
      BY <1>3, <1>6, Zenon
    <3>6. ~(i < h) /\ h # i
      BY <3>5
    <3> QED
      BY <3>3, <3>4, <3>6, Zenon
  <2>3. ~(tx[h].enqueued < Bursts(tx[h].len)) /\ tx[h].enqueued <= Bursts(tx[h].len)
    BY <2>2, Zenon DEF IInv, Lined
  <2>4. tx[h].enqueued = Bursts(tx[h].len)
    BY <1>3, <2>3
  <2> QED
    BY <2>1, <2>4, Zenon
<1> QED
  BY <1>4, <1>5, <1>6, Zenon

LEMMA EnqueueFlying ==
  ASSUME IInv, NEW i \in DOMAIN tx, Given(i), tx[i].enqueued < Bursts(tx[i].len),
         in_flight_reads' =
           [in_flight_reads EXCEPT ![NextBurst(i)] = Append(in_flight_reads[NextBurst(i)], i)]
  PROVE  in_flight_reads' \in [DimmAddr -> Seq(Nat)] /\ Flying'
<1> DEFINE f == in_flight_reads
           e == tx[i].enqueued
           e1 == e + 1
           a == NextBurst(i)
<1>1. /\ f \in [DimmAddr -> Seq(Nat)]
      /\ \A b \in DimmAddr : f[b] \in Seq(Nat) /\ Unique(f[b])
      /\ \A b \in DimmAddr : \A j : In(f[b], j) <=> j \in DOMAIN tx /\ Out(j, b - tx[j].addr)
      /\ \A j \in DOMAIN tx : tx[j].retrieved \subseteq 0 .. tx[j].enqueued - 1
  BY Zenon DEF IInv, Types, Flying
<1>2. /\ e \in Nat /\ tx[i].addr \in Nat /\ i \in Nat /\ Bursts(tx[i].len) \in Nat
      /\ \A k \in 0 .. Bursts(tx[i].len) - 1 : tx[i].addr + k \in DimmAddr
  BY TransFacts, Zenon
<1>3. a = tx[i].addr + e
  BY Zenon DEF NextBurst
<1>4. a \in DimmAddr /\ a - tx[i].addr = e /\ \A b \in DimmAddr : b # a => b - tx[i].addr # e
  <2>1. e \in 0 .. Bursts(tx[i].len) - 1
    BY <1>2
  <2>2. a \in DimmAddr
    BY <1>2, <1>3, <2>1, Zenon
  <2>3. a - tx[i].addr = e
    BY <1>2, <1>3
  <2>4. ASSUME NEW b \in DimmAddr, b - tx[i].addr = e PROVE b = a
    <3>1. b \in Int
      BY AddrsAreNumbers, Zenon
    <3> QED
      BY <1>2, <1>3, <2>4, <3>1
  <2> QED
    BY <2>2, <2>3, <2>4, Zenon
<1>5. /\ DOMAIN tx' = DOMAIN tx /\ \A j \in DOMAIN tx : j # i => tx'[j] = tx[j]
      /\ tx'[i].addr = tx[i].addr /\ tx'[i].enqueued = e1 /\ tx'[i].retrieved = tx[i].retrieved
  BY Zenon DEF Given
<1>6. /\ ~(e \in 0 .. e - 1) /\ e \in 0 .. e1 - 1
      /\ \A k : k # e => (k \in 0 .. e1 - 1 <=> k \in 0 .. e - 1)
      /\ 0 .. e - 1 \subseteq 0 .. e1 - 1
  BY <1>2
<1>7. f' = [f EXCEPT ![a] = Append(f[a], i)]
  BY Zenon
<1> HIDE DEF f, e, e1, a
<1>8. ~ In(f[a], i)
  <2>1. ~ Out(i, e)
    BY <1>6, Zenon DEF Out, e
  <2> QED
    BY <1>1, <1>4, <2>1, Zenon
<1>9. /\ Append(f[a], i) \in Seq(Nat) /\ Unique(Append(f[a], i))
      /\ \A j : In(Append(f[a], i), j) <=> In(f[a], j) \/ j = i
  BY <1>1, <1>2, <1>4, <1>8, AppendIn, Zenon
<1>10. /\ f' \in [DimmAddr -> Seq(Nat)] /\ f'[a] = Append(f[a], i)
       /\ \A b \in DimmAddr : b # a => f'[b] = f[b]
  BY <1>1, <1>4, <1>7, <1>9, Zenon
<1>11. \A b \in DimmAddr : Unique(f'[b])
  BY <1>1, <1>9, <1>10, Zenon
<1>12. ASSUME NEW j \in DOMAIN tx' PROVE tx'[j].retrieved \subseteq 0 .. tx'[j].enqueued - 1
  <2>1. CASE j = i
    <3>1. tx[i].retrieved \subseteq 0 .. e1 - 1
      BY <1>1, <1>6, Zenon DEF e
    <3>2. tx'[j].enqueued - 1 = e1 - 1
      BY <1>5, <2>1, Zenon
    <3> QED
      BY <1>5, <2>1, <3>1, <3>2, Zenon
  <2>2. CASE j # i
    BY <1>1, <1>5, <2>2, Zenon
  <2> QED
    BY <2>1, <2>2, Zenon
<1>13. \A k : Out(i, k)' <=> k \in 0 .. e1 - 1 /\ k \notin tx[i].retrieved
  <2>1. tx'[i].enqueued - 1 = e1 - 1
    BY <1>5, Zenon
  <2> QED
    BY <1>5, <2>1, Zenon DEF Out
<1>14. ASSUME NEW b \in DimmAddr, NEW j
       PROVE  In(f'[b], j) <=> j \in DOMAIN tx /\ Out(j, b - tx[j].addr)'
  <2>1. CASE j \in DOMAIN tx /\ j # i
    <3>1. In(f'[b], j) <=> In(f[b], j)
      BY <1>9, <1>10, <2>1, Zenon
    <3>2. Out(j, b - tx[j].addr)' <=> Out(j, b - tx[j].addr)
      BY <1>5, <2>1, Zenon DEF Out
    <3> QED
      BY <1>1, <2>1, <3>1, <3>2, Zenon
  <2>2. CASE j = i /\ b = a
    <3>1. In(f'[b], j)
      BY <1>9, <1>10, <2>2, Zenon
    <3>2. e \notin tx[i].retrieved
      BY <1>1, <1>6, Zenon DEF e
    <3>3. PICK k : k = e
      BY Zenon
    <3>4. Out(i, k)' /\ b - tx'[j].addr = k
      BY <1>4, <1>5, <1>6, <1>13, <2>2, <3>2, <3>3, Zenon
    <3>5. Out(j, b - tx[j].addr)'
      BY <2>2, <3>4, Zenon DEF Out
    <3> QED
      BY <2>2, <3>1, <3>5, Zenon
  <2>3. CASE j = i /\ b # a
    <3>1. Out(i, b - tx[i].addr)' <=> Out(i, b - tx[i].addr)
      <4>1. (b - tx[i].addr)' = b - tx[i].addr /\ b - tx[i].addr # e
        BY <1>4, <1>5, <2>3, Zenon
      <4>2. b - tx[i].addr \in 0 .. e1 - 1 <=> b - tx[i].addr \in 0 .. e - 1
        BY <1>6, <4>1, Zenon
      <4> QED
        BY <1>13, <4>1, <4>2, Zenon DEF Out, e
    <3> QED
      BY <1>1, <1>10, <2>3, <3>1, Zenon
  <2>4. CASE j \notin DOMAIN tx
    BY <1>1, <1>9, <1>10, <2>4, Zenon
  <2> QED
    BY <2>1, <2>2, <2>3, <2>4, Zenon
<1>15. Flying'
  BY <1>5, <1>11, <1>12, <1>14, Zenon DEF Flying, f
<1> QED
  BY <1>10, <1>15, Zenon DEF f

LEMMA InvEnqueue ==
  ASSUME Least, IInv, NEW accept, EnqueueRead(accept)
  PROVE  IInv'
<1>1. PICK n \in DOMAIN ddr_read_q, i \in DOMAIN tx :
        /\ i = ddr_read_q[n] /\ Given(i) /\ tx[i].enqueued < Bursts(tx[i].len)
        /\ \A m \in 1 .. n - 1 : tx[ddr_read_q[m]].id # tx[i].id
        /\ in_flight_reads' =
             [in_flight_reads EXCEPT ![NextBurst(i)] = Append(in_flight_reads[NextBurst(i)], i)]
        /\ ddr_read_q' = IF tx[i].enqueued + 1 >= Bursts(tx[i].len)
                         THEN Erase(ddr_read_q, n) ELSE ddr_read_q
  BY EnqueueFacts, Zenon
<1>2. ddr_read_q' \in Seq(Nat) /\ Lined'
  BY <1>1, EnqueueLined, Zenon
<1>3. SameIdInOrder'
  BY <1>1, EnqueueSameId, Zenon
<1>4. in_flight_reads' \in [DimmAddr -> Seq(Nat)] /\ Flying'
  BY <1>1, EnqueueFlying, Zenon
<1>5. UNCHANGED << read_transactions, r, sent >>
  BY Zenon DEF EnqueueRead
<1>6. Loaded' /\ Streamed'
  BY <1>1, <1>5, BeatsKept, Zenon DEF Given
<1>7. Types'
  BY <1>1, <1>2, <1>4, <1>5, Zenon DEF IInv, Types, Given
<1> QED
  BY <1>2, <1>3, <1>4, <1>6, <1>7, Zenon DEF IInv

-----------------------------------------------------------------------------
(* The clock tick *)

NewRead(u) ==
  /\ tx' = Append(tx, u) /\ ddr_read_q' = Append(ddr_read_q, Len(tx) + 1)
  /\ u \in Trans /\ u.len \in config.lens
  /\ u.enqueued = 0 /\ u.retrieved = {} /\ u.progress = 0

LEMMA TickFacts ==
  ASSUME IInv, NEW take \in BOOLEAN, NEW new \in {<< >>} \cup {<< q >> : q \in Requests},
         Tick(take, new)
  PROVE  /\ (tx' = tx /\ ddr_read_q' = ddr_read_q) \/ \E u : NewRead(u)
         /\ config' = config /\ in_flight_reads' = in_flight_reads
         /\ sent' \in Seq(Beat) /\ read_transactions' \in Seq(Beat) /\ All' = All
         /\ r' = None \/ (read_transactions' # << >> /\ r' = Head(read_transactions'))
<1> DEFINE accepted == IF ar_ready /\ Len(tx) < MaxReads THEN new ELSE << >>
           taken == take /\ r # None
<1>1. /\ tx \in Seq(Trans) /\ ddr_read_q \in Seq(Nat) /\ sent \in Seq(Beat)
      /\ read_transactions \in Seq(Beat) /\ config \in Configs
      /\ r = None \/ (read_transactions # << >> /\ r = Head(read_transactions))
  BY Zenon DEF IInv, Types, Streamed
<1>2. /\ sent' = IF taken THEN Append(sent, r) ELSE sent
      /\ read_transactions' = IF taken THEN Tail(read_transactions) ELSE read_transactions
      /\ tx' = tx \o [j \in DOMAIN accepted |-> Transaction(accepted[j])]
      /\ ddr_read_q' = ddr_read_q \o [j \in DOMAIN accepted |-> Len(tx) + j]
      /\ r' = IF read_transactions' = << >> THEN None ELSE Head(read_transactions')
      /\ config' = config /\ in_flight_reads' = in_flight_reads
  BY Zenon DEF Tick
<1>3. accepted = << >> \/ \E q \in Requests : accepted = << q >>
  BY Zenon
<1> HIDE DEF accepted, taken
<1>4. ASSUME accepted = << >> PROVE tx' = tx /\ ddr_read_q' = ddr_read_q
  <2>1. /\ tx \o [j \in DOMAIN << >> |-> Transaction(accepted[j])] = tx
        /\ ddr_read_q \o [j \in DOMAIN << >> |-> Len(tx) + j] = ddr_read_q
    BY <1>1
  <2> QED
    BY <1>2, <1>4, <2>1, Zenon
<1>5. ASSUME \E q \in Requests : accepted = << q >> PROVE \E u : NewRead(u)
  <2>1. PICK q \in Requests : accepted = << q >>
    BY <1>5, Zenon
  <2> DEFINE u == Transaction(q)
  <2>2. q.id \in Id /\ q.addr \in Addr /\ q.len \in config.lens
    BY Zenon DEF Requests
  <2>3. q.len \in Nat \ {0}
    BY <1>1, <2>2, ReadAssumption, Zenon DEF ReadAssumption
  <2>4. /\ u \in Trans /\ u.len = q.len /\ u.enqueued = 0 /\ u.retrieved = {} /\ u.progress = 0
    BY <2>2, <2>3 DEF Transaction, Trans
  <2>5. [j \in DOMAIN << q >> |-> Transaction(<< q >>[j])] = << u >>
    OBVIOUS
  <2>6. [j \in DOMAIN << q >> |-> Len(tx) + j] = << Len(tx) + 1 >>
    OBVIOUS
  <2> HIDE DEF u
  <2>7. Len(tx) + 1 \in Nat
    BY <1>1
  <2>8. tx \o << u >> = Append(tx, u)
    BY <1>1, <2>4
  <2>9. ddr_read_q \o << Len(tx) + 1 >> = Append(ddr_read_q, Len(tx) + 1)
    BY <1>1, <2>7
  <2>10. NewRead(u)
    BY <1>2, <2>1, <2>2, <2>4, <2>5, <2>6, <2>8, <2>9, Zenon DEF NewRead
  <2> QED
    BY <2>10, Zenon
<1>6. sent' \in Seq(Beat) /\ read_transactions' \in Seq(Beat) /\ All' = All
  <2>1. CASE taken
    <3>1. read_transactions # << >> /\ r = Head(read_transactions)
      BY <1>1, <2>1, Zenon DEF taken
    <3>2. /\ Append(sent, Head(read_transactions)) \in Seq(Beat) /\ Tail(read_transactions) \in Seq(Beat)
          /\ Append(sent, Head(read_transactions)) \o Tail(read_transactions) = sent \o read_transactions
      BY <1>1, <3>1, Moved, Zenon
    <3>3. sent' = Append(sent, Head(read_transactions)) /\ read_transactions' = Tail(read_transactions)
      BY <1>2, <2>1, <3>1, Zenon
    <3> QED
      BY <3>2, <3>3, Zenon DEF All
  <2>2. CASE ~taken
    BY <1>1, <1>2, <2>2, Zenon DEF All
  <2> QED
    BY <2>1, <2>2, Zenon
<1>7. r' = None \/ (read_transactions' # << >> /\ r' = Head(read_transactions'))
  BY <1>2, Zenon
<1> QED
  BY <1>2, <1>3, <1>4, <1>5, <1>6, <1>7, Zenon

\* A tick that takes no request keeps what is said of the reads.
LEMMA TickNoRead ==
  ASSUME IInv, tx' = tx, ddr_read_q' = ddr_read_q, config' = config,
         in_flight_reads' = in_flight_reads, sent' \in Seq(Beat),
         read_transactions' \in Seq(Beat), All' = All,
         r' = None \/ (read_transactions' # << >> /\ r' = Head(read_transactions'))
  PROVE  IInv'
<1>1. Types'
  BY Zenon DEF IInv, Types
<1>2. \A n : Bursts(n)' = Bursts(n)
  BY Zenon DEF Bursts, Mult, Burst
<1>3. \A j : Bursts(tx[j].len)' = Bursts(tx[j].len)
  BY Zenon DEF Bursts, Mult, Burst
<1>4. Lined'
  <2>1. \A j : In(ddr_read_q, j)' <=> In(ddr_read_q, j)
    BY Zenon DEF In
  <2> QED
    BY <1>3, <2>1, Zenon DEF IInv, Lined
<1>5. SameIdInOrder'
  BY <1>3, Zenon DEF IInv, SameIdInOrder
<1>6. Flying'
  BY ZenonT(40) DEF IInv, Flying, In, Unique, Out
<1>7. Loaded'
  BY Zenon DEF IInv, Loaded, BeatReady, Mult, Burst
<1>8. Streamed'
  <2>1. /\ Whole(All) /\ Rising(All)
        /\ \A i \in DOMAIN tx : \A k \in 0 .. tx[i].progress - 1 : Has(All, i, k)
    BY Zenon DEF IInv, Streamed
  <2>2. Whole(All)' /\ Rising(All)' /\ \A i, k : Has(All, i, k)' <=> Has(All, i, k)
    BY <2>1, Zenon DEF Whole, Rising, Has
  <2> QED
    BY <2>1, <2>2, Zenon DEF Streamed
<1> QED
  BY <1>1, <1>4, <1>5, <1>6, <1>7, <1>8, Zenon DEF IInv

TickRest ==
  /\ config' = config /\ in_flight_reads' = in_flight_reads
  /\ sent' \in Seq(Beat) /\ read_transactions' \in Seq(Beat) /\ All' = All
  /\ r' = None \/ (read_transactions' # << >> /\ r' = Head(read_transactions'))

\* A request adds a read with nothing done.
LEMMA TickNewRead ==
  ASSUME IInv, NEW u, NewRead(u), TickRest
  PROVE  IInv'
<1>1. PICK N : N = Len(tx) + 1
  BY Zenon
<1>2. tx \in Seq(Trans) /\ ddr_read_q \in Seq(Nat) /\ u \in Trans
  BY Zenon DEF IInv, Types, NewRead
<1>3. N \in Nat
  BY <1>1, <1>2
<1>4. /\ tx' \in Seq(Trans) /\ DOMAIN tx' = DOMAIN tx \cup {N} /\ tx'[N] = u
      /\ \A j \in DOMAIN tx : tx'[j] = tx[j] /\ j < N /\ ~(N < j) /\ j # N
      /\ ~(N < N)
  <2>1. /\ Append(tx, u) \in Seq(Trans) /\ DOMAIN Append(tx, u) = DOMAIN tx \cup {N}
        /\ Append(tx, u)[N] = u
        /\ \A j \in DOMAIN tx : Append(tx, u)[j] = tx[j] /\ j < N /\ ~(N < j) /\ j # N
        /\ ~(N < N)
    BY <1>1, <1>2, Appended
  <2> QED
    BY <2>1, Zenon DEF NewRead
<1>5. /\ u.len \in config.lens /\ u.enqueued = 0 /\ u.retrieved = {} /\ u.progress = 0
      /\ config' = config /\ in_flight_reads' = in_flight_reads
  BY Zenon DEF NewRead, TickRest
<1>6. /\ config \in Configs /\ Bursts(u.len) \in Nat /\ 0 < Bursts(u.len) /\ 0 <= Bursts(u.len)
      /\ 0 <= u.len
  <2>1. config \in Configs
    BY Zenon DEF IInv, Types
  <2>2. Bursts(u.len) \in Nat /\ 0 < Bursts(u.len)
    BY <1>5, <2>1, BurstFacts, Zenon
  <2>3. u.len \in Nat
    BY <1>2 DEF Trans
  <2> QED
    BY <2>1, <2>2, <2>3
<1>7. /\ \A j \in DOMAIN tx : Bursts(tx[j].len)' = Bursts(tx[j].len)
      /\ Bursts(tx[N].len)' = Bursts(u.len)
  BY <1>4, <1>5, Zenon DEF Bursts, Mult, Burst
<1>8. ddr_read_q' \in Seq(Nat) /\ Lined'
  <2> DEFINE q == ddr_read_q
             M == Len(q) + 1
             t == Append(q, N)
  <2>1. /\ t \in Seq(Nat) /\ DOMAIN t = DOMAIN q \cup {M} /\ t[M] = N
        /\ \A n \in DOMAIN q : t[n] = q[n] /\ n < M /\ ~(M < n) /\ n # M
        /\ ~(M < M)
    BY <1>2, <1>3, Appended
  <2>2. q' = t
    BY <1>1, Zenon DEF NewRead
  <2>3. /\ \A m, n \in DOMAIN q : m < n => q[m] < q[n]
        /\ \A j : In(q, j) <=> j \in DOMAIN tx /\ tx[j].enqueued < Bursts(tx[j].len)
        /\ \A j \in DOMAIN tx : tx[j].enqueued <= Bursts(tx[j].len)
    BY Zenon DEF IInv, Lined
  <2> HIDE DEF q, M, t
  <2>4. \A n \in DOMAIN q : q[n] < N
    BY <1>4, <2>3, Zenon DEF In
  <2>5. \A m, n \in DOMAIN t : m < n => t[m] < t[n]
    BY <2>1, <2>3, <2>4, Zenon
  <2>6. \A j : In(t, j) <=> In(q, j) \/ j = N
    BY <2>1, Zenon DEF In
  <2>7. \A j : In(t, j) <=> j \in DOMAIN tx' /\ tx'[j].enqueued < Bursts(tx[j].len)'
    BY <1>4, <1>5, <1>6, <1>7, <2>3, <2>6, ZenonT(40)
  <2>8. \A j \in DOMAIN tx' : tx'[j].enqueued <= Bursts(tx[j].len)'
    BY <1>4, <1>5, <1>6, <1>7, <2>3, Zenon
  <2> QED
    BY <2>1, <2>2, <2>5, <2>7, <2>8, Zenon DEF Lined, q
<1>9. Types'
  BY <1>2, <1>4, <1>5, <1>8, Zenon DEF IInv, Types, TickRest
<1>10. SameIdInOrder'
  <2> SUFFICES ASSUME NEW h \in DOMAIN tx', NEW j \in DOMAIN tx', h < j, tx'[h].id = tx'[j].id,
                      tx'[j].enqueued > 0
               PROVE  tx'[h].enqueued = Bursts(tx[h].len)'
    BY Zenon DEF SameIdInOrder
  <2>1. j # N
    BY <1>4, <1>5
  <2>2. h # N /\ h \in DOMAIN tx /\ j \in DOMAIN tx
    BY <1>4, <2>1, Zenon
  <2>3. tx[h].enqueued = Bursts(tx[h].len)
    BY <1>4, <2>2, Zenon DEF IInv, SameIdInOrder
  <2> QED
    BY <1>4, <1>7, <2>2, <2>3, Zenon
<1>11. Flying'
  <2>1. /\ \A a \in DimmAddr : Unique(in_flight_reads[a])
        /\ \A a \in DimmAddr : \A i :
             In(in_flight_reads[a], i) <=> i \in DOMAIN tx /\ Out(i, a - tx[i].addr)
        /\ \A i \in DOMAIN tx : tx[i].retrieved \subseteq 0 .. tx[i].enqueued - 1
    BY Zenon DEF IInv, Flying
  <2>2. \A k : ~ Out(N, k)'
    <3>1. tx'[N].enqueued = 0
      BY <1>4, <1>5, Zenon
    <3>2. 0 .. 0 - 1 = {}
      OBVIOUS
    <3> QED
      BY <3>1, <3>2, Zenon DEF Out
  <2>3. ASSUME NEW a \in DimmAddr, NEW i
        PROVE  In(in_flight_reads'[a], i) <=> i \in DOMAIN tx' /\ Out(i, a - tx[i].addr)'
    <3>1. CASE i \in DOMAIN tx
      BY <1>4, <1>5, <2>1, <3>1, Zenon DEF Out
    <3>2. CASE i \notin DOMAIN tx
      <4>1. ~ In(in_flight_reads'[a], i)
        BY <1>5, <2>1, <3>2, Zenon
      <4>2. i = N => ~ Out(i, a - tx[i].addr)'
        BY <2>2, Zenon DEF Out
      <4> QED
        BY <1>4, <3>2, <4>1, <4>2, Zenon
    <3> QED
      BY <3>1, <3>2, Zenon
  <2>4. \A i \in DOMAIN tx' : tx'[i].retrieved \subseteq 0 .. tx'[i].enqueued - 1
    BY <1>4, <1>5, <2>1, Zenon
  <2> QED
    BY <1>5, <2>1, <2>3, <2>4, Zenon DEF Flying
<1>12. \A k : k \notin 0 .. u.progress - 1
  <2>1. 0 .. 0 - 1 = {}
    OBVIOUS
  <2> QED
    BY <1>5, <2>1, Zenon
<1>13. Loaded'
  <2> SUFFICES ASSUME NEW i \in DOMAIN tx'
               PROVE  /\ tx'[i].progress <= tx'[i].len
                      /\ \A n \in 0 .. tx'[i].progress - 1 : BeatReady(tx[i], n)'
    BY Zenon DEF Loaded
  <2>1. CASE i = N
    BY <1>4, <1>5, <1>6, <1>12, <2>1, Zenon
  <2>2. CASE i \in DOMAIN tx
    BY <1>4, <1>5, <2>2, Zenon DEF IInv, Loaded, BeatReady, Mult, Burst
  <2> QED
    BY <1>4, <2>1, <2>2, Zenon
<1>14. Streamed'
  <2>1. /\ Whole(All) /\ Rising(All)
        /\ \A i \in DOMAIN tx : \A k \in 0 .. tx[i].progress - 1 : Has(All, i, k)
    BY Zenon DEF IInv, Streamed
  <2>2. All' = All /\ (r' = None \/ (read_transactions' # << >> /\ r' = Head(read_transactions')))
    BY Zenon DEF TickRest
  <2>3. Whole(All)'
    BY <1>4, <2>1, <2>2, Zenon DEF Whole
  <2>4. Rising(All)' /\ \A i, k : Has(All, i, k)' <=> Has(All, i, k)
    BY <2>1, <2>2, Zenon DEF Rising, Has
  <2>5. \A i \in DOMAIN tx' : \A k \in 0 .. tx'[i].progress - 1 : Has(All, i, k)'
    BY <1>4, <1>12, <2>1, <2>4, Zenon
  <2> QED
    BY <2>2, <2>3, <2>4, <2>5, Zenon DEF Streamed
<1> QED
  BY <1>8, <1>9, <1>10, <1>11, <1>13, <1>14, Zenon DEF IInv

LEMMA InvTick ==
  ASSUME IInv, NEW take \in BOOLEAN, NEW new \in {<< >>} \cup {<< q >> : q \in Requests},
         Tick(take, new)
  PROVE  IInv'
<1>1. TickRest
  BY TickFacts, Zenon DEF TickRest
<1>2. CASE tx' = tx /\ ddr_read_q' = ddr_read_q
  BY <1>1, <1>2, TickNoRead, Zenon DEF TickRest
<1>3. CASE \E u : NewRead(u)
  BY <1>1, <1>3, TickNewRead, Zenon
<1> QED
  BY <1>2, <1>3, TickFacts, Zenon

-----------------------------------------------------------------------------
(* The invariant *)

LEMMA InvInit ==
  ASSUME Init
  PROVE  IInv
<1>1. /\ config \in Configs /\ tx = << >> /\ ddr_read_q = << >> /\ read_transactions = << >>
      /\ in_flight_reads = [a \in DimmAddr |-> << >>] /\ r = None /\ sent = << >>
  BY Zenon DEF Init
<1>2. DOMAIN << >> = {} /\ (\A S : << >> \in Seq(S)) /\ << >> \o << >> = << >>
  OBVIOUS
<1>3. in_flight_reads \in [DimmAddr -> Seq(Nat)] /\ \A a \in DimmAddr : in_flight_reads[a] = << >>
  BY <1>1, <1>2, Zenon
<1>4. All = << >>
  BY <1>1, <1>2, Zenon DEF All
<1>5. Types /\ Lined
  BY <1>1, <1>2, <1>3, Zenon DEF Types, Lined, In
<1>6. Flying
  BY <1>1, <1>2, <1>3, Zenon DEF Flying, In, Unique
<1>7. SameIdInOrder /\ Loaded
  BY <1>1, <1>2, Zenon DEF SameIdInOrder, Loaded
<1>8. Streamed
  BY <1>1, <1>2, <1>4, Zenon DEF Streamed, Whole, Rising
<1> QED
  BY <1>5, <1>6, <1>7, <1>8, Zenon DEF IInv

LEMMA InvStep ==
  ASSUME Least, Runs, IInv, [Next]_vars
  PROVE  IInv'
<1>1. CASE Dram
  BY <1>1, InvCallback, Zenon DEF Dram
<1>2. CASE Enqueue
  BY <1>2, InvEnqueue, Zenon DEF Enqueue
<1>3. CASE Ticks
  BY <1>3, InvTick, Zenon DEF Ticks
<1>4. CASE UNCHANGED vars
  <2>1. /\ tx' = tx /\ ddr_read_q' = ddr_read_q /\ config' = config
        /\ in_flight_reads' = in_flight_reads /\ sent' = sent
        /\ read_transactions' = read_transactions /\ r' = r
    BY <1>4, Zenon DEF vars
  <2>2. /\ sent' \in Seq(Beat) /\ read_transactions' \in Seq(Beat) /\ All' = All
        /\ r' = None \/ (read_transactions' # << >> /\ r' = Head(read_transactions'))
    BY <2>1, Zenon DEF IInv, Types, Streamed, All
  <2> QED
    BY <2>1, <2>2, TickNoRead, Zenon
<1> QED
  BY <1>1, <1>2, <1>3, <1>4, Zenon DEF Next

-----------------------------------------------------------------------------
\* The library comes in here only, since what is in scope slows every proof.
LOCAL F == INSTANCE FiniteSetTheorems

LEMMA NaturalsHaveLeast == Least
<1> SUFFICES ASSUME NEW S \in SUBSET Nat, S # {}
             PROVE  \E x \in S : \A y \in S : x <= y
  BY Zenon DEF Least
<1> DEFINE R == {p \in Nat \X Nat : p[1] < p[2]}
<1>1. F!IsWellFoundedOn(R, Nat)
  BY F!NatLessThanWellFounded, Zenon DEF F!OpToRel
<1>2. \A x, y \in Nat : << y, x >> \in R <=> y < x
  BY Zenon
<1> HIDE DEF R
<1>3. PICK x \in S : \A y \in S : ~(<< y, x >> \in R)
  BY <1>1, F!WFMin, Zenon
<1>4. \A y \in S : ~(y < x)
  BY <1>2, <1>3, Zenon
<1>5. \A y \in S : x <= y
  BY <1>4
<1> QED
  BY <1>5

LEMMA Library ==
  /\ \A S : F!IsFiniteSet(S) = IsFiniteSet(S)
  /\ \A S : F!Cardinality(S) = Cardinality(S)
BY Zenon DEF F!IsFiniteSet, IsFiniteSet, F!Cardinality, Cardinality

LEMMA NumbersRun == Runs
<1> SUFFICES ASSUME NEW p \in Nat, NEW l \in Nat, p <= l, NEW R \in SUBSET (p .. l - 1),
                    \A n \in R : p .. n \subseteq R
             PROVE  /\ Cardinality(R) \in Nat /\ p + Cardinality(R) <= l
                    /\ R = p .. p + Cardinality(R) - 1
  BY Zenon DEF Runs
<1> DEFINE c == Cardinality(R)
<1>1. \A a, b \in Int : IsFiniteSet(a .. b) /\ Cardinality(a .. b) = IF a > b THEN 0 ELSE b - a + 1
  BY Library, F!FS_Interval, Zenon
<1>2. \A S, T : IsFiniteSet(S) /\ T \in SUBSET S =>
        /\ IsFiniteSet(T) /\ Cardinality(T) <= Cardinality(S)
        /\ Cardinality(S) = Cardinality(T) => S = T
  <2> SUFFICES ASSUME NEW S, NEW T \in SUBSET S, IsFiniteSet(S)
               PROVE  /\ IsFiniteSet(T) /\ Cardinality(T) <= Cardinality(S)
                      /\ Cardinality(S) = Cardinality(T) => S = T
    BY Zenon
  <2>1. F!IsFiniteSet(S)
    BY Library, Zenon
  <2>2. F!IsFiniteSet(T) /\ F!Cardinality(T) <= F!Cardinality(S) /\ (F!Cardinality(S) = F!Cardinality(T) => S = T)
    BY <2>1, F!FS_Subset, Zenon
  <2> QED
    BY <2>2, Library, Zenon
<1>3. \A S : IsFiniteSet(S) => Cardinality(S) \in Nat
  BY Library, F!FS_CardinalityType, Zenon
<1>4. l - 1 \in Int /\ p \in Int
  OBVIOUS
<1>5. IsFiniteSet(R) /\ c <= Cardinality(p .. l - 1)
  <2>1. IsFiniteSet(p .. l - 1)
    BY <1>1, <1>4, Zenon
  <2> QED
    BY <1>2, <2>1, Zenon
<1>6. c \in Nat
  BY <1>3, <1>5, Zenon
<1>7. p + c <= l
  <2>1. Cardinality(p .. l - 1) = IF p > l - 1 THEN 0 ELSE (l - 1) - p + 1
    BY <1>1, <1>4, Zenon
  <2> HIDE DEF c
  <2> QED
    BY <1>5, <1>6, <2>1
<1>8. R \subseteq p .. p + c - 1
  <2> SUFFICES ASSUME NEW n \in R PROVE n \in p .. p + c - 1
    BY Zenon
  <2>1. n \in p .. l - 1
    BY Zenon
  <2>2. n \in Int /\ p <= n
    BY <2>1
  <2>3. Cardinality(p .. n) <= c
    BY <1>2, <1>5, Zenon
  <2>4. Cardinality(p .. n) = IF p > n THEN 0 ELSE n - p + 1
    BY <1>1, <1>4, <2>2, Zenon
  <2> HIDE DEF c
  <2> QED
    BY <1>6, <2>2, <2>3, <2>4
<1>9. Cardinality(p .. p + c - 1) = c /\ IsFiniteSet(p .. p + c - 1)
  <2> HIDE DEF c
  <2>1. p + c - 1 \in Int
    BY <1>6
  <2>2. /\ IsFiniteSet(p .. p + c - 1)
        /\ Cardinality(p .. p + c - 1) = IF p > p + c - 1 THEN 0 ELSE (p + c - 1) - p + 1
    BY <1>1, <1>4, <2>1, Zenon
  <2> QED
    BY <1>6, <2>2
<1> QED
  BY <1>2, <1>6, <1>7, <1>8, <1>9, Zenon

\* The queue, the bursts with the DRAM and the beats to return agree, in every
\* reachable state, with what the reads have been given and have got back.
THEOREM ReadInvariant == Spec => []IInv
<1>1. Init => IInv
  BY InvInit, Zenon
<1>2. IInv /\ [Next]_vars => IInv'
  BY InvStep, NaturalsHaveLeast, NumbersRun, Zenon
<1> QED
  BY <1>1, <1>2, PTL DEF Spec

\* try_to_enqueue_ddr gives a burst of a read to the DRAM only when all the
\* bursts of the older reads of its AXI id have been given.
THEOREM IdsStayInOrder == Spec => []SameIdInOrder
<1>1. IInv => SameIdInOrder
  BY Zenon DEF IInv
<1> QED
  BY <1>1, ReadInvariant, PTL

LEMMA OccursOnce ==
  ASSUME NEW s, Unique(s), NEW x
  PROVE  Cardinality({n \in DOMAIN s : s[n] = x}) = IF In(s, x) THEN 1 ELSE 0
<1>1. CASE ~ In(s, x)
  <2>1. {n \in DOMAIN s : s[n] = x} = {}
    BY <1>1 DEF In
  <2>2. Cardinality({}) = 0
    BY Library, F!FS_EmptySet, Zenon
  <2> QED
    BY <1>1, <2>1, <2>2, Zenon
<1>2. CASE In(s, x)
  <2>1. PICK m \in DOMAIN s : s[m] = x
    BY <1>2 DEF In
  <2>2. {n \in DOMAIN s : s[n] = x} = {m}
    BY <2>1 DEF Unique
  <2>3. Cardinality({m}) = 1
    BY Library, F!FS_Singleton, Zenon
  <2> QED
    BY <1>2, <2>2, <2>3, Zenon
<1> QED
  BY <1>1, <1>2, Zenon

\* in_flight_reads has a read once at the address of each burst of it that is
\* with the DRAM, and nowhere else, also when reads share addresses: a callback
\* finds its read.
THEOREM BurstsAreExact == Spec => []BurstsExact
<1>1. ASSUME IInv PROVE BurstsExact
  <2> SUFFICES ASSUME NEW i \in DOMAIN tx, NEW k \in 0 .. Bursts(tx[i].len) - 1
               PROVE  Cardinality({n \in DOMAIN in_flight_reads[tx[i].addr + k] :
                                     in_flight_reads[tx[i].addr + k][n] = i}) =
                        IF k < tx[i].enqueued /\ k \notin tx[i].retrieved THEN 1 ELSE 0
    BY Zenon DEF BurstsExact
  <2> DEFINE a == tx[i].addr + k
  <2>1. /\ tx[i].addr \in Nat /\ tx[i].enqueued \in Nat /\ Bursts(tx[i].len) \in Nat
        /\ a \in DimmAddr
    BY <1>1, TransFacts, Zenon
  <2>2. a - tx[i].addr = k /\ (k \in 0 .. tx[i].enqueued - 1 <=> k < tx[i].enqueued)
    BY <2>1
  <2> HIDE DEF a
  <2>3. Unique(in_flight_reads[a]) /\ (In(in_flight_reads[a], i) <=> Out(i, a - tx[i].addr))
    BY <1>1, <2>1, Zenon DEF IInv, Flying
  <2>4. In(in_flight_reads[a], i) <=> k < tx[i].enqueued /\ k \notin tx[i].retrieved
    BY <2>2, <2>3, Zenon DEF Out
  <2>5. Cardinality({n \in DOMAIN in_flight_reads[a] : in_flight_reads[a][n] = i}) =
          IF In(in_flight_reads[a], i) THEN 1 ELSE 0
    BY <2>3, OccursOnce, Zenon
  <2> QED
    BY <2>4, <2>5, Zenon DEF a
<1> QED
  BY <1>1, ReadInvariant, PTL

\* However the DRAM orders its bursts, the accelerator takes the beats of a
\* read in order, none twice and none left out, each with its data there, and
\* with last on the last of them and on no other.
THEOREM BeatsComeInOrder == Spec => []BeatsInOrder
<1>1. ASSUME IInv PROVE BeatsInOrder
  <2>1. /\ sent \in Seq(Beat) /\ read_transactions \in Seq(Beat) /\ Whole(All) /\ Rising(All)
        /\ \A i \in DOMAIN tx : \A k \in 0 .. tx[i].progress - 1 : Has(All, i, k)
    BY <1>1, Zenon DEF IInv, Types, Streamed
  <2>2. /\ All \in Seq(Beat) /\ \A n \in DOMAIN sent : n \in DOMAIN All /\ All[n] = sent[n]
    BY <2>1, Joined, JoinFacts, ZenonT(40) DEF All
  <2>3. /\ DOMAIN sent = 1 .. Len(sent) /\ Len(sent) \in Nat
        /\ DOMAIN All = 1 .. Len(All) /\ Len(All) \in Nat
    BY <2>1, <2>2, SeqFacts, Zenon
  <2>4. ASSUME NEW n \in DOMAIN sent, NEW m \in 1 .. n - 1
        PROVE  m \in DOMAIN sent /\ m < n
    BY <2>3
  <2> SUFFICES ASSUME NEW n \in DOMAIN sent
               PROVE  /\ sent[n].tx \in DOMAIN tx
                      /\ sent[n].beat < tx[sent[n].tx].len /\ BeatReady(tx[sent[n].tx], sent[n].beat)
                      /\ sent[n].last <=> sent[n].beat = tx[sent[n].tx].len - 1
                      /\ \A m \in 1 .. n - 1 : sent[m].tx = sent[n].tx => sent[m].beat < sent[n].beat
                      /\ \A k \in 0 .. sent[n].beat - 1 :
                           \E m \in 1 .. n - 1 : sent[m].tx = sent[n].tx /\ sent[m].beat = k
    BY Zenon DEF BeatsInOrder
  <2> DEFINE i == sent[n].tx
             b == sent[n].beat
  <2>5. /\ i \in DOMAIN tx /\ b < tx[i].progress /\ (sent[n].last <=> b = tx[i].len - 1)
    BY <2>1, <2>2, Zenon DEF Whole
  <2>6. b \in Nat
    <3>1. sent[n] \in Beat
      BY <2>1, SeqFacts, Zenon
    <3> QED
      BY <3>1 DEF Beat
  <2>7. /\ tx[i].progress \in Nat /\ tx[i].len \in Nat /\ tx[i].progress <= tx[i].len
        /\ \A k \in 0 .. tx[i].progress - 1 : BeatReady(tx[i], k)
    BY <1>1, <2>5, TransFacts, Zenon DEF IInv, Loaded
  <2> HIDE DEF i, b
  <2>8. b < tx[i].len /\ b \in 0 .. tx[i].progress - 1
    BY <2>5, <2>6, <2>7
  <2>9. \A m \in 1 .. n - 1 : sent[m].tx = i => sent[m].beat < b
    BY <2>1, <2>2, <2>4, Zenon DEF Rising, i, b
  <2>10. ASSUME NEW k \in 0 .. b - 1 PROVE \E m \in 1 .. n - 1 : sent[m].tx = i /\ sent[m].beat = k
    <3>1. k \in 0 .. tx[i].progress - 1 /\ k < b /\ ~(b < k) /\ k # b
      BY <2>5, <2>6, <2>7, <2>10
    <3>2. PICK m \in DOMAIN All : All[m].tx = i /\ All[m].beat = k
      <4>1. Has(All, i, k)
        BY <2>1, <2>5, <3>1, Zenon
      <4> QED
        BY <4>1, Zenon DEF Has
    <3>3. ~(n < m) /\ m # n
      BY <2>1, <2>2, <3>1, <3>2, Zenon DEF Rising, i, b
    <3>4. m \in 1 .. n - 1
      BY <2>3, <3>3
    <3>5. sent[m] = All[m]
      BY <2>2, <2>4, <3>4, Zenon
    <3> QED
      BY <3>2, <3>4, <3>5, Zenon
  <2> QED
    BY <2>5, <2>7, <2>8, <2>9, <2>10, Zenon DEF i, b
<1> QED
  BY <1>1, ReadInvariant, PTL

=============================================================================
