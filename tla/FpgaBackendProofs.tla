------------------------- MODULE FpgaBackendProofs -------------------------
(***************************************************************************)
(* Proofs about FpgaBackend.tla, for any number of cores, commands, words  *)
(* of a command and words of a response: the poller never takes a response *)
(* whose command is not noted, it is woken once for each, and a command    *)
(* gets its own response.                                                  *)
(***************************************************************************)
EXTENDS FpgaBackend, TLAPS

Cmd == [id : Nat \ {0}, core : Cores, xd : BOOLEAN]
Keys == {Key(c) : c \in Cores}

Types ==
  /\ server \in {"stalled", "received", "locked", "sending", "sent"}
  /\ count \in Nat /\ cmd \in Cmd \cup {NoCmd} /\ cmd.id = count
  /\ server # "stalled" => cmd \in Cmd
  /\ sent \in Nat /\ (server = "sending" => sent < CmdWords)
  /\ cmdserverlock = IF server \in {"locked", "sending", "sent"} THEN "server" ELSE "none"
  /\ bus_lock = IF server = "sending" THEN "server" ELSE "none"
  /\ rx \in Seq(Cmd) /\ tx \in Seq(Cmd) /\ buf \in Seq(Cmd)
  /\ busy \in [Cores -> Cmd \cup {NoCmd}]
  /\ \A c \in Cores : busy[c] # NoCmd => busy[c].core = c
  /\ poller \in {"sem_wait", "peek", "read", "register"}
  /\ poller \in {"peek", "read"} => Len(buf) < RespWords
  /\ poller = "register" => Len(buf) = RespWords
  /\ poller = "read" => tx # << >>
  /\ in_flight \in [Keys -> Seq(Cmd)]
  /\ processes_waiting \in Nat /\ mixed \in BOOLEAN

\* The words of the commands before the cores, those the server has still to
\* send included, and of the responses behind them, those read included.
issued ==
  rx \o (IF server = "sending" THEN [i \in 1 .. CmdWords - sent |-> cmd] ELSE << >>)
returned == (IF poller = "sem_wait" THEN << >> ELSE buf) \o tx

\* s is made of blocks of n equal words, and no two blocks are equal.
Pipe(s, n) ==
  /\ \A i, j, k \in DOMAIN s : i <= j /\ j <= k /\ s[i] = s[k] => s[j] = s[i]
  /\ \A i \in DOMAIN s : i + n \in DOMAIN s => s[i] # s[i + n]
  /\ \A i \in DOMAIN s : i = 1 \/ s[i - 1] # s[i] => i + n - 1 \in DOMAIN s /\ s[i + n - 1] = s[i]

Waiting == {issued[i] : i \in DOMAIN issued}
Running == {busy[c] : c \in {d \in Cores : busy[d] # NoCmd}}
Answers == {returned[i] : i \in DOMAIN returned}
Held == Waiting \cup Running \cup Answers

\* Commands keep their order from the server to the core, and the responses of
\* a core keep theirs to the poller.
Ordered ==
  /\ Pipe(issued, CmdWords) /\ Pipe(returned, RespWords)
  /\ \A i, j \in DOMAIN issued : i <= j => issued[i].id <= issued[j].id
  /\ \A i, j \in DOMAIN returned : i <= j /\ returned[i].core = returned[j].core =>
       returned[i].id <= returned[j].id
  /\ \A x \in Waiting, y \in Running \cup Answers : x.core = y.core => y.id < x.id
  /\ \A x \in Running, y \in Answers : x.core = y.core => y.id < x.id
  /\ \A x \in Answers : x.xd

Sending == server \in {"sending", "sent"} /\ cmd.xd

Known ==
  /\ IsFiniteSet(Held)
  /\ \A x, y \in Held : x.id = y.id => x = y
  /\ \A x \in Held : x.id <= count /\ (x.id = count => x = cmd /\ server \notin {"received", "locked"})
  /\ Sending => cmd \in Held

\* Each queue has the commands of its key in the order they were sent.
Queues ==
  \A k \in Keys :
    /\ \A i, j \in DOMAIN in_flight[k] : i < j => in_flight[k][i].id < in_flight[k][j].id
    /\ \A i \in DOMAIN in_flight[k] :
         /\ in_flight[k][i].xd /\ Key(in_flight[k][i].core) = k /\ in_flight[k][i].id <= count
         /\ server # "stalled" => in_flight[k][i].id < count

Noted == UNION {InFlight(c) : c \in Cores}
Wanted(k) == {x \in Held : x.xd /\ Key(x.core) = k}

\* A queue has an id for each response that will come with its key ...
Counted ==
  \A k \in Keys : Cardinality(Wanted(k)) =
    Len(in_flight[k]) + (IF Sending /\ Key(cmd.core) = k THEN 1 ELSE 0)

\* ... and these are the ids of the commands themselves, until two cores of
\* one key have been mixed.
Matched ==
  ~ mixed =>
    /\ \A k \in Keys : \A i \in DOMAIN in_flight[k] : in_flight[k][i] \in Held
    /\ \A k \in Keys : \A i, j \in DOMAIN in_flight[k] : in_flight[k][i].core = in_flight[k][j].core
    /\ \A x \in Held : x.xd =>
         \/ Sending /\ x = cmd
         \/ \E i \in DOMAIN in_flight[Key(x.core)] : in_flight[Key(x.core)][i] = x

\* The semaphore and the poller account for the ids noted and the command
\* about to be.
Woken ==
  /\ IsFiniteSet(Noted)
  /\ processes_waiting + (IF poller = "sem_wait" THEN 0 ELSE 1) =
       Cardinality(Noted) + (IF cmd.xd /\ server \in {"locked", "sending", "sent"} THEN 1 ELSE 0)

Hardware == Types /\ Ordered /\ Known /\ Queues /\ Counted /\ Matched
IInv == Hardware /\ Woken /\ NoBadResponse /\ OwnAnswer

-----------------------------------------------------------------------------
(* Blocks of words *)

LEMMA SeqEqual ==
  ASSUME NEW S, NEW s \in Seq(S), NEW t \in Seq(S), Len(s) = Len(t), \A i \in 1 .. Len(s) : s[i] = t[i]
  PROVE  s = t
OBVIOUS

LEMMA ConcatEmptySeq ==
  ASSUME NEW S, NEW s \in Seq(S)
  PROVE  s \o << >> = s /\ << >> \o s = s
OBVIOUS

LEMMA ConcatAssociative ==
  ASSUME NEW S, NEW s \in Seq(S), NEW t \in Seq(S), NEW u \in Seq(S)
  PROVE  (s \o t) \o u = s \o (t \o u)
OBVIOUS

\* A block of a new command behind the others.
LEMMA PipeAppend ==
  ASSUME NEW S, NEW s \in Seq(S), NEW n \in Nat \ {0}, NEW x, Pipe(s, n), \A i \in DOMAIN s : s[i] # x,
         NEW t \in Seq(S), Len(t) = Len(s) + n,
         \A i \in 1 .. Len(s) : t[i] = s[i], \A i \in Len(s) + 1 .. Len(s) + n : t[i] = x
  PROVE  Pipe(t, n)
<1>1. Len(s) \in Nat /\ DOMAIN t = 1 .. Len(s) + n
  OBVIOUS
<1>2. /\ \A i \in 1 .. Len(s) : t[i] = s[i] /\ s[i] # x
      /\ \A i \in Len(s) + 1 .. Len(s) + n : t[i] = x
  OBVIOUS
<1>3. \A i, j, k \in DOMAIN t : i <= j /\ j <= k /\ t[i] = t[k] => t[j] = t[i]
  <2> TAKE i, j, k \in DOMAIN t
  <2> HAVE i <= j /\ j <= k /\ t[i] = t[k]
  <2>1. CASE k \in 1 .. Len(s)
    <3>1. i \in 1 .. Len(s) /\ j \in 1 .. Len(s)  BY <1>1, <2>1
    <3> QED  BY <1>2, <2>1, <3>1, SMTT(20) DEF Pipe
  <2>2. CASE k \in Len(s) + 1 .. Len(s) + n
    <3>1. t[i] = x  BY <1>2, <2>2, Zenon
    <3>2. i \in Len(s) + 1 .. Len(s) + n  BY <1>1, <1>2, <3>1, SMTT(20)
    <3>3. j \in Len(s) + 1 .. Len(s) + n  BY <1>1, <3>2
    <3> QED  BY <1>2, <3>1, <3>3, Zenon
  <2> QED  BY <1>1, <2>1, <2>2
<1>4. \A i \in DOMAIN t : i + n \in DOMAIN t => t[i] # t[i + n]
  <2> TAKE i \in DOMAIN t
  <2> HAVE i + n \in DOMAIN t
  <2>1. i \in 1 .. Len(s)  BY <1>1
  <2>2. CASE i + n \in 1 .. Len(s)  BY <1>2, <2>1, <2>2 DEF Pipe
  <2>3. CASE i + n \in Len(s) + 1 .. Len(s) + n  BY <1>2, <2>1, <2>3, Zenon
  <2> QED  BY <1>1, <2>1, <2>2, <2>3
<1>5. \A i \in DOMAIN t : i = 1 \/ t[i - 1] # t[i] => i + n - 1 \in DOMAIN t /\ t[i + n - 1] = t[i]
  <2> TAKE i \in DOMAIN t
  <2> HAVE i = 1 \/ t[i - 1] # t[i]
  <2>1. CASE i \in 1 .. Len(s)
    <3>1. i = 1 \/ s[i - 1] # s[i]  BY <1>1, <1>2, <2>1, SMTT(20)
    <3>2. i + n - 1 \in 1 .. Len(s) /\ s[i + n - 1] = s[i]  BY <2>1, <3>1 DEF Pipe
    <3> QED  BY <1>1, <1>2, <2>1, <3>2
  <2>2. CASE i = Len(s) + 1  BY <1>1, <1>2, <2>2
  <2>3. CASE i \in Len(s) + 2 .. Len(s) + n
    <3>1. i - 1 \in Len(s) + 1 .. Len(s) + n /\ i \in Len(s) + 1 .. Len(s) + n /\ i # 1  BY <1>1, <2>3
    <3> QED  BY <1>2, <3>1, Zenon
  <2> QED  BY <1>1, <2>1, <2>2, <2>3
<1> QED  BY <1>3, <1>4, <1>5, Zenon DEF Pipe

LEMMA Dropped ==
  ASSUME NEW S, NEW s \in Seq(S), NEW n \in 1 .. Len(s)
  PROVE  /\ SubSeq(s, n + 1, Len(s)) \in Seq(S)
         /\ Len(SubSeq(s, n + 1, Len(s))) = Len(s) - n
         /\ \A i \in 1 .. Len(s) - n : SubSeq(s, n + 1, Len(s))[i] = s[i + n]
OBVIOUS

LEMMA FirstBlock ==
  ASSUME NEW S, NEW s \in Seq(S), NEW n \in Nat \ {0}, Pipe(s, n), s # << >>
  PROVE  n \in 1 .. Len(s) /\ \A i \in 1 .. n : s[i] = s[1]
<1>1. Len(s) \in Nat /\ DOMAIN s = 1 .. Len(s) /\ 1 \in DOMAIN s
  OBVIOUS
<1>2. 1 + n - 1 \in DOMAIN s /\ s[1 + n - 1] = s[1]  BY <1>1, Zenon DEF Pipe
<1>3. n \in DOMAIN s /\ s[n] = s[1]  BY <1>2
<1>4. \A i \in 1 .. n : s[i] = s[1]
  <2> TAKE i \in 1 .. n
  <2>1. i \in DOMAIN s /\ 1 <= i /\ i <= n  BY <1>1, <1>3
  <2> QED  BY <1>1, <1>3, <2>1, Zenon DEF Pipe
<1> QED  BY <1>1, <1>3, <1>4, Zenon

\* The first block is taken.
LEMMA PipeDrop ==
  ASSUME NEW S, NEW s \in Seq(S), NEW n \in Nat \ {0}, Pipe(s, n), s # << >>,
         NEW t \in Seq(S), Len(t) = Len(s) - n, \A i \in 1 .. Len(t) : t[i] = s[i + n]
  PROVE  /\ Pipe(t, n)
         /\ \A i \in 1 .. Len(t) : i + n \in DOMAIN s /\ t[i] # s[1]
<1>1. Len(s) \in Nat /\ DOMAIN s = 1 .. Len(s) /\ 1 \in DOMAIN s
  OBVIOUS
<1>2. n \in 1 .. Len(s) /\ n \in DOMAIN s /\ s[n] = s[1]  BY <1>1, FirstBlock
<1>3. Len(t) \in Nat /\ DOMAIN t = 1 .. Len(t)
  OBVIOUS
<1>6. \A i \in 1 .. Len(t) : i + n \in DOMAIN s  BY <1>1, <1>2, <1>3
<1>7. \A i \in 1 .. Len(t) : s[i + n] # s[1]
  <2> TAKE i \in 1 .. Len(t)
  <2> SUFFICES ASSUME s[i + n] = s[1]  PROVE FALSE
    BY Zenon
  <2>1. 1 + n \in DOMAIN s /\ 1 <= 1 + n /\ 1 + n <= i + n  BY <1>1, <1>2, <1>3
  <2>2. s[1 + n] = s[1]  BY <1>1, <1>6, <2>1, Zenon DEF Pipe
  <2> QED  BY <1>1, <2>1, <2>2, Zenon DEF Pipe
<1>8. \A i, j, k \in DOMAIN t : i <= j /\ j <= k /\ t[i] = t[k] => t[j] = t[i]
  <2> TAKE i, j, k \in DOMAIN t
  <2> HAVE i <= j /\ j <= k /\ t[i] = t[k]
  <2>1. i + n <= j + n /\ j + n <= k + n  BY <1>3
  <2>2. \A p, q, r \in DOMAIN s : p <= q /\ q <= r /\ s[p] = s[r] => s[q] = s[p]  BY Zenon DEF Pipe
  <2>3. /\ i + n \in DOMAIN s /\ j + n \in DOMAIN s /\ k + n \in DOMAIN s
        /\ t[i] = s[i + n] /\ t[j] = s[j + n] /\ t[k] = s[k + n]
    BY <1>3, <1>6, Zenon
  <2> QED  BY <2>1, <2>2, <2>3, Zenon
<1>9. \A i \in DOMAIN t : i + n \in DOMAIN t => t[i] # t[i + n]
  BY <1>3, <1>6, Zenon DEF Pipe
<1>10. \A i \in DOMAIN t : i = 1 \/ t[i - 1] # t[i] => i + n - 1 \in DOMAIN t /\ t[i + n - 1] = t[i]
  <2> TAKE i \in DOMAIN t
  <2> HAVE i = 1 \/ t[i - 1] # t[i]
  <2>1. i + n \in DOMAIN s /\ s[i + n - 1] # s[i + n]
    <3>1. CASE i = 1  BY <1>2, <1>3, <1>6, <1>7, <3>1
    <3>2. CASE i # 1
      <4>1. i - 1 \in 1 .. Len(t) /\ i - 1 + n = i + n - 1  BY <1>3, <3>2
      <4> QED  BY <1>3, <1>6, <3>2, <4>1, Zenon
    <3> QED  BY <3>1, <3>2, Zenon
  <2>2. i + n + n - 1 \in DOMAIN s /\ s[i + n + n - 1] = s[i + n]
    <3>1. \A m \in DOMAIN s : m = 1 \/ s[m - 1] # s[m] => m + n - 1 \in DOMAIN s /\ s[m + n - 1] = s[m]
      BY Zenon DEF Pipe
    <3> QED  BY <2>1, <3>1, SMTT(20)
  <2>3. i + n - 1 \in 1 .. Len(t) /\ i + n - 1 + n = i + n + n - 1  BY <1>1, <1>3, <2>2, SMTT(20)
  <2> QED  BY <1>3, <2>2, <2>3, Zenon
<1> QED  BY <1>3, <1>6, <1>7, <1>8, <1>9, <1>10 DEF Pipe

-----------------------------------------------------------------------------
(* What a step does to the words on their way *)

LEMMA Repeated ==
  ASSUME NEW r \in Seq(Cmd), NEW x \in Cmd, NEW n \in Nat
  PROVE  /\ r \o [i \in 1 .. n |-> x] \in Seq(Cmd)
         /\ Len(r \o [i \in 1 .. n |-> x]) = Len(r) + n
         /\ \A i \in 1 .. Len(r) : (r \o [j \in 1 .. n |-> x])[i] = r[i]
         /\ \A i \in Len(r) + 1 .. Len(r) + n : (r \o [j \in 1 .. n |-> x])[i] = x
OBVIOUS

LEMMA Joined ==
  ASSUME NEW r \in Seq(Cmd), NEW t \in Seq(Cmd)
  PROVE  /\ r \o t \in Seq(Cmd) /\ Len(r \o t) = Len(r) + Len(t)
         /\ \A i \in 1 .. Len(r) : (r \o t)[i] = r[i]
         /\ \A i \in 1 .. Len(t) : (r \o t)[Len(r) + i] = t[i]
OBVIOUS

LEMMA IssuedWords ==
  ASSUME Types
  PROVE  /\ issued \in Seq(Cmd) /\ Len(rx) \in Nat
         /\ server = "sending" => /\ Len(issued) = Len(rx) + (CmdWords - sent)
                                  /\ \A i \in Len(rx) + 1 .. Len(issued) : issued[i] = cmd
         /\ server # "sending" => issued = rx
         /\ \A i \in 1 .. Len(rx) : issued[i] = rx[i]
<1>1. CASE server = "sending"
  <2>1. CmdWords - sent \in Nat /\ cmd \in Cmd /\ rx \in Seq(Cmd)
    BY <1>1, FpgaAssumption DEF Types, FpgaAssumption
  <2> PICK n \in Nat : n = CmdWords - sent  BY <2>1, Zenon
  <2>2. issued = rx \o [i \in 1 .. n |-> cmd]  BY <1>1, Zenon DEF issued
  <2>3. /\ issued \in Seq(Cmd) /\ Len(issued) = Len(rx) + n
        /\ \A i \in 1 .. Len(rx) : issued[i] = rx[i]
        /\ \A i \in Len(rx) + 1 .. Len(rx) + n : issued[i] = cmd
    <3>1. /\ rx \o [i \in 1 .. n |-> cmd] \in Seq(Cmd)
          /\ Len(rx \o [i \in 1 .. n |-> cmd]) = Len(rx) + n
          /\ \A i \in 1 .. Len(rx) : (rx \o [j \in 1 .. n |-> cmd])[i] = rx[i]
          /\ \A i \in Len(rx) + 1 .. Len(rx) + n : (rx \o [j \in 1 .. n |-> cmd])[i] = cmd
      BY <2>1, Repeated, ZenonT(40)
    <3> QED  BY <2>2, <3>1, Zenon
  <2>4. Len(rx) \in Nat  BY <2>1
  <2> QED  BY <1>1, <2>3, <2>4, Zenon
<1>2. CASE server # "sending"
  <2>1. issued = rx /\ rx \in Seq(Cmd)  BY <1>2, ConcatEmptySeq, Zenon DEF issued, Types
  <2> QED  BY <1>2, <2>1
<1> QED  BY <1>1, <1>2, Zenon

LEMMA ReturnedWords ==
  ASSUME Types
  PROVE  /\ returned \in Seq(Cmd)
         /\ poller = "sem_wait" => returned = tx
         /\ poller # "sem_wait" => returned = buf \o tx
<1>1. poller = "sem_wait" => returned = tx  BY ConcatEmptySeq, Zenon DEF returned, Types
<1> QED  BY <1>1, Joined, Zenon DEF Types, returned

LEMMA SendWordSilent ==
  ASSUME Types, SendWord
  PROVE  issued' = issued
<1>1. /\ server = "sending" /\ rx' = Append(rx, cmd) /\ sent' = sent + 1 /\ cmd' = cmd
      /\ rx \in Seq(Cmd) /\ cmd \in Cmd /\ sent \in Nat /\ sent < CmdWords /\ CmdWords \in Nat
  BY FpgaAssumption, Zenon DEF SendWord, Types, FpgaAssumption
<1>2. /\ Len(issued) = Len(rx) + (CmdWords - sent) /\ issued \in Seq(Cmd)
      /\ \A i \in 1 .. Len(rx) : issued[i] = rx[i]
      /\ \A i \in Len(rx) + 1 .. Len(issued) : issued[i] = cmd
  BY <1>1, IssuedWords, Zenon
<1>3. /\ rx' \in Seq(Cmd) /\ Len(rx') = Len(rx) + 1 /\ Len(rx) \in Nat
      /\ \A i \in 1 .. Len(rx) : rx'[i] = rx[i] /\ rx'[Len(rx) + 1] = cmd
      /\ rx'[Len(rx) + 1] = cmd
  BY <1>1
<1>4. CASE sent' < CmdWords
  <2>1. issued' = rx' \o [i \in 1 .. CmdWords - (sent + 1) |-> cmd] /\ CmdWords - (sent + 1) \in Nat
    BY <1>1, <1>4 DEF SendWord, issued
  <2>2. /\ issued' \in Seq(Cmd) /\ Len(issued') = Len(rx') + (CmdWords - (sent + 1))
        /\ \A i \in 1 .. Len(rx') : issued'[i] = rx'[i]
        /\ \A i \in Len(rx') + 1 .. Len(rx') + (CmdWords - (sent + 1)) : issued'[i] = cmd
    BY <1>1, <1>3, <2>1, Repeated, SMTT(20)
  <2>3. Len(issued') = Len(issued)  BY <1>1, <1>2, <1>3, <2>2
  <2>4. \A i \in 1 .. Len(issued) : issued'[i] = issued[i]
    <3> TAKE i \in 1 .. Len(issued)
    <3>1. CASE i \in 1 .. Len(rx)
      <4>1. i \in 1 .. Len(rx')  BY <1>3, <3>1
      <4> QED  BY <1>2, <1>3, <2>2, <3>1, <4>1, Zenon
    <3>2. CASE i = Len(rx) + 1
      <4>1. i \in 1 .. Len(rx') /\ i \in Len(rx) + 1 .. Len(issued)  BY <1>3, <3>2
      <4> QED  BY <1>2, <1>3, <2>2, <3>2, <4>1, Zenon
    <3>3. CASE i \in Len(rx) + 2 .. Len(issued)
      <4>1. i \in Len(rx') + 1 .. Len(rx') + (CmdWords - (sent + 1)) /\ i \in Len(rx) + 1 .. Len(issued)
        BY <1>1, <1>2, <1>3, <3>3
      <4> QED  BY <1>2, <2>2, <4>1, Zenon
    <3> QED  BY <1>2, <1>3, <3>1, <3>2, <3>3
  <2> QED  BY <1>2, <2>2, <2>3, <2>4, SeqEqual, Zenon
<1>5. CASE ~(sent' < CmdWords)
  <2>1. sent + 1 = CmdWords /\ server' = "sent"  BY <1>1, <1>5 DEF SendWord
  <2>2. issued' = rx'  BY <1>3, <2>1, ConcatEmptySeq, Zenon DEF issued
  <2>3. Len(issued) = Len(rx) + 1
    <3>1. CmdWords - sent = 1  BY <1>1, <2>1
    <3> QED  BY <1>2, <3>1, Zenon
  <2>4. \A i \in 1 .. Len(issued) : issued'[i] = issued[i]
    <3> TAKE i \in 1 .. Len(issued)
    <3>1. CASE i \in 1 .. Len(rx)  BY <1>2, <1>3, <2>2, <3>1, Zenon
    <3>2. CASE i = Len(rx) + 1  BY <1>2, <1>3, <2>2, <2>3, <3>2
    <3> QED  BY <1>3, <2>3, <3>1, <3>2
  <2> QED  BY <1>2, <1>3, <2>2, <2>3, <2>4, SeqEqual, Zenon
<1> QED  BY <1>4, <1>5, Zenon

LEMMA ReadWordSilent ==
  ASSUME Types, ReadWord
  PROVE  returned' = returned
<1>1. /\ poller = "read" /\ poller' # "sem_wait" /\ buf' = Append(buf, Head(tx)) /\ tx' = Tail(tx)
      /\ buf \in Seq(Cmd) /\ tx \in Seq(Cmd) /\ tx # << >>
  BY Zenon DEF ReadWord, Types
<1>2. returned = buf \o tx /\ returned' = buf' \o tx'  BY <1>1, Zenon DEF returned
<1>3. /\ Len(tx) \in Nat \ {0} /\ Len(buf) \in Nat /\ Head(tx) = tx[1] /\ Head(tx) \in Cmd
      /\ tx' \in Seq(Cmd) /\ Len(tx') = Len(tx) - 1 /\ \A i \in 1 .. Len(tx') : tx'[i] = tx[i + 1]
      /\ buf' \in Seq(Cmd) /\ Len(buf') = Len(buf) + 1 /\ buf'[Len(buf) + 1] = tx[1]
      /\ \A i \in 1 .. Len(buf) : buf'[i] = buf[i]
  BY <1>1
<1>4. /\ returned \in Seq(Cmd) /\ Len(returned) = Len(buf) + Len(tx)
      /\ \A i \in 1 .. Len(buf) : returned[i] = buf[i]
      /\ \A i \in 1 .. Len(tx) : returned[Len(buf) + i] = tx[i]
  BY <1>1, <1>2, Joined, Zenon
<1>5. /\ returned' \in Seq(Cmd) /\ Len(returned') = Len(buf') + Len(tx')
      /\ \A i \in 1 .. Len(buf') : returned'[i] = buf'[i]
      /\ \A i \in 1 .. Len(tx') : returned'[Len(buf') + i] = tx'[i]
  BY <1>2, <1>3, Joined, Zenon
<1>6. Len(returned) = Len(returned')  BY <1>3, <1>4, <1>5
<1>7. \A i \in 1 .. Len(returned) : returned[i] = returned'[i]
  <2> TAKE i \in 1 .. Len(returned)
  <2>1. CASE i \in 1 .. Len(buf)
    <3>1. i \in 1 .. Len(buf')  BY <1>3, <2>1
    <3> QED  BY <1>3, <1>4, <1>5, <2>1, <3>1, Zenon
  <2>2. CASE i = Len(buf) + 1
    <3>1. i \in 1 .. Len(buf') /\ 1 \in 1 .. Len(tx)  BY <1>3, <2>2
    <3> QED  BY <1>3, <1>4, <1>5, <2>2, <3>1, Zenon
  <2>3. CASE i \in Len(buf) + 2 .. Len(returned)
    <3>1. /\ i - Len(buf) \in 1 .. Len(tx) /\ Len(buf) + (i - Len(buf)) = i
          /\ i - Len(buf') \in 1 .. Len(tx') /\ Len(buf') + (i - Len(buf')) = i
          /\ (i - Len(buf')) + 1 = i - Len(buf)
      <4>1. /\ Len(buf) \in Nat /\ Len(tx) \in Nat /\ Len(buf') = Len(buf) + 1 /\ Len(tx') = Len(tx) - 1
            /\ i \in Len(buf) + 2 .. Len(buf) + Len(tx)
        BY <1>3, <1>4, <2>3, Zenon
      <4> HIDE DEF returned
      <4> QED  BY <4>1
    <3>2. returned[i] = tx[i - Len(buf)]  BY <1>4, <3>1, Zenon
    <3>3. returned'[i] = tx'[i - Len(buf')]  BY <1>5, <3>1, Zenon
    <3>4. tx'[i - Len(buf')] = tx[(i - Len(buf')) + 1]  BY <1>3, <3>1, Zenon
    <3> QED  BY <3>1, <3>2, <3>3, <3>4, Zenon
  <2> QED  BY <1>3, <1>4, <2>1, <2>2, <2>3
<1> QED  BY <1>4, <1>5, <1>6, <1>7, SeqEqual, Zenon

LEMMA Silent ==
  ASSUME Types,
         \/ \E c \in Cores, xd \in BOOLEAN : Receive(c, xd)
         \/ Lock \/ SendWord \/ Note \/ SemWait \/ PeekValid \/ ReadWord
  PROVE  issued' = issued /\ returned' = returned /\ busy' = busy
<1>1. CASE SendWord
  <2>1. UNCHANGED << poller, buf, tx, busy >>  BY <1>1, Zenon DEF SendWord, polling
  <2> QED  BY <1>1, <2>1, SendWordSilent, Zenon DEF returned
<1>2. CASE ReadWord
  <2>1. UNCHANGED << server, cmd, sent, rx, busy >>  BY <1>2, Zenon DEF ReadWord, serving
  <2> QED  BY <1>2, <2>1, ReadWordSilent, Zenon DEF issued
<1>3. CASE SemWait
  <2>1. UNCHANGED << server, cmd, sent, rx, busy >>  BY <1>3, Zenon DEF SemWait, serving, hardware
  <2>2. tx' = tx /\ poller = "sem_wait" /\ poller' = "peek" /\ buf' = << >>
    BY <1>3, Zenon DEF SemWait, hardware
  <2> QED  BY <2>1, <2>2, Zenon DEF issued, returned
<1>4. CASE PeekValid
  BY <1>4, Zenon DEF PeekValid, serving, hardware, issued, returned
<1>5. CASE (\E c \in Cores, xd \in BOOLEAN : Receive(c, xd)) \/ Lock \/ Note
  <2>1. UNCHANGED << rx, tx, busy, poller, buf, sent >> /\ server # "sending" /\ server' # "sending"
    BY <1>5, Zenon DEF Receive, Lock, Note, hardware, polling
  <2> QED  BY <2>1, Zenon DEF issued, returned
<1> QED  BY <1>1, <1>2, <1>3, <1>4, <1>5, Zenon

-----------------------------------------------------------------------------
(* Types *)

LEMMA ServerTypes ==
  ASSUME Types, (\E c \in Cores, xd \in BOOLEAN : Receive(c, xd)) \/ Server
  PROVE  Types'
<1> USE DEF polling, hardware, history
<1>1. CASE \E c \in Cores, xd \in BOOLEAN : Receive(c, xd)
  <2>1. PICK c \in Cores, xd \in BOOLEAN : Receive(c, xd)  BY <1>1, Zenon
  <2>2. cmd' \in Cmd /\ cmd'.id = count' /\ count' \in Nat  BY <2>1 DEF Receive, Types, Cmd
  <2> QED  BY <2>1, <2>2, Zenon DEF Receive, Types
<1>2. CASE Lock  BY <1>2 DEF Lock, Types
<1>3. CASE LockBus  BY <1>3, FpgaAssumption DEF LockBus, Types, FpgaAssumption
<1>4. CASE SendWord
  <2>1. rx' \in Seq(Cmd)  BY <1>4 DEF SendWord, Types
  <2> QED  BY <1>4, <2>1, FpgaAssumption DEF SendWord, Types, FpgaAssumption
<1>5. CASE Note
  <2>1. cmd \in Cmd /\ Key(cmd.core) \in Keys  BY <1>5, Zenon DEF Note, Types, Cmd, Keys
  <2>2. in_flight' \in [Keys -> Seq(Cmd)]  BY <1>5, <2>1 DEF Note, Types
  <2>3. mixed' \in BOOLEAN  BY <1>5, Zenon DEF Note
  <2> QED  BY <1>5, <2>2, <2>3, Zenon DEF Note, Types
<1> QED  BY <1>1, <1>2, <1>3, <1>4, <1>5, Zenon DEF Server

LEMMA PollerTypes ==
  ASSUME Types, Poller
  PROVE  Types'
<1> USE DEF serving, hardware, history
<1>1. CASE SemWait
  BY <1>1, FpgaAssumption DEF SemWait, Types, FpgaAssumption
<1>2. CASE PeekValid  BY <1>2, Zenon DEF PeekValid, Types
<1>3. CASE ReadWord
  <2>1. /\ tx' \in Seq(Cmd) /\ buf' \in Seq(Cmd) /\ Len(buf') = Len(buf) + 1
    BY <1>3 DEF ReadWord, Types
  <2>2. Len(buf') <= RespWords /\ poller' \in {"peek", "register"}
    BY <1>3, <2>1, FpgaAssumption DEF ReadWord, Types, FpgaAssumption
  <2>3. /\ poller' = "peek" => Len(buf') < RespWords
        /\ poller' = "register" => Len(buf') = RespWords
    BY <1>3, <2>1, <2>2, FpgaAssumption DEF ReadWord, Types, FpgaAssumption
  <2>4. UNCHANGED << serving, bus_lock, processes_waiting, in_flight, rx, busy, ended, history >>
    BY <1>3, Zenon DEF ReadWord
  <2> QED  BY <2>1, <2>2, <2>3, <2>4, Zenon DEF Types
<1>4. CASE Register
  <2>1. in_flight' \in [Keys -> Seq(Cmd)]
    <3>1. CASE UNCHANGED in_flight  BY <3>1, Zenon DEF Types
    <3>2. CASE ~ UNCHANGED in_flight
      <4>1. PICK k : in_flight[k] # << >> /\ in_flight' = [in_flight EXCEPT ![k] = Tail(@)]
        BY <1>4, <3>2, Zenon DEF Register
      <4>2. CASE k \in Keys
        <5>1. Tail(in_flight[k]) \in Seq(Cmd)  BY <4>1, <4>2 DEF Types
        <5> QED  BY <4>1, <5>1, Zenon DEF Types
      <4>3. CASE k \notin Keys  BY <4>1, <4>3, Zenon DEF Types
      <4> QED  BY <4>2, <4>3, Zenon
    <3> QED  BY <3>1, <3>2, Zenon
  <2> QED  BY <1>4, <2>1, Zenon DEF Register, Types
<1> QED  BY <1>1, <1>2, <1>3, <1>4, Zenon DEF Poller

LEMMA CoreTypes ==
  ASSUME Types, Start \/ \E c \in Cores : Finish(c)
  PROVE  Types'
<1> USE DEF serving, polling, history
<1>1. CASE Start
  <2>1. /\ rx \in Seq(Cmd) /\ CmdWords \in 1 .. Len(rx) /\ CmdWords \in Nat
        /\ rx' = SubSeq(rx, CmdWords + 1, Len(rx))
    BY <1>1, FpgaAssumption DEF Start, Types, FpgaAssumption
  <2>2. rx' \in Seq(Cmd)  BY <2>1, Dropped, Zenon
  <2>3. Head(rx) \in Cmd /\ Head(rx).core \in Cores
    <3>1. rx # << >>  BY <2>1
    <3>2. Head(rx) \in Cmd  BY <2>1, <3>1
    <3> QED  BY <3>2, Zenon DEF Cmd
  <2>4. /\ busy' \in [Cores -> Cmd \cup {NoCmd}]
        /\ \A c \in Cores : busy'[c] # NoCmd => busy'[c].core = c
    BY <1>1, <2>3, Zenon DEF Start, Types
  <2> QED  BY <1>1, <2>2, <2>4, Zenon DEF Start, Types
<1>2. ASSUME NEW c \in Cores, Finish(c)  PROVE Types'
  <2>1. tx' \in Seq(Cmd)
    <3>1. busy[c] \in Cmd /\ RespWords \in Nat
      BY <1>2, FpgaAssumption, Zenon DEF Finish, Types, FpgaAssumption
    <3>2. CASE busy[c].xd
      <4>1. tx' = tx \o [i \in 1 .. RespWords |-> busy[c]]  BY <1>2, <3>2, Zenon DEF Finish
      <4> QED  BY <3>1, <4>1, Repeated, Zenon DEF Types
    <3>3. CASE ~ busy[c].xd  BY <1>2, <3>3, Zenon DEF Finish, Types
    <3> QED  BY <3>2, <3>3, Zenon
  <2>2. /\ busy' \in [Cores -> Cmd \cup {NoCmd}]
        /\ \A d \in Cores : busy'[d] # NoCmd => busy'[d].core = d
    BY <1>2, Zenon DEF Finish, Types
  <2>3. poller = "read" => tx' # << >>
    <3>1. tx # << >> => tx' # << >>
      <4>1. tx \in Seq(Cmd) /\ [i \in 1 .. RespWords |-> busy[c]] \in Seq({busy[c]})
        BY FpgaAssumption DEF FpgaAssumption, Types
      <4> QED  BY <1>2, <4>1 DEF Finish
    <3> QED  BY <3>1, Zenon DEF Types
  <2> QED  BY <1>2, <2>1, <2>2, <2>3 DEF Finish, Types
<1> QED  BY <1>1, <1>2, Zenon

-----------------------------------------------------------------------------
(* The steps that move a command *)

LEMMA LockBusIssues ==
  ASSUME Types, LockBus
  PROVE  issued' = issued \o [i \in 1 .. CmdWords |-> cmd] /\ returned' = returned /\ busy' = busy
<1>1. /\ server = "locked" /\ server' = "sending" /\ sent' = 0 /\ CmdWords \in Nat
      /\ UNCHANGED << cmd, poller, buf, rx, busy, tx >>
  BY FpgaAssumption, Zenon DEF LockBus, polling, hardware, FpgaAssumption
<1>2. issued = rx  BY <1>1, IssuedWords, Zenon
<1>3. CmdWords - 0 = CmdWords  BY <1>1
<1>4. issued' = rx \o [i \in 1 .. CmdWords |-> cmd]  BY <1>1, <1>3, Zenon DEF issued
<1> QED  BY <1>1, <1>2, <1>4, Zenon DEF returned

LEMMA StartTakes ==
  ASSUME Types, Start
  PROVE  /\ returned' = returned /\ issued # << >> /\ issued[1] = Head(rx)
         /\ issued' \in Seq(Cmd) /\ Len(issued') = Len(issued) - CmdWords
         /\ \A i \in 1 .. Len(issued') : issued'[i] = issued[i + CmdWords]
<1>1. /\ UNCHANGED << server, cmd, sent, poller, buf, tx >> /\ rx' = SubSeq(rx, CmdWords + 1, Len(rx))
      /\ rx \in Seq(Cmd) /\ Len(rx) \in Nat /\ CmdWords \in 1 .. Len(rx)
  BY FpgaAssumption DEF Start, serving, polling, Types, FpgaAssumption
<1>2. /\ rx' \in Seq(Cmd) /\ Len(rx') = Len(rx) - CmdWords
      /\ \A i \in 1 .. Len(rx) - CmdWords : rx'[i] = rx[i + CmdWords]
  BY <1>1, Dropped, Zenon
<1>3. issued \in Seq(Cmd) /\ \A i \in 1 .. Len(rx) : issued[i] = rx[i]  BY IssuedWords, Zenon
<1>4. CASE server # "sending"
  <2>1. issued = rx /\ issued' = rx'  BY <1>1, <1>2, <1>4, IssuedWords, ConcatEmptySeq, Zenon DEF issued
  <2> QED  BY <1>1, <1>2, <2>1 DEF returned
<1>5. CASE server = "sending"
  <2>1. PICK n \in Nat : n = CmdWords - sent  BY <1>1, <1>5 DEF Types
  <2>2. cmd \in Cmd /\ issued = rx \o [i \in 1 .. n |-> cmd] /\ issued' = rx' \o [i \in 1 .. n |-> cmd]
    BY <1>1, <1>5, <2>1, Zenon DEF Types, issued
  <2>3. /\ Len(issued) = Len(rx) + n
        /\ \A i \in Len(rx) + 1 .. Len(rx) + n : issued[i] = cmd
    <3>1. /\ Len(rx \o [i \in 1 .. n |-> cmd]) = Len(rx) + n
          /\ \A i \in Len(rx) + 1 .. Len(rx) + n : (rx \o [j \in 1 .. n |-> cmd])[i] = cmd
      BY <1>1, <2>2, Repeated, Zenon
    <3> QED  BY <2>2, <3>1, Zenon
  <2>4. /\ issued' \in Seq(Cmd) /\ Len(issued') = Len(rx') + n
        /\ \A i \in 1 .. Len(rx') : issued'[i] = rx'[i]
        /\ \A i \in Len(rx') + 1 .. Len(rx') + n : issued'[i] = cmd
    <3>1. /\ rx' \o [i \in 1 .. n |-> cmd] \in Seq(Cmd)
          /\ Len(rx' \o [i \in 1 .. n |-> cmd]) = Len(rx') + n
          /\ \A i \in 1 .. Len(rx') : (rx' \o [j \in 1 .. n |-> cmd])[i] = rx'[i]
          /\ \A i \in Len(rx') + 1 .. Len(rx') + n : (rx' \o [j \in 1 .. n |-> cmd])[i] = cmd
      BY <1>2, <2>2, Repeated, Zenon
    <3> QED  BY <2>2, <3>1, Zenon
  <2>5. \A i \in 1 .. Len(issued') : issued'[i] = issued[i + CmdWords]
    <3> TAKE i \in 1 .. Len(issued')
    <3>1. CASE i \in 1 .. Len(rx')
      <4>1. i \in 1 .. Len(rx) - CmdWords /\ i + CmdWords \in 1 .. Len(rx)  BY <1>1, <1>2, <3>1
      <4> QED  BY <1>2, <1>3, <2>4, <3>1, <4>1, Zenon
    <3>2. CASE i \in Len(rx') + 1 .. Len(rx') + n
      <4>1. i + CmdWords \in Len(rx) + 1 .. Len(rx) + n  BY <1>1, <1>2, <3>2
      <4> QED  BY <2>3, <2>4, <3>2, <4>1, Zenon
    <3>3. Len(rx') \in Nat  BY <1>2
    <3> QED  BY <2>4, <3>1, <3>2, <3>3
  <2>6. Len(issued') = Len(issued) - CmdWords  BY <1>1, <1>2, <2>3, <2>4
  <2>7. issued # << >> /\ issued[1] = Head(rx)
    <3>1. 1 \in 1 .. Len(rx) /\ Head(rx) = rx[1] /\ Len(issued) # 0  BY <1>1, <2>3
    <3> QED  BY <1>3, <3>1
  <2> QED  BY <1>1, <2>4, <2>5, <2>6, <2>7, Zenon DEF returned
<1> QED  BY <1>4, <1>5, Zenon

LEMMA FinishReturns ==
  ASSUME Types, NEW c \in Cores, Finish(c)
  PROVE  /\ issued' = issued
         /\ busy[c].xd => returned' = returned \o [i \in 1 .. RespWords |-> busy[c]]
         /\ ~ busy[c].xd => returned' = returned
<1>1. UNCHANGED << server, cmd, sent, rx, poller, buf >>  BY Zenon DEF Finish, serving, polling
<1>2. issued' = issued  BY <1>1, Zenon DEF issued
<1>3. CASE ~ busy[c].xd  BY <1>1, <1>2, <1>3, Zenon DEF Finish, returned
<1>4. CASE busy[c].xd
  <2> DEFINE block == [i \in 1 .. RespWords |-> busy[c]]
  <2>1. tx' = tx \o block  BY <1>4, Zenon DEF Finish
  <2>2. block \in Seq(Cmd) /\ tx \in Seq(Cmd) /\ buf \in Seq(Cmd) /\ << >> \in Seq(Cmd)
    BY FpgaAssumption DEF Finish, Types, FpgaAssumption
  <2> HIDE DEF block
  <2>3. (buf \o tx) \o block = buf \o (tx \o block) /\ (<< >> \o tx) \o block = << >> \o (tx \o block)
    BY <2>2, ConcatAssociative, SMTT(20)
  <2>4. returned' = returned \o block  BY <1>1, <2>1, <2>3, Zenon DEF returned
  <2> QED  BY <1>2, <1>4, <2>4, Zenon DEF block
<1> QED  BY <1>3, <1>4, Zenon

LEMMA RegisterRetires ==
  ASSUME Types, Register
  PROVE  /\ issued' = issued /\ busy' = busy /\ returned # << >> /\ returned[1] \in Cmd
         /\ returned[RespWords] = buf[Len(buf)]
         /\ returned' \in Seq(Cmd) /\ Len(returned') = Len(returned) - RespWords
         /\ \A i \in 1 .. Len(returned') : returned'[i] = returned[i + RespWords]
<1>1. /\ UNCHANGED << server, cmd, sent, rx, busy, tx >> /\ poller = "register" /\ poller' = "sem_wait"
      /\ buf \in Seq(Cmd) /\ tx \in Seq(Cmd) /\ Len(buf) = RespWords /\ RespWords \in Nat \ {0}
  BY FpgaAssumption, Zenon DEF Register, serving, hardware, Types, FpgaAssumption
<1>2. /\ returned \in Seq(Cmd) /\ Len(returned) = Len(buf) + Len(tx)
      /\ \A i \in 1 .. Len(buf) : returned[i] = buf[i]
      /\ \A i \in 1 .. Len(tx) : returned[Len(buf) + i] = tx[i]
  BY <1>1, Joined, Zenon DEF returned
<1>3. returned' = tx  BY <1>1, ConcatEmptySeq, Zenon DEF returned
<1>4. Len(tx) \in Nat  BY <1>1
<1>5. returned # << >> /\ returned[1] \in Cmd /\ returned[RespWords] = buf[Len(buf)]
  <2>1. 1 \in 1 .. Len(returned) /\ RespWords \in 1 .. Len(buf)  BY <1>1, <1>2, <1>4
  <2> QED  BY <1>1, <1>2, <2>1
<1>6. Len(tx) = Len(returned) - RespWords /\ \A i \in 1 .. Len(tx) : tx[i] = returned[i + RespWords]
  <2>1. \A i \in 1 .. Len(tx) : i + RespWords = Len(buf) + i  BY <1>1, <1>4
  <2> QED  BY <1>1, <1>2, <1>4, <2>1
<1> QED  BY <1>1, <1>3, <1>5, <1>6, Zenon DEF issued

-----------------------------------------------------------------------------
(* The order of commands *)

LEMMA HeldTypes ==
  ASSUME Types
  PROVE  /\ Waiting \subseteq Cmd /\ Running \subseteq Cmd /\ Answers \subseteq Cmd /\ Held \subseteq Cmd
         /\ \A x \in Cmd : x.id \in Nat /\ x.core \in Cores /\ x.xd \in BOOLEAN
         /\ \A x \in Running : x.core \in Cores /\ busy[x.core] = x /\ x # NoCmd
<1>1. Waiting \subseteq Cmd  BY IssuedWords DEF Waiting
<1>2. Answers \subseteq Cmd  BY ReturnedWords DEF Answers
<1>3. Running \subseteq Cmd  BY Zenon DEF Running, Types
<1>4. \A x \in Cmd : x.id \in Nat /\ x.core \in Cores /\ x.xd \in BOOLEAN  BY Zenon DEF Cmd
<1>5. \A x \in Running : x.core \in Cores /\ busy[x.core] = x /\ x # NoCmd  BY Zenon DEF Running, Types
<1> QED  BY <1>1, <1>2, <1>3, <1>4, <1>5, Zenon DEF Held

LEMMA LockBusOrdered ==
  ASSUME Types, Ordered, Known, LockBus
  PROVE  /\ Ordered' /\ Waiting' = Waiting \cup {cmd} /\ Running' = Running /\ Answers' = Answers
         /\ cmd \notin Held
<1>1. /\ issued' = issued \o [i \in 1 .. CmdWords |-> cmd] /\ returned' = returned /\ busy' = busy
  BY LockBusIssues, Zenon
<1>2. cmd \in Cmd /\ server = "locked" /\ cmd.id = count /\ CmdWords \in Nat \ {0}
  BY FpgaAssumption, Zenon DEF LockBus, Types, FpgaAssumption
<1>3. \A x \in Held : x.id < cmd.id /\ x # cmd
  <2> TAKE x \in Held
  <2>1. x.id \in Nat /\ cmd.id \in Nat  BY <1>2, HeldTypes, Zenon
  <2> QED  BY <1>2, <2>1 DEF Known
<1>4. \A i \in DOMAIN issued : issued[i] \in Held  BY Zenon DEF Waiting, Held
<1>5. /\ issued' \in Seq(Cmd) /\ Len(issued') = Len(issued) + CmdWords /\ Pipe(issued', CmdWords)
      /\ \A i \in 1 .. Len(issued) : issued'[i] = issued[i]
      /\ \A i \in Len(issued) + 1 .. Len(issued) + CmdWords : issued'[i] = cmd
  <2>1. issued \in Seq(Cmd) /\ Pipe(issued, CmdWords) /\ \A i \in DOMAIN issued : issued[i] # cmd
    BY <1>3, <1>4, IssuedWords, Zenon DEF Ordered
  <2>2. /\ issued \o [i \in 1 .. CmdWords |-> cmd] \in Seq(Cmd)
        /\ Len(issued \o [i \in 1 .. CmdWords |-> cmd]) = Len(issued) + CmdWords
        /\ \A i \in 1 .. Len(issued) : (issued \o [j \in 1 .. CmdWords |-> cmd])[i] = issued[i]
        /\ \A i \in Len(issued) + 1 .. Len(issued) + CmdWords : (issued \o [j \in 1 .. CmdWords |-> cmd])[i] = cmd
    <3>1. CmdWords \in Nat  BY <1>2, Zenon
    <3> QED  BY <1>2, <2>1, <3>1, Repeated, Zenon
  <2>3. /\ issued' \in Seq(Cmd) /\ Len(issued') = Len(issued) + CmdWords
        /\ \A i \in 1 .. Len(issued) : issued'[i] = issued[i]
        /\ \A i \in Len(issued) + 1 .. Len(issued) + CmdWords : issued'[i] = cmd
    BY <1>1, <2>2, Zenon
  <2>4. Pipe(issued', CmdWords)  BY <1>2, <2>1, <2>3, PipeAppend, ZenonT(40)
  <2> QED  BY <2>3, <2>4, Zenon
<1>6. /\ Len(issued) \in Nat /\ DOMAIN issued = 1 .. Len(issued)
      /\ DOMAIN issued' = 1 .. Len(issued) + CmdWords
  BY <1>5, IssuedWords
<1>7. Waiting' = Waiting \cup {cmd}
  <2>1. Waiting \cup {cmd} \subseteq Waiting'
    <3>1. Len(issued) + 1 \in DOMAIN issued' /\ issued'[Len(issued) + 1] = cmd  BY <1>2, <1>5, <1>6
    <3>2. \A i \in DOMAIN issued : i \in DOMAIN issued' /\ issued'[i] = issued[i]  BY <1>2, <1>5, <1>6
    <3> QED  BY <3>1, <3>2, Zenon DEF Waiting
  <2>2. Waiting' \subseteq Waiting \cup {cmd}
    <3>1. \A i \in DOMAIN issued' : i \in DOMAIN issued \/ i \in Len(issued) + 1 .. Len(issued) + CmdWords
      BY <1>6
    <3> QED  BY <1>5, <1>6, <3>1, Zenon DEF Waiting
  <2> QED  BY <2>1, <2>2, Zenon
<1>8. Running' = Running /\ Answers' = Answers  BY <1>1, Zenon DEF Running, Answers
<1>9. \A i, j \in DOMAIN issued' : i <= j => issued'[i].id <= issued'[j].id
  <2> TAKE i, j \in DOMAIN issued'
  <2> HAVE i <= j
  <2>1. CASE j \in DOMAIN issued
    <3>1. i \in DOMAIN issued  BY <1>6, <2>1
    <3> QED  BY <1>5, <1>6, <2>1, <3>1, Zenon DEF Ordered
  <2>2. CASE j \in Len(issued) + 1 .. Len(issued) + CmdWords
    <3>1. issued'[j] = cmd  BY <1>5, <2>2, Zenon
    <3>2. i \in DOMAIN issued => issued'[i].id < cmd.id  BY <1>3, <1>4, <1>5, <1>6, Zenon
    <3>3. i \notin DOMAIN issued => issued'[i] = cmd
      <4>1. i \notin DOMAIN issued => i \in Len(issued) + 1 .. Len(issued) + CmdWords  BY <1>6
      <4> QED  BY <1>5, <4>1, Zenon
    <3>4. issued'[i] \in Cmd /\ \A x \in Cmd : x.id \in Nat  BY <1>5, HeldTypes
    <3> QED  BY <1>2, <3>1, <3>2, <3>3, <3>4
  <2> QED  BY <1>6, <2>1, <2>2
<1>10. \A x \in Waiting', y \in Running' \cup Answers' : x.core = y.core => y.id < x.id
  BY <1>3, <1>7, <1>8, Zenon DEF Held, Ordered
<1>11. cmd \notin Held  BY <1>3, Zenon
<1> QED  BY <1>1, <1>5, <1>7, <1>8, <1>9, <1>10, <1>11, Zenon DEF Ordered

LEMMA StartOrdered ==
  ASSUME Types, Ordered, Known, Start
  PROVE  Ordered' /\ Held' = Held
<1> DEFINE x == issued[1]
<1>1. /\ returned' = returned /\ issued # << >> /\ x = Head(rx)
      /\ issued' \in Seq(Cmd) /\ Len(issued') = Len(issued) - CmdWords
      /\ \A i \in 1 .. Len(issued') : issued'[i] = issued[i + CmdWords]
  BY StartTakes, Zenon
<1>2. issued \in Seq(Cmd) /\ CmdWords \in Nat \ {0} /\ Pipe(issued, CmdWords)
  BY IssuedWords, FpgaAssumption, Zenon DEF Ordered, FpgaAssumption
<1>3. /\ Pipe(issued', CmdWords)
      /\ \A i \in 1 .. Len(issued') : i + CmdWords \in DOMAIN issued /\ issued'[i] # x
  BY <1>1, <1>2, PipeDrop, ZenonT(90)
<1>4. CmdWords \in 1 .. Len(issued) /\ \A i \in 1 .. CmdWords : issued[i] = x
  BY <1>1, <1>2, FirstBlock, Zenon
<1>5. /\ Len(issued) \in Nat /\ DOMAIN issued = 1 .. Len(issued) /\ 1 \in DOMAIN issued /\ x \in Cmd
      /\ DOMAIN issued' = 1 .. Len(issued')
  BY <1>1, <1>2, <1>4
<1>6. Waiting = Waiting' \cup {x} /\ x \notin Waiting' /\ x \in Waiting
  <2>1. x \in Waiting /\ x \notin Waiting'  BY <1>3, <1>5, Zenon DEF Waiting
  <2>2. Waiting' \subseteq Waiting  BY <1>1, <1>3, <1>5 DEF Waiting
  <2>3. \A i \in DOMAIN issued : issued[i] \in Waiting' \cup {x}
    <3> TAKE i \in DOMAIN issued
    <3>1. CASE i \in 1 .. CmdWords  BY <1>4, <3>1, Zenon
    <3>2. CASE i \notin 1 .. CmdWords
      <4>1. i - CmdWords \in DOMAIN issued' /\ (i - CmdWords) + CmdWords = i
        <5>1. i \in Nat /\ i > CmdWords /\ i <= Len(issued) /\ CmdWords \in Nat  BY <1>2, <1>5, <3>2
        <5>2. DOMAIN issued' = 1 .. Len(issued) - CmdWords /\ Len(issued) \in Nat  BY <1>1, <1>5, Zenon
        <5> QED  BY <5>1, <5>2
      <4>2. issued'[i - CmdWords] = issued[i]  BY <1>1, <1>5, <4>1, Zenon
      <4> QED  BY <4>1, <4>2, Zenon DEF Waiting
    <3> QED  BY <3>1, <3>2, Zenon
  <2> QED  BY <2>1, <2>2, <2>3, Zenon DEF Waiting
<1> HIDE DEF x
<1>7. x.core \in Cores /\ busy[x.core] = NoCmd /\ busy' = [busy EXCEPT ![x.core] = x] /\ x # NoCmd
  BY <1>1, <1>5 DEF Start, Cmd, NoCmd
<1>8. Running' = Running \cup {x}  BY <1>7, Zenon DEF Running, Types
<1>9. Answers' = Answers  BY <1>1, Zenon DEF Answers
<1>10. \A y \in Running : y.core # x.core  BY <1>7, HeldTypes, Zenon
<1>11. \A y \in Waiting' : x.id < y.id
  <2> TAKE y \in Waiting'
  <2>1. y \in Waiting /\ y # x  BY <1>6, Zenon
  <2>2. PICK i \in DOMAIN issued : y = issued[i]  BY <2>1, Zenon DEF Waiting
  <2>3. x.id <= y.id  BY <1>5, <2>2 DEF Ordered, x
  <2>4. x.id # y.id  BY <1>6, <2>1, Zenon DEF Known, Held
  <2>5. x.id \in Nat /\ y.id \in Nat  BY <1>5, <2>1, HeldTypes, Zenon
  <2> QED  BY <2>3, <2>4, <2>5
<1>12. \A i, j \in DOMAIN issued' : i <= j => issued'[i].id <= issued'[j].id
  <2> TAKE i, j \in DOMAIN issued'
  <2> HAVE i <= j
  <2>1. i + CmdWords <= j + CmdWords  BY <1>2, <1>5
  <2>2. i + CmdWords \in DOMAIN issued /\ j + CmdWords \in DOMAIN issued  BY <1>3, <1>5, Zenon
  <2> QED  BY <1>1, <1>5, <2>1, <2>2, Zenon DEF Ordered
<1>13. \A u \in Waiting', y \in Running' \cup Answers' : u.core = y.core => y.id < u.id
  BY <1>6, <1>8, <1>9, <1>11, Zenon DEF Ordered
<1>14. \A u \in Running', y \in Answers' : u.core = y.core => y.id < u.id
  BY <1>6, <1>8, <1>9, Zenon DEF Ordered
<1>15. Held' = Held  BY <1>6, <1>8, <1>9, Zenon DEF Held
<1> QED  BY <1>1, <1>3, <1>9, <1>12, <1>13, <1>14, <1>15, Zenon DEF Ordered

LEMMA FinishOrdered ==
  ASSUME Types, Ordered, NEW c \in Cores, Finish(c)
  PROVE  /\ Ordered' /\ Held' \subseteq Held
         /\ \A x \in Held : x.xd => x \in Held'
<1>1. PICK b \in Cmd : b = busy[c] /\ b # NoCmd /\ b.core = c  BY Zenon DEF Finish, Types
<1>2. b \in Running /\ busy' = [busy EXCEPT ![c] = NoCmd]  BY <1>1, Zenon DEF Finish, Running
<1>3. Running' = Running \ {b}
  <2>1. \A d \in Cores : d # c => busy'[d] = busy[d] /\ busy[d] # b
    BY <1>1, <1>2, Zenon DEF Types
  <2>2. busy'[c] = NoCmd  BY <1>2, Zenon DEF Types
  <2> QED  BY <1>1, <2>1, <2>2 DEF Running
<1>4. \A x \in Running' : x.core # b.core
  BY <1>1, <1>3, HeldTypes, Zenon
<1>5. issued' = issued /\ Waiting' = Waiting  BY FinishReturns, Zenon DEF Waiting
<1>6. \A x \in Answers : x.core = b.core => x.id < b.id  BY <1>2, Zenon DEF Ordered
<1>7. b.id \in Nat /\ b \notin Answers
  <2>1. b.id \in Nat  BY Zenon DEF Cmd
  <2> QED  BY <1>6, <2>1
<1>8. CASE ~ b.xd
  <2>1. returned' = returned /\ Answers' = Answers  BY <1>1, <1>8, FinishReturns, Zenon DEF Answers
  <2>2. Ordered'  BY <1>3, <1>5, <2>1, Zenon DEF Ordered
  <2>3. Held' \subseteq Held /\ \A x \in Held : x.xd => x \in Held'
    BY <1>3, <1>5, <1>8, <2>1, Zenon DEF Held
  <2> QED  BY <2>2, <2>3, Zenon
<1>9. CASE b.xd
  <2>1. returned' = returned \o [i \in 1 .. RespWords |-> b] /\ RespWords \in Nat \ {0} /\ RespWords \in Nat
    BY <1>1, <1>9, FinishReturns, FpgaAssumption, Zenon DEF FpgaAssumption
  <2>2. returned \in Seq(Cmd) /\ Pipe(returned, RespWords) /\ \A i \in DOMAIN returned : returned[i] # b
    BY <1>7, ReturnedWords, Zenon DEF Ordered, Answers
  <2>3. /\ returned \o [i \in 1 .. RespWords |-> b] \in Seq(Cmd)
        /\ Len(returned \o [i \in 1 .. RespWords |-> b]) = Len(returned) + RespWords
        /\ \A i \in 1 .. Len(returned) : (returned \o [j \in 1 .. RespWords |-> b])[i] = returned[i]
        /\ \A i \in Len(returned) + 1 .. Len(returned) + RespWords : (returned \o [j \in 1 .. RespWords |-> b])[i] = b
    BY <2>1, <2>2, Repeated, Zenon
  <2>4. /\ returned' \in Seq(Cmd) /\ Len(returned') = Len(returned) + RespWords
        /\ \A i \in 1 .. Len(returned) : returned'[i] = returned[i]
        /\ \A i \in Len(returned) + 1 .. Len(returned) + RespWords : returned'[i] = b
    BY <2>1, <2>3, Zenon
  <2>5. Pipe(returned', RespWords)  BY <2>1, <2>2, <2>4, PipeAppend, ZenonT(40)
  <2>6. /\ Len(returned) \in Nat /\ DOMAIN returned = 1 .. Len(returned)
        /\ DOMAIN returned' = 1 .. Len(returned) + RespWords
    BY <2>2, <2>4
  <2>7. \A i \in DOMAIN returned' : i \in DOMAIN returned \/ i \in Len(returned) + 1 .. Len(returned) + RespWords
    BY <2>6
  <2>8. Answers' = Answers \cup {b}
    <3>1. Len(returned) + 1 \in DOMAIN returned' /\ returned'[Len(returned) + 1] = b
      BY <2>1, <2>4, <2>6
    <3>2. \A i \in DOMAIN returned : i \in DOMAIN returned' /\ returned'[i] = returned[i]
      BY <2>1, <2>4, <2>6
    <3>3. Answers \cup {b} \subseteq Answers'  BY <3>1, <3>2, Zenon DEF Answers
    <3>4. Answers' \subseteq Answers \cup {b}  BY <2>4, <2>6, <2>7, Zenon DEF Answers
    <3> QED  BY <3>3, <3>4, Zenon
  <2>9. \A i, j \in DOMAIN returned' : i <= j /\ returned'[i].core = returned'[j].core =>
          returned'[i].id <= returned'[j].id
    <3> TAKE i, j \in DOMAIN returned'
    <3> HAVE i <= j /\ returned'[i].core = returned'[j].core
    <3>1. CASE j \in DOMAIN returned
      <4>1. i \in DOMAIN returned  BY <2>6, <3>1
      <4> QED  BY <2>4, <2>6, <3>1, <4>1, Zenon DEF Ordered
    <3>2. CASE j \in Len(returned) + 1 .. Len(returned) + RespWords
      <4>1. returned'[j] = b  BY <2>4, <3>2, Zenon
      <4>2. CASE i \in DOMAIN returned
        <5>1. returned'[i] = returned[i] /\ returned[i] \in Answers  BY <2>4, <2>6, <4>2, Zenon DEF Answers
        <5>2. returned[i].id < b.id /\ returned[i].id \in Nat
          BY <1>6, <2>2, <4>1, <4>2, <5>1, HeldTypes, Zenon
        <5> QED  BY <1>7, <4>1, <5>1, <5>2
      <4>3. CASE i \in Len(returned) + 1 .. Len(returned) + RespWords
        BY <1>7, <2>4, <4>1, <4>3, SMTT(20)
      <4> QED  BY <2>7, <4>2, <4>3, Zenon
    <3> QED  BY <2>7, <3>1, <3>2, Zenon
  <2>10. \A x \in Waiting', y \in Running' \cup Answers' : x.core = y.core => y.id < x.id
    BY <1>2, <1>3, <1>5, <2>8, Zenon DEF Ordered
  <2>11. \A x \in Running', y \in Answers' : x.core = y.core => y.id < x.id
    BY <1>3, <1>4, <2>8, Zenon DEF Ordered
  <2>12. Ordered'  BY <1>5, <1>9, <2>5, <2>8, <2>9, <2>10, <2>11, Zenon DEF Ordered
  <2> QED  BY <1>2, <1>3, <1>5, <2>8, <2>12, Zenon DEF Held
<1> QED  BY <1>8, <1>9, Zenon

LEMMA RegisterOrdered ==
  ASSUME Types, Ordered, Known, Register
  PROVE  /\ Ordered' /\ Held' = Held \ {returned[1]} /\ returned[1] \in Answers
         /\ returned[1] = buf[Len(buf)]
         /\ \A x \in Held : x.core = returned[1].core => returned[1].id <= x.id
<1> DEFINE r == returned[1]
<1>1. /\ issued' = issued /\ busy' = busy /\ returned # << >> /\ returned[RespWords] = buf[Len(buf)]
      /\ returned' \in Seq(Cmd) /\ Len(returned') = Len(returned) - RespWords
      /\ \A i \in 1 .. Len(returned') : returned'[i] = returned[i + RespWords]
  BY RegisterRetires, Zenon
<1>2. returned \in Seq(Cmd) /\ RespWords \in Nat \ {0} /\ Pipe(returned, RespWords)
  BY ReturnedWords, FpgaAssumption, Zenon DEF Ordered, FpgaAssumption
<1>3. /\ Pipe(returned', RespWords)
      /\ \A i \in 1 .. Len(returned') : i + RespWords \in DOMAIN returned /\ returned'[i] # r
  BY <1>1, <1>2, PipeDrop, ZenonT(90)
<1>4. RespWords \in 1 .. Len(returned) /\ \A i \in 1 .. RespWords : returned[i] = r
  BY <1>1, <1>2, FirstBlock, Zenon
<1>5. /\ Len(returned) \in Nat /\ DOMAIN returned = 1 .. Len(returned) /\ 1 \in DOMAIN returned /\ r \in Cmd
      /\ DOMAIN returned' = 1 .. Len(returned')
  BY <1>1, <1>2, <1>4
<1>6. Answers' = Answers \ {r} /\ r \in Answers
  <2>1. r \in Answers /\ r \notin Answers'  BY <1>3, <1>5, Zenon DEF Answers
  <2>2. Answers' \subseteq Answers  BY <1>1, <1>3, <1>5, Zenon DEF Answers
  <2>3. \A i \in DOMAIN returned : returned[i] \in Answers' \cup {r}
    <3> TAKE i \in DOMAIN returned
    <3>1. CASE i \in 1 .. RespWords  BY <1>4, <3>1, Zenon
    <3>2. CASE i \notin 1 .. RespWords
      <4>1. i - RespWords \in DOMAIN returned' /\ (i - RespWords) + RespWords = i
        <5>1. i \in Nat /\ i > RespWords /\ i <= Len(returned) /\ RespWords \in Nat  BY <1>2, <1>5, <3>2
        <5>2. DOMAIN returned' = 1 .. Len(returned) - RespWords /\ Len(returned) \in Nat  BY <1>1, <1>5, Zenon
        <5> QED  BY <5>1, <5>2
      <4>2. returned'[i - RespWords] = returned[i]  BY <1>1, <1>5, <4>1, Zenon
      <4> QED  BY <4>1, <4>2, Zenon DEF Answers
    <3> QED  BY <3>1, <3>2, Zenon
  <2> QED  BY <2>1, <2>2, <2>3, Zenon DEF Answers
<1>7. r = buf[Len(buf)]
  <2>1. RespWords \in 1 .. RespWords  BY <1>2
  <2> QED  BY <1>1, <1>4, <2>1, Zenon
<1>8. \A x \in Answers : x.core = r.core => r.id <= x.id
  <2> TAKE x \in Answers
  <2>1. PICK i \in DOMAIN returned : x = returned[i]  BY Zenon DEF Answers
  <2>2. 1 <= i  BY <1>5
  <2> QED  BY <1>5, <2>1, <2>2, Zenon DEF Ordered
<1> HIDE DEF r
<1>9. Waiting' = Waiting /\ Running' = Running  BY <1>1, Zenon DEF Waiting, Running
<1>10. r.id \in Nat  BY <1>5, HeldTypes, Zenon
<1>11. \A x \in Waiting \cup Running : x.core = r.core => r.id < x.id  BY <1>6, Zenon DEF Ordered
<1>12. r \notin Waiting \cup Running  BY <1>10, <1>11
<1>13. Held' = Held \ {r}  BY <1>6, <1>9, <1>12, Zenon DEF Held
<1>14. \A x \in Held : x.core = r.core => r.id <= x.id
  <2>1. \A x \in Held : x.id \in Nat  BY HeldTypes, Zenon
  <2> QED  BY <1>8, <1>10, <1>11, <2>1 DEF Held
<1>15. \A i, j \in DOMAIN returned' : i <= j /\ returned'[i].core = returned'[j].core =>
         returned'[i].id <= returned'[j].id
  <2> TAKE i, j \in DOMAIN returned'
  <2> HAVE i <= j /\ returned'[i].core = returned'[j].core
  <2>1. i + RespWords <= j + RespWords  BY <1>2, <1>5
  <2>2. i + RespWords \in DOMAIN returned /\ j + RespWords \in DOMAIN returned  BY <1>3, <1>5, Zenon
  <2> QED  BY <1>1, <1>5, <2>1, <2>2, Zenon DEF Ordered
<1>16. Ordered'  BY <1>1, <1>3, <1>6, <1>9, <1>15, Zenon DEF Ordered
<1> QED  BY <1>6, <1>7, <1>13, <1>14, <1>16, Zenon DEF r

-----------------------------------------------------------------------------
(* The queues of ids *)

\* What the proofs use of finite sets.
Counts(S) ==
  /\ Cardinality(S) \in Nat /\ (Cardinality(S) = 0 => S = {})
  /\ \A T \in SUBSET S : IsFiniteSet(T)
  /\ \A x : /\ IsFiniteSet(S \cup {x}) /\ (x \notin S => Cardinality(S \cup {x}) = Cardinality(S) + 1)
            /\ IsFiniteSet(S \ {x}) /\ (x \in S => Cardinality(S \ {x}) = Cardinality(S) - 1)
Counting == IsFiniteSet({}) /\ Cardinality({}) = 0 /\ \A S : IsFiniteSet(S) => Counts(S)

LEMMA HeldFinite ==
  ASSUME Counting, Known
  PROVE  \A k : IsFiniteSet(Wanted(k)) /\ Cardinality(Wanted(k)) \in Nat
<1>1. IsFiniteSet(Held) /\ \A k : Wanted(k) \subseteq Held  BY Zenon DEF Wanted, Known
<1> QED  BY <1>1, Zenon DEF Counting, Counts

LEMMA Unmoved ==
  ASSUME Counting, Types, Known, Queues, Counted, Matched, UNCHANGED << in_flight, mixed >>,
         Held' \subseteq Held, \A x \in Held : x.xd => x \in Held',
         \/ UNCHANGED << server, cmd, count >>
         \/ \E c \in Cores, xd \in BOOLEAN : Receive(c, xd)
         \/ Lock \/ SendWord
  PROVE  Known' /\ Queues' /\ Counted' /\ Matched'
<1>1. /\ (Sending' <=> Sending) /\ (Sending => cmd' = cmd)
      /\ count' \in Nat /\ count <= count'
      /\ server = "stalled" => server' = "stalled" \/ count < count'
      /\ \A x \in Held : /\ x.id <= count'
                         /\ x.id = count' => x = cmd' /\ server' \notin {"received", "locked"}
  <2>0. \A x \in Held : x.id \in Nat  BY HeldTypes, Zenon
  <2>1. CASE UNCHANGED << server, cmd, count >>
    BY <2>1, SMTT(20) DEF Sending, Types, Known
  <2>2. CASE \E c \in Cores, xd \in BOOLEAN : Receive(c, xd)
    BY <2>0, <2>2 DEF Receive, Sending, Types, Known
  <2>3. CASE Lock
    BY <2>3 DEF Lock, Sending, Types, Known, history
  <2>4. CASE SendWord
    <3>1. server = "sending" /\ server' \in {"sending", "sent"} /\ UNCHANGED << cmd, count >>
      BY <2>4, Zenon DEF SendWord, history
    <3> QED  BY <3>1 DEF Sending, Types, Known
  <2> QED  BY <2>1, <2>2, <2>3, <2>4, Zenon
<1>2. Known'
  <2>1. IsFiniteSet(Held')  BY Zenon DEF Counting, Counts, Known
  <2> QED  BY <1>1, <2>1, Zenon DEF Known, Sending
<1>3. Queues'
  <2> SUFFICES ASSUME NEW k \in Keys, NEW i \in DOMAIN in_flight[k]
               PROVE  in_flight[k][i].id <= count' /\ (server' # "stalled" => in_flight[k][i].id < count')
    BY Zenon DEF Queues
  <2>1. in_flight[k][i].id \in Nat
    <3>1. in_flight[k][i] \in Cmd  BY DEF Types
    <3> QED  BY <3>1, Zenon DEF Cmd
  <2>2. server = "stalled" => server' = "stalled" \/ count < count'  BY <1>1, Zenon
  <2> QED  BY <1>1, <2>1, <2>2, SMTT(20) DEF Queues, Types
<1>4. Counted'
  <2>1. \A k \in Keys : Wanted(k)' = Wanted(k)  BY Zenon DEF Wanted
  <2> QED  BY <1>1, <2>1, Zenon DEF Counted
<1>5. Matched'
  <2>1. \A k \in Keys : \A i \in DOMAIN in_flight[k] : in_flight[k][i].xd  BY Zenon DEF Queues
  <2> QED  BY <1>1, <2>1, SMTT(20) DEF Matched
<1> QED  BY <1>2, <1>3, <1>4, <1>5, Zenon

LEMMA LockBusQueues ==
  ASSUME Counting, Types, Ordered, Known, Queues, Counted, Matched, LockBus
  PROVE  Known' /\ Queues' /\ Counted' /\ Matched'
<1>1. /\ UNCHANGED << in_flight, mixed, cmd, count >> /\ server = "locked" /\ server' = "sending"
      /\ cmd \in Cmd /\ cmd.id = count
  BY Zenon DEF LockBus, history, Types
<1>2. Held' = Held \cup {cmd} /\ cmd \notin Held  BY LockBusOrdered, Zenon DEF Held
<1>3. \A x \in Held : x.id \in Nat /\ x.id < count  BY <1>1, HeldTypes DEF Known, Types
<1>4. count \in Nat  BY Zenon DEF Types
<1>5. Known'
  <2>1. IsFiniteSet(Held')  BY <1>2, Zenon DEF Counting, Counts, Known
  <2> QED  BY <1>1, <1>2, <1>3, <1>4, <2>1 DEF Known, Sending
<1>6. Queues'  BY <1>1, Zenon DEF Queues
<1>7. Counted'
  <2> SUFFICES ASSUME NEW k \in Keys
               PROVE  Cardinality(Wanted(k)') =
                        Len(in_flight[k]) + (IF cmd.xd /\ Key(cmd.core) = k THEN 1 ELSE 0)
    BY <1>1, Zenon DEF Counted, Sending
  <2>1. Cardinality(Wanted(k)) = Len(in_flight[k])
    <3>1. Cardinality(Wanted(k)) = Len(in_flight[k]) + 0 /\ Len(in_flight[k]) \in Nat
      BY <1>1 DEF Counted, Sending, Types
    <3> QED  BY <3>1
  <2>2. CASE cmd.xd /\ Key(cmd.core) = k
    <3>1. Wanted(k)' = Wanted(k) \cup {cmd} /\ cmd \notin Wanted(k)  BY <1>2, <2>2, Zenon DEF Wanted
    <3>2. Cardinality(Wanted(k) \cup {cmd}) = Cardinality(Wanted(k)) + 1
      BY <3>1, HeldFinite, Zenon DEF Counting, Counts
    <3> QED  BY <2>1, <2>2, <3>1, <3>2, Zenon
  <2>3. CASE ~(cmd.xd /\ Key(cmd.core) = k)
    <3>1. Wanted(k)' = Wanted(k)  BY <1>2, <2>3, Zenon DEF Wanted
    <3>2. Len(in_flight[k]) + 0 = Len(in_flight[k])  BY DEF Types
    <3> QED  BY <2>1, <2>3, <3>1, <3>2, Zenon
  <2> QED  BY <2>2, <2>3, Zenon
<1>8. Matched'
  <2>1. ~ Sending /\ (cmd.xd => Sending')  BY <1>1, Zenon DEF Sending
  <2> QED  BY <1>1, <1>2, <2>1 DEF Matched
<1> QED  BY <1>5, <1>6, <1>7, <1>8, Zenon

LEMMA NoteQueues ==
  ASSUME Counting, Types, Known, Queues, Counted, Matched, Note, Held' = Held
  PROVE  Known' /\ Queues' /\ Counted' /\ Matched'
<1>1. /\ UNCHANGED << cmd, count >> /\ server = "sent" /\ server' = "stalled"
      /\ cmd \in Cmd /\ cmd.id = count /\ count \in Nat
  BY Zenon DEF Note, Types
<1>2. Known'  BY <1>1, Zenon DEF Known, Sending
<1>3. CASE ~ cmd.xd
  <2>1. UNCHANGED << in_flight, mixed >>  BY <1>3, Zenon DEF Note, Types
  <2>2. ~ Sending /\ ~ Sending'  BY <1>1, <1>3, Zenon DEF Sending
  <2>3. \A k \in Keys : Wanted(k)' = Wanted(k)  BY Zenon DEF Wanted
  <2>4. Queues'  BY <1>1, <2>1, Zenon DEF Queues
  <2>5. Counted'  BY <2>1, <2>2, <2>3, Zenon DEF Counted
  <2>6. Matched'  BY <2>1, <2>2 DEF Matched
  <2> QED  BY <1>2, <2>4, <2>5, <2>6, Zenon
<1>4. CASE cmd.xd
  <2> DEFINE m == Key(cmd.core)
  <2>1. m \in Keys  BY <1>1, Zenon DEF Keys, Cmd
  <2> HIDE DEF m
  <2>2. /\ in_flight' = [in_flight EXCEPT ![m] = Append(in_flight[m], cmd)]
        /\ in_flight[m] \in Seq(Cmd) /\ in_flight \in [Keys -> Seq(Cmd)]
    BY <1>4, <2>1, Zenon DEF Note, Types, m
  <2>3. /\ in_flight'[m] \in Seq(Cmd) /\ Len(in_flight[m]) \in Nat
        /\ Len(in_flight'[m]) = Len(in_flight[m]) + 1
        /\ DOMAIN in_flight[m] = 1 .. Len(in_flight[m]) /\ DOMAIN in_flight'[m] = 1 .. Len(in_flight[m]) + 1
        /\ in_flight'[m][Len(in_flight[m]) + 1] = cmd
        /\ \A i \in DOMAIN in_flight[m] : in_flight'[m][i] = in_flight[m][i]
        /\ \A k \in Keys : k # m => in_flight'[k] = in_flight[k]
    BY <1>1, <2>1, <2>2
  <2>4. \A i \in DOMAIN in_flight[m] : in_flight[m][i].id < count  BY <1>1, <2>1, Zenon DEF Queues
  <2>5. \A i \in DOMAIN in_flight'[m] : i \in DOMAIN in_flight[m] \/ i = Len(in_flight[m]) + 1
    BY <2>3, SMTT(20)
  <2>6. Queues'
    <3>1. \A i, j \in DOMAIN in_flight'[m] : i < j => in_flight'[m][i].id < in_flight'[m][j].id
      <4> TAKE i, j \in DOMAIN in_flight'[m]
      <4> HAVE i < j
      <4>1. i \in DOMAIN in_flight[m]  BY <2>3
      <4>2. CASE j \in DOMAIN in_flight[m]  BY <2>1, <2>3, <4>1, <4>2, Zenon DEF Queues
      <4>3. CASE j = Len(in_flight[m]) + 1  BY <1>1, <2>3, <2>4, <4>1, <4>3, Zenon
      <4> QED  BY <2>5, <4>2, <4>3, Zenon
    <3>2. \A i \in DOMAIN in_flight'[m] :
            in_flight'[m][i].xd /\ Key(in_flight'[m][i].core) = m /\ in_flight'[m][i].id <= count
      BY <1>1, <1>4, <2>1, <2>3, <2>5 DEF Queues, m
    <3> QED  BY <1>1, <2>3, <3>1, <3>2, Zenon DEF Queues
  <2>7. Counted'
    <3> SUFFICES ASSUME NEW k \in Keys  PROVE Cardinality(Wanted(k)) = Len(in_flight'[k]) + 0
      <4>1. ~ Sending'  BY <1>1, Zenon DEF Sending
      <4>2. \A k \in Keys : Wanted(k)' = Wanted(k)  BY Zenon DEF Wanted
      <4> QED  BY <4>1, <4>2, Zenon DEF Counted
    <3>1. Cardinality(Wanted(k)) = Len(in_flight[k]) + (IF m = k THEN 1 ELSE 0)
      BY <1>1, <1>4, Zenon DEF Counted, Sending, m
    <3>2. Len(in_flight[k]) \in Nat  BY DEF Types
    <3>3. CASE k = m
      <4>1. Len(in_flight'[k]) = Len(in_flight[k]) + 1 /\ Cardinality(Wanted(k)) = Len(in_flight[k]) + 1
        BY <2>3, <3>1, <3>3, Zenon
      <4> QED  BY <3>2, <4>1
    <3>4. CASE k # m
      <4>1. Len(in_flight'[k]) = Len(in_flight[k]) /\ Cardinality(Wanted(k)) = Len(in_flight[k]) + 0
        BY <2>3, <3>1, <3>4, Zenon
      <4> QED  BY <4>1, Zenon
    <3> QED  BY <3>3, <3>4, Zenon
  <2>8. Matched'
    <3> SUFFICES ASSUME ~ mixed'  PROVE Matched'
      BY Zenon DEF Matched
    <3>1. ~ mixed /\ \A i \in DOMAIN in_flight[m] : in_flight[m][i].core = cmd.core
      BY <1>4, Zenon DEF Note, InFlight, m, Types
    <3>2. cmd \in Held  BY <1>1, <1>4, Zenon DEF Known, Sending
    <3>3. \A k \in Keys : \A i \in DOMAIN in_flight'[k] : in_flight'[k][i] \in Held'
      BY <2>3, <2>5, <3>1, <3>2, Zenon DEF Matched
    <3>4. \A k \in Keys : \A i, j \in DOMAIN in_flight'[k] : in_flight'[k][i].core = in_flight'[k][j].core
      <4> TAKE k \in Keys
      <4>1. CASE k = m  
        <5>1. \A i \in DOMAIN in_flight'[m] : in_flight'[m][i].core = cmd.core  BY <2>3, <2>5, <3>1, Zenon
        <5> QED  BY <4>1, <5>1, Zenon
      <4>2. CASE k # m  BY <2>3, <3>1, <4>2 DEF Matched
      <4> QED  BY <4>1, <4>2, Zenon
    <3>5. \A x \in Held : x.xd => \E i \in DOMAIN in_flight'[Key(x.core)] : in_flight'[Key(x.core)][i] = x
      <4> SUFFICES ASSUME NEW x \in Held, x.xd
                   PROVE  \E i \in DOMAIN in_flight'[Key(x.core)] : in_flight'[Key(x.core)][i] = x
        BY Zenon
      <4>1. CASE x = cmd
        <5>1. Len(in_flight[m]) + 1 \in DOMAIN in_flight'[m]  BY <2>3
        <5> QED  BY <2>3, <4>1, <5>1, Zenon DEF m
      <4>2. CASE x # cmd
        <5>1. PICK i \in DOMAIN in_flight[Key(x.core)] : in_flight[Key(x.core)][i] = x
          BY <3>1, <4>2, Zenon DEF Matched
        <5>2. Key(x.core) \in Keys  BY HeldTypes, Zenon DEF Keys
        <5>3. i \in DOMAIN in_flight'[Key(x.core)] /\ in_flight'[Key(x.core)][i] = x
          BY <2>3, <5>1, <5>2, SMTT(20)
        <5> QED  BY <5>3, Zenon
      <4> QED  BY <4>1, <4>2, Zenon
    <3> QED  BY <3>3, <3>4, <3>5, Zenon DEF Matched
  <2> QED  BY <1>2, <2>6, <2>7, <2>8, Zenon
<1> QED  BY <1>3, <1>4, Zenon

\* The queue of a response has its command, in front unless cores were mixed.
LEMMA RegisterFinds ==
  ASSUME Counting, Types, Ordered, Known, Queues, Counted, Matched, Register,
         NEW r, r = returned[1], NEW m, m = Key(r.core)
  PROVE  /\ r \in Held /\ r.xd /\ m \in Keys /\ ~ Sending /\ ~ Sending' /\ UNCHANGED << cmd, server, count, mixed >>
         /\ Held' = Held \ {r} /\ in_flight[m] # << >>
         /\ ended' = ended /\ in_flight' = [in_flight EXCEPT ![m] = Tail(in_flight[m])]
         /\ answered' = answered \cup {<< r.id, Head(in_flight[m]).id >>}
         /\ ~ mixed => Head(in_flight[m]) = r
<1>1. /\ Held' = Held \ {r} /\ r \in Answers /\ r = buf[Len(buf)] /\ r \in Held
      /\ \A x \in Held : x.core = r.core => r.id <= x.id
  BY RegisterOrdered, Zenon DEF Held
<1>2. r.xd /\ r \in Cmd /\ r.core \in Cores /\ m \in Keys
  BY <1>1, HeldTypes, Zenon DEF Ordered, Keys
<1>3. /\ ~ Sending /\ ~ Sending' /\ UNCHANGED << cmd, server, count, mixed >>
  BY Zenon DEF Register, serving, Types, Sending
<1>4. in_flight[m] # << >> /\ in_flight[m] \in Seq(Cmd)
  <2>1. in_flight[m] \in Seq(Cmd)  BY <1>2, Zenon DEF Types
  <2>2. Cardinality(Wanted(m)) = Len(in_flight[m]) + 0  BY <1>2, <1>3, Zenon DEF Counted
  <2>3. r \in Wanted(m)  BY <1>1, <1>2, Zenon DEF Wanted
  <2>4. IsFiniteSet(Wanted(m)) /\ Cardinality(Wanted(m)) \in Nat  BY HeldFinite, Zenon
  <2>5. Cardinality(Wanted(m)) # 0  BY <2>3, <2>4, Zenon DEF Counting, Counts
  <2>6. Len(in_flight[m]) # 0  BY <2>1, <2>2, <2>5, SMTT(20)
  <2> QED  BY <2>1, <2>6, Zenon
<1>5. /\ ended' = ended /\ in_flight' = [in_flight EXCEPT ![m] = Tail(in_flight[m])]
      /\ answered' = answered \cup {<< r.id, Head(in_flight[m]).id >>}
  BY <1>1, <1>4, Zenon DEF Register
<1>6. ASSUME ~ mixed  PROVE Head(in_flight[m]) = r
  <2>1. PICK i \in DOMAIN in_flight[m] : in_flight[m][i] = r
    BY <1>1, <1>2, <1>3, <1>6, Zenon DEF Matched
  <2>2. /\ 1 \in DOMAIN in_flight[m] /\ Head(in_flight[m]) = in_flight[m][1] /\ i \in Nat /\ 1 <= i
    BY <1>4, <2>1
  <2>3. /\ in_flight[m][1] \in Held /\ in_flight[m][1].core = r.core
    BY <1>2, <1>6, <2>1, <2>2 DEF Matched
  <2>4. r.id <= in_flight[m][1].id  BY <1>1, <2>3, Zenon
  <2>5. r.id \in Nat /\ in_flight[m][1].id \in Nat  BY <1>1, <2>3, HeldTypes, Zenon
  <2>6. i # 1 => in_flight[m][1].id < r.id  BY <1>2, <2>1, <2>2 DEF Queues
  <2> QED  BY <2>1, <2>2, <2>4, <2>5, <2>6, SMTT(20)
<1> QED  BY <1>1, <1>2, <1>3, <1>4, <1>5, <1>6, Zenon

LEMMA RegisterQueues ==
  ASSUME Counting, Types, Ordered, Known, Queues, Counted, Matched, Register
  PROVE  Known' /\ Queues' /\ Counted' /\ Matched'
<1>1. PICK r : r = returned[1]
  BY Zenon
<1>2. PICK m : m = Key(r.core)
  BY Zenon
<1>3. /\ r \in Held /\ r.xd /\ m \in Keys /\ ~ Sending /\ ~ Sending' /\ UNCHANGED << cmd, server, count, mixed >>
      /\ Held' = Held \ {r} /\ in_flight[m] # << >>
      /\ in_flight' = [in_flight EXCEPT ![m] = Tail(in_flight[m])]
      /\ ~ mixed => Head(in_flight[m]) = r
  BY <1>1, <1>2, RegisterFinds, Zenon
<1>4. /\ in_flight[m] \in Seq(Cmd) /\ in_flight \in [Keys -> Seq(Cmd)]  BY <1>3, Zenon DEF Types
<1>5. /\ Len(in_flight[m]) \in Nat /\ Len(in_flight'[m]) = Len(in_flight[m]) - 1
      /\ in_flight'[m] \in Seq(Cmd)
      /\ DOMAIN in_flight[m] = 1 .. Len(in_flight[m]) /\ DOMAIN in_flight'[m] = 1 .. Len(in_flight[m]) - 1
      /\ \A i \in DOMAIN in_flight'[m] : in_flight'[m][i] = in_flight[m][i + 1]
      /\ \A k \in Keys : k # m => in_flight'[k] = in_flight[k]
  BY <1>3, <1>4
<1>6. \A i \in DOMAIN in_flight'[m] : i + 1 \in DOMAIN in_flight[m] /\ i + 1 # 1  BY <1>5
<1>7. Known'
  <2>1. IsFiniteSet(Held')  BY <1>3, Zenon DEF Counting, Counts, Known
  <2> QED  BY <1>3, <2>1, Zenon DEF Known
<1>8. Queues'
  <2>1. \A i, j \in DOMAIN in_flight'[m] : i < j => in_flight'[m][i].id < in_flight'[m][j].id
    <3> TAKE i, j \in DOMAIN in_flight'[m]
    <3> HAVE i < j
    <3>1. i + 1 < j + 1  BY <1>5, SMTT(20)
    <3> QED  BY <1>3, <1>5, <1>6, <3>1 DEF Queues
  <2>2. \A i \in DOMAIN in_flight'[m] :
          /\ in_flight'[m][i].xd /\ Key(in_flight'[m][i].core) = m /\ in_flight'[m][i].id <= count
          /\ server # "stalled" => in_flight'[m][i].id < count
    BY <1>3, <1>5, <1>6 DEF Queues
  <2> QED  BY <1>3, <1>5, <2>1, <2>2, SMTT(20) DEF Queues
<1>9. Counted'
  <2> SUFFICES ASSUME NEW k \in Keys  PROVE Cardinality(Wanted(k)') = Len(in_flight'[k]) + 0
    BY <1>3, Zenon DEF Counted
  <2>1. Cardinality(Wanted(k)) = Len(in_flight[k]) /\ Len(in_flight[k]) \in Nat
    <3>1. Cardinality(Wanted(k)) = Len(in_flight[k]) + 0 /\ Len(in_flight[k]) \in Nat
      BY <1>3 DEF Counted, Types
    <3> QED  BY <3>1
  <2>2. CASE k = m
    <3>1. Wanted(k)' = Wanted(k) \ {r} /\ r \in Wanted(k)  BY <1>2, <1>3, <2>2, Zenon DEF Wanted
    <3>2. Cardinality(Wanted(k) \ {r}) = Cardinality(Wanted(k)) - 1
      BY <3>1, HeldFinite, Zenon DEF Counting, Counts
    <3> QED  BY <1>5, <2>1, <2>2, <3>1, <3>2
  <2>3. CASE k # m
    <3>1. Wanted(k)' = Wanted(k)  BY <1>2, <1>3, <2>3, Zenon DEF Wanted
    <3> QED  BY <1>5, <2>1, <2>3, <3>1
  <2> QED  BY <2>2, <2>3, Zenon
<1>10. Matched'
  <2> SUFFICES ASSUME ~ mixed  PROVE Matched'
    BY <1>3, Zenon DEF Matched
  <2>1. in_flight[m][1] = r  BY <1>3, <1>4
  <2>2. \A i \in DOMAIN in_flight[m] : i # 1 => in_flight[m][i] # r
    <3> TAKE i \in DOMAIN in_flight[m]
    <3> HAVE i # 1
    <3>1. 1 \in DOMAIN in_flight[m] /\ 1 < i  BY <1>5
    <3>2. in_flight[m][1].id < in_flight[m][i].id  BY <1>3, <3>1, Zenon DEF Queues
    <3>3. r.id \in Nat  BY <1>3, HeldTypes, Zenon
    <3> QED  BY <2>1, <3>2, <3>3
  <2>3. \A k \in Keys : k # m => \A i \in DOMAIN in_flight[k] : in_flight[k][i] # r
    BY <1>2, Zenon DEF Queues
  <2>4. \A k \in Keys : \A i \in DOMAIN in_flight'[k] : in_flight'[k][i] \in Held'
    <3> TAKE k \in Keys
    <3>1. CASE k = m  BY <1>3, <1>5, <1>6, <2>2, <3>1 DEF Matched
    <3>2. CASE k # m  BY <1>3, <1>5, <2>3, <3>2 DEF Matched
    <3> QED  BY <3>1, <3>2, Zenon
  <2>5. \A k \in Keys : \A i, j \in DOMAIN in_flight'[k] : in_flight'[k][i].core = in_flight'[k][j].core
    <3> TAKE k \in Keys
    <3>1. CASE k = m  BY <1>3, <1>5, <1>6, <3>1, SMTT(20) DEF Matched
    <3>2. CASE k # m  BY <1>5, <3>2 DEF Matched
    <3> QED  BY <3>1, <3>2, Zenon
  <2>6. \A x \in Held' : x.xd => \E i \in DOMAIN in_flight'[Key(x.core)] : in_flight'[Key(x.core)][i] = x
    <3> SUFFICES ASSUME NEW x \in Held', x.xd
                 PROVE  \E i \in DOMAIN in_flight'[Key(x.core)] : in_flight'[Key(x.core)][i] = x
      BY Zenon
    <3>1. x \in Held /\ x # r /\ Key(x.core) \in Keys  BY <1>3, HeldTypes, Zenon DEF Keys
    <3>2. PICK i \in DOMAIN in_flight[Key(x.core)] : in_flight[Key(x.core)][i] = x
      BY <1>3, <3>1, Zenon DEF Matched
    <3>3. CASE Key(x.core) = m
      <4>1. i # 1  BY <2>1, <3>1, <3>2, <3>3, Zenon
      <4>2. i - 1 \in DOMAIN in_flight'[m] /\ (i - 1) + 1 = i  BY <1>5, <3>2, <3>3, <4>1
      <4>3. in_flight'[m][i - 1] = x  BY <1>5, <3>2, <3>3, <4>2, Zenon
      <4> QED  BY <3>3, <4>2, <4>3, Zenon
    <3>4. CASE Key(x.core) # m  BY <1>5, <3>1, <3>2, <3>4, Zenon
    <3> QED  BY <3>3, <3>4, Zenon
  <2> QED  BY <1>3, <2>4, <2>5, <2>6, Zenon DEF Matched
<1> QED  BY <1>7, <1>8, <1>9, <1>10, Zenon

-----------------------------------------------------------------------------
(* Every step *)

LEMMA HardwareStep ==
  ASSUME Counting, Hardware, Next
  PROVE  Hardware'
<1> USE DEF Hardware
<1>1. Types'  BY ServerTypes, PollerTypes, CoreTypes, Zenon DEF Next, Server
<1>2. CASE \/ \E c \in Cores, xd \in BOOLEAN : Receive(c, xd)
           \/ Lock \/ SendWord \/ SemWait \/ PeekValid \/ ReadWord
  <2>1. issued' = issued /\ returned' = returned /\ busy' = busy  BY <1>2, Silent, Zenon
  <2>2. Waiting' = Waiting /\ Running' = Running /\ Answers' = Answers /\ Held' = Held
    BY <2>1, Zenon DEF Waiting, Running, Answers, Held
  <2>3. Ordered'  BY <2>1, <2>2, Zenon DEF Ordered
  <2>4. UNCHANGED << in_flight, mixed >>
    BY <1>2, Zenon DEF Receive, Lock, SendWord, SemWait, PeekValid, ReadWord, history
  <2>5. \/ UNCHANGED << server, cmd, count >>
        \/ \E c \in Cores, xd \in BOOLEAN : Receive(c, xd)
        \/ Lock \/ SendWord
    BY <1>2, Zenon DEF SemWait, PeekValid, ReadWord, serving, history
  <2> QED  BY <1>1, <2>2, <2>3, <2>4, <2>5, Unmoved, Zenon
<1>3. CASE Note
  <2>1. issued' = issued /\ returned' = returned /\ busy' = busy  BY <1>3, Silent, Zenon
  <2>2. Waiting' = Waiting /\ Running' = Running /\ Answers' = Answers /\ Held' = Held
    BY <2>1, Zenon DEF Waiting, Running, Answers, Held
  <2>3. Ordered'  BY <2>1, <2>2, Zenon DEF Ordered
  <2> QED  BY <1>1, <1>3, <2>2, <2>3, NoteQueues, Zenon
<1>4. CASE LockBus  BY <1>1, <1>4, LockBusOrdered, LockBusQueues, Zenon
<1>5. CASE Register  BY <1>1, <1>5, RegisterOrdered, RegisterQueues, Zenon
<1>6. CASE Start
  <2>1. UNCHANGED << in_flight, mixed, server, cmd, count >>  BY <1>6, Zenon DEF Start, serving, history
  <2> QED  BY <1>1, <1>6, <2>1, StartOrdered, Unmoved, Zenon
<1>7. ASSUME NEW c \in Cores, Finish(c)  PROVE Hardware'
  <2>1. UNCHANGED << in_flight, mixed, server, cmd, count >>  BY <1>7, Zenon DEF Finish, serving, history
  <2> QED  BY <1>1, <1>7, <2>1, FinishOrdered, Unmoved, Zenon
<1> QED  BY <1>2, <1>3, <1>4, <1>5, <1>6, <1>7, Zenon DEF Next, Server, Poller

LEMMA WokenStep ==
  ASSUME Counting, Hardware, Woken, Next
  PROVE  Woken'
<1> USE DEF Hardware
<1>1. Cardinality(Noted) \in Nat /\ processes_waiting \in Nat  BY Zenon DEF Counting, Counts, Woken, Types
<1>2. CASE Note
  <2>1. /\ UNCHANGED << cmd, poller, processes_waiting >> /\ server = "sent" /\ server' = "stalled"
        /\ cmd \in Cmd /\ cmd.id = count /\ count \in Nat
    BY <1>2, Zenon DEF Note, polling, Types
  <2>2. CASE ~ cmd.xd
    <3>1. in_flight' = in_flight /\ Noted' = Noted  BY <1>2, <2>2 DEF Note, Noted, InFlight
    <3> QED  BY <2>1, <2>2, <3>1, Zenon DEF Woken
  <2>3. CASE cmd.xd
    <3>1. Key(cmd.core) \in Keys /\ \A c \in Cores : Key(c) \in Keys  BY <2>1, Zenon DEF Keys, Cmd
    <3>2. in_flight' = [in_flight EXCEPT ![Key(cmd.core)] = Append(in_flight[Key(cmd.core)], cmd)]
      BY <1>2, <2>3, Zenon DEF Note
    <3>3. \A c \in Cores : InFlight(c)' = IF Key(c) = Key(cmd.core) THEN InFlight(c) \cup {cmd} ELSE InFlight(c)
      <4> TAKE c \in Cores
      <4>1. CASE Key(c) # Key(cmd.core)  BY <3>1, <3>2, <4>1, Zenon DEF InFlight, Types
      <4>2. CASE Key(c) = Key(cmd.core)
        <5>1. PICK q \in Seq(Cmd) : q = in_flight[Key(c)]  BY <3>1, Zenon DEF Types
        <5>2. in_flight'[Key(c)] = Append(q, cmd)  BY <3>1, <3>2, <4>2, <5>1, Zenon DEF Types
        <5>3. {Append(q, cmd)[i] : i \in DOMAIN Append(q, cmd)} = {q[i] : i \in DOMAIN q} \cup {cmd}
          <6>1. /\ DOMAIN q = 1 .. Len(q) /\ DOMAIN Append(q, cmd) = 1 .. Len(q) + 1 /\ Len(q) \in Nat
                /\ \A i \in 1 .. Len(q) : Append(q, cmd)[i] = q[i] /\ i \in 1 .. Len(q) + 1
                /\ Append(q, cmd)[Len(q) + 1] = cmd /\ Len(q) + 1 \in 1 .. Len(q) + 1
                /\ \A i \in 1 .. Len(q) + 1 : i \in 1 .. Len(q) \/ i = Len(q) + 1
            BY <2>1
          <6> QED  BY <6>1, Zenon
        <5> QED  BY <4>2, <5>1, <5>2, <5>3, SMTT(20) DEF InFlight
      <4> QED  BY <4>1, <4>2, Zenon
    <3>4. Noted' = Noted \cup {cmd}
      <4>1. cmd.core \in Cores  BY <2>1, Zenon DEF Cmd
      <4> QED  BY <3>3, <4>1 DEF Noted
    <3>5. cmd \notin Noted
      <4>1. \A c \in Cores : \A i \in DOMAIN in_flight[Key(c)] : in_flight[Key(c)][i].id < count
        BY <2>1, <3>1, Zenon DEF Queues
      <4>2. \A x \in Noted : x.id < count  BY <4>1, Zenon DEF Noted, InFlight
      <4> QED  BY <2>1, <4>2
    <3>6. Cardinality(Noted \cup {cmd}) = Cardinality(Noted) + 1 /\ IsFiniteSet(Noted \cup {cmd})
      BY <3>5, Zenon DEF Counting, Counts, Woken
    <3>7. processes_waiting + (IF poller = "sem_wait" THEN 0 ELSE 1) = Cardinality(Noted) + 1
      BY <2>1, <2>3, Zenon DEF Woken
    <3>8. processes_waiting + (IF poller = "sem_wait" THEN 0 ELSE 1) = (Cardinality(Noted) + 1) + 0
      BY <1>1, <3>7
    <3> QED  BY <2>1, <3>4, <3>6, <3>8, Zenon DEF Woken
  <2> QED  BY <2>2, <2>3, Zenon
<1>3. CASE Register
  <2>1. PICK r : r = returned[1]
    BY Zenon
  <2>2. PICK m : m = Key(r.core)
    BY Zenon
  <2>3. /\ m \in Keys /\ UNCHANGED << cmd, server >> /\ in_flight[m] # << >>
        /\ in_flight' = [in_flight EXCEPT ![m] = Tail(in_flight[m])]
    BY <1>3, <2>1, <2>2, RegisterFinds, Zenon
  <2>4. PICK q \in Seq(Cmd) : q = in_flight[m] /\ q # << >>  BY <2>3, Zenon DEF Types
  <2>5. /\ DOMAIN q = 1 .. Len(q) /\ Len(q) \in Nat /\ 1 \in 1 .. Len(q) /\ Head(q) = q[1]
        /\ DOMAIN Tail(q) = 1 .. Len(q) - 1
        /\ \A i \in 1 .. Len(q) - 1 : Tail(q)[i] = q[i + 1] /\ i + 1 \in 1 .. Len(q) /\ 1 < i + 1
        /\ \A i \in 1 .. Len(q) : i # 1 => i - 1 \in 1 .. Len(q) - 1 /\ (i - 1) + 1 = i /\ 1 < i
    BY <2>4, SMTT(20)
  <2>6. \A i \in 1 .. Len(q) : 1 < i => q[i] # q[1]
    <3>1. q[1] \in Cmd  BY <2>4, <2>5
    <3>2. q[1].id \in Nat  BY <3>1, Zenon DEF Cmd
    <3> QED  BY <2>3, <2>4, <2>5, <3>2 DEF Queues
  <2>7. {Tail(q)[i] : i \in DOMAIN Tail(q)} = {q[i] : i \in DOMAIN q} \ {q[1]}
    <3>1. \A i \in 1 .. Len(q) - 1 : Tail(q)[i] \in {q[j] : j \in DOMAIN q} \ {q[1]}
      BY <2>5, <2>6
    <3>2. \A i \in 1 .. Len(q) : q[i] # q[1] => \E j \in 1 .. Len(q) - 1 : Tail(q)[j] = q[i]
      BY <2>5
    <3>3. DOMAIN q = 1 .. Len(q) /\ DOMAIN Tail(q) = 1 .. Len(q) - 1  BY <2>5, Zenon
    <3>4. ASSUME NEW x \in {q[i] : i \in 1 .. Len(q)}, x # q[1]
          PROVE  x \in {Tail(q)[i] : i \in 1 .. Len(q) - 1}
      <4>1. PICK i \in 1 .. Len(q) : x = q[i]  BY <3>4, Zenon
      <4>2. PICK j \in 1 .. Len(q) - 1 : Tail(q)[j] = x  BY <3>2, <3>4, <4>1, Zenon
      <4> QED  BY <4>2, Zenon
    <3>5. \A x \in {Tail(q)[i] : i \in 1 .. Len(q) - 1} : x \in {q[j] : j \in 1 .. Len(q)} \ {q[1]}
      BY <3>1, <3>3, Zenon
    <3> QED  BY <3>3, <3>4, <3>5, Zenon
  <2>8. \A c \in Cores : InFlight(c)' = InFlight(c) \ {q[1]}
    <3> TAKE c \in Cores
    <3>1. Key(c) \in Keys  BY Zenon DEF Keys
    <3>2. CASE Key(c) = m
      <4>1. in_flight'[Key(c)] = Tail(q)  BY <2>3, <2>4, <3>2, Zenon DEF Types
      <4> QED  BY <2>4, <2>7, <3>2, <4>1, SMTT(20) DEF InFlight
    <3>3. CASE Key(c) # m
      <4>1. in_flight'[Key(c)] = in_flight[Key(c)]  BY <2>3, <3>1, <3>3, Zenon DEF Types
      <4>2. Key(q[1].core) = m  BY <2>3, <2>4, <2>5, Zenon DEF Queues
      <4>3. \A i \in DOMAIN in_flight[Key(c)] : in_flight[Key(c)][i] # q[1]  BY <3>1, <3>3, <4>2, Zenon DEF Queues
      <4> QED  BY <4>1, <4>3, Zenon DEF InFlight
    <3> QED  BY <3>2, <3>3, Zenon
  <2>9. Noted' = Noted \ {q[1]}  BY <2>8 DEF Noted
  <2>10. q[1] \in Noted
    <3>1. PICK c \in Cores : Key(c) = m  BY <2>3, Zenon DEF Keys
    <3>2. q[1] \in InFlight(c)  BY <2>4, <2>5, <3>1, Zenon DEF InFlight
    <3> QED  BY <3>2, Zenon DEF Noted
  <2>11. Cardinality(Noted \ {q[1]}) = Cardinality(Noted) - 1 /\ IsFiniteSet(Noted \ {q[1]})
    BY <2>10, Zenon DEF Counting, Counts, Woken
  <2>12. UNCHANGED processes_waiting /\ poller = "register" /\ poller' = "sem_wait"  BY <1>3, Zenon DEF Register
  <2> DEFINE own == IF cmd.xd /\ server \in {"locked", "sending", "sent"} THEN 1 ELSE 0
  <2>13. processes_waiting + 1 = Cardinality(Noted) + own /\ own \in Nat
    BY <2>12, Zenon DEF Woken
  <2> HIDE DEF own
  <2>14. processes_waiting + 0 = (Cardinality(Noted) - 1) + own  BY <1>1, <2>13
  <2> QED  BY <2>3, <2>9, <2>11, <2>12, <2>14, Zenon DEF Woken, own
<1>4. CASE ~(Note \/ Register)
  <2>1. Noted' = Noted
    <3>1. in_flight' = in_flight
      BY <1>4, Zenon DEF Next, Server, Poller, Receive, Lock, LockBus, SendWord, SemWait, PeekValid, ReadWord, Start, Finish
    <3> QED  BY <3>1, SMTT(20) DEF Noted, InFlight
  <2>2. CASE Lock
    <3>1. UNCHANGED << cmd, poller >> /\ server = "received" /\ server' = "locked"
          /\ processes_waiting' = processes_waiting + (IF cmd.xd THEN 1 ELSE 0)
      BY <2>2, Zenon DEF Lock, polling
    <3> QED  BY <1>1, <2>1, <3>1 DEF Woken
  <2>3. CASE SemWait
    <3>1. UNCHANGED << cmd, server >> /\ poller = "sem_wait" /\ poller' = "peek"
          /\ processes_waiting' = processes_waiting - 1
      BY <2>3, Zenon DEF SemWait, serving
    <3> QED  BY <1>1, <2>1, <3>1 DEF Woken
  <2>4. CASE \E c \in Cores, xd \in BOOLEAN : Receive(c, xd)
    <3>1. UNCHANGED << poller, processes_waiting >> /\ server = "stalled" /\ server' = "received"
      BY <2>4, Zenon DEF Receive, polling
    <3> QED  BY <2>1, <3>1, Zenon DEF Woken
  <2>5. CASE LockBus \/ SendWord
    <3>1. /\ UNCHANGED << cmd, poller, processes_waiting >>
          /\ server \in {"locked", "sending"} /\ server' \in {"sending", "sent"}
      BY <2>5, Zenon DEF LockBus, SendWord, polling
    <3> QED  BY <2>1, <3>1, Zenon DEF Woken
  <2>6. CASE PeekValid \/ ReadWord \/ Start \/ \E c \in Cores : Finish(c)
    <3>1. /\ UNCHANGED << cmd, server, processes_waiting >>
          /\ (poller = "sem_wait") <=> (poller' = "sem_wait")
      BY <2>6, Zenon DEF PeekValid, ReadWord, Start, Finish, serving, polling
    <3> QED  BY <2>1, <3>1, Zenon DEF Woken
  <2> QED  BY <1>4, <2>2, <2>3, <2>4, <2>5, <2>6, Zenon DEF Next, Server, Poller
<1> QED  BY <1>2, <1>3, <1>4, Zenon

LEMMA AnswersStep ==
  ASSUME Counting, Hardware, NoBadResponse, OwnAnswer, Next
  PROVE  NoBadResponse' /\ OwnAnswer'
<1>1. CASE Register
  <2>1. PICK r : r = returned[1]
    BY Zenon
  <2>2. PICK m : m = Key(r.core)
    BY Zenon
  <2>3. /\ UNCHANGED << mixed, ended >>
        /\ answered' = answered \cup {<< r.id, Head(in_flight[m]).id >>}
        /\ ~ mixed => Head(in_flight[m]) = r
    BY <1>1, <2>1, <2>2, RegisterFinds, Zenon DEF Hardware
  <2> QED  BY <2>3 DEF NoBadResponse, OwnAnswer
<1>2. CASE ~ Register
  <2>1. CASE Note  BY <2>1, Zenon DEF Note, NoBadResponse, OwnAnswer
  <2>2. CASE ~ Note
    <3>1. UNCHANGED << ended, answered, mixed >>
      <4>1. CASE Start \/ \E c \in Cores : Finish(c)  BY <4>1, Zenon DEF Start, Finish, history
      <4>2. CASE SemWait \/ PeekValid \/ ReadWord  BY <4>2, Zenon DEF SemWait, PeekValid, ReadWord, history
      <4>3. CASE Lock \/ LockBus \/ SendWord  BY <4>3, Zenon DEF Lock, LockBus, SendWord, history
      <4>4. CASE \E c \in Cores, xd \in BOOLEAN : Receive(c, xd)  BY <4>4, Zenon DEF Receive
      <4> QED  BY <1>2, <2>2, <4>1, <4>2, <4>3, <4>4, Zenon DEF Next, Server, Poller
    <3> QED  BY <3>1, Zenon DEF NoBadResponse, OwnAnswer
  <2> QED  BY <2>1, <2>2, Zenon
<1> QED  BY <1>1, <1>2, Zenon

LEMMA InvInit ==
  ASSUME Counting, Init
  PROVE  IInv
<1> USE DEF Init
<1>1. Types
  <2>1. in_flight \in [Keys -> Seq(Cmd)]  BY DEF Keys
  <2>2. busy \in [Cores -> Cmd \cup {NoCmd}] /\ \A c \in Cores : busy[c] = NoCmd
    BY Zenon
  <2>3. cmd.id = count  BY Zenon DEF NoCmd
  <2>4. rx \in Seq(Cmd) /\ tx \in Seq(Cmd) /\ buf \in Seq(Cmd)
    OBVIOUS
  <2>5. \A c \in Cores : busy[c] # NoCmd => busy[c].core = c  BY <2>2, Zenon
  <2>6. mixed \in BOOLEAN /\ count \in Nat /\ sent \in Nat /\ processes_waiting \in Nat
    BY Zenon
  <2>7. cmdserverlock = IF server \in {"locked", "sending", "sent"} THEN "server" ELSE "none"
    BY Zenon
  <2> QED  BY <2>1, <2>2, <2>3, <2>4, <2>5, <2>6, <2>7, Zenon DEF Types
<1>2. issued = << >> /\ returned = << >> /\ Held = {} /\ Waiting = {} /\ Running = {} /\ Answers = {}
  <2>1. issued = << >> /\ returned = << >>  BY <1>1, IssuedWords, ReturnedWords, Zenon
  <2> QED  BY <2>1 DEF Held, Waiting, Running, Answers
<1>3. Ordered
  <2>1. DOMAIN issued = {} /\ DOMAIN returned = {}  BY <1>2
  <2>2. Pipe(issued, CmdWords) /\ Pipe(returned, RespWords)  BY <2>1, Zenon DEF Pipe
  <2> QED  BY <1>2, <2>1, <2>2, Zenon DEF Ordered
<1>4. Known  BY <1>2, Zenon DEF Counting, Counts, Known, Sending
<1>5. \A k \in Keys : in_flight[k] = << >>  BY Zenon DEF Keys
<1>6. Queues /\ Matched  BY <1>2, <1>5 DEF Queues, Matched
<1>7. Counted
  <2>1. \A k \in Keys : Wanted(k) = {} /\ Len(in_flight[k]) = 0  BY <1>2, <1>5 DEF Wanted
  <2>2. Cardinality({}) = 0  BY Zenon DEF Counting, Counts
  <2>3. \A k \in Keys : Cardinality(Wanted(k)) = 0  BY <2>1, <2>2, Zenon
  <2>4. ~ Sending  BY Zenon DEF Sending
  <2> QED  BY <2>1, <2>3, <2>4 DEF Counted
<1>8. Woken
  <2>1. Noted = {}  BY <1>5 DEF Noted, InFlight, Keys
  <2> QED  BY <2>1, Zenon DEF Counting, Counts, Woken
<1> QED  BY <1>1, <1>3, <1>4, <1>6, <1>7, <1>8, Zenon DEF IInv, Hardware, NoBadResponse, OwnAnswer

LEMMA InvStep ==
  ASSUME Counting, IInv, [Next]_vars
  PROVE  IInv'
<1>1. CASE Next  BY <1>1, HardwareStep, WokenStep, AnswersStep, Zenon DEF IInv
<1>2. CASE UNCHANGED vars
  <2>1. UNCHANGED << issued, returned, busy, Waiting, Running, Answers, Held, Noted >>
    <3>1. UNCHANGED << server, cmd, sent, poller, buf, rx, busy, tx, in_flight >>
      BY <1>2, Zenon DEF vars, serving, polling, hardware
    <3>2. UNCHANGED << issued, returned, busy >>  BY <3>1, Zenon DEF issued, returned
    <3>3. UNCHANGED << Waiting, Running, Answers >>  BY <3>2, Zenon DEF Waiting, Running, Answers
    <3>4. UNCHANGED Noted  BY <3>1 DEF Noted, InFlight
    <3> QED  BY <3>2, <3>3, <3>4, Zenon DEF Held
  <2>2. \A k : Wanted(k)' = Wanted(k)  BY <2>1, Zenon DEF Wanted
  <2>3. Types' /\ Queues'  BY <1>2, Zenon DEF vars, serving, polling, hardware, history, IInv, Hardware, Types, Queues
  <2>4. Ordered' /\ Known'
    BY <1>2, <2>1, Zenon DEF vars, serving, history, IInv, Hardware, Ordered, Known, Sending
  <2>5. Counted' /\ Matched'
    <3>1. in_flight' = in_flight /\ mixed' = mixed /\ cmd' = cmd /\ Sending' = Sending
      BY <1>2, Zenon DEF vars, serving, history, Sending
    <3>2. \A k \in Keys : Cardinality(Wanted(k)') = Cardinality(Wanted(k))  BY <2>2, Zenon
    <3>3. Counted'  BY <3>1, <3>2, Zenon DEF IInv, Hardware, Counted
    <3> QED  BY <2>1, <3>1, <3>3 DEF IInv, Hardware, Matched
  <2>6. Woken' /\ NoBadResponse' /\ OwnAnswer'
    BY <1>2, <2>1, Zenon DEF vars, serving, polling, history, IInv, Woken, NoBadResponse, OwnAnswer
  <2> QED  BY <2>3, <2>4, <2>5, <2>6, Zenon DEF IInv, Hardware
<1> QED  BY <1>1, <1>2, Zenon

\* The library comes in here only, since what is in scope slows every proof.
LOCAL F == INSTANCE FiniteSetTheorems

LEMMA FiniteSetsCount == Counting
<1>1. \A S : F!IsFiniteSet(S) = IsFiniteSet(S)  BY Zenon DEF F!IsFiniteSet, IsFiniteSet
<1>2. \A S : F!Cardinality(S) = Cardinality(S)  BY Zenon DEF F!Cardinality, Cardinality
<1>3. ASSUME NEW S, IsFiniteSet(S)  PROVE Counts(S)
  <2> F!IsFiniteSet(S)  BY <1>1, <1>3, Zenon
  <2>1. Cardinality(S) \in Nat  BY <1>2, F!FS_CardinalityType, Zenon
  <2>2. Cardinality(S) = 0 => S = {}  BY <1>2, F!FS_EmptySet, Zenon
  <2>3. \A T \in SUBSET S : IsFiniteSet(T)  BY <1>1, F!FS_Subset, Zenon
  <2>4. \A x : IsFiniteSet(S \cup {x}) /\ (x \notin S => Cardinality(S \cup {x}) = Cardinality(S) + 1)
    BY <1>1, <1>2, F!FS_AddElement, Zenon
  <2>5. \A x : IsFiniteSet(S \ {x}) /\ (x \in S => Cardinality(S \ {x}) = Cardinality(S) - 1)
    BY <1>1, <1>2, F!FS_RemoveElement, Zenon
  <2> QED  BY <2>1, <2>2, <2>3, <2>4, <2>5, Zenon DEF Counts
<1>4. IsFiniteSet({}) /\ Cardinality({}) = 0  BY <1>1, <1>2, F!FS_EmptySet, Zenon
<1>5. \A S : IsFiniteSet(S) => Counts(S)  BY <1>3, Zenon
<1> QED  BY <1>4, <1>5, Zenon DEF Counting

\* Every reachable state has its commands and responses in order, a queue of
\* ids that counts them and a semaphore that counts the ids.
THEOREM FpgaInvariant == Spec => []IInv
<1>1. Init => IInv  BY InvInit, FiniteSetsCount, Zenon
<1>2. IInv /\ [Next]_vars => IInv'  BY InvStep, FiniteSetsCount, Zenon
<1> QED  BY <1>1, <1>2, PTL DEF Spec

\* However the two threads and the cores interleave, a response is taken only
\* when its core's queue has an id: the program never ends on a bad response,
\* not even when cores of one key were mixed.
THEOREM NeverBadResponse == Spec => []NoBadResponse
<1>1. IInv => NoBadResponse  BY Zenon DEF IInv
<1> QED  BY <1>1, FpgaInvariant, PTL

\* A response goes to its own command as long as no two cores whose ids agree
\* in the low 8 bits were in flight together.
THEOREM ResponsesGoHome == Spec => []OwnAnswer
<1>1. IInv => OwnAnswer  BY Zenon DEF IInv
<1> QED  BY <1>1, FpgaInvariant, PTL

\* No wake of the poller is lost and none is left over.
THEOREM WokenOnce == Spec => []WakesExact
<1>1. IInv => WakesExact  BY Zenon DEF IInv, Woken, WakesExact, Noted
<1> QED  BY <1>1, FpgaInvariant, PTL
=============================================================================
