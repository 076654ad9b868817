-------------------------- MODULE RemotePtrProofs --------------------------
(***************************************************************************)
(* The reference counts of RemotePtr are right for any number of threads,  *)
(* handles and buffers and any width of the count.                         *)
(***************************************************************************)
EXTENDS RemotePtr, FiniteSetTheorems, TLAPS

\* The handles that count as references to buffer b.
Sharers(b) == {h \in alive : ptr[h].buf = b}

Types ==
  /\ alive \subseteq Handle
  /\ ptr \in [Handle -> [buf : 0 .. Bufs, host : Int, len : Int, offset : Int]]
  /\ count \in [Buf -> 0 .. Word - 1]
  /\ mapped \in [Buf -> SUBSET Int]
  /\ made \in 0 .. Bufs
  /\ wrapped \in BOOLEAN /\ lost \in BOOLEAN
  /\ DOMAIN op = Thread

\* Every handle still knows where its buffer begins and ends.
Shapes ==
  \A h \in Handle :
    ptr[h].buf # 0 => /\ ptr[h].buf <= made
                      /\ ptr[h].host = ptr[h].offset
                      /\ ptr[h].len + ptr[h].offset = Size

\* A thread inside a copy keeps the source, which holds the buffer meanwhile.
Copying(t) ==
  \/ op[t] = Idle
  \/ /\ op[t].step = "take"
     /\ op[t].h \in Handle \ alive /\ ptr[op[t].h].buf # 0
     /\ \E g \in alive : Owner[g] = t /\ ptr[g].buf = ptr[op[t].h].buf
  \/ /\ op[t].step = "assign"
     /\ op[t].h \in Handle \ alive
     /\ op[t].g \in alive /\ Owner[op[t].g] = t
Copies ==
  /\ \A t \in Thread : Copying(t)
  /\ \A s, t \in Thread : op[s] # Idle /\ op[t] # Idle /\ op[s].h = op[t].h => s = t

\* The count of a buffer is at least the number of its handles, and exactly
\* that when none was forgotten; the buffer is mapped while it is not 0.
Counted(b) ==
  /\ count[b] >= Cardinality(Sharers(b))
  /\ ~ lost => count[b] = Cardinality(Sharers(b))
  /\ mapped[b] = IF count[b] = 0 THEN {} ELSE Bytes
Counts ==
  /\ ~ wrapped => \A b \in Buf : Counted(b)
  /\ ~ wrapped => \A b \in Buf : b > made => count[b] = 0

IInv == Types /\ Shapes /\ Copies /\ Counts

-----------------------------------------------------------------------------
\* A buffer has finitely many handles.
LEMMA SharersFinite ==
  ASSUME Types
  PROVE  \A b : IsFiniteSet(Sharers(b)) /\ Cardinality(Sharers(b)) \in Nat
<1>1. IsFiniteSet(Handle)  BY RemotePtrAssumption, Zenon DEF RemotePtrAssumption
<1>2. ASSUME NEW b  PROVE IsFiniteSet(Sharers(b))
  <2>1. Sharers(b) \in SUBSET Handle  BY Zenon DEF Sharers, Types
  <2> QED  BY <1>1, <2>1, FS_Subset, Zenon
<1> QED  BY <1>2, FS_CardinalityType, Zenon

\* One handle less, one more, or one for another, in numbers.
LEMMA OneLess ==
  ASSUME Types, NEW b, NEW h \in Sharers(b)
  PROVE  Cardinality(Sharers(b) \ {h}) = Cardinality(Sharers(b)) - 1 /\ Cardinality(Sharers(b)) >= 1
<1>1. IsFiniteSet(Sharers(b)) /\ Cardinality(Sharers(b)) \in Nat  BY SharersFinite, Zenon
<1>2. Cardinality(Sharers(b) \ {h}) = Cardinality(Sharers(b)) - 1  BY <1>1, FS_RemoveElement, Zenon
<1>3. IsFiniteSet(Sharers(b) \ {h})  BY <1>1, FS_RemoveElement, Zenon
<1>4. Cardinality(Sharers(b) \ {h}) \in Nat  BY <1>3, FS_CardinalityType, Zenon
<1> QED  BY <1>1, <1>2, <1>4
LEMMA OneMore ==
  ASSUME Types, NEW b, NEW h, h \notin Sharers(b)
  PROVE  Cardinality(Sharers(b) \cup {h}) = Cardinality(Sharers(b)) + 1
BY SharersFinite, FS_AddElement, Zenon
LEMMA OneForAnother ==
  ASSUME Types, NEW b, NEW g \in Sharers(b), NEW h, h \notin Sharers(b)
  PROVE  Cardinality((Sharers(b) \ {g}) \cup {h}) = Cardinality(Sharers(b))
<1>1. IsFiniteSet(Sharers(b)) /\ Cardinality(Sharers(b)) \in Nat  BY SharersFinite, Zenon
<1>2. IsFiniteSet(Sharers(b) \ {g}) /\ Cardinality(Sharers(b) \ {g}) = Cardinality(Sharers(b)) - 1
  BY <1>1, FS_RemoveElement, Zenon
<1>3. h \notin Sharers(b) \ {g}  BY Zenon
<1>4. Cardinality((Sharers(b) \ {g}) \cup {h}) = Cardinality(Sharers(b) \ {g}) + 1
  BY <1>2, <1>3, FS_AddElement, Zenon
<1> QED  BY <1>1, <1>2, <1>4

\* A buffer with a handle has a count that is not 0.
LEMMA SharedCounted ==
  ASSUME IInv, ~ wrapped, NEW b \in Buf, NEW h \in Sharers(b)
  PROVE  count[b] \in Nat /\ count[b] > 0 /\ mapped[b] = Bytes
<1>1. Cardinality(Sharers(b)) >= 1 /\ Cardinality(Sharers(b)) \in Nat
  BY OneLess, SharersFinite, Zenon DEF IInv
<1>2. Counted(b) /\ count[b] \in Nat
  BY RemotePtrAssumption DEF IInv, Counts, Types, RemotePtrAssumption
<1> QED  BY <1>1, <1>2 DEF Counted

\* A copy that another thread is in goes on undisturbed.
LEMMA OthersCopy ==
  ASSUME Types, Copies, NEW t \in Thread,
         \A s \in Thread \ {t} : op'[s] = op[s],
         \A g \in alive : Owner[g] # t => g \in alive' /\ ptr'[g] = ptr[g],
         \A s \in Thread \ {t} :
           op[s] # Idle => op[s].h \notin alive' /\ ptr'[op[s].h] = ptr[op[s].h]
  PROVE  \A s \in Thread \ {t} : Copying(s)'
<1> SUFFICES ASSUME NEW s \in Thread \ {t}  PROVE Copying(s)'
  BY Zenon
<1>1. Copying(s)  BY Zenon DEF Copies
<1>2. CASE op[s] = Idle  BY <1>2, Zenon DEF Copying
<1>3. CASE op[s] # Idle /\ op[s].step = "take"
  <2>1. op[s].h \in Handle \ alive /\ ptr[op[s].h].buf # 0  BY <1>1, <1>3, Zenon DEF Copying, Idle
  <2>2. PICK g \in alive : Owner[g] = s /\ ptr[g].buf = ptr[op[s].h].buf
    BY <1>1, <1>3, Zenon DEF Copying, Idle
  <2>3. g \in alive' /\ ptr'[g] = ptr[g]  BY <2>2, Zenon
  <2> QED  BY <1>3, <2>1, <2>2, <2>3, Zenon DEF Copying
<1>4. CASE op[s] # Idle /\ op[s].step = "assign"
  <2>1. op[s].h \in Handle \ alive /\ op[s].g \in alive /\ Owner[op[s].g] = s
    BY <1>1, <1>4, Zenon DEF Copying, Idle
  <2> QED  BY <1>4, <2>1, Zenon DEF Copying
<1> QED  BY <1>1, <1>2, <1>3, <1>4, Zenon DEF Copying
\* Steps that leave counts and handles of every buffer alone.
LEMMA CountsKept ==
  ASSUME Counts, \A b \in Buf : Sharers(b)' = Sharers(b),
         UNCHANGED << count, mapped, made, wrapped, lost >>
  PROVE  Counts'
BY Zenon DEF Counts, Counted

\* Drop takes one handle of one buffer away, and unmaps all of the buffer
\* with the last one.
LEMMA DropStep ==
  ASSUME IInv, NEW h \in alive, ptr[h].buf # 0, Drop(h),
         \A b \in Buf : Sharers(b)' = Sharers(b) \ {h},
         UNCHANGED << made, lost >>
  PROVE  /\ Counts'
         /\ count' \in [Buf -> 0 .. Word - 1] /\ mapped' \in [Buf -> SUBSET Int]
         /\ wrapped' \in BOOLEAN
<1>0. PICK b \in Buf : ptr[h].buf = b
  BY RemotePtrAssumption DEF RemotePtrAssumption, IInv, Types, Buf
<1>1. h \in Handle /\ h \in Sharers(b)  BY <1>0, Zenon DEF IInv, Types, Sharers
<1>2. /\ count \in [Buf -> 0 .. Word - 1] /\ mapped \in [Buf -> SUBSET Int]
      /\ made \in 0 .. Bufs /\ Word \in Nat /\ Word > 1 /\ Size \in Nat /\ Bufs \in Nat
  BY RemotePtrAssumption DEF RemotePtrAssumption, IInv, Types
<1>3. count' = [count EXCEPT ![b] = Dec(count[b])]  BY <1>0, Zenon DEF Drop
<1>4. count' \in [Buf -> 0 .. Word - 1]  BY <1>1, <1>2, <1>3 DEF Dec
<1>5. mapped' \in [Buf -> SUBSET Int]  BY <1>0, <1>2, Zenon DEF Drop
<1>6. wrapped' \in BOOLEAN  BY Zenon DEF Drop
<1>7. ASSUME ~ wrapped'  PROVE Counts'
  <2>1. ~ wrapped  BY <1>7, Zenon DEF Drop
  <2>2. count[b] \in Nat /\ count[b] > 0 /\ mapped[b] = Bytes
    BY <1>1, <2>1, SharedCounted, Zenon
  <2>3. Dec(count[b]) = count[b] - 1  BY <2>2 DEF Dec
  <2>4. mapped' = IF count[b] - 1 = 0 THEN [mapped EXCEPT ![b] = {}] ELSE mapped
    <3>1. ptr[h].host - ptr[h].offset = 0 /\ ptr[h].len + ptr[h].offset = Size
      BY <1>0, <1>1 DEF IInv, Shapes, Types
    <3>2. ptr[h].host \in Int /\ ptr[h].offset \in Int /\ ptr[h].len \in Int
      BY <1>1, Zenon DEF IInv, Types
    <3>3. 0 + ptr[h].len + ptr[h].offset - 1 = Size - 1
      <4>1. PICK x \in Int, y \in Int : ptr[h].len = x /\ ptr[h].offset = y  BY <3>2, Zenon
      <4>2. x + y = Size  BY <3>1, <4>1, Zenon
      <4>3. 0 + x + y - 1 = Size - 1  BY <4>2, <1>2
      <4> QED  BY <4>1, <4>3, Zenon
    <3>4. Bytes \ (0 .. Size - 1) = {}  BY Zenon DEF Bytes
    <3> QED  BY <1>0, <1>2, <2>2, <2>3, <3>1, <3>3, <3>4, Zenon DEF Drop
  <2>5. ASSUME NEW c \in Buf  PROVE Counted(c)' /\ (c > made => count'[c] = 0)
    <3>1. Counted(c) /\ (c > made => count[c] = 0)  BY <2>1, Zenon DEF IInv, Counts
    <3>2. CASE c = b
      <4>1. Cardinality(Sharers(b) \ {h}) = Cardinality(Sharers(b)) - 1
        BY <1>1, OneLess, Zenon DEF IInv
      <4>2. Cardinality(Sharers(b)) \in Nat  BY SharersFinite, Zenon DEF IInv
      <4>3. Cardinality(Sharers(b)') = Cardinality(Sharers(b)) - 1  BY <1>1, <4>1, Zenon
      <4>4. count'[b] = count[b] - 1  BY <1>1, <1>2, <1>3, <2>3, Zenon
      <4>5. mapped'[b] = IF count'[b] = 0 THEN {} ELSE Bytes
        BY <1>1, <1>2, <2>2, <2>4, <4>4, Zenon
      <4>6. b <= made  BY <1>0, <1>1, Zenon DEF IInv, Shapes, Buf
      <4>7. ~(b > made)  BY <4>6, <1>1, <1>2 DEF Buf
      <4> QED  BY <3>1, <3>2, <2>2, <4>2, <4>3, <4>4, <4>5, <4>7 DEF Counted
    <3>3. CASE c # b
      <4>1. h \notin Sharers(c)  BY <1>0, <3>3, Zenon DEF Sharers
      <4>2. Sharers(c)' = Sharers(c)  BY <4>1, Zenon
      <4>3. count'[c] = count[c] /\ mapped'[c] = mapped[c]  BY <1>2, <1>3, <2>4, <3>3, Zenon
      <4> QED  BY <3>1, <4>2, <4>3, Zenon DEF Counted
    <3> QED  BY <3>2, <3>3, Zenon
  <2> QED  BY <2>5, Zenon DEF Counts
<1>8. ASSUME wrapped'  PROVE Counts'  BY <1>8, Zenon DEF Counts
<1> QED  BY <1>4, <1>5, <1>6, <1>7, <1>8, Zenon

\* Taking over the fields of g, in any of the places where it is done.
LEMMA FieldsStep ==
  ASSUME IInv, NEW t \in Thread, NEW h \in Handle, NEW g \in alive, NEW q \in Int,
         h # g, Owner[g] = t, h \in alive => Owner[h] = t /\ ptr[h].buf = 0,
         \A s \in Thread \ {t} : op[s] # Idle => op[s].h # h,
         Fields(t, h, g, q)
  PROVE  IInv'
<1>1. /\ Types /\ Shapes /\ Copies /\ Counts /\ g \in Handle
      /\ Bufs \in Nat /\ Size \in Nat
  BY RemotePtrAssumption, Zenon DEF RemotePtrAssumption, IInv, Types
<1>2. /\ ptr' = [ptr EXCEPT ![h] = Shifted(ptr[g], q)]
      /\ UNCHANGED << count, mapped, made, wrapped, lost >>
      /\ ptr[g].buf = 0 => alive' = alive \cup {h} /\ op' = [op EXCEPT ![t] = Idle]
      /\ ptr[g].buf # 0 => /\ alive' = alive \ {h}
                           /\ op' = [op EXCEPT ![t] = [step |-> "take", h |-> h, g |-> "none"]]
  BY Zenon DEF Fields
<1>3. /\ Shifted(ptr[g], q) \in [buf : 0 .. Bufs, host : Int, len : Int, offset : Int]
      /\ Shifted(ptr[g], q).buf = ptr[g].buf
  BY <1>1 DEF Types, Shifted, Null
<1>4. Types'  BY <1>1, <1>2, <1>3, Zenon DEF Types
<1>5. Shapes'
  <2>1. Shifted(ptr[g], q).buf # 0 =>
          /\ Shifted(ptr[g], q).buf <= made
          /\ Shifted(ptr[g], q).host = Shifted(ptr[g], q).offset
          /\ Shifted(ptr[g], q).len + Shifted(ptr[g], q).offset = Size
    BY <1>1 DEF Types, Shapes, Shifted, Null
  <2> QED  BY <1>1, <1>2, <2>1, Zenon DEF Types, Shapes
<1>6. Copies'
  <2>1. \A s \in Thread \ {t} : op'[s] = op[s]  BY <1>1, <1>2, Zenon DEF Types
  <2>2. \A k \in Handle \ {h} : ptr'[k] = ptr[k] /\ (k \in alive' <=> k \in alive)
    BY <1>1, <1>2, Zenon DEF Types
  <2>3. \A k \in alive : Owner[k] # t => k \in alive' /\ ptr'[k] = ptr[k]
    BY <1>1, <2>2, Zenon DEF Types
  <2>4. \A s \in Thread \ {t} : op[s] # Idle => op[s].h \in Handle \ alive /\ op[s].h # h
    BY <1>1, Zenon DEF Copies, Copying
  <2>5. \A s \in Thread \ {t} : op[s] # Idle => op[s].h \notin alive' /\ ptr'[op[s].h] = ptr[op[s].h]
    BY <2>2, <2>4, Zenon
  <2>6. \A s \in Thread \ {t} : Copying(s)'
    BY <1>1, <2>1, <2>3, <2>5, OthersCopy, Zenon
  <2>7. CASE ptr[g].buf = 0
    <3>1. op'[t] = Idle  BY <1>1, <1>2, <2>7, Zenon DEF Types
    <3> QED  BY <1>1, <2>1, <2>6, <3>1 DEF Copies, Copying
  <2>8. CASE ptr[g].buf # 0
    <3>1. op'[t] = [step |-> "take", h |-> h, g |-> "none"]  BY <1>1, <1>2, <2>8, Zenon DEF Types
    <3>2. op'[t].step = "take" /\ op'[t].h = h  BY <3>1
    <3>3. h \notin alive' /\ ptr'[h].buf = ptr[g].buf  BY <1>1, <1>2, <1>3, <2>8, Zenon DEF Types
    <3>4. g \in alive' /\ ptr'[g] = ptr[g]  BY <1>1, <2>2, Zenon
    <3>5. Copying(t)'  BY <2>8, <3>2, <3>3, <3>4, Zenon DEF Copying
    <3>6. \A s \in Thread \ {t} : op'[s] # Idle => op'[s].h # op'[t].h  BY <2>1, <2>4, <3>2, Zenon
    <3> QED  BY <1>1, <2>1, <2>6, <3>5, <3>6 DEF Copies
  <2> QED  BY <2>7, <2>8, Zenon
<1>7. Counts'
  <2>1. \A b \in Buf : Sharers(b)' = Sharers(b)
    <3> SUFFICES ASSUME NEW b \in Buf  PROVE Sharers(b)' = Sharers(b)
      BY Zenon
    <3>1. h \notin Sharers(b)  BY DEF Sharers, Buf
    <3>2. h \notin Sharers(b)'
      <4>1. ptr'[h].buf = ptr[g].buf  BY <1>1, <1>2, <1>3, Zenon DEF Types
      <4>2. h \in alive' => ptr[g].buf = 0  BY <1>2, Zenon
      <4> QED  BY <4>1, <4>2 DEF Sharers, Buf
    <3>3. \A k \in Handle \ {h} : k \in Sharers(b)' <=> k \in Sharers(b)
      BY <1>1, <1>2, Zenon DEF Sharers, Types
    <3>4. Sharers(b)' \subseteq Handle /\ Sharers(b) \subseteq Handle
      BY <1>1, <1>4, Zenon DEF Sharers, Types
    <3>5. \A k : k \in Sharers(b)' <=> k \in Sharers(b)  BY <3>1, <3>2, <3>3, <3>4, Zenon
    <3> QED  BY <3>5, Zenon
  <2> QED  BY <1>1, <1>2, <2>1, CountsKept, Zenon
<1> QED  BY <1>4, <1>5, <1>6, <1>7, Zenon DEF IInv
\* A step of a thread outside a copy leaves the copies of the others alone.
LEMMA IdleCopies ==
  ASSUME IInv, NEW t \in Thread, op[t] = Idle, op' = op,
         \A g \in alive : Owner[g] # t => g \in alive' /\ ptr'[g] = ptr[g],
         \A s \in Thread :
           op[s] # Idle => op[s].h \notin alive' /\ ptr'[op[s].h] = ptr[op[s].h]
  PROVE  Copies'
<1>1. Types /\ Copies  BY Zenon DEF IInv
<1>2. \A s \in Thread \ {t} : Copying(s)'  BY <1>1, OthersCopy, Zenon
<1>3. Copying(t)'  BY Zenon DEF Copying
<1> QED  BY <1>1, <1>2, <1>3, Zenon DEF Copies

\* The handle that another thread is copying to is neither alive nor Unused.
LEMMA OpHandle ==
  ASSUME IInv, NEW s \in Thread, op[s] # Idle
  PROVE  op[s].h \in Handle \ alive
BY Zenon DEF IInv, Copies, Copying

LEMMA NewStep ==
  ASSUME IInv, NEW t \in Thread, NEW h \in Handle, New(t, h)
  PROVE  IInv'
<1>1. /\ Types /\ Shapes /\ Copies /\ Counts
      /\ Bufs \in Nat /\ Size \in Nat /\ Word \in Nat /\ Word > 1
      /\ made \in Nat /\ made < Bufs /\ made + 1 \in Buf
  BY RemotePtrAssumption DEF RemotePtrAssumption, IInv, Types, New, Buf
<1>2. /\ op[t] = Idle /\ h \notin alive /\ Owner[h] = t
      /\ \A s \in Thread : op[s].h # h
      /\ made' = made + 1 /\ alive' = alive \cup {h}
      /\ UNCHANGED << op, wrapped, lost >>
  BY Zenon DEF New, Unused
<1>3. ptr' = [ptr EXCEPT ![h] = [buf |-> made + 1, host |-> 0, len |-> Size, offset |-> 0]]
  BY Zenon DEF New
<1>4. count' = [count EXCEPT ![made + 1] = 1] /\ mapped' = [mapped EXCEPT ![made + 1] = Bytes]
  BY Zenon DEF New
<1>5. Types'
  <2>1. Bytes \subseteq Int  BY DEF Bytes
  <2>2. count' \in [Buf -> 0 .. Word - 1]  BY <1>1, <1>4 DEF Types
  <2>3. mapped' \in [Buf -> SUBSET Int]  BY <1>1, <1>4, <2>1, Zenon DEF Types
  <2>4. ptr' \in [Handle -> [buf : 0 .. Bufs, host : Int, len : Int, offset : Int]]
    BY <1>1, <1>3 DEF Types
  <2> QED  BY <1>1, <1>2, <2>2, <2>3, <2>4 DEF Types
<1>6. Shapes'  BY <1>1, <1>2, <1>3 DEF Types, Shapes
<1>7. Copies'
  <2>1. \A s \in Thread :
          op[s] # Idle => op[s].h \notin alive' /\ ptr'[op[s].h] = ptr[op[s].h]
    BY <1>1, <1>2, <1>3, OpHandle, Zenon DEF Types
  <2>2. \A g \in alive : g \in alive' /\ ptr'[g] = ptr[g]  BY <1>1, <1>2, <1>3, Zenon DEF Types
  <2> QED  BY <1>2, <2>1, <2>2, IdleCopies, Zenon
<1>8. Counts'
  <2> SUFFICES ASSUME ~ wrapped, NEW b \in Buf
               PROVE  Counted(b)' /\ (b > made' => count'[b] = 0)
    BY <1>2, Zenon DEF Counts
  <2>1. Counted(b) /\ (b > made => count[b] = 0)  BY <1>1, Zenon DEF Counts
  <2>2. CASE b = made + 1
    <3>1. Sharers(b) = {}  BY <1>1, <2>2 DEF Sharers, Shapes, Types
    <3>2. Sharers(b)' = {h}  BY <1>1, <1>2, <1>3, <2>2, <3>1, Zenon DEF Sharers, Types
    <3>3. Cardinality(Sharers(b)') = 1  BY <3>2, FS_Singleton, Zenon
    <3>4. count'[b] = 1 /\ mapped'[b] = Bytes  BY <1>1, <1>4, <2>2, Zenon DEF Types
    <3>5. ~(b > made')  BY <1>1, <1>2, <2>2
    <3> QED  BY <3>3, <3>4, <3>5 DEF Counted
  <2>3. CASE b # made + 1
    <3>1. Sharers(b)' = Sharers(b)  BY <1>1, <1>2, <1>3, <2>3, Zenon DEF Sharers, Types
    <3>2. count'[b] = count[b] /\ mapped'[b] = mapped[b]  BY <1>1, <1>4, <2>3, Zenon DEF Types
    <3>3. b > made' => b > made  BY <1>1, <1>2 DEF Buf
    <3> QED  BY <1>2, <2>1, <3>1, <3>2, <3>3, Zenon DEF Counted
  <2> QED  BY <2>2, <2>3, Zenon
<1> QED  BY <1>5, <1>6, <1>7, <1>8, Zenon DEF IInv

LEMMA DefaultStep ==
  ASSUME IInv, NEW t \in Thread, NEW h \in Handle, Default(t, h)
  PROVE  IInv'
<1>1. Types /\ Shapes /\ Copies /\ Counts /\ Bufs \in Nat
  BY RemotePtrAssumption, Zenon DEF RemotePtrAssumption, IInv
<1>2. /\ op[t] = Idle /\ h \notin alive
      /\ \A s \in Thread : op[s].h # h
      /\ ptr' = [ptr EXCEPT ![h] = Null] /\ alive' = alive \cup {h}
      /\ UNCHANGED << op, count, mapped, made, wrapped, lost >>
  BY Zenon DEF Default, Unused
<1>3. Types'
  <2>1. Null \in [buf : 0 .. Bufs, host : Int, len : Int, offset : Int]  BY <1>1 DEF Null
  <2> QED  BY <1>1, <1>2, <2>1, Zenon DEF Types
<1>4. Shapes'
  <2>1. Null.buf = 0  BY Zenon DEF Null
  <2> QED  BY <1>1, <1>2, <2>1, Zenon DEF Types, Shapes
<1>5. Copies'
  <2>1. \A s \in Thread :
          op[s] # Idle => op[s].h \notin alive' /\ ptr'[op[s].h] = ptr[op[s].h]
    BY <1>1, <1>2, OpHandle, Zenon DEF Types
  <2>2. \A g \in alive : g \in alive' /\ ptr'[g] = ptr[g]  BY <1>1, <1>2, Zenon DEF Types
  <2> QED  BY <1>2, <2>1, <2>2, IdleCopies, Zenon
<1>6. Counts'
  <2>1. \A b \in Buf : Sharers(b)' = Sharers(b)
    BY <1>1, <1>2 DEF Sharers, Types, Null, Buf
  <2> QED  BY <1>1, <1>2, <2>1, CountsKept, Zenon
<1> QED  BY <1>3, <1>4, <1>5, <1>6, Zenon DEF IInv

LEMMA TakeStep ==
  ASSUME IInv, NEW t \in Thread, Take(t)
  PROVE  IInv'
<1>1. /\ Types /\ Shapes /\ Copies /\ Counts
      /\ Bufs \in Nat /\ Word \in Nat /\ Word > 1
  BY RemotePtrAssumption DEF RemotePtrAssumption, IInv
<1>2. op[t].step = "take" /\ op[t] # Idle  BY DEF Take, Idle
<1>3. PICK h \in Handle : op[t].h = h /\ h \notin alive /\ ptr[h].buf # 0
                          /\ \E g \in alive : ptr[g].buf = ptr[h].buf
  BY <1>1, <1>2 DEF Copies, Copying
<1>4. PICK b \in Buf : ptr[h].buf = b  BY <1>1, <1>3 DEF Types, Buf
<1>5. /\ count' = [count EXCEPT ![b] = Inc(count[b])]
      /\ wrapped' = (wrapped \/ count'[b] = 0)
      /\ alive' = alive \cup {h} /\ op' = [op EXCEPT ![t] = Idle]
      /\ UNCHANGED << ptr, mapped, made, lost >>
  BY <1>3, <1>4, Zenon DEF Take
<1>6. Types'
  <2>1. count' \in [Buf -> 0 .. Word - 1]  BY <1>1, <1>5 DEF Types, Inc
  <2> QED  BY <1>1, <1>5, <2>1, Zenon DEF Types
<1>7. Shapes'  BY <1>1, <1>5, Zenon DEF Shapes
<1>8. Copies'
  <2>1. op'[t] = Idle /\ \A s \in Thread \ {t} : op'[s] = op[s]  BY <1>1, <1>5, Zenon DEF Types
  <2>2. \A s \in Thread \ {t} : op[s] # Idle => op[s].h # h
    BY <1>1, <1>2, <1>3, Zenon DEF Copies
  <2>3. \A s \in Thread \ {t} :
          op[s] # Idle => op[s].h \notin alive' /\ ptr'[op[s].h] = ptr[op[s].h]
    BY <1>5, <2>2, OpHandle, Zenon
  <2>4. \A s \in Thread \ {t} : Copying(s)'  BY <1>1, <1>5, <2>1, <2>3, OthersCopy, Zenon
  <2> QED  BY <1>1, <2>1, <2>4 DEF Copies, Copying
<1>9. Counts'
  <2> SUFFICES ASSUME ~ wrapped', NEW c \in Buf
               PROVE  Counted(c)' /\ (c > made' => count'[c] = 0)
    BY Zenon DEF Counts
  <2>1. ~ wrapped /\ Counted(c) /\ (c > made => count[c] = 0)  BY <1>1, <1>5, Zenon DEF Counts
  <2>2. CASE c = b
    <3>1. h \notin Sharers(b)  BY <1>3, Zenon DEF Sharers
    <3>2. Sharers(b)' = Sharers(b) \cup {h}  BY <1>4, <1>5, Zenon DEF Sharers
    <3>3. /\ Cardinality(Sharers(b)') = Cardinality(Sharers(b)) + 1
          /\ Cardinality(Sharers(b)) \in Nat
      BY <1>1, <3>1, <3>2, OneMore, SharersFinite, Zenon
    <3>4. count'[b] = count[b] + 1 /\ count[b] \in Nat
      <4>1. count'[b] # 0  BY <1>5, Zenon
      <4>2. count[b] \in Nat /\ count'[b] = Inc(count[b])  BY <1>1, <1>5 DEF Types
      <4> QED  BY <4>1, <4>2, Zenon DEF Inc
    <3>5. mapped'[b] = Bytes  BY <1>3, <1>4, <1>5, <2>1, SharedCounted, Zenon DEF Sharers
    <3>6. ~(b > made')  BY <1>1, <1>3, <1>4, <1>5, SMTT(20) DEF Shapes, Types, Buf
    <3>7. lost' = lost /\ Counted(b)  BY <1>5, <2>1, <2>2, Zenon
    <3>8. /\ count'[b] >= Cardinality(Sharers(b)')
          /\ ~ lost' => count'[b] = Cardinality(Sharers(b)')
      BY <3>3, <3>4, <3>7 DEF Counted
    <3>9. mapped'[b] = IF count'[b] = 0 THEN {} ELSE Bytes  BY <1>5, <3>5, Zenon
    <3> QED  BY <2>2, <3>6, <3>8, <3>9, Zenon DEF Counted
  <2>3. CASE c # b
    <3>1. Sharers(c)' = Sharers(c)  BY <1>4, <1>5, <2>3, Zenon DEF Sharers
    <3>2. count'[c] = count[c]  BY <1>1, <1>5, <2>3, Zenon DEF Types
    <3> QED  BY <1>5, <2>1, <3>1, <3>2, Zenon DEF Counted
  <2> QED  BY <2>2, <2>3, Zenon
<1> QED  BY <1>6, <1>7, <1>8, <1>9, Zenon DEF IInv

\* The handles that stay when h is taken out of alive.
LEMMA GoneStep ==
  ASSUME IInv, NEW t \in Thread, NEW h \in alive, Owner[h] = t, op[t] = Idle,
         alive' = alive \ {h}, \A g \in Handle \ {h} : ptr'[g] = ptr[g]
  PROVE  /\ \A b \in Buf : Sharers(b)' = Sharers(b) \ {h}
         /\ \A g \in alive : Owner[g] # t => g \in alive' /\ ptr'[g] = ptr[g]
         /\ \A s \in Thread :
              op[s] # Idle => op[s].h \notin alive' /\ ptr'[op[s].h] = ptr[op[s].h]
<1>1. alive \subseteq Handle  BY Zenon DEF IInv, Types
<1>2. \A b \in Buf : Sharers(b)' = Sharers(b) \ {h}  BY <1>1, Zenon DEF Sharers
<1>3. \A s \in Thread : op[s] # Idle => op[s].h \in Handle \ alive  BY OpHandle, Zenon
<1> QED  BY <1>1, <1>2, <1>3, Zenon

LEMMA DestroyStep ==
  ASSUME IInv, NEW t \in Thread, NEW h \in Handle, Destroy(t, h)
  PROVE  IInv'
<1>1. Types /\ Shapes /\ Copies /\ Counts /\ Bufs \in Nat
  BY RemotePtrAssumption, Zenon DEF RemotePtrAssumption, IInv
<1>2. /\ op[t] = Idle /\ h \in alive /\ Owner[h] = t
      /\ alive' = alive \ {h} /\ ptr' = [ptr EXCEPT ![h] = Null]
      /\ UNCHANGED << op, made, lost >>
      /\ ptr[h].buf = 0 => UNCHANGED << count, mapped, wrapped >>
      /\ ptr[h].buf # 0 => Drop(h)
  BY Zenon DEF Destroy, Mine
<1>3. \A g \in Handle \ {h} : ptr'[g] = ptr[g]  BY <1>1, <1>2, Zenon DEF Types
<1>4. /\ \A b \in Buf : Sharers(b)' = Sharers(b) \ {h}
      /\ Copies'
  BY <1>2, <1>3, GoneStep, IdleCopies, Zenon
<1>5. ptr' \in [Handle -> [buf : 0 .. Bufs, host : Int, len : Int, offset : Int]]
  <2>1. Null \in [buf : 0 .. Bufs, host : Int, len : Int, offset : Int]  BY <1>1 DEF Null
  <2> QED  BY <1>1, <1>2, <2>1, Zenon DEF Types
<1>6. Shapes'
  <2>1. Null.buf = 0  BY Zenon DEF Null
  <2> QED  BY <1>1, <1>2, <2>1, Zenon DEF Types, Shapes
<1>7. CASE ptr[h].buf = 0
  <2>1. Types'  BY <1>1, <1>2, <1>5, <1>7, Zenon DEF Types
  <2>2. \A b \in Buf : Sharers(b)' = Sharers(b)
    <3>1. \A b \in Buf : h \notin Sharers(b)  BY <1>7 DEF Sharers, Buf
    <3> QED  BY <1>4, <3>1, Zenon
  <2>3. Counts'  BY <1>1, <1>2, <1>7, <2>2, CountsKept, Zenon
  <2> QED  BY <1>4, <1>6, <2>1, <2>3, Zenon DEF IInv
<1>8. CASE ptr[h].buf # 0
  <2>1. /\ Counts' /\ count' \in [Buf -> 0 .. Word - 1]
        /\ mapped' \in [Buf -> SUBSET Int] /\ wrapped' \in BOOLEAN
    BY <1>2, <1>4, <1>8, DropStep, Zenon
  <2>2. Types'  BY <1>1, <1>2, <1>5, <2>1, Zenon DEF Types
  <2> QED  BY <1>4, <1>6, <2>1, <2>2, Zenon DEF IInv
<1> QED  BY <1>7, <1>8, Zenon

LEMMA CopyStep ==
  ASSUME IInv, NEW t \in Thread, NEW h \in Handle, NEW g \in Handle, NEW q \in Int,
         Copy(t, h, g, q)
  PROVE  IInv'
BY FieldsStep, Zenon DEF Copy, Mine, Unused

LEMMA AssignStep ==
  ASSUME IInv, NEW t \in Thread, NEW h \in Handle, NEW g \in Handle, Assign(t, h, g)
  PROVE  IInv'
<1>1. Types /\ Shapes /\ Copies /\ Counts  BY Zenon DEF IInv
<1>2. /\ op[t] = Idle /\ h \in alive /\ g \in alive /\ h # g
      /\ Owner[h] = t /\ Owner[g] = t
  BY Zenon DEF Assign, Mine
<1>3. CASE ptr[h].buf = 0 /\ Fields(t, h, g, 0)
  <2>1. \A s \in Thread \ {t} : op[s] # Idle => op[s].h # h  BY <1>2, OpHandle, Zenon
  <2> QED  BY <1>2, <1>3, <2>1, FieldsStep
<1>4. CASE /\ ptr[h].buf # 0 /\ Drop(h) /\ alive' = alive \ {h}
           /\ op' = [op EXCEPT ![t] = [step |-> "assign", h |-> h, g |-> g]]
           /\ UNCHANGED << ptr, made, lost >>
  <2>1. /\ \A b \in Buf : Sharers(b)' = Sharers(b) \ {h}
        /\ \A k \in alive : Owner[k] # t => k \in alive' /\ ptr'[k] = ptr[k]
        /\ \A s \in Thread :
             op[s] # Idle => op[s].h \notin alive' /\ ptr'[op[s].h] = ptr[op[s].h]
    BY <1>2, <1>4, GoneStep, Zenon
  <2>2. /\ Counts' /\ count' \in [Buf -> 0 .. Word - 1]
        /\ mapped' \in [Buf -> SUBSET Int] /\ wrapped' \in BOOLEAN
    BY <1>2, <1>4, <2>1, DropStep, Zenon
  <2>3. Types'  BY <1>1, <1>4, <2>2, Zenon DEF Types
  <2>4. Shapes'  BY <1>1, <1>4, Zenon DEF Shapes
  <2>5. \A s \in Thread \ {t} : op'[s] = op[s]  BY <1>1, <1>4, Zenon DEF Types
  <2>6. op'[t] = [step |-> "assign", h |-> h, g |-> g]  BY <1>1, <1>4, Zenon DEF Types
  <2>7. op'[t].step = "assign" /\ op'[t].h = h /\ op'[t].g = g  BY <2>6
  <2>8. \A s \in Thread \ {t} : Copying(s)'  BY <1>1, <2>1, <2>5, OthersCopy, Zenon
  <2>9. Copying(t)'  BY <1>2, <1>4, <2>7 DEF Copying
  <2>10. \A s \in Thread \ {t} : op'[s] # Idle => op'[s].h # op'[t].h
    BY <1>2, <2>5, <2>7, OpHandle, Zenon
  <2>11. Copies'  BY <1>1, <2>5, <2>8, <2>9, <2>10, Zenon DEF Copies
  <2> QED  BY <2>2, <2>3, <2>4, <2>11, Zenon DEF IInv
<1> QED  BY <1>3, <1>4, Zenon DEF Assign

LEMMA AssignFieldsStep ==
  ASSUME IInv, NEW t \in Thread, AssignFields(t)
  PROVE  IInv'
<1>1. Types /\ Copies  BY Zenon DEF IInv
<1>2. op[t].step = "assign" /\ op[t] # Idle /\ Fields(t, op[t].h, op[t].g, 0)
  BY DEF AssignFields, Idle
<1>3. op[t].h \in Handle \ alive /\ op[t].g \in alive /\ Owner[op[t].g] = t
  BY <1>1, <1>2, Zenon DEF Copies, Copying
<1>4. \A s \in Thread \ {t} : op[s] # Idle => op[s].h # op[t].h
  BY <1>1, <1>2, Zenon DEF Copies
<1> QED  BY <1>2, <1>3, <1>4, FieldsStep
LEMMA MoveConstructStep ==
  ASSUME IInv, NEW t \in Thread, NEW h \in Handle, NEW g \in Handle, MoveConstruct(t, h, g)
  PROVE  IInv'
<1>1. Types /\ Shapes /\ Copies /\ Counts /\ Bufs \in Nat
  BY RemotePtrAssumption, Zenon DEF RemotePtrAssumption, IInv
<1>2. /\ op[t] = Idle /\ g \in alive /\ Owner[g] = t /\ h \notin alive /\ h # g
      /\ \A s \in Thread : op[s].h # h
      /\ ptr' = [ptr EXCEPT ![h] = ptr[g], ![g] = Null]
      /\ alive' = alive \cup {h}
      /\ UNCHANGED << op, count, mapped, made, wrapped, lost >>
  BY Zenon DEF MoveConstruct, Mine, Unused
<1>3. ptr'[h] = ptr[g] /\ ptr'[g] = Null /\ \A k \in Handle \ {g, h} : ptr'[k] = ptr[k]
  BY <1>1, <1>2, Zenon DEF Types
<1>4. Null.buf = 0 /\ Null \in [buf : 0 .. Bufs, host : Int, len : Int, offset : Int]
  BY <1>1 DEF Null
<1>4a. alive \subseteq Handle /\ alive' = alive \cup {h} /\ g \in alive /\ h \notin alive /\ h # g
  BY <1>1, <1>2, Zenon DEF Types
<1>5. Types'  BY <1>1, <1>2, <1>4, Zenon DEF Types
<1>6. Shapes'  BY <1>1, <1>2, <1>3, <1>4 DEF Shapes
<1>7. Copies'
  <2>1. \A s \in Thread :
          op[s] # Idle => op[s].h \notin alive' /\ ptr'[op[s].h] = ptr[op[s].h]
    BY <1>2, <1>3, OpHandle, Zenon
  <2>2. \A k \in alive : Owner[k] # t => k \in alive' /\ ptr'[k] = ptr[k]
    BY <1>1, <1>2, <1>3, Zenon DEF Types
  <2> QED  BY <1>2, <2>1, <2>2, IdleCopies, Zenon
<1>8. Counts'
  <2>1. \A b \in Buf : Cardinality(Sharers(b)') = Cardinality(Sharers(b))
    <3> SUFFICES ASSUME NEW b \in Buf
                 PROVE  Cardinality(Sharers(b)') = Cardinality(Sharers(b))
      BY Zenon
    <3>1. h \notin Sharers(b) /\ b # 0  BY <1>2 DEF Sharers, Buf
    <3>2. CASE ptr[g].buf = b
      <4>1. g \in Sharers(b)  BY <1>2, <3>2, Zenon DEF Sharers
      <4>2. Sharers(b)' = (Sharers(b) \ {g}) \cup {h}
        BY <1>3, <1>4, <1>4a, <3>1, <3>2, Zenon DEF Sharers
      <4> QED  BY <1>1, <3>1, <4>1, <4>2, OneForAnother
    <3>3. CASE ptr[g].buf # b
      <4>1. Sharers(b)' = Sharers(b)
        BY <1>3, <1>4, <1>4a, <3>1, <3>3, Zenon DEF Sharers
      <4> QED  BY <4>1, Zenon
    <3> QED  BY <3>2, <3>3, Zenon
  <2> QED  BY <1>1, <1>2, <2>1, Zenon DEF Counts, Counted
<1> QED  BY <1>5, <1>6, <1>7, <1>8, Zenon DEF IInv

\* Move assignment never adds a handle to a buffer, and takes one away only
\* when it forgets the buffer of h.
LEMMA MoveAssignStep ==
  ASSUME IInv, NEW t \in Thread, NEW h \in Handle, NEW g \in Handle, MoveAssign(t, h, g)
  PROVE  IInv'
<1>1. Types /\ Shapes /\ Copies /\ Counts /\ Bufs \in Nat /\ Word \in Nat
  BY RemotePtrAssumption, Zenon DEF RemotePtrAssumption, IInv
<1>2. /\ op[t] = Idle /\ g \in alive /\ Owner[g] = t /\ h \in alive /\ Owner[h] = t
      /\ ptr' = [ptr EXCEPT ![h] = ptr[g], ![g] = Null]
      /\ lost' = (lost \/ ptr[h].buf # 0)
      /\ UNCHANGED << alive, op, count, mapped, made, wrapped >>
  BY Zenon DEF MoveAssign, Mine
<1>3. /\ ptr'[g] = Null /\ (h # g => ptr'[h] = ptr[g])
      /\ \A k \in Handle \ {g, h} : ptr'[k] = ptr[k]
  BY <1>1, <1>2, Zenon DEF Types
<1>4. Null.buf = 0 /\ Null \in [buf : 0 .. Bufs, host : Int, len : Int, offset : Int]
  BY <1>1 DEF Null
<1>4a. alive \subseteq Handle /\ alive' = alive /\ g \in alive /\ h \in alive
  BY <1>1, <1>2, Zenon DEF Types
<1>5. Types'  BY <1>1, <1>2, <1>4, Zenon DEF Types
<1>6. Shapes'
  <2>1. \A k \in Handle : ptr'[k] = Null \/ \E j \in Handle : ptr'[k] = ptr[j]  BY <1>3, Zenon
  <2>2. made' = made  BY <1>2, Zenon
  <2> QED  BY <1>1, <1>4, <2>1, <2>2 DEF Shapes
<1>7. Copies'
  <2>1. \A s \in Thread :
          op[s] # Idle => op[s].h \notin alive' /\ ptr'[op[s].h] = ptr[op[s].h]
    BY <1>2, <1>3, OpHandle, Zenon
  <2>2. \A k \in alive : Owner[k] # t => k \in alive' /\ ptr'[k] = ptr[k]
    BY <1>1, <1>2, <1>3, Zenon DEF Types
  <2> QED  BY <1>2, <2>1, <2>2, IdleCopies, Zenon
<1>8. Counts'
  <2>1. ASSUME NEW b \in Buf
        PROVE  \/ Cardinality(Sharers(b)') = Cardinality(Sharers(b))
               \/ lost' /\ Cardinality(Sharers(b)') = Cardinality(Sharers(b)) - 1
    <3>0. b # 0  BY DEF Buf
    <3>1. CASE ptr[h].buf = b
      <4>1. h \in Sharers(b) /\ lost'  BY <1>2, <3>0, <3>1, Zenon DEF Sharers
      <4>2. CASE ptr[g].buf = b
        <5>1. g \in Sharers(b)  BY <1>2, <4>2, Zenon DEF Sharers
        <5>2. Sharers(b)' = Sharers(b) \ {g}
          BY <1>3, <1>4, <1>4a, <3>0, <3>1, <4>2, Zenon DEF Sharers
        <5> QED  BY <1>1, <4>1, <5>1, <5>2, OneLess, Zenon
      <4>3. CASE ptr[g].buf # b
        <5>1. Sharers(b)' = Sharers(b) \ {h}
          BY <1>3, <1>4, <1>4a, <3>0, <3>1, <4>3, Zenon DEF Sharers
        <5> QED  BY <1>1, <4>1, <5>1, OneLess, Zenon
      <4> QED  BY <4>2, <4>3, Zenon
    <3>2. CASE ptr[h].buf # b
      <4>1. h \notin Sharers(b)  BY <3>2, Zenon DEF Sharers
      <4>2. CASE ptr[g].buf = b
        <5>1. g \in Sharers(b) /\ h # g  BY <1>2, <3>2, <4>2, Zenon DEF Sharers
        <5>2. Sharers(b)' = (Sharers(b) \ {g}) \cup {h}
          BY <1>3, <1>4, <1>4a, <3>0, <3>2, <4>2, <5>1, Zenon DEF Sharers
        <5> QED  BY <1>1, <4>1, <5>1, <5>2, OneForAnother
      <4>3. CASE ptr[g].buf # b
        <5>1. Sharers(b)' = Sharers(b)
          BY <1>3, <1>4, <1>4a, <3>0, <3>2, <4>3, Zenon DEF Sharers
        <5> QED  BY <5>1, Zenon
      <4> QED  BY <4>2, <4>3, Zenon
    <3> QED  BY <3>1, <3>2, Zenon
  <2>2. \A b \in Buf : Cardinality(Sharers(b)) \in Nat /\ count[b] \in Nat
    BY <1>1, SharersFinite DEF Types
  <2>3. ASSUME ~ wrapped, NEW b \in Buf  PROVE Counted(b)'
    <3>1. Counted(b)  BY <1>1, <2>3, Zenon DEF Counts
    <3>2. count'[b] >= Cardinality(Sharers(b)')  BY <1>2, <2>1, <2>2, <3>1 DEF Counted
    <3>3. ~ lost' => ~ lost /\ Cardinality(Sharers(b)') = Cardinality(Sharers(b))
      BY <1>2, <2>1, Zenon
    <3> QED  BY <1>2, <3>1, <3>2, <3>3, Zenon DEF Counted
  <2> QED  BY <1>1, <1>2, <2>3, Zenon DEF Counts
<1> QED  BY <1>5, <1>6, <1>7, <1>8, Zenon DEF IInv

-----------------------------------------------------------------------------
\* The counts start right and every step of every thread keeps them so.
THEOREM CountsRight == Spec => []IInv
<1>1. Init => IInv
  <2> SUFFICES ASSUME Init  PROVE IInv
    BY Zenon
  <2>1. /\ Bufs \in Nat /\ Word \in Nat /\ Word > 1
        /\ Null.buf = 0 /\ Null \in [buf : 0 .. Bufs, host : Int, len : Int, offset : Int]
    BY RemotePtrAssumption DEF RemotePtrAssumption, Null
  <2>2. Types
    <3>1. count \in [Buf -> 0 .. Word - 1] /\ mapped \in [Buf -> SUBSET Int]  BY <2>1 DEF Init
    <3>2. ptr \in [Handle -> [buf : 0 .. Bufs, host : Int, len : Int, offset : Int]]
      BY <2>1, Zenon DEF Init
    <3> QED  BY <2>1, <3>1, <3>2, Zenon DEF Init, Types
  <2>3. Shapes  BY <2>1, Zenon DEF Init, Shapes
  <2>4. Copies  BY Zenon DEF Init, Copies, Copying
  <2>5. \A b \in Buf : Sharers(b) = {}  BY Zenon DEF Init, Sharers
  <2>6. Counts  BY <2>5, FS_EmptySet DEF Init, Counts, Counted
  <2> QED  BY <2>2, <2>3, <2>4, <2>6, Zenon DEF IInv
<1>2. IInv /\ [Next]_vars => IInv'
  <2> SUFFICES ASSUME IInv, [Next]_vars  PROVE IInv'
    BY Zenon
  <2>1. CASE UNCHANGED vars
    <3>1. Types' /\ Shapes'  BY <2>1, Zenon DEF vars, IInv, Types, Shapes
    <3>2. Copies'  BY <2>1 DEF vars, IInv, Copies, Copying
    <3>3. Counts'  BY <2>1, Zenon DEF vars, IInv, Counts, Counted, Sharers
    <3> QED  BY <3>1, <3>2, <3>3, Zenon DEF IInv
  <2>2. CASE Next
    <3>1. PICK t \in Thread :
            \/ Take(t) \/ AssignFields(t)
            \/ \E h \in Handle :
                 \/ New(t, h) \/ Default(t, h) \/ Destroy(t, h)
                 \/ \E g \in Handle :
                      \/ Copy(t, h, g, 0) \/ Assign(t, h, g)
                      \/ \E q \in Shift : Copy(t, h, g, q) \/ Copy(t, h, g, -q)
                      \/ MoveConstruct(t, h, g) \/ MoveAssign(t, h, g)
      BY <2>2, Zenon DEF Next
    <3>2. \A q \in Shift : q \in Int /\ -q \in Int
      BY RemotePtrAssumption DEF RemotePtrAssumption
    <3>3. CASE Take(t) \/ AssignFields(t)  BY <3>3, TakeStep, AssignFieldsStep, Zenon
    <3>4. ASSUME NEW h \in Handle, New(t, h) \/ Default(t, h) \/ Destroy(t, h)  PROVE IInv'
      BY <3>4, NewStep, DefaultStep, DestroyStep, Zenon
    <3>5. ASSUME NEW h \in Handle, NEW g \in Handle,
                 \/ Copy(t, h, g, 0) \/ Assign(t, h, g)
                 \/ \E q \in Shift : Copy(t, h, g, q) \/ Copy(t, h, g, -q)
                 \/ MoveConstruct(t, h, g) \/ MoveAssign(t, h, g)
          PROVE  IInv'
      BY <3>2, <3>5, CopyStep, AssignStep, MoveConstructStep, MoveAssignStep
    <3> QED  BY <3>1, <3>3, <3>4, <3>5, Zenon
  <2> QED  BY <2>1, <2>2, Zenon
<1> QED  BY <1>1, <1>2, PTL DEF Spec

\* No thread can use a handle after another has unmapped its buffer, however
\* the copies, moves and destructions of the threads interleave, as long as no
\* buffer has 2^16 handles.
THEOREM HeldSafety == Spec => []HeldMapped
<1>1. IInv => HeldMapped
  <2> SUFFICES ASSUME IInv, ~ wrapped, NEW h \in Handle, NEW b \in Buf, Holds(h, b)
               PROVE  mapped[b] = Bytes /\ count[b] > 0
    BY Zenon DEF HeldMapped
  <2>1. h \in Sharers(b)  BY Zenon DEF Holds, Sharers
  <2> QED  BY <2>1, SharedCounted, Zenon
<1> QED  BY <1>1, CountsRight, PTL

\* The last handle to go takes all of its buffer with it, wherever in the
\* buffer it points, unless a move assignment has forgotten a handle.
THEOREM LastUnmaps == Spec => []UnmappedLast
<1>1. IInv => UnmappedLast
  <2> SUFFICES ASSUME IInv, ~ wrapped, ~ lost, NEW b \in Buf, mapped[b] # {}
               PROVE  \E h \in Handle : Holds(h, b)
    BY Zenon DEF UnmappedLast
  <2>1. Types /\ Counted(b)  BY Zenon DEF IInv, Counts
  <2>2. Cardinality(Sharers(b)) # 0  BY <2>1, Zenon DEF Counted
  <2>3. Sharers(b) # {}  BY <2>2, FS_EmptySet, Zenon
  <2> QED  BY <2>1, <2>3, Zenon DEF Sharers, Types, Holds
<1> QED  BY <1>1, CountsRight, PTL
=============================================================================
