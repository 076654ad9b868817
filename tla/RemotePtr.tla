----------------------------- MODULE RemotePtr -----------------------------
(***************************************************************************)
(* remote_ptr, the client's handle to a device buffer.  Handles to the     *)
(* same buffer share a count and a mutex; the handle that brings the count *)
(* to 0 deletes both and unmaps the buffer.  A handle made with + or -     *)
(* points into the buffer and unmaps it through its own offset and length. *)
(*                                                                         *)
(* Threads use handles of their own, and may construct one for another     *)
(* thread from one of theirs.  A step is what a thread does at one time    *)
(* with the mutex locked, or to its own handles.  Of a handle without a    *)
(* mutex the other fields are never used, and are left out.                *)
(***************************************************************************)
EXTENDS Integers, FiniteSets

CONSTANTS
  Thread, Handle,
  Owner,     \* the thread of each handle
  Bufs,      \* bound on the number of buffers
  Size,      \* bytes of a buffer
  Shift,     \* the arguments of + and -
  Word       \* what the count wraps at, 2^16

ASSUME RemotePtrAssumption ==
  /\ Owner \in [Handle -> Thread]
  /\ IsFiniteSet(Handle)
  /\ Bufs \in Nat /\ Size \in Nat \ {0} /\ Shift \subseteq Nat /\ Word \in Nat \ {0, 1}

VARIABLES
  ptr,             \* the fields of each handle; buffer 0 is a null mutex
  alive,           \* handles that are constructed and not destroyed
  op,              \* of each thread the copy that it is in
  count, mapped,   \* of each buffer the count and the bytes still mapped
  made,            \* buffers made
  wrapped, lost    \* history: a count wrapped; a move assignment forgot a buffer

vars == << ptr, alive, op, count, mapped, made, wrapped, lost >>

Buf == 1 .. Bufs
Bytes == 0 .. Size - 1
Inc(n) == IF n = Word - 1 THEN 0 ELSE n + 1
Dec(n) == IF n = 0 THEN Word - 1 ELSE n - 1
Null == [buf |-> 0, host |-> 0, len |-> 0, offset |-> 0]
Idle == [step |-> "idle", h |-> "none", g |-> "none"]

Init ==
  /\ ptr = [h \in Handle |-> Null] /\ alive = {}
  /\ op = [t \in Thread |-> Idle]
  /\ count = [b \in Buf |-> 0] /\ mapped = [b \in Buf |-> {}] /\ made = 0
  /\ wrapped = FALSE /\ lost = FALSE

\* h may be constructed: no thread is constructing it.
Unused(h) == h \notin alive /\ \A t \in Thread : op[t].h # h
Mine(t, h) == op[t] = Idle /\ Owner[h] = t /\ h \in alive

\* malloc makes a handle to a new buffer, with count 1.
New(t, h) ==
  /\ op[t] = Idle /\ Owner[h] = t /\ Unused(h) /\ made < Bufs
  /\ made' = made + 1
  /\ ptr' = [ptr EXCEPT ![h] = [buf |-> made + 1, host |-> 0, len |-> Size, offset |-> 0]]
  /\ alive' = alive \cup {h}
  /\ count' = [count EXCEPT ![made + 1] = 1]
  /\ mapped' = [mapped EXCEPT ![made + 1] = Bytes]
  /\ UNCHANGED << op, wrapped, lost >>

Default(t, h) ==
  /\ op[t] = Idle /\ Owner[h] = t /\ Unused(h)
  /\ ptr' = [ptr EXCEPT ![h] = Null]
  /\ alive' = alive \cup {h}
  /\ UNCHANGED << op, count, mapped, made, wrapped, lost >>

Shifted(p, q) ==
  IF p.buf = 0 THEN Null
  ELSE [buf |-> p.buf, host |-> p.host + q, len |-> p.len - q, offset |-> p.offset + q]

\* h gets the fields of g, moved by q; the count goes up in a step of its own.
Fields(t, h, g, q) ==
  /\ ptr' = [ptr EXCEPT ![h] = Shifted(ptr[g], q)]
  /\ IF ptr[g].buf = 0
     THEN alive' = alive \cup {h} /\ op' = [op EXCEPT ![t] = Idle]
     ELSE alive' = alive \ {h} /\ op' = [op EXCEPT ![t] = [step |-> "take", h |-> h, g |-> "none"]]
  /\ UNCHANGED << count, mapped, made, wrapped, lost >>

Take(t) ==
  LET b == ptr[op[t].h].buf
  IN  /\ op[t].step = "take"
      /\ count' = [count EXCEPT ![b] = Inc(@)]
      /\ wrapped' = (wrapped \/ count'[b] = 0)
      /\ alive' = alive \cup {op[t].h}
      /\ op' = [op EXCEPT ![t] = Idle]
      /\ UNCHANGED << ptr, mapped, made, lost >>

\* The copy constructor, + and -.  Clients keep their pointers in the buffer.
Copy(t, h, g, q) ==
  /\ Mine(t, g) /\ Unused(h) /\ ptr[g].offset + q \in 0 .. Size
  /\ Fields(t, h, g, q)

\* Mutant of Drop: the handle's own bytes are unmapped, not the buffer's.
Drop_NoOffset(h) ==
  LET b == ptr[h].buf
      left == Dec(count[b])
      unmapped == ptr[h].host .. ptr[h].host + ptr[h].len - 1
  IN  /\ count' = [count EXCEPT ![b] = left]
      /\ mapped' = IF left = 0 THEN [mapped EXCEPT ![b] = @ \ unmapped] ELSE mapped
      /\ wrapped' = (wrapped \/ left = Word - 1)

\* The mutex is locked and the count goes down; at 0 the buffer is unmapped.
Drop(h) ==
  LET b == ptr[h].buf
      left == Dec(count[b])
      start == ptr[h].host - ptr[h].offset
      unmapped == start .. start + ptr[h].len + ptr[h].offset - 1
  IN  /\ count' = [count EXCEPT ![b] = left]
      /\ mapped' = IF left = 0 THEN [mapped EXCEPT ![b] = @ \ unmapped] ELSE mapped
      /\ wrapped' = (wrapped \/ left = Word - 1)

Destroy(t, h) ==
  /\ Mine(t, h)
  /\ alive' = alive \ {h}
  /\ ptr' = [ptr EXCEPT ![h] = Null]
  /\ IF ptr[h].buf = 0 THEN UNCHANGED << count, mapped, wrapped >> ELSE Drop(h)
  /\ UNCHANGED << op, made, lost >>

\* Copy assignment: to a handle without a buffer it is a copy; otherwise the
\* old buffer is dropped first.
Assign(t, h, g) ==
  /\ Mine(t, h) /\ Mine(t, g) /\ h # g
  /\ \/ ptr[h].buf = 0 /\ Fields(t, h, g, 0)
     \/ /\ ptr[h].buf # 0
        /\ Drop(h)
        /\ alive' = alive \ {h}
        /\ op' = [op EXCEPT ![t] = [step |-> "assign", h |-> h, g |-> g]]
        /\ UNCHANGED << ptr, made, lost >>

AssignFields(t) == op[t].step = "assign" /\ Fields(t, op[t].h, op[t].g, 0)

MoveConstruct(t, h, g) ==
  /\ Mine(t, g) /\ Unused(h)
  /\ ptr' = [ptr EXCEPT ![h] = ptr[g], ![g] = Null]
  /\ alive' = alive \cup {h}
  /\ UNCHANGED << op, count, mapped, made, wrapped, lost >>

\* Mutant of MoveAssign: the source keeps its mutex.
MoveAssign_Keep(t, h, g) ==
  /\ Mine(t, h) /\ Mine(t, g)
  /\ ptr' = [ptr EXCEPT ![h] = ptr[g]]
  /\ lost' = (lost \/ ptr[h].buf # 0)
  /\ UNCHANGED << alive, op, count, mapped, made, wrapped >>

\* Move assignment forgets the buffer that h had, and to itself its own.
MoveAssign(t, h, g) ==
  /\ Mine(t, h) /\ Mine(t, g)
  /\ ptr' = [ptr EXCEPT ![h] = ptr[g], ![g] = Null]
  /\ lost' = (lost \/ ptr[h].buf # 0)
  /\ UNCHANGED << alive, op, count, mapped, made, wrapped >>

Next ==
  \E t \in Thread :
    \/ Take(t) \/ AssignFields(t)
    \/ \E h \in Handle :
         \/ New(t, h) \/ Default(t, h) \/ Destroy(t, h)
         \/ \E g \in Handle :
              \/ Copy(t, h, g, 0) \/ Assign(t, h, g)
              \/ \E q \in Shift : Copy(t, h, g, q) \/ Copy(t, h, g, -q)
              \/ MoveConstruct(t, h, g) \/ MoveAssign(t, h, g)

Spec == Init /\ [][Next]_vars

(***************************************************************************)
(* Properties                                                              *)
(***************************************************************************)
Holds(h, b) == h \in alive /\ ptr[h].buf = b

\* The whole buffer stays mapped, and its count and mutex exist, while any
\* handle to it is left, in any thread and with any offset, unless the 16-bit
\* count wrapped.
HeldMapped ==
  ~ wrapped => \A h \in Handle, b \in Buf : Holds(h, b) => mapped[b] = Bytes /\ count[b] > 0

\* When the last handle is gone nothing of the buffer stays mapped, unless a
\* move assignment forgot a handle or the count wrapped.
UnmappedLast ==
  ~ wrapped /\ ~ lost =>
    \A b \in Buf :
      \/ mapped[b] = {}
      \/ \E h \in Handle : Holds(h, b)
=============================================================================
