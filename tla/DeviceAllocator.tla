-------------------------- MODULE DeviceAllocator --------------------------
(***************************************************************************)
(* device_allocator, with which the data server places buffers in device   *)
(* memory.  A buffer smaller than a superblock is a block of a superblock  *)
(* cut into blocks of one size; a larger one is a row of superblocks.      *)
(*                                                                         *)
(* Only the data server's thread calls it, so each call is one step (its   *)
(* locks are never contended).  Addresses and lengths are in units of      *)
(* min_block_size.  Six paths of the code lose track of memory; `broken'  *)
(* names the first one taken, and a behaviour ends there.  It also ends    *)
(* where the code calls exit.                                              *)
(***************************************************************************)
EXTENDS Integers, FiniteSets, Sequences, SequencesExt

CONSTANTS
  Lists,        \* num_lists: a superblock is 2^Lists smallest blocks, 9
  Supers,       \* num_superblocks
  Lens,         \* lengths that clients ask for
  Short, Word   \* what a block id and a 32-bit address wrap at, 2^16 and 2^20

ASSUME AllocatorAssumption ==
  /\ Lists \in Nat \ {0} /\ Supers \in Nat \ {0} /\ Lens \subseteq Nat \ {0}
  /\ Short \in Nat \ {0} /\ Word \in Nat \ {0}

VARIABLES
  superblock_free_idx,   \* superblocks from here on are unused
  free_list,             \* unused superblocks below it
  superblocks,           \* of each its block size, flag and free blocks
  superblock_head_list,  \* by block size, superblocks with a free block
  live,                  \* history: the buffers that clients hold
  broken, exit

vars == << superblock_free_idx, free_list, superblocks, superblock_head_list, live, broken, exit >>

log2up(n) == CHOOSE i \in 0 .. n : n <= 2^i /\ \A j \in 0 .. i - 1 : 2^j < n
superblock_size == 2^Lists
Blocks(k) == 2^(Lists - k)
Super == 0 .. Supers - 1
Span(b) == b.addr .. b.addr + 2^b.log - 1

Init ==
  /\ superblock_free_idx = 0 /\ free_list = << >>
  /\ superblocks = [s \in Super |-> [log |-> 0, flag |-> "NONE", free_blocks |-> << >>]]
  /\ superblock_head_list = [k \in 0 .. Lists - 1 |-> {}]
  /\ live = {} /\ broken = "no" /\ exit = 0

Break(why) ==
  /\ broken' = why
  /\ UNCHANGED << superblock_free_idx, free_list, superblocks, superblock_head_list, live, exit >>

Exit(code) ==
  /\ exit' = code
  /\ UNCHANGED << superblock_free_idx, free_list, superblocks, superblock_head_list, live, broken >>

(***************************************************************************)
(* malloc                                                                  *)
(***************************************************************************)
Give(s, k, block) == live' = live \cup {[addr |-> s * superblock_size + block * 2^k, log |-> k]}

\* No superblock has a block of this size: one from the free list, otherwise
\* the first unused one, with no look at superblock_free_idx_lim.
MallocFresh(k) ==
  LET fresh == free_list = << >>
      s == IF fresh THEN superblock_free_idx ELSE Head(free_list)
  IN  /\ superblock_head_list[k] = {}
      /\ IF s \notin Super THEN Break("past_end") ELSE
           /\ superblock_free_idx' = superblock_free_idx + (IF fresh THEN 1 ELSE 0)
           /\ free_list' = IF fresh THEN << >> ELSE Tail(free_list)
           /\ superblocks' = [superblocks EXCEPT ![s] =
                [log |-> k, flag |-> "BLOCK_ALLOC",
                 free_blocks |-> [i \in 1 .. Blocks(k) - 1 |-> i - 1]]]
           /\ superblock_head_list' = [superblock_head_list EXCEPT ![k] = {s}]
           /\ Give(s, k, Blocks(k) - 1)
           /\ UNCHANGED << broken, exit >>

First(S) == CHOOSE s \in S : \A t \in S : s <= t

\* The lowest superblock with a block of this size gives its last one.  A
\* block id that free pushed with the bits of its superblock is not one of
\* this superblock's blocks.
MallocBlock(k) ==
  LET s == First(superblock_head_list[k])
      free_blocks == superblocks[s].free_blocks
  IN  /\ superblock_head_list[k] # {}
      /\ superblocks' = [superblocks EXCEPT ![s].free_blocks = Front(free_blocks)]
      /\ superblock_head_list' = IF Len(free_blocks) > 1 THEN superblock_head_list
           ELSE [superblock_head_list EXCEPT ![k] = @ \ {s}]
      /\ Give(s, k, Last(free_blocks))
      /\ broken' = IF Last(free_blocks) >= Blocks(k) THEN "stray_block" ELSE "no"
      /\ UNCHANGED << superblock_free_idx, free_list, exit >>

\* The search for a fit in a free list that is not empty does not end: its
\* loop never drops a segment.  With an empty list the superblocks are new.
\* The address is computed in 32 bits.
MallocLarge(k) ==
  LET n == 2^(k - Lists)
      s == superblock_free_idx
  IN  IF n >= Short THEN Exit(1)
      ELSE IF free_list # << >> THEN Break("search")
      ELSE IF s + n > Supers THEN Exit(3)
      ELSE
        /\ superblock_free_idx' = s + n
        /\ superblocks' = [t \in Super |->
             IF t = s
             THEN [superblocks[t] EXCEPT !.flag = "BASE_ALLOCATION", !.free_blocks = << n >>]
             ELSE IF t \in s + 1 .. s + n - 1 THEN [superblocks[t] EXCEPT !.flag = "NONE"]
             ELSE superblocks[t]]
        /\ live' = live \cup {[addr |-> (s * superblock_size) % Word, log |-> k]}
        /\ broken' = IF s * superblock_size >= Word THEN "wrapped" ELSE "no"
        /\ UNCHANGED << free_list, superblock_head_list, exit >>

Malloc(n) ==
  LET k == log2up(n)
  IN  IF k < Lists THEN MallocFresh(k) \/ MallocBlock(k) ELSE MallocLarge(k)

(***************************************************************************)
(* free                                                                    *)
(***************************************************************************)
\* Mutant of Unpacked: one superblock too many joins the unused space.
Unpacked_One(i) ==
  LET n == IF free_list = << >> THEN 0 ELSE 1
  IN  /\ superblock_free_idx' = i - n
      /\ free_list' = SubSeq(free_list, 1, Len(free_list) - n)

\* unpack_free_list_THREAD_UNSAFE, once superblock_free_idx is i: drop the
\* longest run at the end of the list that reaches i.
Unpacked(i) ==
  LET Joins(n) == \A m \in 1 .. n : free_list[Len(free_list) + 1 - m] = i - m
      n == CHOOSE n \in 0 .. Len(free_list) : Joins(n) /\ ~ (n < Len(free_list) /\ Joins(n + 1))
  IN  /\ superblock_free_idx' = i - n
      /\ free_list' = SubSeq(free_list, 1, Len(free_list) - n)

\* Where upper_bound may put s; the list need not be sorted.
UpperBound(s, p) ==
  /\ p = 0 \/ free_list[p] <= s
  /\ p = Len(free_list) \/ s < free_list[p + 1]

\* Mutant of Release: the head list keeps the superblock.
Release_KeepHead(s, k) ==
  /\ UNCHANGED superblock_head_list
  /\ IF s + 1 = superblock_free_idx THEN Unpacked(s)
     ELSE /\ \E p \in {q \in 0 .. Len(free_list) : UpperBound(s, q)} :
               free_list' = InsertAt(free_list, p + 1, s)
          /\ UNCHANGED superblock_free_idx

\* The first superblock of the head list leaves it, and s is unused again.
Release(s, k) ==
  /\ superblock_head_list' = [superblock_head_list EXCEPT ![k] = @ \ {First(@)}]
  /\ IF s + 1 = superblock_free_idx THEN Unpacked(s)
     ELSE /\ \E p \in {q \in 0 .. Len(free_list) : UpperBound(s, q)} :
               free_list' = InsertAt(free_list, p + 1, s)
          /\ UNCHANGED superblock_free_idx

\* The block id keeps the bits of the superblock, as far as 16 bits go.
block_id(a, k) == (a \div 2^k) % Short

\* With the block back, the superblock is all free and is released (of the
\* head list it may be another one that goes), or has its first free block
\* and joins the head list, or neither.
FreeBlock(b, s) ==
  LET k == superblocks[s].log
      free_blocks == Append(superblocks[s].free_blocks, block_id(b.addr, k))
      all == Len(free_blocks) = Blocks(k)
  IN  /\ superblocks' = [superblocks EXCEPT ![s].free_blocks = free_blocks]
      /\ live' = live \ {b}
      /\ \/ all /\ Release(s, k)
         \/ /\ ~ all
            /\ superblock_head_list' = IF Len(free_blocks) # 1 THEN superblock_head_list
                 ELSE [superblock_head_list EXCEPT ![k] = @ \cup {s}]
            /\ UNCHANGED << superblock_free_idx, free_list >>
      /\ broken' = IF all /\ First(superblock_head_list[k]) # s THEN "wrong_head" ELSE "no"
      /\ UNCHANGED exit

\* Down from superblock s to the first of the allocation.
Base(s) == CHOOSE t \in 0 .. s : 
  /\ superblocks[t].flag = "BASE_ALLOCATION"
  /\ \A u \in t + 1 .. s : superblocks[u].flag # "BASE_ALLOCATION"

\* The allocation's superblocks go back one by one.  The test for the upper
\* end is off by one: it holds when one superblock in use lies above.
FreeLarge(b, s) ==
  LET id == Base(s)
      n == superblocks[id].free_blocks[1]
      barrier == id + n + 1 = superblock_free_idx
  IN  IF \A t \in 0 .. s : superblocks[t].flag # "BASE_ALLOCATION" THEN Exit(7) ELSE
        /\ superblocks' = [superblocks EXCEPT ![id].free_blocks = << >>]
        /\ live' = live \ {b}
        /\ broken' = IF barrier THEN "barrier" ELSE "no"
        /\ IF barrier THEN Unpacked(id)
           ELSE free_list' = free_list \o [i \in 1 .. n |-> id + i - 1] /\ UNCHANGED superblock_free_idx
        /\ UNCHANGED << superblock_head_list, exit >>

\* get_block_info finds the superblock, its flag tells how it is used.
Free(b) ==
  LET s == (b.addr \div superblock_size) % (2 * Supers)
  IN  IF superblocks[s].flag = "BLOCK_ALLOC" THEN FreeBlock(b, s) ELSE FreeLarge(b, s)

Running == broken = "no" /\ exit = 0

Next ==
  /\ Running
  /\ \/ \E n \in Lens : Malloc(n)
     \/ \E b \in live : Free(b)

Spec == Init /\ [][Next]_vars

(***************************************************************************)
(* Properties                                                              *)
(***************************************************************************)
SupersOf(b) == {a \div superblock_size : a \in Span(b)}
Holds(s) == \E b \in live : s \in SupersOf(b)

\* Buffers that clients hold do not overlap and lie in the device, whatever
\* mallocs and frees of any size came before, as long as none of the six
\* paths was taken: what DataServer.tla takes from the allocator.
LiveDisjoint ==
  broken = "no" =>
    \A b \in live : /\ Span(b) \subseteq 0 .. Supers * superblock_size - 1
                    /\ \A c \in live \ {b} : Span(b) \cap Span(c) = {}

\* No superblock is lost and none has two uses: one below superblock_free_idx
\* is in the free list, once, exactly when no client holds a part of it; one
\* above is in neither; the head lists have those that are partly held.
Accounted ==
  broken = "no" =>
    /\ \A s \in Super : Cardinality({i \in DOMAIN free_list : free_list[i] = s}) =
         IF s < superblock_free_idx /\ ~ Holds(s) THEN 1 ELSE 0
    /\ \A s \in Super : Holds(s) => s < superblock_free_idx
    /\ \A k \in DOMAIN superblock_head_list : superblock_head_list[k] =
         {s \in Super : /\ superblocks[s].flag = "BLOCK_ALLOC" /\ superblocks[s].log = k
                        /\ Holds(s) /\ superblocks[s].free_blocks # << >>}
    /\ exit \in {0, 1, 3}

=============================================================================
