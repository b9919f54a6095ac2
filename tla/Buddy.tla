-------------------------------- MODULE Buddy --------------------------------
(***************************************************************************)
(* The other memory manager (built with BUDDY defined),                    *)
(* Kernel/Memorymanager/BuddyMemoryManager.c.                              *)
(*                                                                         *)
(* A block has a header in its first bytes: header[a] is what the bytes at *)
(* address a last held, whether or not a block still starts there, and     *)
(* NoHeader where none was ever written.  free_blocks[o] is the list of    *)
(* free blocks of order o.  held is the set of blocks whose owners have    *)
(* not freed them; programs free each block once.                          *)
(***************************************************************************)
EXTENDS MemoryParameters, Sequences, FiniteSets, FiniteSetsExt

VARIABLES header, free_blocks, used_mem, held
vars == <<header, free_blocks, used_mem, held>>

Order    == MIN_ORDER..max_order
Address  == {a \in 0..(2^max_order - 1) : a % 2^MIN_ORDER = 0}
NoHeader == [order |-> -1, status |-> "none"]

\* A manager state b is [header, free]; the functions of the file map one to
\* the next.
CreateBlock(b, a, o) ==
  [header |-> [b.header EXCEPT ![a] = [order |-> o, status |-> "FREE"]],
   free   |-> [b.free EXCEPT ![o] = <<a>> \o @]]

InList(b, a) == \E i \in 1..Len(b.free[b.header[a].order]) : b.free[b.header[a].order][i] = a

\* Mutant: the block stays in its list.
RemoveNothing(b, a) == [b EXCEPT !.header[a].status = "OCCUPIED"]

\* remove_block: unlink the block and mark it, if its list has it.
RemoveBlock(b, a) ==
  IF InList(b, a)
  THEN [header |-> [b.header EXCEPT ![a].status = "OCCUPIED"],
        free   |-> [b.free EXCEPT ![b.header[a].order] = SelectSeq(@, LAMBDA c : c # a)]]
  ELSE b

SplitBlock(b, o) ==
  LET a == Head(b.free[o])
  IN  CreateBlock(CreateBlock(RemoveBlock(b, a), a + 2^(o - 1), o - 1), a, o - 1)

\* createMemoryManager.
Init ==
  /\ header = [a \in Address |-> IF a = 0 THEN [order |-> max_order, status |-> "FREE"] ELSE NoHeader]
  /\ free_blocks = [o \in Order |-> IF o = max_order THEN <<0>> ELSE << >>]
  /\ used_mem = 0
  /\ held = {}

Manager == [header |-> header, free |-> free_blocks]

\* The order allocMemory computes for a request.
Needed(size) ==
  LET o == OrderOf(size + HEADER)
  IN  IF o > MIN_ORDER THEN o ELSE MIN_ORDER

\* The smallest order with a free block that is large enough; none, and
\* allocMemory returns NULL.
Candidates(o) == {i \in o..max_order : free_blocks[i] # << >>}

\* Split from order i down to order o.
SplitDown(b, i, o) ==
  LET f[j \in o..i] == IF j = i THEN b ELSE SplitBlock(f[j + 1], j + 1)
  IN  f[o]

AllocMemory(size) ==
  LET o  == Needed(size)
      b1 == SplitDown(Manager, Min(Candidates(o)), o)
      a  == Head(b1.free[o])
      b2 == RemoveBlock(b1, a)
  IN  /\ size <= HEAP_SIZE
      /\ Candidates(o) # {}
      /\ header' = [b2.header EXCEPT ![a].status = "OCCUPIED"]
      /\ free_blocks' = b2.free
      /\ used_mem' = used_mem + 2^o
      /\ held' = held \cup {a}

\* block_pos ^ (1L << order)
BuddyOf(a, o) == IF (a \div 2^o) % 2 = 0 THEN a + 2^o ELSE a - 2^o

\* Mutant: the buddy's order is not compared.
MergeAnyOrder(s, o) ==
  LET buddy == BuddyOf(s.at, o)
      left  == IF s.at < buddy THEN s.at ELSE buddy
      b1    == RemoveBlock(RemoveBlock(s.b, s.at), buddy)
  IN  IF s.done \/ s.b.header[buddy].status # "FREE"
      THEN [s EXCEPT !.done = TRUE]
      ELSE [s EXCEPT !.b = [b1 EXCEPT !.header[left].order = o + 1], !.at = left]

\* One turn of freeMemory's loop, on s = [b, at, done] with a block of order o.
Merge(s, o) ==
  LET buddy == BuddyOf(s.at, o)
      left  == IF s.at < buddy THEN s.at ELSE buddy
      b1    == RemoveBlock(RemoveBlock(s.b, s.at), buddy)
  IN  IF s.done \/ s.b.header[buddy].status # "FREE" \/ s.b.header[buddy].order # o
      THEN [s EXCEPT !.done = TRUE]
      ELSE [s EXCEPT !.b = [b1 EXCEPT !.header[left].order = @ + 1], !.at = left]

FreeMemory(a) ==
  LET o0 == header[a].order
      f[o \in o0..max_order] ==
        IF o = o0 THEN [b |-> [Manager EXCEPT !.header[a].status = "FREE"], at |-> a, done |-> FALSE]
                  ELSE Merge(f[o - 1], o - 1)
      s  == f[max_order]
      b  == CreateBlock(s.b, s.at, s.b.header[s.at].order)
  IN  /\ header[a].status # "FREE"
      /\ header' = b.header
      /\ free_blocks' = b.free
      /\ used_mem' = used_mem - 2^o0
      /\ held' = held \ {a}

Next == (\E size \in Requests : AllocMemory(size)) \/ (\E a \in held : FreeMemory(a))

Spec == Init /\ [][Next]_vars

-----------------------------------------------------------------------------
(* Correctness.                                                             *)

FreeBlocks(o) == {free_blocks[o][i] : i \in 1..Len(free_blocks[o])}
AllFree       == UNION {FreeBlocks(o) : o \in Order}
SizeOf(a)     == 2^header[a].order
Bytes(a)      == a..(a + SizeOf(a) - 1)

\* Free and held blocks tile the heap: they are disjoint, cover every byte
\* once and are aligned to their size, and each free block is in the list of
\* its order, once.
Tiling ==
  /\ AllFree \cap held = {}
  /\ \A a, c \in AllFree \cup held : a # c => Bytes(a) \cap Bytes(c) = {}
  /\ MapThenSumSet(SizeOf, AllFree \cup held) = 2^max_order
  /\ \A a \in AllFree \cup held : a % SizeOf(a) = 0
  /\ \A o \in Order : /\ \A a \in FreeBlocks(o) : header[a].order = o
                      /\ Cardinality(FreeBlocks(o)) = Len(free_blocks[o])

\* used_mem, which mem reports, is the size of the blocks in use, and only
\* they are marked OCCUPIED among the blocks.
UsedIsExact ==
  /\ used_mem = MapThenSumSet(SizeOf, held)
  /\ \A a \in AllFree \cup held : header[a].status = "OCCUPIED" <=> a \in held

\* The manager stays consistent, through splits and merges in any order.
Consistent == Tiling /\ UsedIsExact

\* The header freeMemory reads at the buddy's address is the header of a
\* block, never what is left of a merged one or bytes of somebody's data.
BuddyHasHeader ==
  \A a \in held : header[a].order < max_order => BuddyOf(a, header[a].order) \in AllFree \cup held

\* Two buddies are never both free: whatever the order of the calls, freeing
\* restores the largest blocks (all of the heap when nothing is held).
FullyMerged ==
  \A o \in Order \ {max_order} : \A a \in FreeBlocks(o) : BuddyOf(a, o) \notin FreeBlocks(o)

\* A new block has room for its header and for the bytes asked for.
RoomForRequest ==
  [][\A size \in Requests : AllocMemory(size) =>
       \E a \in held' \ held : SizeOf(a)' >= size + HEADER]_vars

\* The blocks held behave as the blocks of an allocator.
Abstract == INSTANCE Allocator
              WITH live      <- {[at |-> a, size |-> SizeOf(a)] : a \in held},
                   HeapUnits <- 2^max_order

ImplementsAllocator == Abstract!Spec
==============================================================================
