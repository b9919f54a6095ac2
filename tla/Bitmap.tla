------------------------------- MODULE Bitmap -------------------------------
(***************************************************************************)
(* The default memory manager, Kernel/Memorymanager/bitmapMemoryManager.c: *)
(* one mark per block, next-fit search from where the last allocation      *)
(* ended.  Addresses are block numbers; requests are in bytes and at least *)
(* one byte.  Freeing is tried at every address, not only at those that    *)
(* were handed out: the marks tell them apart.                             *)
(***************************************************************************)
EXTENDS MemoryParameters, FiniteSets

VARIABLES bitmap, blocksUsed, current
vars == <<bitmap, blocksUsed, current>>

Block == 0..(blockQty - 1)
Mark  == {"FREE", "USED", "START_BOUNDARY", "END_BOUNDARY", "SINGLE_BLOCK"}
NULL  == -1

Init ==
  /\ bitmap = [i \in Block |-> "FREE"]
  /\ blocksUsed = 0
  /\ current = 0

\* sizeToBlockQty takes a uint32_t, allocMemory passes it a uint64_t.
SizeToBlockQty(size) ==
  LET low == size % UINT_RANGE
  IN  IF low % BLOCK_SIZE # 0 THEN (low \div BLOCK_SIZE) + 1 ELSE low \div BLOCK_SIZE

FreeRun(i, n) == \A j \in i..(i + n - 1) : bitmap[j] = "FREE"

\* findFreeBlocks(n, start, blockQty): the first run of n free blocks.
FindFreeBlocks(n, start) ==
  LET found == {i \in start..(blockQty - n) : FreeRun(i, n)}
  IN  IF found = {} THEN NULL ELSE CHOOSE i \in found : \A j \in found : i <= j

\* Mutant: no second search from the beginning.
SearchOnce(n) == FindFreeBlocks(n, current)

Search(n) ==
  LET i == FindFreeBlocks(n, current)
  IN  IF i # NULL THEN i ELSE FindFreeBlocks(n, 0)

\* The address allocMemory(size) returns.
Result(size) ==
  LET n == SizeToBlockQty(size)
  IN  IF n > blockQty - blocksUsed THEN NULL ELSE Search(n)

\* The mark of block j in a group of n blocks at i (markGroupAsUsed, and the
\* single block case of allocMemory).
GroupMark(i, n, j) ==
  IF n = 1 THEN "SINGLE_BLOCK"
  ELSE IF j = i THEN "START_BOUNDARY"
  ELSE IF j = i + n - 1 THEN "END_BOUNDARY" ELSE "USED"

AllocMemory(size) ==
  LET n == SizeToBlockQty(size)
      i == Result(size)
  IN  /\ i # NULL
      /\ bitmap' = [j \in Block |-> IF j \in i..(i + n - 1) THEN GroupMark(i, n, j) ELSE bitmap[j]]
      /\ blocksUsed' = blocksUsed + n
      /\ current' = i + n

\* The loop of freeMemory: from a start boundary to the next end boundary.
EndOf(i) == CHOOSE j \in Block : /\ j >= i /\ bitmap[j] = "END_BOUNDARY"
                                 /\ \A m \in i..(j - 1) : bitmap[m] # "END_BOUNDARY"

\* Mutant: the end boundary stays marked.
LastLeft(i) == IF bitmap[i] = "SINGLE_BLOCK" THEN i ELSE EndOf(i) - 1

LastOf(i) == IF bitmap[i] = "SINGLE_BLOCK" THEN i ELSE EndOf(i)

FreeMemory(i) ==
  /\ bitmap[i] \in {"SINGLE_BLOCK", "START_BOUNDARY"}
  /\ bitmap' = [j \in Block |-> IF j \in i..LastOf(i) THEN "FREE" ELSE bitmap[j]]
  /\ blocksUsed' = blocksUsed - (LastOf(i) - i + 1)
  /\ UNCHANGED current

Next == (\E size \in Requests : AllocMemory(size)) \/ (\E i \in Block : FreeMemory(i))

Spec == Init /\ [][Next]_vars

-----------------------------------------------------------------------------
(* Correctness.                                                             *)

\* The groups of blocks that the marks describe.
Group(i, n) == \A j \in i..(i + n - 1) : bitmap[j] = GroupMark(i, n, j)
Groups      == UNION {{[at |-> i, size |-> n] : n \in {m \in 1..(blockQty - i) : Group(i, m)}} :
                        i \in {j \in Block : bitmap[j] \in {"SINGLE_BLOCK", "START_BOUNDARY"}}}

\* Every mark belongs to a group.
NoStrayMark ==
  \A j \in Block : bitmap[j] # "FREE" =>
    \E g \in Groups : j \in g.at..(g.at + g.size - 1)

\* blocksUsed, which allocMemory trusts to refuse a request and mem reports,
\* is the number of blocks in use.
UsedIsExact == blocksUsed = Cardinality({j \in Block : bitmap[j] # "FREE"})

\* The manager stays consistent: allocating next to groups and freeing them
\* in any order, at right and wrong addresses, never leaves half a group or a
\* wrong count, and current stays inside the heap.
Consistent == NoStrayMark /\ UsedIsExact /\ current \in 0..blockQty

\* allocMemory fails only when no run of free blocks is long enough, wherever
\* the last allocation ended.
NullMeansNoRoom ==
  \A size \in Requests : Result(size) = NULL =>
    ~\E i \in Block : i + SizeToBlockQty(size) <= blockQty /\ FreeRun(i, SizeToBlockQty(size))

\* A request is refused only then, and a new block has room for the bytes that
\* were asked for, as far as a uint32_t holds their number: of a larger one
\* only the remainder is served.
RoomForRequest ==
  [][/\ NullMeansNoRoom
     /\ \A size \in Requests : AllocMemory(size) =>
          \E g \in Groups' \ Groups :
            /\ g.size * BLOCK_SIZE >= size % UINT_RANGE
            /\ size < UINT_RANGE => g.size * BLOCK_SIZE >= size]_vars

\* The groups behave as the blocks of an allocator.
Abstract == INSTANCE Allocator WITH live <- Groups, HeapUnits <- blockQty

ImplementsAllocator == Abstract!Spec
=============================================================================
