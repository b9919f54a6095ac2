------------------------------- MODULE Memory -------------------------------
(***************************************************************************)
(* The memory manager of a kernel image: #ifdef BUDDY decides which of the  *)
(* two files of Kernel/Memorymanager is compiled; the other is empty.      *)
(* What they promise is stated once here.                                  *)
(***************************************************************************)
EXTENDS MemoryParameters

VARIABLES
  build,                                    \* which of the two is compiled
  bitmap, blocksUsed, current,              \* module Bitmap
  header, free_blocks, used_mem, held       \* module Buddy

BitmapManager == INSTANCE Bitmap
BuddyManager  == INSTANCE Buddy

bitmapVars == <<bitmap, blocksUsed, current>>
buddyVars  == <<header, free_blocks, used_mem, held>>
vars       == <<build, bitmapVars, buddyVars>>

Init == build \in {"bitmap", "buddy"} /\ BitmapManager!Init /\ BuddyManager!Init

BitmapStep == build = "bitmap" /\ BitmapManager!Next /\ UNCHANGED <<build, buddyVars>>

BuddyStep == build = "buddy" /\ BuddyManager!Next /\ UNCHANGED <<build, bitmapVars>>

Next == BitmapStep \/ BuddyStep

Spec == Init /\ [][Next]_vars

-----------------------------------------------------------------------------
(* Correctness, of either manager.                                          *)

\* Whatever is allocated and freed, in whatever order, the bitmap's marks and
\* the buddy manager's lists and headers describe disjoint blocks, and the
\* bytes in use that mem reports are those of the blocks handed out.
Consistent == BitmapManager!Consistent /\ BuddyManager!Consistent

\* Merging is sound and complete: the header that the buddy manager's freeMemory
\* reads at a buddy's address is that of a block, never what is left of a merged
\* one or somebody's data, and two buddies are never both left free.
BuddiesMerge == BuddyManager!BuddyHasHeader /\ BuddyManager!FullyMerged

\* allocMemory returns a block with room for the bytes asked for (and, in the
\* buddy manager, for the header before them), and the bitmap's fails only when
\* no run of free blocks is long enough, wherever the last allocation ended.
\* The bitmap manager keeps this for the sizes that fit in a uint32_t.
RoomForRequest == BitmapManager!RoomForRequest /\ BuddyManager!RoomForRequest

\* Both managers implement the allocator of module Allocator: blocks are
\* handed out until they are freed and never overlap.
ImplementsAllocator == BitmapManager!ImplementsAllocator /\ BuddyManager!ImplementsAllocator
=============================================================================
