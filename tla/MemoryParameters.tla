-------------------------- MODULE MemoryParameters --------------------------
(***************************************************************************)
(* The parameters of the two memory managers of the kernel, modules Bitmap *)
(* and Buddy (Kernel/include/memoryManager.h, defs.h and the macros of the *)
(* two files).                                                             *)
(***************************************************************************)
EXTENDS Integers

CONSTANTS
  Requests,       \* sizes in bytes that programs ask for
  UINT_RANGE,     \* Bitmap: the number of values of a uint32_t, 2^32
  blockQty,       \* Bitmap: blocks of the heap that the bitmap does not occupy
  BLOCK_SIZE,     \* Bitmap: bytes of a block
  HEAP_SIZE,      \* Buddy: bytes of the region given to createMemoryManager
  MIN_ORDER,      \* Buddy: blocks have at least 2^MIN_ORDER bytes
  HEADER          \* Buddy: sizeof(block_t)

\* Nobody asks for a size whose low 32 bits are 0: the bitmap manager's
\* allocMemory would count 0 blocks and mark past the end of its bitmap.
ASSUME RequestAssumption ==
  /\ UINT_RANGE \in Nat \ {0}
  /\ Requests \subseteq {n \in Nat : n % UINT_RANGE # 0}

ASSUME BitmapAssumption == blockQty \in Nat /\ BLOCK_SIZE \in Nat \ {0}

\* The order of a number of bytes: the loops of the buddy manager's
\* createMemoryManager and allocMemory, that double a size until it is large
\* enough.
OrderOf(bytes) == CHOOSE o \in 0..bytes : 2^o >= bytes /\ \A p \in 0..(o - 1) : 2^p < bytes

\* The order of the whole heap.
max_order == OrderOf(HEAP_SIZE)

ASSUME BuddyAssumption ==
  /\ HEAP_SIZE \in Nat \ {0} /\ MIN_ORDER \in Nat \ {0} /\ HEADER \in Nat
  /\ HEADER <= 2^MIN_ORDER /\ MIN_ORDER <= max_order
=============================================================================
