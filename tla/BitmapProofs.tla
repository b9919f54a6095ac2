---------------------------- MODULE BitmapProofs ----------------------------
(***************************************************************************)
(* Proofs about the bitmap memory manager for any number and size of       *)
(* blocks and any requests (cut to a uint32_t, as the code does): the      *)
(* marks always describe groups of blocks, the count of used blocks is     *)
(* exact, a request is refused only when there is no room, and the manager *)
(* implements the abstract allocator.                                      *)
(*                                                                         *)
(* Allocating and freeing are one relation between two bitmaps, Carved,    *)
(* read forwards and backwards.                                            *)
(***************************************************************************)
EXTENDS Bitmap, FiniteSetTheorems, TLAPS

-----------------------------------------------------------------------------
(* Groups of marks in any bitmap.                                           *)

Span(i, n) == i..(i + n - 1)

\* b marks the n blocks at i as one group.
GroupIn(b, i, n) == \A j \in Span(i, n) : b[j] = GroupMark(i, n, j)

GroupsIn(b) == {g \in [at : Block, size : 1..blockQty] :
                  g.at + g.size <= blockQty /\ GroupIn(b, g.at, g.size)}

Covered(b) == \A j \in Block : b[j] # "FREE" => \E g \in GroupsIn(b) : j \in Span(g.at, g.size)

UsedBlocks(b) == {j \in Block : b[j] # "FREE"}

\* The heap, and the places for n blocks in it.
LEMMA BlockFact ==
  /\ blockQty \in Nat /\ BLOCK_SIZE \in Nat /\ BLOCK_SIZE > 0
  /\ \A i \in Block : i \in Nat /\ i < blockQty
  /\ \A i \in Nat : i < blockQty => i \in Block
BY BitmapAssumption DEF Block

\* A group of the marks is a place for some blocks, and the marks at it.
LEMMA GroupFact ==
  ASSUME NEW b, NEW i \in Block, NEW n \in 1..(blockQty - i), GroupIn(b, i, n)
  PROVE  [at |-> i, size |-> n] \in GroupsIn(b)
BY BlockFact DEF GroupsIn

\* The ranges of a group, and that it lies inside the heap.
LEMMA GroupType ==
  ASSUME NEW b, NEW g \in GroupsIn(b)
  PROVE  /\ g.at \in Block /\ g.at \in Nat /\ g.size \in 1..(blockQty - g.at) /\ g.size \in Nat
         /\ GroupIn(b, g.at, g.size) /\ g = [at |-> g.at, size |-> g.size]
         /\ Span(g.at, g.size) \subseteq Block
BY BlockFact DEF GroupsIn, Span, Block

\* The marks of a group: how it starts and how it goes on.
LEMMA GroupMarks ==
  ASSUME NEW b, NEW i \in Nat, NEW n \in Nat, n >= 1, GroupIn(b, i, n)
  PROVE  /\ i \in Span(i, n) /\ i + n - 1 \in Span(i, n)
         /\ b[i] \in {"SINGLE_BLOCK", "START_BOUNDARY"}
         /\ b[i] = "SINGLE_BLOCK" <=> n = 1
         /\ n > 1 => b[i + n - 1] = "END_BOUNDARY"
         /\ \A j \in Span(i, n) : j # i => b[j] \in {"USED", "END_BOUNDARY"}
         /\ \A j \in Span(i, n) : j < i + n - 1 => b[j] # "END_BOUNDARY"
         /\ \A j \in Span(i, n) : b[j] # "FREE"
BY DEF GroupIn, GroupMark, Span

\* Two groups that share a block are the same.
LEMMA GroupUnique ==
  ASSUME NEW b, NEW i \in Nat, NEW n \in Nat, n >= 1, GroupIn(b, i, n),
         NEW j \in Nat, NEW m \in Nat, m >= 1, GroupIn(b, j, m),
         NEW x \in Span(i, n), x \in Span(j, m)
  PROVE  i = j /\ n = m
<1>1. ASSUME NEW u \in Nat, NEW v \in Nat, v >= 1, GroupIn(b, u, v),
             NEW w \in Nat, NEW z \in Nat, z >= 1, GroupIn(b, w, z),
             x \in Span(u, v), x \in Span(w, z), u < w
      PROVE  FALSE
  <2>1. w \in Span(u, v)
    BY <1>1 DEF Span
  <2>2. b[w] \in {"USED", "END_BOUNDARY"}
    BY <1>1, <2>1, GroupMarks
  <2>3. b[w] \in {"SINGLE_BLOCK", "START_BOUNDARY"}
    BY <1>1, GroupMarks
  <2>4. QED
    BY <2>2, <2>3
<1>2. i = j
  <2>1. ~(i < j) /\ ~(j < i)
    BY <1>1
  <2>2. QED
    BY <2>1
<1>3. ASSUME NEW u \in Nat, NEW v \in Nat, u >= 1, GroupIn(b, i, u), v >= 1, GroupIn(b, i, v), u < v
      PROVE  FALSE
  <2>1. b[i] # "SINGLE_BLOCK"
    BY <1>3, GroupMarks
  <2>2. u > 1
    BY <1>3, <2>1, GroupMarks
  <2>3. b[i + u - 1] = "END_BOUNDARY"
    BY <1>3, <2>2, GroupMarks
  <2>4. i + u - 1 \in Span(i, v) /\ i + u - 1 < i + v - 1
    BY <1>3, <2>2 DEF Span
  <2>5. QED
    BY <1>3, <2>3, <2>4, GroupMarks
<1>4. ~(n < m) /\ ~(m < n)
  BY <1>2, <1>3
<1>5. QED
  BY <1>2, <1>4

\* b1 is b0 with the n free blocks at i marked as a group.
Carved(b0, b1, i, n) ==
  /\ b0 \in [Block -> Mark] /\ b1 \in [Block -> Mark]
  /\ i \in Block /\ n \in 1..(blockQty - i)
  /\ GroupIn(b1, i, n)
  /\ \A j \in Span(i, n) : b0[j] = "FREE"
  /\ \A j \in Block \ Span(i, n) : b1[j] = b0[j]

\* Carving a group adds it to the groups, leaves the others where they are,
\* and adds its blocks to those in use.
LEMMA CarveFact ==
  ASSUME NEW b0, NEW b1, NEW i, NEW n, Carved(b0, b1, i, n)
  PROVE  /\ GroupsIn(b1) = GroupsIn(b0) \cup {[at |-> i, size |-> n]}
         /\ [at |-> i, size |-> n] \notin GroupsIn(b0)
         /\ \A g \in GroupsIn(b0) : Span(g.at, g.size) \cap Span(i, n) = {}
         /\ Covered(b0) <=> Covered(b1)
         /\ UsedBlocks(b1) = UsedBlocks(b0) \cup Span(i, n)
         /\ UsedBlocks(b0) \cap Span(i, n) = {}
<1> DEFINE new == [at |-> i, size |-> n]
           S == Span(i, n)
<1>1. /\ i \in Block /\ i \in Nat /\ n \in 1..(blockQty - i) /\ n \in Nat /\ n >= 1 /\ GroupIn(b1, i, n)
      /\ \A j \in S : b0[j] = "FREE" /\ b1[j] # "FREE"
      /\ \A j \in Block \ S : b1[j] = b0[j]
      /\ i \in S /\ S \subseteq Block
  <2>1. /\ i \in Block /\ i \in Nat /\ n \in 1..(blockQty - i) /\ n \in Nat /\ n >= 1 /\ GroupIn(b1, i, n)
        /\ \A j \in S : b0[j] = "FREE"
        /\ \A j \in Block \ S : b1[j] = b0[j]
    BY BlockFact DEF Carved
  <2>2. i \in S /\ S \subseteq Block
    BY <2>1, BlockFact DEF Span, Block
  <2>3. QED
    BY <2>1, <2>2, GroupMarks
<1>2. new \in GroupsIn(b1) /\ new.at = i /\ new.size = n
  BY <1>1, GroupFact
<1> HIDE DEF new, S
<1>3. ASSUME NEW g \in GroupsIn(b0) PROVE Span(g.at, g.size) \cap S = {}
  <2>1. /\ g.at \in Nat /\ g.size \in Nat /\ g.size >= 1 /\ GroupIn(b0, g.at, g.size)
    BY <1>3, GroupType
  <2>2. \A j \in Span(g.at, g.size) : b0[j] # "FREE"
    BY <2>1, GroupMarks
  <2>3. QED
    BY <1>1, <2>2
<1>4. ASSUME NEW g \in GroupsIn(b0) PROVE g \in GroupsIn(b1)
  <2>1. /\ g.at \in Block /\ g.size \in 1..(blockQty - g.at) /\ GroupIn(b0, g.at, g.size)
        /\ g = [at |-> g.at, size |-> g.size] /\ Span(g.at, g.size) \subseteq Block
    BY <1>4, GroupType
  <2>2. GroupIn(b1, g.at, g.size)
    BY <1>1, <1>3, <1>4, <2>1 DEF GroupIn
  <2>3. QED
    BY <2>1, <2>2, GroupFact
<1>5. ASSUME NEW g \in GroupsIn(b1), g # new PROVE g \in GroupsIn(b0) /\ Span(g.at, g.size) \cap S = {}
  <2>1. /\ g.at \in Block /\ g.at \in Nat /\ g.size \in 1..(blockQty - g.at) /\ g.size \in Nat
        /\ GroupIn(b1, g.at, g.size)
        /\ g = [at |-> g.at, size |-> g.size] /\ Span(g.at, g.size) \subseteq Block
    BY <1>5, GroupType
  <2>2. ASSUME NEW x \in Span(g.at, g.size), x \in S PROVE FALSE
    <3>1. g.at = i /\ g.size = n
      BY <1>1, <2>1, <2>2, GroupUnique DEF S
    <3>2. QED
      BY <1>5, <2>1, <3>1 DEF new
  <2>3. GroupIn(b0, g.at, g.size)
    BY <1>1, <2>1, <2>2 DEF GroupIn
  <2>4. QED
    BY <2>1, <2>2, <2>3, GroupFact
<1>6. new \notin GroupsIn(b0)
  <2>1. new \in GroupsIn(b0) => Span(i, n) \cap S = {}
    BY <1>2, <1>3
  <2>2. QED
    BY <1>1, <2>1 DEF S
<1>7. UsedBlocks(b1) = UsedBlocks(b0) \cup S /\ UsedBlocks(b0) \cap S = {}
  BY <1>1 DEF UsedBlocks
<1>8. Covered(b0) => Covered(b1)
  BY <1>1, <1>2, <1>4 DEF Covered, S
<1>9. Covered(b1) => Covered(b0)
  <2> SUFFICES ASSUME Covered(b1), NEW j \in Block, b0[j] # "FREE"
               PROVE  \E g \in GroupsIn(b0) : j \in Span(g.at, g.size)
    BY DEF Covered
  <2>1. j \notin S /\ b1[j] # "FREE"
    BY <1>1
  <2>2. PICK g \in GroupsIn(b1) : j \in Span(g.at, g.size)
    BY <2>1 DEF Covered
  <2>3. g # new
    BY <1>2, <2>1, <2>2 DEF S
  <2>4. QED
    BY <1>5, <2>2, <2>3
<1>10. QED
  BY <1>2, <1>3, <1>4, <1>5, <1>6, <1>7, <1>8, <1>9 DEF new, S

\* Taking a group away leaves no stray mark.
LEMMA UncarveCovered ==
  ASSUME NEW b0, NEW b1, NEW i, NEW n, Carved(b0, b1, i, n), Covered(b1)
  PROVE  Covered(b0)
<1>1. Covered(b0) <=> Covered(b1)
  BY CarveFact, Zenon
<1>2. QED
  BY <1>1

\* What a carving adds to the count of used blocks.
LEMMA CarveCount ==
  ASSUME NEW b0, NEW b1, NEW i, NEW n, Carved(b0, b1, i, n)
  PROVE  /\ Cardinality(UsedBlocks(b1)) = Cardinality(UsedBlocks(b0)) + n
         /\ Cardinality(UsedBlocks(b0)) \in Nat
<1>1. /\ i \in Nat /\ n \in Nat /\ n >= 1
      /\ UsedBlocks(b1) = UsedBlocks(b0) \cup Span(i, n) /\ UsedBlocks(b0) \cap Span(i, n) = {}
  <2>1. i \in Nat /\ n \in Nat /\ n >= 1
    BY BlockFact DEF Carved
  <2>2. UsedBlocks(b1) = UsedBlocks(b0) \cup Span(i, n) /\ UsedBlocks(b0) \cap Span(i, n) = {}
    BY CarveFact
  <2>3. QED
    BY <2>1, <2>2
<1>2. IsFiniteSet(Block) /\ UsedBlocks(b0) \in SUBSET Block
  BY BlockFact, FS_Interval DEF Block, UsedBlocks
<1>3. IsFiniteSet(UsedBlocks(b0)) /\ Cardinality(UsedBlocks(b0)) \in Nat
  BY <1>2, FS_Subset, FS_CardinalityType
<1>4. IsFiniteSet(Span(i, n)) /\ Cardinality(Span(i, n)) = n
  <2> DEFINE e == i + n - 1
  <2>1. i \in Int /\ e \in Int /\ ~(i > e) /\ e - i + 1 = n /\ Span(i, n) = i..e
    BY <1>1 DEF Span
  <2> HIDE DEF e
  <2>2. IsFiniteSet(i..e) /\ Cardinality(i..e) = IF i > e THEN 0 ELSE e - i + 1
    BY <2>1, FS_Interval
  <2>3. QED
    BY <2>1, <2>2
<1>5. Cardinality(UsedBlocks(b0) \cup Span(i, n))
        = Cardinality(UsedBlocks(b0)) + Cardinality(Span(i, n)) - Cardinality(UsedBlocks(b0) \cap Span(i, n))
  BY <1>3, <1>4, FS_Union
<1>6. QED
  BY <1>1, <1>3, <1>4, <1>5, FS_EmptySet

-----------------------------------------------------------------------------
(* The operations.                                                          *)

\* The marks are groups, their number is known, and the search starts inside.
BInv ==
  /\ bitmap \in [Block -> Mark]
  /\ Covered(bitmap)
  /\ blocksUsed = Cardinality(UsedBlocks(bitmap))
  /\ current \in 0..blockQty

\* The groups of module Bitmap.
LEMMA GroupsFact == Groups = GroupsIn(bitmap)
<1>1. ASSUME NEW g \in Groups PROVE g \in GroupsIn(bitmap)
  <2>1. PICK i \in Block : \E n \in 1..(blockQty - i) : g = [at |-> i, size |-> n] /\ Group(i, n)
    BY <1>1 DEF Groups
  <2>2. PICK n \in 1..(blockQty - i) : g = [at |-> i, size |-> n] /\ Group(i, n)
    BY <2>1
  <2>3. GroupIn(bitmap, i, n)
    BY <2>2 DEF Group, GroupIn, Span
  <2>4. QED
    BY <2>2, <2>3, GroupFact
<1>2. ASSUME NEW g \in GroupsIn(bitmap) PROVE g \in Groups
  <2>1. /\ g.at \in Block /\ g.at \in Nat /\ g.size \in 1..(blockQty - g.at) /\ g.size \in Nat
        /\ g.size >= 1 /\ GroupIn(bitmap, g.at, g.size) /\ g = [at |-> g.at, size |-> g.size]
    BY <1>2, GroupType
  <2>2. Group(g.at, g.size)
    BY <2>1 DEF Group, GroupIn, Span
  <2>3. bitmap[g.at] \in {"SINGLE_BLOCK", "START_BOUNDARY"}
    BY <2>1, GroupMarks
  <2>4. QED
    BY <2>1, <2>2, <2>3 DEF Groups
<1>3. QED
  BY <1>1, <1>2

\* sizeToBlockQty rounds up: at least one block, with room for as many bytes as
\* its uint32_t says, which are all of them below UINT_RANGE.
LEMMA SizeFact ==
  ASSUME NEW size \in Requests
  PROVE  /\ SizeToBlockQty(size) \in Nat /\ SizeToBlockQty(size) >= 1
         /\ SizeToBlockQty(size) * BLOCK_SIZE >= size % UINT_RANGE
         /\ size < UINT_RANGE => SizeToBlockQty(size) * BLOCK_SIZE >= size
<1> DEFINE low == size % UINT_RANGE
<1>0. size < UINT_RANGE => low = size
  BY RequestAssumption
<1>1. low \in Nat /\ low >= 1 /\ BLOCK_SIZE \in Nat /\ BLOCK_SIZE > 0
  BY RequestAssumption, BitmapAssumption
<1> DEFINE q == low \div BLOCK_SIZE
           r == low % BLOCK_SIZE
<1> HIDE DEF low
<1>2. q \in Nat /\ r \in Nat /\ r < BLOCK_SIZE /\ low = BLOCK_SIZE * q + r
  BY <1>1, Z3
<1>3. SizeToBlockQty(size) = IF r # 0 THEN q + 1 ELSE q
  BY DEF SizeToBlockQty, low
<1> HIDE DEF q, r
<1>4. ASSUME r = 0 
      PROVE  /\ SizeToBlockQty(size) \in Nat /\ SizeToBlockQty(size) >= 1
             /\ SizeToBlockQty(size) * BLOCK_SIZE >= low
  <2>1. q >= 1
    BY <1>1, <1>2, <1>4
  <2>2. q * BLOCK_SIZE = low
    BY <1>1, <1>2, <1>4
  <2>3. QED
    BY <1>1, <1>2, <1>3, <1>4, <2>1, <2>2
<1>5. ASSUME r # 0 
      PROVE  /\ SizeToBlockQty(size) \in Nat /\ SizeToBlockQty(size) >= 1
             /\ SizeToBlockQty(size) * BLOCK_SIZE >= low
  <2>1. (q + 1) * BLOCK_SIZE = BLOCK_SIZE * q + BLOCK_SIZE
    BY <1>1, <1>2
  <2>2. (q + 1) * BLOCK_SIZE >= low
    BY <1>1, <1>2, <2>1
  <2>3. QED
    BY <1>1, <1>2, <1>3, <1>5, <2>2
<1> DEFINE n == SizeToBlockQty(size)
<1>6. n \in Nat /\ n >= 1 /\ n * BLOCK_SIZE >= low
  BY <1>4, <1>5
<1> HIDE DEF n
<1>7. size < UINT_RANGE => n * BLOCK_SIZE >= size
  BY <1>0, <1>6
<1>8. QED
  BY <1>6, <1>7 DEF low, n

\* A set of block numbers that is not empty has a smallest one: the search
\* stops there.
LEMMA FirstOf ==
  ASSUME NEW T, T \subseteq Nat, T # {}
  PROVE  \E x \in T : \A y \in T : x <= y
<1> DEFINE R == {ss \in Nat \X Nat : ss[1] < ss[2]}
<1>1. IsWellFoundedOn(R, Nat)
  BY NatLessThanWellFounded DEF OpToRel
<1>2. \A x, y \in Nat : <<y, x>> \in R <=> y < x
  OBVIOUS
<1> HIDE DEF R
<1>3. PICK x \in T : \A y \in T : ~ (<<y, x>> \in R)
  BY <1>1, WFMin
<1>4. \A y \in T : x \in Nat /\ y \in Nat /\ ~(y < x)
  BY <1>2, <1>3
<1>5. \A y \in T : x <= y
  BY <1>4
<1>6. QED
  BY <1>5

\* findFreeBlocks: what it finds is a run of free blocks inside the heap, and
\* it finds one from start on if there is one.
LEMMA FindFact ==
  ASSUME NEW n \in Nat, n >= 1, NEW start \in 0..blockQty
  PROVE  /\ FindFreeBlocks(n, start) # NULL =>
              /\ FindFreeBlocks(n, start) \in start..(blockQty - n)
              /\ FreeRun(FindFreeBlocks(n, start), n)
         /\ FindFreeBlocks(n, start) = NULL => ~\E i \in start..(blockQty - n) : FreeRun(i, n)
<1> DEFINE found == {i \in start..(blockQty - n) : FreeRun(i, n)}
<1>1. CASE found = {}
  BY <1>1 DEF FindFreeBlocks
<1>2. CASE found # {}
  <2>1. PICK m \in found : \A j \in found : m <= j
    <3>1. found \subseteq Nat
      BY BlockFact
    <3> HIDE DEF found
    <3>2. QED
      BY <1>2, <3>1, FirstOf
  <2> DEFINE f == CHOOSE i \in found : \A j \in found : i <= j
  <2>2. f \in found
    BY <2>1
  <2>3. FindFreeBlocks(n, start) = f
    BY <1>2 DEF FindFreeBlocks
  <2> HIDE DEF f
  <2>4. f # NULL
    BY <2>2, BlockFact DEF NULL
  <2>5. QED
    BY <2>2, <2>3, <2>4
<1>3. QED
  BY <1>1, <1>2

\* allocMemory's answer: a run of free blocks inside the heap, or NULL, and
\* NULL only when no run is long enough: neither the count nor the place
\* where the last allocation ended hides one.
LEMMA ResultFact ==
  ASSUME BInv, NEW size \in Requests, NEW n, n = SizeToBlockQty(size)
  PROVE  /\ Result(size) # NULL =>
              /\ Result(size) \in Block /\ n \in 1..(blockQty - Result(size))
              /\ FreeRun(Result(size), n)
         /\ Result(size) = NULL => ~\E i \in Block : i + n <= blockQty /\ FreeRun(i, n)
<1>1. n \in Nat /\ n >= 1 /\ blockQty \in Nat /\ current \in 0..blockQty /\ 0 \in 0..blockQty
  BY SizeFact, BlockFact DEF BInv
<1>2. Search(n) # NULL => /\ Search(n) \in 0..(blockQty - n) /\ FreeRun(Search(n), n)
  <2>1. CASE FindFreeBlocks(n, current) # NULL
    <3>1. Search(n) = FindFreeBlocks(n, current)
      BY <2>1 DEF Search
    <3>2. FindFreeBlocks(n, current) \in current..(blockQty - n) /\ FreeRun(FindFreeBlocks(n, current), n)
      BY <1>1, <2>1, FindFact
    <3>3. QED
      BY <1>1, <3>1, <3>2
  <2>2. CASE FindFreeBlocks(n, current) = NULL
    <3>1. Search(n) = FindFreeBlocks(n, 0)
      BY <2>2 DEF Search
    <3>2. QED
      BY <1>1, <3>1, FindFact
  <2>3. QED
    BY <2>1, <2>2
<1>3. Search(n) = NULL => ~\E i \in 0..(blockQty - n) : FreeRun(i, n)
  <2>1. Search(n) = NULL => FindFreeBlocks(n, 0) = NULL
    BY DEF Search
  <2>2. QED
    BY <1>1, <2>1, FindFact
<1>4. Result(size) = IF n > blockQty - blocksUsed THEN NULL ELSE Search(n)
  BY DEF Result
<1>5. ASSUME Result(size) # NULL
      PROVE  /\ Result(size) \in Block /\ n \in 1..(blockQty - Result(size)) /\ FreeRun(Result(size), n)
  <2>1. Result(size) = Search(n) /\ Search(n) # NULL
    BY <1>4, <1>5
  <2>2. QED
    BY <1>1, <1>2, <2>1 DEF Block
<1>6. ASSUME NEW i \in Block, i + n <= blockQty, FreeRun(i, n)
      PROVE  ~(n > blockQty - blocksUsed)
  <2>1. i \in Nat /\ Span(i, n) \subseteq Block
    BY <1>1, <1>6, BlockFact DEF Span, Block
  <2>2. UsedBlocks(bitmap) \subseteq Block \ Span(i, n)
    BY <1>6 DEF UsedBlocks, FreeRun, Span
  <2>3. IsFiniteSet(Block) /\ Cardinality(Block) = blockQty
    <3> DEFINE e == blockQty - 1
    <3>1. 0 \in Int /\ e \in Int /\ (0 > e => blockQty = 0) /\ e - 0 + 1 = blockQty /\ Block = 0..e
      BY <1>1 DEF Block
    <3> HIDE DEF e
    <3>2. IsFiniteSet(0..e) /\ Cardinality(0..e) = IF 0 > e THEN 0 ELSE e - 0 + 1
      BY <3>1, FS_Interval
    <3>3. QED
      BY <3>1, <3>2
  <2>4. IsFiniteSet(Span(i, n)) /\ Cardinality(Span(i, n)) = n
    <3> DEFINE e == i + n - 1
    <3>1. i \in Int /\ e \in Int /\ ~(i > e) /\ e - i + 1 = n /\ Span(i, n) = i..e
      BY <1>1, <2>1 DEF Span
    <3> HIDE DEF e
    <3>2. IsFiniteSet(i..e) /\ Cardinality(i..e) = IF i > e THEN 0 ELSE e - i + 1
      BY <3>1, FS_Interval
    <3>3. QED
      BY <3>1, <3>2
  <2>5. Block \cap Span(i, n) = Span(i, n)
    BY <2>1
  <2>6. IsFiniteSet(Block \ Span(i, n)) /\ Cardinality(Block \ Span(i, n)) = blockQty - n
    <3>1. /\ IsFiniteSet(Block \ Span(i, n))
          /\ Cardinality(Block \ Span(i, n)) = Cardinality(Block) - Cardinality(Block \cap Span(i, n))
      BY <2>3, FS_Difference
    <3>2. QED
      BY <2>3, <2>4, <2>5, <3>1
  <2>7. Cardinality(UsedBlocks(bitmap)) <= blockQty - n /\ IsFiniteSet(UsedBlocks(bitmap))
    BY <2>2, <2>6, FS_Subset
  <2>8. Cardinality(UsedBlocks(bitmap)) \in Nat
    BY <2>7, FS_CardinalityType
  <2>9. QED
    BY <1>1, <2>7, <2>8 DEF BInv
<1>7. ASSUME Result(size) = NULL, NEW i \in Block, i + n <= blockQty, FreeRun(i, n) PROVE FALSE
  <2>1. ~(n > blockQty - blocksUsed)
    BY <1>6, <1>7
  <2>2. Search(n) = NULL
    BY <1>4, <1>7, <2>1
  <2>3. i \in 0..(blockQty - n)
    BY <1>1, <1>7, BlockFact
  <2>4. QED
    BY <1>3, <1>7, <2>2, <2>3
<1>8. QED
  BY <1>5, <1>7

\* allocMemory carves a group out of free blocks.
LEMMA AllocFact ==
  ASSUME BInv, NEW size \in Requests, AllocMemory(size),
         NEW i, i = Result(size), NEW n, n = SizeToBlockQty(size)
  PROVE  Carved(bitmap, bitmap', i, n) /\ BInv'
<1>1. /\ i # NULL /\ blocksUsed' = blocksUsed + n /\ current' = i + n
      /\ bitmap' = [j \in Block |-> IF j \in i..(i + n - 1) THEN GroupMark(i, n, j) ELSE bitmap[j]]
  BY DEF AllocMemory
<1>2. i \in Block /\ n \in 1..(blockQty - i) /\ FreeRun(i, n)
  BY <1>1, ResultFact
<1>3. i \in Nat /\ n \in Nat /\ Span(i, n) \subseteq Block /\ bitmap \in [Block -> Mark]
  BY <1>2, BlockFact DEF Span, Block, BInv
<1>4. \A j : GroupMark(i, n, j) \in Mark
  BY DEF GroupMark, Mark
<1>5. Carved(bitmap, bitmap', i, n)
  <2>1. bitmap' \in [Block -> Mark]
    BY <1>1, <1>3, <1>4
  <2>2. GroupIn(bitmap', i, n)
    BY <1>1, <1>3 DEF GroupIn, Span
  <2>3. \A j \in Span(i, n) : bitmap[j] = "FREE"
    BY <1>2 DEF FreeRun, Span
  <2>4. \A j \in Block \ Span(i, n) : bitmap'[j] = bitmap[j]
    BY <1>1 DEF Span
  <2>5. QED
    BY <1>2, <1>3, <2>1, <2>2, <2>3, <2>4 DEF Carved
<1>6. Covered(bitmap')
  BY <1>5, CarveFact DEF BInv
<1>7. Cardinality(UsedBlocks(bitmap')) = Cardinality(UsedBlocks(bitmap)) + n
  BY <1>5, CarveCount
<1>8. current' \in 0..blockQty
  BY <1>1, <1>2, <1>3, BlockFact
<1>9. bitmap' \in [Block -> Mark]
  BY <1>5 DEF Carved
<1>10. QED
  BY <1>1, <1>5, <1>6, <1>7, <1>8, <1>9 DEF BInv

\* freeMemory of a block that starts a group gives back this group: the loop
\* to the next end boundary stops at its own.
LEMMA FreeFact ==
  ASSUME BInv, NEW i \in Block, FreeMemory(i), NEW n, n = LastOf(i) - i + 1
  PROVE  Carved(bitmap', bitmap, i, n) /\ BInv'
<1>1. /\ bitmap[i] \in {"SINGLE_BLOCK", "START_BOUNDARY"} /\ current' = current
      /\ bitmap' = [j \in Block |-> IF j \in i..LastOf(i) THEN "FREE" ELSE bitmap[j]]
      /\ blocksUsed' = blocksUsed - n
  BY DEF FreeMemory
<1>2. PICK g \in GroupsIn(bitmap) : i \in Span(g.at, g.size)
  BY <1>1 DEF BInv, Covered
<1> DEFINE m == g.size
<1>3. /\ g.at \in Nat /\ m \in Nat /\ m >= 1 /\ GroupIn(bitmap, g.at, m)
      /\ m \in 1..(blockQty - g.at) /\ Span(g.at, m) \subseteq Block
  BY GroupType
<1>4. g.at = i
  BY <1>1, <1>2, <1>3, GroupMarks
<1>5. LastOf(i) = i + m - 1
  <2>1. CASE m = 1
    <3>1. bitmap[i] = "SINGLE_BLOCK"
      BY <1>3, <1>4, <2>1, GroupMarks
    <3>2. QED
      BY <1>3, <1>4, <2>1, <3>1 DEF LastOf
  <2>2. CASE m > 1
    <3> DEFINE e == i + m - 1
    <3>1. /\ bitmap[i] # "SINGLE_BLOCK" /\ bitmap[e] = "END_BOUNDARY"
          /\ \A j \in Span(i, m) : j < e => bitmap[j] # "END_BOUNDARY"
      BY <1>3, <1>4, <2>2, GroupMarks
    <3>2. e \in Block /\ e >= i /\ Span(i, m) = i..e /\ e \in Nat /\ i \in Nat
      BY <1>3, <1>4 DEF Span
    <3>3. \A j \in i..(e - 1) : bitmap[j] # "END_BOUNDARY"
      BY <3>1, <3>2
    <3> HIDE DEF e
    <3>4. ASSUME NEW j \in Block, j >= i, bitmap[j] = "END_BOUNDARY",
                 \A x \in i..(j - 1) : bitmap[x] # "END_BOUNDARY"
          PROVE  j = e
      <4>1. j \in Nat
        BY BlockFact
      <4>2. ~(j < e) /\ ~(e < j)
        BY <3>1, <3>2, <3>3, <3>4, <4>1
      <4>3. QED
        BY <3>2, <4>1, <4>2
    <3>5. EndOf(i) = e
      BY <3>1, <3>2, <3>3, <3>4 DEF EndOf
    <3>6. QED
      BY <3>1, <3>5 DEF LastOf, e
  <2>3. QED
    BY <1>3, <2>1, <2>2
<1>6. n = m /\ i \in Nat
  BY <1>3, <1>4, <1>5
<1> HIDE DEF m
<1>7. bitmap \in [Block -> Mark] /\ i..LastOf(i) = Span(i, n)
  BY <1>5, <1>6 DEF BInv, Span
<1>8. Carved(bitmap', bitmap, i, n)
  <2>1. bitmap' \in [Block -> Mark]
    BY <1>1, <1>7 DEF Mark
  <2>2. \A j \in Span(i, n) : bitmap'[j] = "FREE"
    BY <1>1, <1>3, <1>4, <1>6, <1>7
  <2>3. \A j \in Block \ Span(i, n) : bitmap[j] = bitmap'[j]
    BY <1>1, <1>7
  <2>4. QED
    BY <1>3, <1>4, <1>6, <1>7, <2>1, <2>2, <2>3 DEF Carved
<1>9. Covered(bitmap')
  BY <1>8, UncarveCovered DEF BInv
<1>10. /\ Cardinality(UsedBlocks(bitmap)) = Cardinality(UsedBlocks(bitmap')) + n
       /\ Cardinality(UsedBlocks(bitmap')) \in Nat
  BY <1>8, CarveCount
<1>11. blocksUsed' = Cardinality(UsedBlocks(bitmap'))
  BY <1>1, <1>3, <1>6, <1>10 DEF BInv, m
<1>12. bitmap' \in [Block -> Mark]
  BY <1>8 DEF Carved
<1>13. QED
  BY <1>1, <1>8, <1>9, <1>11, <1>12 DEF BInv

-----------------------------------------------------------------------------
(* The theorems.                                                            *)

\* An empty heap has no groups.
LEMMA BInit == ASSUME Init PROVE BInv /\ GroupsIn(bitmap) = {}
<1>1. bitmap = [i \in Block |-> "FREE"] /\ blocksUsed = 0 /\ current = 0
  BY DEF Init
<1>2. bitmap \in [Block -> Mark]
  BY <1>1 DEF Mark
<1>3. UsedBlocks(bitmap) = {} /\ Covered(bitmap)
  BY <1>1 DEF UsedBlocks, Covered
<1>4. current \in 0..blockQty
  BY <1>1, BlockFact
<1>5. BInv
  BY <1>1, <1>2, <1>3, <1>4, FS_EmptySet DEF BInv
<1>6. ASSUME NEW g \in GroupsIn(bitmap) PROVE FALSE
  <2>1. /\ g.at \in Block /\ g.at \in Nat /\ g.size \in Nat /\ g.size >= 1
        /\ GroupIn(bitmap, g.at, g.size)
    BY <1>6, GroupType
  <2>2. bitmap[g.at] \in {"SINGLE_BLOCK", "START_BOUNDARY"}
    BY <2>1, GroupMarks
  <2>3. QED
    BY <1>1, <2>1, <2>2
<1>7. QED
  BY <1>5, <1>6

\* Every call keeps the marks and the count.
LEMMA BStep == BInv /\ [Next]_vars => BInv'
<1> SUFFICES ASSUME BInv, [Next]_vars PROVE BInv'
  OBVIOUS
<1>1. ASSUME NEW size \in Requests, AllocMemory(size) PROVE BInv'
  BY <1>1, AllocFact
<1>2. ASSUME NEW i \in Block, FreeMemory(i) PROVE BInv'
  BY <1>2, FreeFact
<1>3. CASE UNCHANGED vars
  BY <1>3 DEF vars, BInv
<1>4. QED
  BY <1>1, <1>2, <1>3 DEF Next

\* The bitmap manager stays consistent (Consistent) for every heap, block size
\* and sequence of requests and frees: no half group, an exact blocksUsed, and
\* current inside the heap.
THEOREM BitmapConsistent == Spec => []Consistent
<1>1. ASSUME BInv PROVE Consistent
  <2>1. NoStrayMark
    <3>1. Groups = GroupsIn(bitmap)
      BY GroupsFact
    <3>2. QED
      BY <1>1, <3>1 DEF BInv, Covered, NoStrayMark, Span
  <2>2. UsedIsExact
    BY <1>1 DEF BInv, UsedIsExact, UsedBlocks
  <2>3. QED
    BY <1>1, <2>1, <2>2 DEF BInv, Consistent
<1>2. Init => BInv
  BY BInit
<1>3. QED
  BY <1>1, <1>2, BStep, PTL DEF Spec

\* allocMemory refuses a request only when no run of free blocks is long
\* enough, and otherwise returns a new group with room for the bytes, if their
\* number fits in a uint32_t, and for what is left of it otherwise
\* (RoomForRequest).
THEOREM BitmapRoom == Spec => RoomForRequest
<1>1. ASSUME BInv PROVE NullMeansNoRoom
  BY <1>1, ResultFact DEF NullMeansNoRoom
<1>2. ASSUME BInv, NEW size \in Requests, AllocMemory(size)
      PROVE  \E g \in Groups' \ Groups :
               /\ g.size * BLOCK_SIZE >= size % UINT_RANGE
               /\ size < UINT_RANGE => g.size * BLOCK_SIZE >= size
  <2> DEFINE i == Result(size)
             n == SizeToBlockQty(size)
             g == [at |-> i, size |-> n]
  <2>1. Carved(bitmap, bitmap', i, n)
    BY <1>2, AllocFact
  <2>2. n * BLOCK_SIZE >= size % UINT_RANGE /\ (size < UINT_RANGE => n * BLOCK_SIZE >= size)
    BY SizeFact
  <2> HIDE DEF i, n
  <2>3. GroupsIn(bitmap') = GroupsIn(bitmap) \cup {g} /\ g \notin GroupsIn(bitmap)
    BY <2>1, CarveFact
  <2>4. Groups = GroupsIn(bitmap)
    BY GroupsFact
  <2>5. (Groups = GroupsIn(bitmap))'
    BY GroupsFact, PTL
  <2>6. g \in Groups' \ Groups /\ g.size = n
    BY <2>3, <2>4, <2>5
  <2>7. QED
    BY <2>2, <2>6
<1>3. BInv /\ [Next]_vars => [/\ NullMeansNoRoom
                              /\ \A size \in Requests : AllocMemory(size) =>
                                   \E g \in Groups' \ Groups :
                                     /\ g.size * BLOCK_SIZE >= size % UINT_RANGE
                                     /\ size < UINT_RANGE => g.size * BLOCK_SIZE >= size]_vars
  BY <1>1, <1>2
<1>4. Init => BInv
  BY BInit
<1>5. QED
  BY <1>3, <1>4, BStep, PTL DEF Spec, RoomForRequest

\* The bitmap manager implements the allocator (ImplementsAllocator): what it
\* hands out is inside the heap, overlaps nothing that is handed out, and
\* stays until it is freed.
THEOREM BitmapImplements == Spec => ImplementsAllocator
<1>1. Init => BInv /\ Abstract!Init
  <2> SUFFICES ASSUME Init PROVE BInv /\ Abstract!Init
    OBVIOUS
  <2>1. Groups = {}
    BY BInit, GroupsFact
  <2>2. QED
    BY <2>1, BInit DEF Abstract!Init
<1>2. BInv /\ [Next]_vars => [Abstract!Next]_Groups
  <2> SUFFICES ASSUME BInv, [Next]_vars PROVE Abstract!Next \/ Groups' = Groups
    OBVIOUS
  <2>1. Groups = GroupsIn(bitmap)
    BY GroupsFact
  <2>2. (Groups = GroupsIn(bitmap))'
    BY GroupsFact, PTL
  <2>3. ASSUME NEW size \in Requests, AllocMemory(size) PROVE Abstract!Next
    <3> DEFINE i == Result(size)
               n == SizeToBlockQty(size)
               g == [at |-> i, size |-> n]
    <3>1. Carved(bitmap, bitmap', i, n)
      BY <2>3, AllocFact
    <3> HIDE DEF i, n
    <3>2. /\ GroupsIn(bitmap') = GroupsIn(bitmap) \cup {g}
          /\ \A c \in GroupsIn(bitmap) : Span(c.at, c.size) \cap Span(i, n) = {}
      BY <3>1, CarveFact, ZenonT(60)
    <3>3. i \in Block /\ n \in 1..(blockQty - i)
      BY <3>1 DEF Carved
    <3>4. /\ Abstract!Span(g) = Span(i, n)
          /\ \A c \in Groups : Abstract!Span(c) = Span(c.at, c.size)
      BY DEF Abstract!Span, Span
    <3>5. \A c \in Groups : Abstract!Span(g) \cap Abstract!Span(c) = {}
      BY <2>1, <3>2, <3>4
    <3>6. Abstract!Alloc(g)
      BY <2>1, <2>2, <3>2, <3>5 DEF Abstract!Alloc
    <3>7. QED
      BY <3>3, <3>6 DEF Abstract!Next, Block
  <2>4. ASSUME NEW i \in Block, FreeMemory(i) PROVE Abstract!Next
    <3> DEFINE n == LastOf(i) - i + 1
               g == [at |-> i, size |-> n]
    <3>1. Carved(bitmap', bitmap, i, n)
      BY <2>4, FreeFact
    <3> HIDE DEF n
    <3>2. GroupsIn(bitmap) = GroupsIn(bitmap') \cup {g} /\ g \notin GroupsIn(bitmap')
      BY <3>1, CarveFact
    <3> HIDE DEF g
    <3>3. g \in Groups /\ Groups' = Groups \ {g}
      BY <2>1, <2>2, <3>2
    <3>4. QED
      BY <3>3 DEF Abstract!Next, Abstract!Free
  <2>5. CASE UNCHANGED vars
    <3>1. bitmap' = bitmap
      BY <2>5 DEF vars
    <3>2. QED
      BY <2>1, <2>2, <3>1
  <2>6. QED
    BY <2>3, <2>4, <2>5 DEF Next
<1>3. QED
  BY <1>1, <1>2, BStep, PTL DEF Spec, ImplementsAllocator, Abstract!Spec
=============================================================================
