----------------------------- MODULE ListProofs -----------------------------
(***************************************************************************)
(* Proofs about the kernel's queue and doubly linked list for any set of   *)
(* node addresses and any data: the links, the end pointers and the count  *)
(* always describe one sequence of distinct nodes, and every call changes  *)
(* the stored data as the abstract queue and double-ended queue say.       *)
(*                                                                         *)
(* The invariant is that such a sequence of nodes exists.  Each call gives *)
(* the next one: a node more at one end, or a node less anywhere.          *)
(***************************************************************************)
EXTENDS Lists, FiniteSetTheorems, SequenceTheorems, TLAPS

-----------------------------------------------------------------------------
(* Sequences of distinct nodes.                                             *)

Distinct(s) == \A i, j \in 1..Len(s) : s[i] = s[j] => i = j

Chain == {s \in Seq(Node) : Distinct(s)}

NodesOf(s) == {s[i] : i \in 1..Len(s)}

\* The i-th node of s; NULL past either end.
At(s, i) == IF i \in 1..Len(s) THEN s[i] ELSE NULL

\* s without its i-th element.
Drop(s, i) == [j \in 1..(Len(s) - 1) |-> IF j < i THEN s[j] ELSE s[j + 1]]

DataOf(s, h) == [i \in 1..Len(s) |-> h[s[i]].data]

\* What a chain is, and that NULL is not in it.
LEMMA ChainFact ==
  ASSUME NEW s \in Chain
  PROVE  /\ s \in Seq(Node) /\ Len(s) \in Nat /\ DOMAIN s = 1..Len(s)
         /\ \A i \in 1..Len(s) : s[i] \in Node /\ s[i] # NULL
         /\ \A i, j \in 1..Len(s) : s[i] = s[j] => i = j
         /\ \A i \in 1..Len(s) : s[i] \in NodesOf(s)
         /\ NodesOf(s) \subseteq Node
BY NodeAssumption DEF Chain, Distinct, NodesOf

\* There are no more nodes in a chain than addresses.
LEMMA ChainFits ==
  ASSUME NEW s \in Chain
  PROVE  Cardinality(Node) \in Nat /\ Len(s) <= Cardinality(Node)
<1>1. IsFiniteSet(Node)
  BY NodeAssumption
<1>2. s \in Injection(1..Len(s), Node)
  BY ChainFact DEF Injection, IsInjective
<1>3. Cardinality(1..Len(s)) <= Cardinality(Node)
  BY <1>1, <1>2, FS_Injection
<1>4. Cardinality(1..Len(s)) = Len(s)
  <2>1. Len(s) \in Int /\ Len(s) >= 0 /\ 1 \in Int
    BY ChainFact
  <2>2. Cardinality(1..Len(s)) = IF 1 > Len(s) THEN 0 ELSE Len(s) - 1 + 1
    BY <2>1, FS_Interval
  <2> QED
    BY <2>1, <2>2
<1> QED
  BY <1>1, <1>3, <1>4, FS_CardinalityType

\* A chain with a node more at the end.
LEMMA AppendChain ==
  ASSUME NEW s \in Chain, NEW n \in Node, n \notin NodesOf(s)
  PROVE  /\ Append(s, n) \in Chain
         /\ Len(Append(s, n)) = Len(s) + 1
         /\ \A i \in 1..Len(s) : Append(s, n)[i] = s[i]
         /\ Append(s, n)[Len(s) + 1] = n
         /\ NodesOf(Append(s, n)) = NodesOf(s) \cup {n}
<1> DEFINE t == Append(s, n)
<1>1. /\ t \in Seq(Node) /\ Len(t) = Len(s) + 1 /\ t[Len(s) + 1] = n
      /\ \A i \in 1..Len(s) : t[i] = s[i]
  BY ChainFact, AppendProperties
<1> HIDE DEF t
<1>2. Distinct(t)
  BY <1>1, ChainFact DEF Distinct
<1>3. NodesOf(t) = NodesOf(s) \cup {n}
  BY <1>1, ChainFact DEF NodesOf
<1> QED
  BY <1>1, <1>2, <1>3 DEF Chain, t

\* A chain with a node more at the front.
LEMMA PrependChain ==
  ASSUME NEW s \in Chain, NEW n \in Node, n \notin NodesOf(s)
  PROVE  /\ <<n>> \o s \in Chain
         /\ Len(<<n>> \o s) = Len(s) + 1
         /\ (<<n>> \o s)[1] = n
         /\ \A i \in 1..Len(s) : (<<n>> \o s)[i + 1] = s[i]
         /\ \A i \in 2..(Len(s) + 1) : (<<n>> \o s)[i] = s[i - 1]
         /\ NodesOf(<<n>> \o s) = NodesOf(s) \cup {n}
<1> DEFINE t == <<n>> \o s
<1>1. /\ t \in Seq(Node) /\ Len(t) = Len(s) + 1
      /\ \A i \in 1..(Len(s) + 1) : t[i] = IF i <= 1 THEN n ELSE s[i - 1]
  <2>1. <<n>> \in Seq(Node) /\ Len(<<n>>) = 1 /\ <<n>>[1] = n
    OBVIOUS
  <2> QED
    BY <2>1, ChainFact, ConcatProperties
<1> HIDE DEF t
<1>2. t[1] = n
  BY <1>1, ChainFact
<1>3. \A i \in 2..(Len(s) + 1) : t[i] = s[i - 1]
  BY <1>1, ChainFact
<1>4. \A i \in 1..Len(s) : t[i + 1] = s[i]
  BY <1>1, ChainFact
<1>5. Distinct(t)
  <2> SUFFICES ASSUME NEW i \in 1..Len(t), NEW j \in 1..Len(t), t[i] = t[j]
               PROVE  i = j
    BY DEF Distinct
  <2>1. \A k \in 2..(Len(s) + 1) : t[k] # n
    <3> SUFFICES ASSUME NEW k \in 2..(Len(s) + 1) PROVE t[k] # n
      OBVIOUS
    <3>1. k - 1 \in 1..Len(s) /\ t[k] = s[k - 1]
      BY <1>3, ChainFact
    <3> QED
      BY <3>1, ChainFact
  <2>2. i \in 1..(Len(s) + 1) /\ j \in 1..(Len(s) + 1)
    BY <1>1
  <2>3. CASE i = 1 \/ j = 1
    BY <1>2, <2>1, <2>2, <2>3, ChainFact
  <2>4. CASE i # 1 /\ j # 1
    <3>1. i - 1 \in 1..Len(s) /\ j - 1 \in 1..Len(s) /\ s[i - 1] = s[j - 1]
      BY <1>3, <2>2, <2>4, ChainFact
    <3>2. i - 1 = j - 1
      BY <3>1, ChainFact
    <3> QED
      BY <2>2, <3>2, ChainFact
  <2> QED
    BY <2>3, <2>4
<1>6. NodesOf(t) = NodesOf(s) \cup {n}
  <2>1. ASSUME NEW i \in 1..Len(t) PROVE t[i] \in NodesOf(s) \cup {n}
    BY <1>1, <2>1, ChainFact DEF NodesOf
  <2>2. ASSUME NEW i \in 1..Len(s) PROVE s[i] \in NodesOf(t)
    <3>1. i + 1 \in 1..Len(t) /\ t[i + 1] = s[i]
      BY <1>1, <1>4, ChainFact
    <3> QED
      BY <3>1 DEF NodesOf
  <2>3. n \in NodesOf(t)
    BY <1>1, <1>2, ChainFact DEF NodesOf
  <2> QED
    BY <2>1, <2>2, <2>3 DEF NodesOf
<1> QED
  BY <1>1, <1>2, <1>3, <1>4, <1>5, <1>6 DEF Chain, t

\* A sequence without one of its elements.
LEMMA DropSeq ==
  ASSUME NEW S, NEW s \in Seq(S), NEW i \in 1..Len(s)
  PROVE  /\ Drop(s, i) \in Seq(S) /\ Len(Drop(s, i)) = Len(s) - 1
         /\ \A j \in 1..(Len(s) - 1) : Drop(s, i)[j] = IF j < i THEN s[j] ELSE s[j + 1]
BY LenProperties DEF Drop

\* A chain without its i-th node.
LEMMA DropChain ==
  ASSUME NEW s \in Chain, NEW i \in 1..Len(s)
  PROVE  /\ Drop(s, i) \in Chain /\ Len(Drop(s, i)) = Len(s) - 1
         /\ \A j \in 1..(Len(s) - 1) : Drop(s, i)[j] = IF j < i THEN s[j] ELSE s[j + 1]
         /\ NodesOf(Drop(s, i)) = NodesOf(s) \ {s[i]}
<1> DEFINE t == Drop(s, i)
<1>1. /\ t \in Seq(Node) /\ Len(t) = Len(s) - 1
      /\ \A j \in 1..(Len(s) - 1) : t[j] = IF j < i THEN s[j] ELSE s[j + 1]
  BY ChainFact, DropSeq
<1> HIDE DEF t
<1>2. Distinct(t)
  <2> SUFFICES ASSUME NEW j \in 1..Len(t), NEW k \in 1..Len(t), t[j] = t[k]
               PROVE  j = k
    BY DEF Distinct
  <2> DEFINE Place(m) == IF m < i THEN m ELSE m + 1
  <2>1. \A m \in 1..Len(t) : m \in Nat /\ Place(m) \in 1..Len(s) /\ t[m] = s[Place(m)]
    BY <1>1, ChainFact
  <2>2. Place(j) = Place(k)
    <3>1. s[Place(j)] = s[Place(k)] /\ Place(j) \in 1..Len(s) /\ Place(k) \in 1..Len(s)
      BY <2>1
    <3> HIDE DEF Place
    <3> QED
      BY <3>1, ChainFact
  <2>3. j \in Nat /\ k \in Nat /\ i \in Nat
    BY <2>1, ChainFact
  <2> QED
    BY <2>2, <2>3
<1>3. NodesOf(t) \subseteq NodesOf(s) \ {s[i]}
  <2> SUFFICES ASSUME NEW j \in 1..Len(t) PROVE t[j] \in NodesOf(s) /\ t[j] # s[i]
    BY DEF NodesOf
  <2>1. CASE j < i
    <3>1. t[j] = s[j] /\ j \in 1..Len(s) /\ j # i
      BY <1>1, <2>1, ChainFact
    <3> QED
      BY <3>1, ChainFact DEF NodesOf
  <2>2. CASE ~(j < i)
    <3>1. t[j] = s[j + 1] /\ j + 1 \in 1..Len(s) /\ j + 1 # i
      BY <1>1, <2>2, ChainFact
    <3> QED
      BY <3>1, ChainFact DEF NodesOf
  <2> QED
    BY <2>1, <2>2
<1>4. NodesOf(s) \ {s[i]} \subseteq NodesOf(t)
  <2> SUFFICES ASSUME NEW j \in 1..Len(s), j # i PROVE s[j] \in NodesOf(t)
    BY DEF NodesOf
  <2>1. CASE j < i
    <3>1. j \in 1..Len(t) /\ t[j] = s[j]
      BY <1>1, <2>1, ChainFact
    <3> QED
      BY <3>1 DEF NodesOf
  <2>2. CASE j > i
    <3>1. j - 1 \in 1..Len(t) /\ t[j - 1] = s[j]
      BY <1>1, <2>2, ChainFact
    <3> QED
      BY <3>1 DEF NodesOf
  <2> QED
    BY <2>1, <2>2, ChainFact
<1> QED
  BY <1>1, <1>2, <1>3, <1>4 DEF Chain, t

\* A non-empty set of numbers has a least one.
LEMMA LeastNatural ==
  ASSUME NEW T, T \subseteq Nat, T # {}
  PROVE  \E x \in T : \A y \in T : x <= y
<1> DEFINE R == {ss \in Nat \X Nat : ss[1] < ss[2]}
<1>1. IsWellFoundedOn(R, Nat)
  BY NatLessThanWellFounded DEF OpToRel
<1>2. \A x, y \in Nat : y < x => <<y, x>> \in R
  OBVIOUS
<1> HIDE DEF R
<1>3. PICK x \in T : \A y \in T : ~ (<<y, x>> \in R)
  BY <1>1, WFMin
<1>4. \A y \in T : x \in Nat /\ y \in Nat /\ ~(y < x)
  BY <1>2, <1>3
<1>5. \A y \in T : x <= y
  BY <1>4
<1>6. QED
  BY <1>5

\* Dropping an element of a sequence is what modules Fifo and Deque call
\* taking the first, the last, or one in the middle.
LEMMA DropIsCut ==
  ASSUME NEW S, NEW s \in Seq(S), NEW i \in 1..Len(s)
  PROVE  Drop(s, i) = SubSeq(s, 1, i - 1) \o SubSeq(s, i + 1, Len(s))
<1> DEFINE a == SubSeq(s, 1, i - 1)
           b == SubSeq(s, i + 1, Len(s))
<1>1. Len(s) \in Nat /\ i \in Nat /\ \A j \in 1..Len(s) : s[j] \in S
  BY LenProperties
<1>2. /\ a \in Seq(S) /\ Len(a) = i - 1
      /\ \A j \in 1..(i - 1) : a[j] = s[j]
  <2>1. \A j \in 1..(i - 1) : s[j] \in S
    BY <1>1
  <2>2. /\ a \in Seq(S) /\ Len(a) = IF 1 <= i - 1 THEN (i - 1) - 1 + 1 ELSE 0
        /\ \A j \in 1..((i - 1) - 1 + 1) : a[j] = s[1 + j - 1]
    BY <1>1, <2>1, SubSeqProperties
  <2> QED
    BY <1>1, <2>2
<1>3. /\ b \in Seq(S) /\ Len(b) = Len(s) - i
      /\ \A j \in 1..(Len(s) - i) : b[j] = s[i + j]
  <2>1. \A j \in (i + 1)..Len(s) : s[j] \in S
    BY <1>1
  <2>2. /\ b \in Seq(S) /\ Len(b) = IF i + 1 <= Len(s) THEN Len(s) - (i + 1) + 1 ELSE 0
        /\ \A j \in 1..(Len(s) - (i + 1) + 1) : b[j] = s[(i + 1) + j - 1]
    BY <1>1, <2>1, SubSeqProperties
  <2> QED
    BY <1>1, <2>2
<1> HIDE DEF a, b
<1>4. /\ a \o b \in Seq(S) /\ Len(a \o b) = Len(s) - 1
      /\ \A j \in 1..(Len(s) - 1) : (a \o b)[j] = IF j <= i - 1 THEN a[j] ELSE b[j - (i - 1)]
  BY <1>1, <1>2, <1>3, ConcatProperties
<1>5. \A j \in 1..(Len(s) - 1) : (a \o b)[j] = Drop(s, i)[j]
  <2> SUFFICES ASSUME NEW j \in 1..(Len(s) - 1) PROVE (a \o b)[j] = Drop(s, i)[j]
    OBVIOUS
  <2>1. Drop(s, i)[j] = IF j < i THEN s[j] ELSE s[j + 1]
    BY DropSeq
  <2>2. CASE j < i
    BY <1>1, <1>2, <1>4, <2>1, <2>2
  <2>3. CASE ~(j < i)
    <3>1. j - (i - 1) \in 1..(Len(s) - i) /\ i + (j - (i - 1)) = j + 1
      BY <1>1, <2>3
    <3>2. b[j - (i - 1)] = s[j + 1]
      BY <1>3, <3>1
    <3> QED
      BY <1>1, <1>4, <2>1, <2>3, <3>2
  <2> QED
    BY <2>2, <2>3
<1>6. Drop(s, i) \in Seq(S) /\ Len(Drop(s, i)) = Len(s) - 1
  BY DropSeq
<1> QED
  BY <1>4, <1>5, <1>6, SeqEqual DEF a, b

LEMMA DropFirst ==
  ASSUME NEW S, NEW s \in Seq(S), s # << >>
  PROVE  1 \in 1..Len(s) /\ Drop(s, 1) = Tail(s)
<1>1. Len(s) \in Nat \ {0}
  BY EmptySeq
<1>2. /\ Tail(s) \in Seq(S) /\ Len(Tail(s)) = Len(s) - 1
      /\ \A i \in 1..(Len(s) - 1) : Tail(s)[i] = s[i + 1]
  BY HeadTailProperties
<1>3. 1 \in 1..Len(s)
  BY <1>1
<1>4. /\ Drop(s, 1) \in Seq(S) /\ Len(Drop(s, 1)) = Len(s) - 1
      /\ \A i \in 1..(Len(s) - 1) : Drop(s, 1)[i] = s[i + 1]
  BY <1>3, DropSeq
<1> QED
  BY <1>2, <1>3, <1>4, SeqEqual

LEMMA DropLast ==
  ASSUME NEW S, NEW s \in Seq(S), s # << >>
  PROVE  Len(s) \in 1..Len(s) /\ Drop(s, Len(s)) = SubSeq(s, 1, Len(s) - 1)
<1>1. Len(s) \in Nat \ {0} /\ \A j \in 1..Len(s) : s[j] \in S
  BY EmptySeq, LenProperties
<1>2. /\ SubSeq(s, 1, Len(s) - 1) \in Seq(S)
      /\ Len(SubSeq(s, 1, Len(s) - 1)) = Len(s) - 1
      /\ \A i \in 1..(Len(s) - 1) : SubSeq(s, 1, Len(s) - 1)[i] = s[i]
  <2>1. \A i \in 1..(Len(s) - 1) : s[i] \in S
    BY <1>1
  <2>2. /\ SubSeq(s, 1, Len(s) - 1) \in Seq(S)
        /\ Len(SubSeq(s, 1, Len(s) - 1)) = IF 1 <= Len(s) - 1 THEN (Len(s) - 1) - 1 + 1 ELSE 0
        /\ \A i \in 1..((Len(s) - 1) - 1 + 1) : SubSeq(s, 1, Len(s) - 1)[i] = s[1 + i - 1]
    BY <1>1, <2>1, SubSeqProperties
  <2>3. /\ (Len(s) - 1) - 1 + 1 = Len(s) - 1
        /\ (IF 1 <= Len(s) - 1 THEN (Len(s) - 1) - 1 + 1 ELSE 0) = Len(s) - 1
        /\ \A i \in 1..(Len(s) - 1) : 1 + i - 1 = i
    <3>1. \A k \in Nat \ {0} : /\ (k - 1) - 1 + 1 = k - 1
                               /\ (IF 1 <= k - 1 THEN (k - 1) - 1 + 1 ELSE 0) = k - 1
      OBVIOUS
    <3>2. \A i \in Nat : 1 + i - 1 = i
      OBVIOUS
    <3>3. \A k \in Nat : \A i \in 1..(k - 1) : i \in Nat
      OBVIOUS
    <3> QED
      BY <1>1, <3>1, <3>2, <3>3
  <2>4. \A i \in 1..(Len(s) - 1) : SubSeq(s, 1, Len(s) - 1)[i] = s[i]
    BY <2>2, <2>3
  <2> QED
    BY <2>2, <2>3, <2>4
<1>3. Len(s) \in 1..Len(s)
  BY <1>1
<1>4. /\ Drop(s, Len(s)) \in Seq(S) /\ Len(Drop(s, Len(s))) = Len(s) - 1
      /\ \A i \in 1..(Len(s) - 1) : Drop(s, Len(s))[i] = s[i]
  BY <1>1, <1>3, DropSeq
<1> QED
  BY <1>2, <1>3, <1>4, SeqEqual

-----------------------------------------------------------------------------
(* Following the links of a chain.                                          *)

\* The nodes of s are linked, in order, by that field of what h stores.
Links(s, h, field) == \A i \in 1..Len(s) : h[s[i]][field] = At(s, i + 1)

\* f walks through h from start, along that field, for K steps.
Follows(f, K, start, h, field) ==
  \A i \in 1..(K + 1) :
    f[i] = IF i = 1 THEN start ELSE IF f[i - 1] = NULL THEN NULL ELSE h[f[i - 1]][field]

\* The walk from the first node of a chain along links that connect it goes
\* through the chain and stays NULL after it.
LEMMA WalkIsChain ==
  ASSUME NEW s \in Chain, NEW K \in Nat, NEW start, NEW h, NEW field, NEW f,
         start = At(s, 1), Links(s, h, field), Follows(f, K, start, h, field)
  PROVE  \A i \in 1..(K + 1) : f[i] = At(s, i)
<1> DEFINE Wrong == {i \in 1..(K + 1) : f[i] # At(s, i)}
<1>1. ASSUME Wrong # {} PROVE FALSE
  <2>0. Wrong \subseteq Nat
    OBVIOUS
  <2>1. PICK i \in Wrong : \A j \in Wrong : i <= j
    <3> HIDE DEF Wrong
    <3> QED
      BY <1>1, <2>0, LeastNatural
  <2>2. i \in 1..(K + 1) /\ i # 1
    <3>1. 1 \in 1..(K + 1) /\ f[1] = At(s, 1)
      BY DEF Follows
    <3> QED
      BY <3>1
  <2>3. i - 1 \in 1..(K + 1) /\ i - 1 < i
    BY <2>2
  <2>4. f[i - 1] = At(s, i - 1)
    BY <2>1, <2>3
  <2>5. f[i] = At(s, i)
    <3>1. CASE i - 1 \in 1..Len(s)
      BY <2>2, <2>4, <3>1, ChainFact DEF At, Links, Follows
    <3>2. CASE i - 1 \notin 1..Len(s)
      BY <2>2, <2>3, <2>4, <3>2, ChainFact DEF At, Follows
    <3> QED
      BY <3>1, <3>2
  <2> QED
    BY <2>5
<1> QED
  BY <1>1

\* The walk as its definition computes it.
WalkFrom(K, start, h, field) ==
  CHOOSE f : f = [i \in 1..(K + 1) |->
                    IF i = 1 THEN start ELSE IF f[i - 1] = NULL THEN NULL ELSE h[f[i - 1]][field]]

LEMMA WalkExists ==
  ASSUME NEW s \in Chain, NEW K \in Nat, NEW start, NEW h, NEW field,
         start = At(s, 1), Links(s, h, field)
  PROVE  /\ DOMAIN WalkFrom(K, start, h, field) = 1..(K + 1)
         /\ \A i \in 1..(K + 1) : WalkFrom(K, start, h, field)[i] = At(s, i)
<1> DEFINE F(f) == [i \in 1..(K + 1) |->
                      IF i = 1 THEN start ELSE IF f[i - 1] = NULL THEN NULL ELSE h[f[i - 1]][field]]
           g == [i \in 1..(K + 1) |-> At(s, i)]
           w == WalkFrom(K, start, h, field)
<1>1. w = CHOOSE f : f = F(f)
  BY DEF WalkFrom
<1>2. g = F(g)
  <2> SUFFICES ASSUME NEW i \in 1..(K + 1) PROVE g[i] = F(g)[i]
    OBVIOUS
  <2>1. CASE i = 1
    BY <2>1
  <2>2. CASE i # 1
    <3>1. i - 1 \in 1..(K + 1) /\ i \in Nat
      BY <2>2
    <3>2. g[i - 1] = At(s, i - 1)
      BY <3>1
    <3>3. CASE i - 1 \in 1..Len(s)
      BY <2>2, <3>1, <3>2, <3>3, ChainFact DEF At, Links
    <3>4. CASE i - 1 \notin 1..Len(s)
      BY <2>2, <3>1, <3>2, <3>4, ChainFact DEF At
    <3> QED
      BY <3>3, <3>4
  <2> QED
    BY <2>1, <2>2
<1>3. w = F(w)
  <2> HIDE DEF F, g, w
  <2> QED
    BY <1>1, <1>2
<1>4. Follows(w, K, start, h, field)
  <2> HIDE DEF w
  <2> QED
    BY <1>3 DEF Follows
<1>5. \A i \in 1..(K + 1) : w[i] = At(s, i)
  <2> HIDE DEF w
  <2> QED
    BY <1>4, WalkIsChain
<1>6. DOMAIN w = 1..(K + 1)
  <2> HIDE DEF w
  <2> QED
    BY <1>3
<1> QED
  BY <1>5, <1>6

-----------------------------------------------------------------------------
(* The queue.                                                               *)

\* The queue with these fields holds the nodes s.
Queued(s, h, f, r, c) ==
  /\ DOMAIN h = NodesOf(s)
  /\ h \in [DOMAIN h -> [data : Data, next : Node \cup {NULL}]]
  /\ c = Len(s)
  /\ f = At(s, 1)
  /\ r = At(s, Len(s))
  /\ Links(s, h, "next")

LEMMA QueueWalk ==
  ASSUME NEW s \in Chain, Queued(s, mem, front, rear, size)
  PROVE  /\ DOMAIN Queue!Walk = 1..(Cardinality(Node) + 1)
         /\ \A i \in 1..(Cardinality(Node) + 1) : Queue!Walk[i] = At(s, i)
<1>1. Queue!Walk = WalkFrom(Cardinality(Node), front, mem, "next")
  BY DEF Queue!Walk, Queue!Cardinality, Cardinality, WalkFrom
<1>2. Links(s, mem, "next") /\ front = At(s, 1) /\ Cardinality(Node) \in Nat
  BY ChainFits DEF Queued
<1> QED
  BY <1>1, <1>2, WalkExists

\* The memory after enqueue has linked n behind r, and after dequeue or
\* remove has freed the i-th node of s.
Linked(h, r, n, d) ==
  LET filled == Queue!With(h, n, [data |-> d, next |-> NULL])
  IN  IF r = NULL THEN filled ELSE [filled EXCEPT ![r].next = n]

Unlinked(s, h, i) ==
  IF i = 1 THEN Queue!Without(h, {s[i]})
  ELSE Queue!Without([h EXCEPT ![s[i - 1]].next = h[s[i]].next], {s[i]})

\* What enqueue does to a queue that is empty or not.
LEMMA LinkLast ==
  ASSUME NEW s \in Chain, NEW h, NEW f, NEW r, NEW c, Queued(s, h, f, r, c),
         NEW n \in Node, n \notin DOMAIN h, NEW d \in Data,
         NEW h2, h2 = Linked(h, r, n, d), NEW f2, f2 = IF r = NULL THEN n ELSE f
  PROVE  /\ Append(s, n) \in Chain
         /\ Queued(Append(s, n), h2, f2, n, c + 1)
         /\ DataOf(Append(s, n), h2) = Append(DataOf(s, h), d)
<1> DEFINE t == Append(s, n)
           filled == Queue!With(h, n, [data |-> d, next |-> NULL])
<1>1. /\ t \in Chain /\ Len(t) = Len(s) + 1 /\ t[Len(s) + 1] = n
      /\ \A i \in 1..Len(s) : t[i] = s[i]
      /\ NodesOf(t) = NodesOf(s) \cup {n}
      /\ n \notin NodesOf(s)
  BY AppendChain DEF Queued
<1>2. /\ DOMAIN filled = NodesOf(t)
      /\ \A m \in NodesOf(t) : filled[m] = IF m = n THEN [data |-> d, next |-> NULL] ELSE h[m]
  BY <1>1 DEF Queue!With, Queued
<1>3. filled \in [NodesOf(t) -> [data : Data, next : Node \cup {NULL}]]
  BY <1>1, <1>2 DEF Queue!With, Queued
<1>4. r = NULL <=> Len(s) = 0
  BY ChainFact DEF Queued, At
<1>5. Len(s) # 0 => r = s[Len(s)] /\ r \in NodesOf(s) /\ r # n
  BY <1>1, ChainFact DEF Queued, At
<1>6. h2 = IF r = NULL THEN filled ELSE [filled EXCEPT ![r].next = n]
  BY DEF Linked
<1> HIDE DEF t, filled
<1>7. /\ DOMAIN h2 = NodesOf(t)
      /\ h2 \in [NodesOf(t) -> [data : Data, next : Node \cup {NULL}]]
      /\ \A m \in NodesOf(t) : h2[m].data = filled[m].data
      /\ \A m \in NodesOf(t) : h2[m].next = IF m = r THEN n ELSE filled[m].next
  <2>1. CASE r = NULL
    <3>1. NULL \notin NodesOf(t)
      BY <1>1, ChainFact, NodeAssumption
    <3> QED
      BY <1>2, <1>3, <1>6, <2>1, <3>1
  <2>2. CASE r # NULL
    <3>1. h2 = [filled EXCEPT ![r].next = n] /\ r \in NodesOf(t)
      BY <1>1, <1>4, <1>5, <1>6, <2>2, ChainFact
    <3>2. DOMAIN h2 = NodesOf(t)
      BY <1>2, <3>1
    <3>3. h2[r] = [filled[r] EXCEPT !.next = n] /\ \A m \in NodesOf(t) : m # r => h2[m] = filled[m]
      BY <1>2, <3>1
    <3>4. filled[r] \in [data : Data, next : Node \cup {NULL}]
      BY <1>3, <3>1
    <3>5. h2[r].data = filled[r].data /\ h2[r].next = n /\ h2[r] \in [data : Data, next : Node \cup {NULL}]
      BY <3>3, <3>4
    <3>6. h2 \in [NodesOf(t) -> [data : Data, next : Node \cup {NULL}]]
      BY <1>3, <3>1, <3>2, <3>3, <3>5
    <3> QED
      BY <3>2, <3>3, <3>5, <3>6
  <2> QED
    BY <2>1, <2>2
<1>8. Links(t, h2, "next")
  <2> SUFFICES ASSUME NEW i \in 1..Len(t) PROVE h2[t[i]].next = At(t, i + 1)
    BY DEF Links
  <2>1. CASE i = Len(s) + 1
    <3>1. t[i] = n /\ n # r
      BY <1>1, <1>4, <1>5, <2>1, ChainFact
    <3>2. h2[t[i]].next = NULL
      BY <1>1, <1>2, <1>7, <3>1
    <3> QED
      BY <1>1, <2>1, <3>2, ChainFact DEF At
  <2>2. CASE i = Len(s)
    <3>1. t[i] = r /\ r \in NodesOf(t)
      BY <1>1, <1>5, <2>2, ChainFact
    <3>2. i + 1 \in 1..Len(t) /\ t[i + 1] = n
      BY <1>1, <2>2, ChainFact
    <3> QED
      BY <1>7, <3>1, <3>2 DEF At
  <2>3. CASE i \in 1..(Len(s) - 1)
    <3>1. /\ i \in 1..Len(s) /\ i + 1 \in 1..Len(s) /\ i + 1 \in 1..Len(t) /\ i # Len(s)
          /\ t[i] = s[i] /\ t[i + 1] = s[i + 1]
      BY <1>1, <2>3, ChainFact
    <3>2. s[i] \in NodesOf(s) /\ s[i] # n /\ s[i] # r /\ s[i] \in NodesOf(t)
      BY <1>1, <1>5, <3>1, ChainFact
    <3>3. h2[s[i]].next = h[s[i]].next
      BY <1>2, <1>7, <3>2
    <3>4. h[s[i]].next = s[i + 1]
      BY <3>1 DEF Queued, Links, At
    <3> QED
      BY <3>1, <3>3, <3>4 DEF At
  <2> QED
    BY <1>1, <2>1, <2>2, <2>3, ChainFact
<1>9. Queued(t, h2, f2, n, c + 1)
  <2>1. At(t, Len(t)) = n
    BY <1>1, ChainFact DEF At
  <2>2. At(t, 1) = f2
    BY <1>1, <1>4, ChainFact DEF At, Queued
  <2>3. c + 1 = Len(t)
    BY <1>1 DEF Queued
  <2> QED
    BY <1>7, <1>8, <2>1, <2>2, <2>3 DEF Queued
<1>10. DataOf(t, h2) = Append(DataOf(s, h), d)
  <2>1. \A i \in 1..Len(s) : h2[t[i]].data = h[s[i]].data
    <3> SUFFICES ASSUME NEW i \in 1..Len(s) PROVE h2[t[i]].data = h[s[i]].data
      OBVIOUS
    <3>1. t[i] = s[i] /\ s[i] \in NodesOf(t) /\ s[i] # n
      BY <1>1, ChainFact
    <3> QED
      BY <1>2, <1>7, <3>1
  <2>2. h2[t[Len(s) + 1]].data = d
    BY <1>1, <1>2, <1>7
  <2> QED
    BY <1>1, <2>1, <2>2, ChainFact DEF DataOf
<1> QED
  BY <1>1, <1>9, <1>10 DEF t

\* What dequeue and remove do around the i-th node.
LEMMA UnlinkNode ==
  ASSUME NEW s \in Chain, NEW h, NEW f, NEW r, NEW c, Queued(s, h, f, r, c),
         NEW i \in 1..Len(s), NEW h2, h2 = Unlinked(s, h, i),
         NEW f2, f2 = IF i = 1 THEN h[s[i]].next ELSE f,
         NEW r2, r2 = IF s[i] = r THEN At(s, i - 1) ELSE r
  PROVE  /\ Drop(s, i) \in Chain
         /\ Queued(Drop(s, i), h2, f2, r2, c - 1)
         /\ DataOf(Drop(s, i), h2) = Drop(DataOf(s, h), i)
<1> DEFINE t == Drop(s, i)
<1>1. /\ t \in Chain /\ Len(t) = Len(s) - 1
      /\ \A j \in 1..(Len(s) - 1) : t[j] = IF j < i THEN s[j] ELSE s[j + 1]
      /\ NodesOf(t) = NodesOf(s) \ {s[i]}
  BY DropChain
<1>2. i \in Nat /\ 1 <= i /\ i <= Len(s) /\ Len(s) \in Nat /\ s[i] \in NodesOf(s)
  BY ChainFact
<1>3. i # 1 => /\ i - 1 \in 1..Len(s) /\ s[i - 1] \in NodesOf(s) /\ s[i - 1] # s[i]
               /\ s[i - 1] \in NodesOf(t)
  <2> SUFFICES ASSUME i # 1
               PROVE  i - 1 \in 1..Len(s) /\ s[i - 1] \in NodesOf(s) /\ s[i - 1] # s[i]
    BY <1>1
  <2>1. i - 1 \in 1..Len(s) /\ i - 1 # i
    BY <1>2
  <2> QED
    BY <1>2, <2>1, ChainFact
<1>4. h[s[i]].next = At(s, i + 1) /\ h[s[i]].next \in Node \cup {NULL}
  BY <1>2 DEF Queued, Links
<1> HIDE DEF t
<1>5. /\ DOMAIN h2 = NodesOf(t)
      /\ h2 \in [NodesOf(t) -> [data : Data, next : Node \cup {NULL}]]
      /\ \A m \in NodesOf(t) : h2[m].data = h[m].data
      /\ \A m \in NodesOf(t) : h2[m].next = IF i # 1 /\ m = s[i - 1] THEN At(s, i + 1) ELSE h[m].next
  <2>1. CASE i = 1
    BY <1>1, <2>1 DEF Queued, Queue!Without, Unlinked
  <2>2. CASE i # 1
    <3> DEFINE g == [h EXCEPT ![s[i - 1]].next = h[s[i]].next]
    <3>1. s[i - 1] \in DOMAIN h /\ DOMAIN g = DOMAIN h
      BY <1>3, <2>2 DEF Queued
    <3>2. /\ g[s[i - 1]] = [h[s[i - 1]] EXCEPT !.next = h[s[i]].next]
          /\ \A m \in DOMAIN h : m # s[i - 1] => g[m] = h[m]
      BY <3>1
    <3>3. \A m \in DOMAIN h : h[m] \in [data : Data, next : Node \cup {NULL}]
      BY DEF Queued
    <3>4. /\ g[s[i - 1]].data = h[s[i - 1]].data /\ g[s[i - 1]].next = At(s, i + 1)
          /\ g[s[i - 1]] \in [data : Data, next : Node \cup {NULL}]
      BY <1>4, <3>1, <3>2, <3>3
    <3>5. h2 = Queue!Without(g, {s[i]})
      BY <2>2 DEF Unlinked
    <3> HIDE DEF g
    <3>6. DOMAIN h2 = NodesOf(t) /\ h2 = [m \in NodesOf(t) |-> g[m]] /\ NodesOf(t) \subseteq DOMAIN h
      BY <1>1, <3>1, <3>5 DEF Queue!Without, Queued
    <3>7. \A m \in NodesOf(t) : h2[m] \in [data : Data, next : Node \cup {NULL}]
      BY <3>2, <3>3, <3>4, <3>6
    <3>8. \A m \in NodesOf(t) : h2[m].data = h[m].data
      BY <3>2, <3>4, <3>6
    <3>9. \A m \in NodesOf(t) : h2[m].next = IF m = s[i - 1] THEN At(s, i + 1) ELSE h[m].next
      BY <3>2, <3>4, <3>6
    <3> QED
      BY <2>2, <3>6, <3>7, <3>8, <3>9
  <2> QED
    BY <2>1, <2>2
<1>6. Links(t, h2, "next")
  <2> SUFFICES ASSUME NEW j \in 1..Len(t) PROVE h2[t[j]].next = At(t, j + 1)
    BY DEF Links
  <2>0. j \in Nat /\ 1 <= j /\ j < Len(s) /\ t[j] \in NodesOf(t)
    BY <1>1, <1>2, ChainFact
  <2>1. CASE j < i - 1
    <3>1. t[j] = s[j] /\ At(t, j + 1) = s[j + 1] /\ j \in 1..Len(s) /\ j + 1 \in 1..Len(s) /\ i # 1
      BY <1>1, <1>2, <2>0, <2>1 DEF At
    <3>2. s[j] # s[i - 1]
      BY <1>3, <2>0, <2>1, <3>1, ChainFact
    <3>3. h[s[j]].next = s[j + 1]
      BY <3>1 DEF Queued, Links, At
    <3> QED
      BY <1>5, <2>0, <3>1, <3>2, <3>3
  <2>2. CASE j = i - 1
    <3>1. t[j] = s[i - 1] /\ i # 1
      BY <1>1, <1>2, <2>0, <2>2
    <3>2. At(t, j + 1) = At(s, i + 1)
      BY <1>1, <1>2, <2>0, <2>2 DEF At
    <3> QED
      BY <1>5, <2>0, <3>1, <3>2
  <2>3. CASE j >= i
    <3>0. t[j] = s[j + 1] /\ j + 1 \in 1..Len(s)
      BY <1>1, <1>2, <2>0, <2>3
    <3>1. t[j] = s[j + 1] /\ At(t, j + 1) = At(s, j + 2) /\ j + 1 \in 1..Len(s)
      <4>1. CASE j = Len(t)
        BY <1>1, <1>2, <2>0, <3>0, <4>1 DEF At
      <4>2. CASE j # Len(t)
        <5>1. j + 1 \in 1..Len(t) /\ j + 2 \in 1..Len(s) /\ (j + 1) + 1 = j + 2 /\ ~(j + 1 < i)
          BY <1>1, <1>2, <2>0, <2>3, <4>2
        <5>2. t[j + 1] = s[j + 2]
          BY <1>1, <5>1
        <5> QED
          BY <3>0, <5>1, <5>2 DEF At
      <4> QED
        BY <4>1, <4>2
    <3>2. i # 1 => s[j + 1] # s[i - 1]
      BY <1>2, <1>3, <2>0, <2>3, <3>1, ChainFact
    <3>3. h[s[j + 1]].next = At(s, j + 2)
      <4>1. h[s[j + 1]].next = At(s, (j + 1) + 1) /\ (j + 1) + 1 = j + 2
        BY <2>0, <3>1 DEF Queued, Links
      <4> QED
        BY <4>1
    <3> QED
      BY <1>5, <2>0, <3>1, <3>2, <3>3
  <2> QED
    BY <1>2, <2>0, <2>1, <2>2, <2>3
<1>7. At(t, 1) = f2
  <2>1. CASE i = 1
    BY <1>1, <1>2, <1>4, <2>1 DEF At
  <2>2. CASE i # 1
    BY <1>1, <1>2, <2>2 DEF At, Queued
  <2> QED
    BY <2>1, <2>2
<1>8. At(t, Len(t)) = r2
  <2>1. r = s[Len(s)] /\ Len(s) \in 1..Len(s)
    BY <1>2 DEF Queued, At
  <2>2. CASE i = Len(s)
    BY <1>1, <1>2, <2>1, <2>2 DEF At
  <2>3. CASE i # Len(s)
    <3>1. s[i] # r
      BY <1>2, <2>1, <2>3, ChainFact
    <3>2. At(t, Len(t)) = s[Len(s)]
      BY <1>1, <1>2, <2>3 DEF At
    <3> QED
      BY <2>1, <3>1, <3>2
  <2> QED
    BY <2>2, <2>3
<1>9. Queued(t, h2, f2, r2, c - 1)
  <2>1. c - 1 = Len(t)
    BY <1>1 DEF Queued
  <2> QED
    BY <1>5, <1>6, <1>7, <1>8, <2>1 DEF Queued
<1>10. DataOf(t, h2) = Drop(DataOf(s, h), i)
  <2>1. DataOf(s, h) = [j \in 1..Len(s) |-> h[s[j]].data] /\ Len(DataOf(s, h)) = Len(s)
    BY <1>2 DEF DataOf
  <2>2. \A j \in 1..Len(t) : h2[t[j]].data = h[t[j]].data
    BY <1>1, <1>5, ChainFact
  <2>3. \A j \in 1..Len(t) : h[t[j]].data = IF j < i THEN h[s[j]].data ELSE h[s[j + 1]].data
    BY <1>1
  <2>4. \A j \in 1..Len(t) : (IF j < i THEN DataOf(s, h)[j] ELSE DataOf(s, h)[j + 1])
                              = IF j < i THEN h[s[j]].data ELSE h[s[j + 1]].data
    <3> SUFFICES ASSUME NEW j \in 1..Len(t)
                 PROVE  DataOf(s, h)[j] = h[s[j]].data /\ DataOf(s, h)[j + 1] = h[s[j + 1]].data
      OBVIOUS
    <3>1. j \in 1..Len(s) /\ j + 1 \in 1..Len(s)
      BY <1>1, <1>2
    <3> QED
      BY <2>1, <3>1
  <2> QED
    BY <1>1, <2>1, <2>2, <2>3, <2>4 DEF DataOf, Drop
<1> QED
  BY <1>1, <1>9, <1>10 DEF t

\* The queue's nodes, read along the links, and the data in them.
LEMMA QueueReading ==
  \A s \in Chain :
    Queued(s, mem, front, rear, size) =>
      /\ Queue!Contents = DataOf(s, mem)
      /\ Queue!WellLinked
      /\ Queue!Listed = NodesOf(s)
<1> SUFFICES ASSUME NEW s \in Chain, Queued(s, mem, front, rear, size)
             PROVE  /\ Queue!Contents = DataOf(s, mem)
                    /\ Queue!WellLinked
                    /\ Queue!Listed = NodesOf(s)
  OBVIOUS
<1> DEFINE K == Cardinality(Node)
           w == Queue!Walk
<1>1. DOMAIN w = 1..(K + 1) /\ \A i \in 1..(K + 1) : w[i] = At(s, i)
  BY QueueWalk
<1>2. K \in Nat /\ Len(s) \in Nat /\ Len(s) <= K /\ size = Len(s)
  BY ChainFact, ChainFits DEF Queued
<1>3. Queue!Contents = [i \in 1..size |-> mem[w[i]].data]
  BY DEF Queue!Contents
<1>4. Queue!Listed = {w[i] : i \in DOMAIN w} \ {NULL}
  BY DEF Queue!Listed
<1>5. \A i \in 1..Len(s) : i \in 1..(K + 1) /\ w[i] = s[i] /\ s[i] # NULL
  <2> HIDE DEF K, w
  <2> QED
    BY <1>1, <1>2, ChainFact DEF At
<1>6. \A i \in 1..(K + 1) : w[i] = NULL <=> i > size
  <2> HIDE DEF K, w
  <2> QED
    BY <1>1, <1>2, ChainFact DEF At
<1>7. Queue!Listed = NodesOf(s)
  <2>1. NodesOf(s) \subseteq Queue!Listed
    BY <1>1, <1>4, <1>5 DEF NodesOf
  <2>2. ASSUME NEW n \in Queue!Listed PROVE n \in NodesOf(s)
    <3>1. PICK i \in 1..(K + 1) : n = w[i] /\ w[i] # NULL
      BY <1>1, <1>4, <2>2
    <3>2. i \in 1..Len(s)
      BY <1>1, <3>1 DEF At
    <3> QED
      BY <1>5, <3>1, <3>2 DEF NodesOf
  <2> QED
    BY <2>1, <2>2
<1>8. Queue!Contents = DataOf(s, mem)
  BY <1>2, <1>3, <1>5 DEF DataOf
<1>9. rear = IF size = 0 THEN NULL ELSE w[size]
  BY <1>2, <1>5 DEF Queued, At
<1>10. Queue!WellLinked
  <2>1. size \in 0..K
    BY <1>2
  <2> QED
    BY <1>1, <1>6, <1>7, <1>9, <2>1 DEF Queue!WellLinked, Queue!Cardinality, Cardinality, Queued
<1> QED
  BY <1>7, <1>8, <1>10

LEMMA DataSeq ==
  ASSUME NEW s \in Chain, NEW h, NEW f, NEW r, NEW c, Queued(s, h, f, r, c)
  PROVE  DataOf(s, h) \in Seq(Data) /\ Len(DataOf(s, h)) = Len(s)
<1>1. \A i \in 1..Len(s) : h[s[i]] \in [data : Data, next : Node \cup {NULL}]
  BY ChainFact DEF Queued
<1>2. \A i \in 1..Len(s) : h[s[i]].data \in Data
  BY <1>1
<1> QED
  BY <1>2, ChainFact DEF DataOf

\* A queue without nodes.
LEMMA NoNodes ==
  /\ << >> \in Chain
  /\ \A h : DataOf(<< >>, h) = << >>
  /\ \A h : DOMAIN h = {} /\ h = [m \in {} |-> h[m]] => Queued(<< >>, h, NULL, NULL, 0)
<1>1. << >> \in Chain
  BY DEF Chain, Distinct
<1>2. \A h : DataOf(<< >>, h) = << >>
  BY DEF DataOf
<1>3. ASSUME NEW h, DOMAIN h = {}, h = [m \in {} |-> h[m]]
      PROVE  Queued(<< >>, h, NULL, NULL, 0)
  <2>1. h \in [{} -> [data : Data, next : Node \cup {NULL}]]
    BY <1>3
  <2>2. DOMAIN h = NodesOf(<< >>)
    BY <1>3 DEF NodesOf
  <2> QED
    BY <1>3, <2>1, <2>2 DEF Queued, At, Links
<1> QED
  BY <1>1, <1>2, <1>3

\* A step of module Fifo from q to q2.
FifoStep(q, q2) ==
  \/ \E d \in Data : Len(q) < Cardinality(Node) /\ q2 = Append(q, d)
  \/ \E d \in Data, i \in 1..Len(q) : q[i] = d /\ (\A j \in 1..(i - 1) : q[j] # d) /\ q2 = Drop(q, i)
  \/ q # << >> /\ q2 = Drop(q, 1)
  \/ q2 = << >>

\* Every call on a queue that holds a chain of nodes leaves one, and changes
\* the data as the abstract queue does.
LEMMA QueueNext ==
  ASSUME NEW s \in Chain, Queued(s, mem, front, rear, size), Queue!Next
  PROVE  \E t \in Chain : Queued(t, mem', front', rear', size') /\ FifoStep(DataOf(s, mem), DataOf(t, mem'))
<1> DEFINE Goal == \E t \in Chain :
                     Queued(t, mem', front', rear', size') /\ FifoStep(DataOf(s, mem), DataOf(t, mem'))
<1>0. /\ Len(s) \in Nat /\ Len(DataOf(s, mem)) = Len(s) /\ DataOf(s, mem) \in Seq(Data)
      /\ \A i \in 1..Len(s) : DataOf(s, mem)[i] = mem[s[i]].data
  BY ChainFact, DataSeq DEF DataOf
<1>w. \A i \in 1..(Cardinality(Node) + 1) : Queue!Walk[i] = At(s, i)
  BY QueueWalk
<1>1. ASSUME NEW n \in Node, NEW d \in Data, Queue!Enqueue(n, d) PROVE Goal
  <2>1. /\ n \notin DOMAIN mem
        /\ mem' = Linked(mem, rear, n, d)
        /\ front' = (IF rear = NULL THEN n ELSE front) /\ rear' = n /\ size' = size + 1
    BY <1>1 DEF Queue!Enqueue, Linked
  <2>2. /\ Append(s, n) \in Chain
        /\ Queued(Append(s, n), mem', front', rear', size')
        /\ DataOf(Append(s, n), mem') = Append(DataOf(s, mem), d)
    BY <2>1, LinkLast
  <2>3. Len(DataOf(s, mem)) < Cardinality(Node)
    <3>1. Len(Append(s, n)) = Len(s) + 1
      BY ChainFact, AppendProperties
    <3>2. Cardinality(Node) \in Nat /\ Len(Append(s, n)) <= Cardinality(Node)
      BY <2>2, ChainFits
    <3> QED
      BY <1>0, <3>1, <3>2
  <2> QED
    BY <2>2, <2>3 DEF FifoStep
<1>2. ASSUME Queue!Dequeue PROVE Goal
  <2>1. /\ front # NULL /\ front' = mem[front].next
        /\ rear' = (IF mem[front].next = NULL THEN NULL ELSE rear)
        /\ mem' = Queue!Without(mem, {front}) /\ size' = size - 1
    BY <1>2 DEF Queue!Dequeue
  <2>2. 1 \in 1..Len(s) /\ front = s[1]
    BY <2>1, ChainFact DEF Queued, At
  <2>3. (IF mem[front].next = NULL THEN NULL ELSE rear) = IF s[1] = rear THEN At(s, 1 - 1) ELSE rear
    <3>1. mem[s[1]].next = At(s, 1 + 1) /\ rear = s[Len(s)] /\ At(s, 1 - 1) = NULL
      BY <2>2, ChainFact DEF Queued, Links, At
    <3>2. CASE Len(s) = 1
      BY <2>2, <3>1, <3>2 DEF At
    <3>3. CASE Len(s) # 1
      <4>1. At(s, 1 + 1) # NULL /\ s[1] # rear
        BY <1>0, <2>2, <3>1, <3>3, ChainFact DEF At
      <4> QED
        BY <2>2, <3>1, <4>1
    <3> QED
      BY <3>2, <3>3
  <2>4. /\ Drop(s, 1) \in Chain
        /\ Queued(Drop(s, 1), mem', front', rear', size')
        /\ DataOf(Drop(s, 1), mem') = Drop(DataOf(s, mem), 1)
    <3>1. mem' = Unlinked(s, mem, 1)
      BY <2>1, <2>2 DEF Unlinked
    <3>2. /\ front' = IF 1 = 1 THEN mem[s[1]].next ELSE front
          /\ rear' = IF s[1] = rear THEN At(s, 1 - 1) ELSE rear
      BY <2>1, <2>2, <2>3
    <3> QED
      BY <2>1, <2>2, <3>1, <3>2, UnlinkNode
  <2>5. DataOf(s, mem) # << >>
    BY <1>0, <2>2
  <2> QED
    BY <2>4, <2>5 DEF FifoStep
<1>3. ASSUME NEW d \in Data, Queue!Remove(d) PROVE Goal
  <2>1. PICK i \in 1..Cardinality(Node) :
          LET node     == Queue!Walk[i]
              previous == IF i = 1 THEN NULL ELSE Queue!Walk[i - 1]
          IN  /\ Queue!FirstMatch(i, d)
              /\ front' = IF previous = NULL THEN mem[node].next ELSE front
              /\ mem' = IF previous = NULL
                        THEN Queue!Without(mem, {node})
                        ELSE Queue!Without([mem EXCEPT ![previous].next = mem[node].next], {node})
              /\ rear' = Queue!RearAfterRemove(node, previous)
              /\ size' = size - 1
    BY <1>3 DEF Queue!Remove, Queue!Cardinality, Cardinality
  <2>2. /\ Queue!Walk[i] # NULL /\ mem[Queue!Walk[i]].data = d
        /\ \A j \in 1..(i - 1) : mem[Queue!Walk[j]].data # d
    BY <2>1 DEF Queue!FirstMatch
  <2>3. i \in 1..Len(s) /\ Queue!Walk[i] = s[i]
    BY <1>w, <2>2, ChainFits DEF At
  <2>4. \A j \in 1..(i - 1) : j \in 1..Len(s) /\ Queue!Walk[j] = s[j]
    <3>1. \A j \in 1..(i - 1) : j \in 1..Len(s) /\ j \in 1..(Cardinality(Node) + 1)
      BY <1>0, <2>3, ChainFits
    <3> QED
      BY <1>w, <3>1 DEF At
  <2>5. (IF i = 1 THEN NULL ELSE Queue!Walk[i - 1]) = IF i = 1 THEN NULL ELSE s[i - 1]
    <3>1. i # 1 => i - 1 \in 1..(i - 1)
      BY <2>3
    <3> QED
      BY <2>4, <3>1
  <2>6. i # 1 => s[i - 1] # NULL
    <3>1. i # 1 => i - 1 \in 1..Len(s)
      BY <1>0, <2>3
    <3> QED
      BY <3>1, ChainFact
  <2>7. /\ mem' = Unlinked(s, mem, i)
        /\ front' = IF i = 1 THEN mem[s[i]].next ELSE front
        /\ size' = size - 1
    BY <2>1, <2>3, <2>5, <2>6 DEF Unlinked
  <2>8. rear' = IF s[i] = rear THEN At(s, i - 1) ELSE rear
    <3>1. (IF i = 1 THEN NULL ELSE s[i - 1]) = At(s, i - 1)
      BY <1>0, <2>3 DEF At
    <3> QED
      BY <2>1, <2>3, <2>5, <3>1 DEF Queue!RearAfterRemove
  <2>9. /\ Drop(s, i) \in Chain
        /\ Queued(Drop(s, i), mem', front', rear', size')
        /\ DataOf(Drop(s, i), mem') = Drop(DataOf(s, mem), i)
    BY <2>3, <2>7, <2>8, UnlinkNode
  <2>10. DataOf(s, mem)[i] = d /\ \A j \in 1..(i - 1) : DataOf(s, mem)[j] # d
    BY <1>0, <2>2, <2>3, <2>4
  <2> QED
    BY <1>0, <2>3, <2>9, <2>10 DEF FifoStep
<1>4. ASSUME Queue!ClearQueue PROVE Goal
  <2>1. /\ mem' = Queue!Without(mem, NodesOf(s))
        /\ front' = NULL /\ rear' = NULL /\ size' = 0
    BY <1>4, QueueReading DEF Queue!ClearQueue
  <2>2. DOMAIN mem' = {} /\ mem' = [m \in {} |-> mem'[m]]
    BY <2>1 DEF Queue!Without, Queued
  <2>3. Queued(<< >>, mem', front', rear', size')
    BY <2>1, <2>2, NoNodes
  <2> QED
    BY <2>3, NoNodes DEF FifoStep
<1> QED
  BY <1>1, <1>2, <1>3, <1>4 DEF Queue!Next

-----------------------------------------------------------------------------
(* The doubly linked list.                                                  *)

ListNode == [data : Data, next : Node \cup {NULL}, prev : Node \cup {NULL}]

\* Every node of s points back to the one before it.
BackLinks(s, h) == \A i \in 1..Len(s) : h[s[i]].prev = At(s, i - 1)

\* The list with these fields holds the nodes s.
Chained(s, h, f, l, c) ==
  /\ DOMAIN h = NodesOf(s)
  /\ h \in [DOMAIN h -> ListNode]
  /\ c = Len(s)
  /\ f = At(s, 1)
  /\ l = At(s, Len(s))
  /\ Links(s, h, "next")
  /\ BackLinks(s, h)

LEMMA ForwardWalk ==
  ASSUME NEW s \in Chain, Chained(s, heap, first, last, length)
  PROVE  /\ DOMAIN List!Forward = 1..(Cardinality(Node) + 1)
         /\ \A i \in 1..(Cardinality(Node) + 1) : List!Forward[i] = At(s, i)
<1>1. List!Forward = WalkFrom(Cardinality(Node), first, heap, "next")
  BY DEF List!Forward, List!Cardinality, Cardinality, WalkFrom
<1>2. Links(s, heap, "next") /\ first = At(s, 1) /\ Cardinality(Node) \in Nat
  BY ChainFits DEF Chained
<1> QED
  BY <1>1, <1>2, WalkExists

\* The chain seen from its last node.
Backwards(s) == [i \in 1..Len(s) |-> s[Len(s) + 1 - i]]

LEMMA BackwardsChain ==
  ASSUME NEW s \in Chain
  PROVE  /\ Backwards(s) \in Chain /\ Len(Backwards(s)) = Len(s)
         /\ \A i \in 1..Len(s) : Backwards(s)[i] = s[Len(s) + 1 - i]
         /\ \A i \in Int : At(Backwards(s), i) = At(s, Len(s) + 1 - i)
<1> DEFINE t == Backwards(s)
<1>0. Len(s) \in Nat /\ \A i \in 1..Len(s) : Len(s) + 1 - i \in 1..Len(s)
  BY ChainFact
<1>1. /\ t \in Seq(Node) /\ Len(t) = Len(s)
      /\ \A i \in 1..Len(s) : t[i] = s[Len(s) + 1 - i]
  BY <1>0, ChainFact DEF Backwards
<1> HIDE DEF t
<1>2. Distinct(t)
  <2> SUFFICES ASSUME NEW i \in 1..Len(s), NEW j \in 1..Len(s), t[i] = t[j]
               PROVE  i = j
    BY <1>1 DEF Distinct
  <2>1. Len(s) + 1 - i = Len(s) + 1 - j
    BY <1>0, <1>1, ChainFact
  <2> QED
    BY <1>0, <2>1
<1>3. \A i \in Int : At(t, i) = At(s, Len(s) + 1 - i)
  <2> SUFFICES ASSUME NEW i \in Int PROVE At(t, i) = At(s, Len(s) + 1 - i)
    OBVIOUS
  <2>1. i \in 1..Len(s) <=> Len(s) + 1 - i \in 1..Len(s)
    BY <1>0
  <2> QED
    BY <1>1, <2>1 DEF At
<1> QED
  BY <1>1, <1>2, <1>3 DEF Chain, t

LEMMA BackwardWalk ==
  ASSUME NEW s \in Chain, Chained(s, heap, first, last, length)
  PROVE  \A i \in 1..(Cardinality(Node) + 1) : List!Backward[i] = At(s, Len(s) + 1 - i)
<1> DEFINE t == Backwards(s)
<1>1. List!Backward = WalkFrom(Cardinality(Node), last, heap, "prev")
  BY DEF List!Backward, List!Cardinality, Cardinality, WalkFrom
<1>2. /\ t \in Chain /\ Len(t) = Len(s) /\ Len(s) \in Nat
      /\ \A i \in 1..Len(s) : t[i] = s[Len(s) + 1 - i]
      /\ \A i \in Int : At(t, i) = At(s, Len(s) + 1 - i)
  BY BackwardsChain, ChainFact
<1> HIDE DEF t
<1>3. Links(t, heap, "prev")
  <2> SUFFICES ASSUME NEW i \in 1..Len(s) PROVE heap[t[i]].prev = At(t, i + 1)
    BY <1>2 DEF Links
  <2>1. Len(s) + 1 - i \in 1..Len(s) /\ (Len(s) + 1 - i) - 1 = Len(s) + 1 - (i + 1)
    BY <1>2
  <2>2. heap[s[Len(s) + 1 - i]].prev = At(s, (Len(s) + 1 - i) - 1)
    BY <2>1 DEF Chained, BackLinks
  <2>3. i + 1 \in Int
    OBVIOUS
  <2> QED
    BY <1>2, <2>1, <2>2, <2>3
<1>4. last = At(t, 1)
  <2>1. At(t, 1) = At(s, Len(s) + 1 - 1) /\ Len(s) + 1 - 1 = Len(s)
    BY <1>2
  <2> QED
    BY <2>1 DEF Chained
<1>5. Cardinality(Node) \in Nat
  BY ChainFits
<1>6. \A i \in 1..(Cardinality(Node) + 1) : List!Backward[i] = At(t, i)
  <2>1. \A i \in 1..(Cardinality(Node) + 1) :
          WalkFrom(Cardinality(Node), last, heap, "prev")[i] = At(t, i)
    <3> DEFINE K == Cardinality(Node)
    <3>1. t \in Chain
      BY <1>2
    <3>2. K \in Nat
      BY <1>5
    <3> HIDE DEF K
    <3>3. \A i \in 1..(K + 1) : WalkFrom(K, last, heap, "prev")[i] = At(t, i)
      BY <1>3, <1>4, <3>1, <3>2, WalkExists
    <3> QED
      BY <3>3 DEF K
  <2> QED
    BY <1>1, <2>1
<1> QED
  BY <1>2, <1>5, <1>6

\* The list's nodes, read along the links in both directions, and the data.
LEMMA ListReading ==
  \A s \in Chain :
    Chained(s, heap, first, last, length) =>
      /\ List!Elements = DataOf(s, heap)
      /\ List!WellLinked
      /\ {List!Forward[i] : i \in DOMAIN List!Forward} \ {NULL} = NodesOf(s)
<1> SUFFICES ASSUME NEW s \in Chain, Chained(s, heap, first, last, length)
             PROVE  /\ List!Elements = DataOf(s, heap)
                    /\ List!WellLinked
                    /\ {List!Forward[i] : i \in DOMAIN List!Forward} \ {NULL} = NodesOf(s)
  OBVIOUS
<1> DEFINE K == Cardinality(Node)
           w == List!Forward
           b == List!Backward
<1>1. DOMAIN w = 1..(K + 1) /\ \A i \in 1..(K + 1) : w[i] = At(s, i)
  BY ForwardWalk
<1>2. \A i \in 1..(K + 1) : b[i] = At(s, Len(s) + 1 - i)
  BY BackwardWalk
<1>3. K \in Nat /\ Len(s) \in Nat /\ Len(s) <= K /\ length = Len(s)
  BY ChainFact, ChainFits DEF Chained
<1>4. List!Elements = [i \in 1..length |-> heap[w[i]].data]
  BY DEF List!Elements
<1>5. \A i \in 1..Len(s) : i \in 1..(K + 1) /\ w[i] = s[i] /\ s[i] # NULL
  <2> HIDE DEF K, w
  <2> QED
    BY <1>1, <1>3, ChainFact DEF At
<1>6. \A i \in 1..(K + 1) : w[i] = NULL <=> i > length
  <2> HIDE DEF K, w
  <2> QED
    BY <1>1, <1>3, ChainFact DEF At
<1>7. {w[i] : i \in DOMAIN w} \ {NULL} = NodesOf(s)
  <2>1. NodesOf(s) \subseteq {w[i] : i \in DOMAIN w} \ {NULL}
    BY <1>1, <1>5 DEF NodesOf
  <2>2. ASSUME NEW i \in 1..(K + 1), w[i] # NULL PROVE w[i] \in NodesOf(s)
    <3>1. i \in 1..Len(s)
      BY <1>1, <2>2 DEF At
    <3> QED
      BY <1>5, <3>1 DEF NodesOf
  <2> HIDE DEF K, w
  <2> QED
    BY <1>1, <2>1, <2>2
<1>8. List!Elements = DataOf(s, heap)
  BY <1>3, <1>4, <1>5 DEF DataOf
<1>9. \A i \in 1..length : b[i] = w[length + 1 - i]
  <2> SUFFICES ASSUME NEW i \in 1..length PROVE b[i] = w[length + 1 - i]
    OBVIOUS
  <2>1. i \in 1..(K + 1) /\ length + 1 - i \in 1..(K + 1)
    BY <1>3
  <2> HIDE DEF K, w, b
  <2> QED
    BY <1>1, <1>2, <1>3, <2>1
<1>10. b[length + 1] = NULL
  <2>1. length + 1 \in 1..(K + 1) /\ Len(s) + 1 - (length + 1) = 0
    BY <1>3
  <2> HIDE DEF K, w, b
  <2>2. b[length + 1] = At(s, 0)
    BY <1>2, <2>1
  <2> QED
    BY <2>2 DEF At
<1>11. DOMAIN heap = {w[i] : i \in 1..length}
  BY <1>3, <1>5 DEF Chained, NodesOf
<1>12. List!WellLinked
  <2>1. length \in 0..K
    BY <1>3
  <2> QED
    BY <1>1, <1>6, <1>9, <1>10, <1>11, <2>1 DEF List!WellLinked, List!Cardinality, Cardinality
<1> QED
  BY <1>7, <1>8, <1>12

LEMMA ElementsSeq ==
  ASSUME NEW s \in Chain, NEW h, NEW f, NEW l, NEW c, Chained(s, h, f, l, c)
  PROVE  DataOf(s, h) \in Seq(Data) /\ Len(DataOf(s, h)) = Len(s)
<1>1. \A i \in 1..Len(s) : h[s[i]] \in ListNode
  BY ChainFact DEF Chained
<1>2. \A i \in 1..Len(s) : h[s[i]].data \in Data
  BY <1>1 DEF ListNode
<1> QED
  BY <1>2, ChainFact DEF DataOf

LEMMA NoListNodes ==
  ASSUME NEW h, DOMAIN h = {}, h = [m \in {} |-> h[m]]
  PROVE  Chained(<< >>, h, NULL, NULL, 0)
<1>1. h \in [{} -> ListNode]
  OBVIOUS
<1>2. DOMAIN h = NodesOf(<< >>)
  BY DEF NodesOf
<1> QED
  BY <1>1, <1>2 DEF Chained, At, Links, BackLinks

\* g is the memory h with v in that link of p, or h if p is NULL.
Stored(g, h, p, field, v) ==
  /\ DOMAIN g = DOMAIN h /\ g \in [DOMAIN h -> ListNode]
  /\ \A m \in DOMAIN h :
       /\ g[m].data = h[m].data
       /\ g[m].next = IF m = p /\ field = "next" THEN v ELSE h[m].next
       /\ g[m].prev = IF m = p /\ field = "prev" THEN v ELSE h[m].prev

\* g is the memory h with a node n more.
Created(g, h, n, d, nx, pv) ==
  /\ DOMAIN g = DOMAIN h \cup {n} /\ g \in [DOMAIN h \cup {n} -> ListNode]
  /\ g[n].data = d /\ g[n].next = nx /\ g[n].prev = pv
  /\ \A m \in DOMAIN h : m # n => g[m] = h[m]

NodesIn(h) == h \in [DOMAIN h -> ListNode] /\ DOMAIN h \subseteq Node

\* What writing a link through a pointer does: nothing if the pointer is NULL.
LEMMA StoreFact ==
  ASSUME NEW h, NodesIn(h),
         NEW p, p \in DOMAIN h \cup {NULL}, NEW v \in Node \cup {NULL},
         NEW field \in {"next", "prev"}, NEW g, g = List!Store(h, p, field, v)
  PROVE  Stored(g, h, p, field, v)
<1> USE DEF Stored, NodesIn
<1>0. NULL \notin DOMAIN h
  BY NodeAssumption
<1>1. CASE p = NULL
  BY <1>0, <1>1 DEF List!Store
<1>2. CASE p # NULL /\ field = "next"
  <2>1. g = [h EXCEPT ![p].next = v] /\ p \in DOMAIN h
    BY <1>2 DEF List!Store
  <2>2. h[p] \in ListNode /\ g[p] = [h[p] EXCEPT !.next = v] /\ DOMAIN g = DOMAIN h
        /\ \A m \in DOMAIN h : m # p => g[m] = h[m]
    BY <2>1
  <2>3. /\ g[p] \in ListNode /\ g[p].data = h[p].data /\ g[p].next = v /\ g[p].prev = h[p].prev
    BY <2>2 DEF ListNode
  <2>4. g \in [DOMAIN h -> ListNode]
    BY <2>1, <2>2, <2>3
  <2> QED
    BY <1>2, <2>2, <2>3, <2>4
<1>3. CASE p # NULL /\ field = "prev"
  <2>1. g = [h EXCEPT ![p].prev = v] /\ p \in DOMAIN h
    BY <1>3 DEF List!Store
  <2>2. h[p] \in ListNode /\ g[p] = [h[p] EXCEPT !.prev = v] /\ DOMAIN g = DOMAIN h
        /\ \A m \in DOMAIN h : m # p => g[m] = h[m]
    BY <2>1
  <2>3. /\ g[p] \in ListNode /\ g[p].data = h[p].data /\ g[p].prev = v /\ g[p].next = h[p].next
    BY <2>2 DEF ListNode
  <2>4. g \in [DOMAIN h -> ListNode]
    BY <2>1, <2>2, <2>3
  <2> QED
    BY <1>3, <2>2, <2>3, <2>4
<1> QED
  BY <1>1, <1>2, <1>3

LEMMA CreateFact ==
  ASSUME NodesIn(heap), NEW n \in Node, NEW d \in Data,
         NEW nx \in Node \cup {NULL}, NEW pv \in Node \cup {NULL}, NEW g,
         g = List!CreateNode(n, d, nx, pv)
  PROVE  Created(g, heap, n, d, nx, pv)
<1>1. [data |-> d, next |-> nx, prev |-> pv] \in ListNode
  BY DEF ListNode
<1>2. g = [m \in DOMAIN heap \cup {n} |-> IF m = n THEN [data |-> d, next |-> nx, prev |-> pv] ELSE heap[m]]
  BY DEF List!CreateNode, List!With
<1> QED
  BY <1>1, <1>2 DEF Created, NodesIn

\* insertFirst: a node more at the front.
LEMMA InsertFirstStep ==
  ASSUME NEW s \in Chain, Chained(s, heap, first, last, length), NEW n \in Node, NEW d \in Data,
         List!InsertFirst(n, d)
  PROVE  /\ <<n>> \o s \in Chain
         /\ Chained(<<n>> \o s, heap', first', last', length')
         /\ DataOf(<<n>> \o s, heap') = <<d>> \o DataOf(s, heap)
         /\ Len(s) < Cardinality(Node)
<1> DEFINE t == <<n>> \o s
           g == List!CreateNode(n, d, first, NULL)
<1>0. /\ n \notin DOMAIN heap /\ heap' = List!Store(g, first, "prev", n) /\ first' = n
      /\ last' = (IF last = NULL THEN n ELSE last) /\ length' = length + 1
  BY DEF List!InsertFirst
<1>1. /\ t \in Chain /\ Len(t) = Len(s) + 1 /\ t[1] = n
      /\ \A i \in 1..Len(s) : t[i + 1] = s[i]
      /\ \A i \in 2..(Len(s) + 1) : t[i] = s[i - 1]
      /\ NodesOf(t) = NodesOf(s) \cup {n}
      /\ n \notin NodesOf(s)
  BY <1>0, PrependChain DEF Chained
<1>2. /\ Len(s) \in Nat /\ DOMAIN heap = NodesOf(s) /\ heap \in [DOMAIN heap -> ListNode]
      /\ first \in NodesOf(s) \cup {NULL} /\ first \in Node \cup {NULL}
      /\ first = At(s, 1) /\ last = At(s, Len(s)) /\ length = Len(s)
      /\ n # NULL
  BY ChainFact, NodeAssumption DEF Chained, At
<1>3. /\ DOMAIN g = NodesOf(t) /\ g \in [NodesOf(t) -> ListNode]
      /\ g[n].data = d /\ g[n].next = first /\ g[n].prev = NULL
      /\ \A m \in NodesOf(s) : m # n => g[m] = heap[m]
  <2>1. g = List!CreateNode(n, d, first, NULL)
    OBVIOUS
  <2> HIDE DEF t, g
  <2>2. NULL \in Node \cup {NULL} /\ NodesIn(heap)
    BY <1>2, ChainFact DEF NodesIn
  <2>3. Created(g, heap, n, d, first, NULL)
    BY <1>2, <2>1, <2>2, CreateFact
  <2> QED
    BY <1>1, <1>2, <2>3 DEF Created
<1> HIDE DEF t, g
<1>4. NodesOf(t) \subseteq Node
  BY <1>1, ChainFact
<1>5. /\ DOMAIN heap' = NodesOf(t) /\ heap' \in [NodesOf(t) -> ListNode]
      /\ \A m \in NodesOf(t) :
           /\ heap'[m].data = g[m].data
           /\ heap'[m].next = g[m].next
           /\ heap'[m].prev = IF m = first THEN n ELSE g[m].prev
  <2>1. first \in DOMAIN g \cup {NULL} /\ n \in Node \cup {NULL} /\ "prev" \in {"next", "prev"}
    BY <1>1, <1>2, <1>3
  <2>2. NodesIn(g)
    BY <1>3, <1>4 DEF NodesIn
  <2>3. Stored(heap', g, first, "prev", n)
    BY <1>0, <2>1, <2>2, StoreFact
  <2>4. "prev" # "next"
    OBVIOUS
  <2> QED
    BY <1>3, <2>3, <2>4 DEF Stored
<1>6. /\ heap'[n].data = d /\ heap'[n].next = first /\ heap'[n].prev = NULL
      /\ \A m \in NodesOf(s) : /\ heap'[m].data = heap[m].data
                               /\ heap'[m].next = heap[m].next
                               /\ heap'[m].prev = IF m = first THEN n ELSE heap[m].prev
  BY <1>1, <1>2, <1>3, <1>5
<1>7. \A i \in 1..Len(t) : i = 1 \/ (i - 1 \in 1..Len(s) /\ t[i] = s[i - 1] /\ s[i - 1] \in NodesOf(s))
  BY <1>1, <1>2, ChainFact
<1>8. \A i \in Int : i >= 1 => At(t, i + 1) = At(s, i)
  BY <1>1, <1>2 DEF At
<1>9. Links(t, heap', "next")
  <2> SUFFICES ASSUME NEW i \in 1..Len(t) PROVE heap'[t[i]].next = At(t, i + 1)
    BY DEF Links
  <2>1. CASE i = 1
    BY <1>1, <1>2, <1>6, <1>8, <2>1
  <2>2. CASE i # 1
    <3>1. i - 1 \in 1..Len(s) /\ t[i] = s[i - 1] /\ s[i - 1] \in NodesOf(s)
      BY <1>7, <2>2
    <3>2. heap[s[i - 1]].next = At(s, (i - 1) + 1) /\ (i - 1) + 1 = i
      BY <3>1 DEF Chained, Links
    <3> QED
      BY <1>6, <1>8, <3>1, <3>2
  <2> QED
    BY <2>1, <2>2
<1>10. BackLinks(t, heap')
  <2> SUFFICES ASSUME NEW i \in 1..Len(t) PROVE heap'[t[i]].prev = At(t, i - 1)
    BY DEF BackLinks
  <2>1. CASE i = 1
    BY <1>1, <1>6, <2>1 DEF At
  <2>2. CASE i = 2
    <3>1. t[i] = s[1] /\ s[1] \in NodesOf(s) /\ s[1] = first
      BY <1>2, <1>7, <2>2 DEF At
    <3>2. At(t, i - 1) = n
      BY <1>1, <1>2, <2>2 DEF At
    <3> QED
      BY <1>6, <3>1, <3>2
  <2>3. CASE i # 1 /\ i # 2
    <3>1. /\ i - 1 \in 1..Len(s) /\ t[i] = s[i - 1] /\ s[i - 1] \in NodesOf(s)
          /\ i \in Int /\ i - 2 >= 1 /\ i - 2 \in Int
      BY <1>7, <2>3
    <3>2. s[i - 1] # first
      <4>1. 1 \in 1..Len(s) /\ i - 1 # 1
        BY <1>2, <2>3, <3>1
      <4> QED
        BY <1>2, <3>1, <4>1, ChainFact DEF At
    <3>3. heap[s[i - 1]].prev = At(s, (i - 1) - 1) /\ (i - 1) - 1 = i - 2 /\ (i - 2) + 1 = i - 1
      BY <3>1 DEF Chained, BackLinks
    <3>4. At(t, (i - 2) + 1) = At(s, i - 2)
      BY <1>8, <3>1
    <3> QED
      BY <1>6, <3>1, <3>2, <3>3, <3>4
  <2> QED
    BY <2>1, <2>2, <2>3
<1>11. At(t, 1) = first'
  BY <1>0, <1>1, <1>2 DEF At
<1>12. At(t, Len(t)) = last'
  <2>1. CASE Len(s) = 0
    BY <1>0, <1>1, <1>2, <2>1 DEF At
  <2>2. CASE Len(s) # 0
    <3>1. last = s[Len(s)] /\ last # NULL /\ Len(s) \in 1..Len(s)
      BY <1>2, <2>2, ChainFact DEF At
    <3> QED
      BY <1>0, <1>1, <1>2, <3>1 DEF At
  <2> QED
    BY <2>1, <2>2
<1>13. Chained(t, heap', first', last', length')
  <2>1. length' = Len(t)
    BY <1>0, <1>1, <1>2
  <2> QED
    BY <1>5, <1>9, <1>10, <1>11, <1>12, <2>1 DEF Chained
<1>14. DataOf(t, heap') = <<d>> \o DataOf(s, heap)
  <2>1. /\ DataOf(s, heap) \in Seq(Data) /\ Len(DataOf(s, heap)) = Len(s)
        /\ <<d>> \in Seq(Data) /\ Len(<<d>>) = 1 /\ <<d>>[1] = d
    BY ElementsSeq
  <2>2. /\ <<d>> \o DataOf(s, heap) \in Seq(Data) /\ Len(<<d>> \o DataOf(s, heap)) = 1 + Len(s)
        /\ \A i \in 1..(1 + Len(s)) :
             (<<d>> \o DataOf(s, heap))[i] = IF i <= 1 THEN <<d>>[i] ELSE DataOf(s, heap)[i - 1]
    BY <2>1, ConcatProperties
  <2>3. DataOf(t, heap') \in Seq(Data) /\ Len(DataOf(t, heap')) = Len(t)
    BY <1>1, <1>13, ElementsSeq
  <2>4. ASSUME NEW i \in 1..Len(t) PROVE DataOf(t, heap')[i] = (<<d>> \o DataOf(s, heap))[i]
    <3>1. DataOf(t, heap')[i] = heap'[t[i]].data
      BY DEF DataOf
    <3>2. CASE i = 1
      BY <1>1, <1>2, <1>6, <2>1, <2>2, <3>1, <3>2
    <3>3. CASE i # 1
      <4>1. i - 1 \in 1..Len(s) /\ t[i] = s[i - 1] /\ s[i - 1] \in NodesOf(s)
        BY <1>7, <3>3
      <4>2. DataOf(s, heap)[i - 1] = heap[s[i - 1]].data
        BY <4>1 DEF DataOf
      <4>3. (<<d>> \o DataOf(s, heap))[i] = DataOf(s, heap)[i - 1]
        BY <1>1, <1>2, <2>2, <3>3, <4>1
      <4> QED
        BY <1>6, <3>1, <4>1, <4>2, <4>3
    <3> QED
      BY <3>2, <3>3
  <2>5. Len(t) = 1 + Len(s)
    BY <1>1, <1>2
  <2> QED
    BY <2>2, <2>3, <2>4, <2>5, SeqEqual
<1>15. Len(s) < Cardinality(Node)
  BY <1>1, <1>2, ChainFits
<1> QED
  BY <1>1, <1>13, <1>14, <1>15 DEF t

\* insertLast: a node more at the end.
LEMMA InsertLastStep ==
  ASSUME NEW s \in Chain, Chained(s, heap, first, last, length), NEW n \in Node, NEW d \in Data,
         List!InsertLast(n, d)
  PROVE  /\ Append(s, n) \in Chain
         /\ Chained(Append(s, n), heap', first', last', length')
         /\ DataOf(Append(s, n), heap') = Append(DataOf(s, heap), d)
         /\ Len(s) < Cardinality(Node)
<1> DEFINE t == Append(s, n)
           g == List!CreateNode(n, d, NULL, last)
<1>0. /\ n \notin DOMAIN heap /\ heap' = List!Store(g, last, "next", n) /\ last' = n
      /\ first' = (IF first = NULL THEN n ELSE first) /\ length' = length + 1
  BY DEF List!InsertLast
<1>1. /\ t \in Chain /\ Len(t) = Len(s) + 1 /\ t[Len(s) + 1] = n
      /\ \A i \in 1..Len(s) : t[i] = s[i]
      /\ NodesOf(t) = NodesOf(s) \cup {n}
      /\ n \notin NodesOf(s)
  BY <1>0, AppendChain DEF Chained
<1>2. /\ Len(s) \in Nat /\ DOMAIN heap = NodesOf(s) /\ heap \in [DOMAIN heap -> ListNode]
      /\ last \in NodesOf(s) \cup {NULL} /\ last \in Node \cup {NULL}
      /\ first = At(s, 1) /\ last = At(s, Len(s)) /\ length = Len(s)
      /\ n # NULL
  BY ChainFact, NodeAssumption DEF Chained, At
<1>3. /\ DOMAIN g = NodesOf(t) /\ g \in [NodesOf(t) -> ListNode]
      /\ g[n].data = d /\ g[n].next = NULL /\ g[n].prev = last
      /\ \A m \in NodesOf(s) : m # n => g[m] = heap[m]
  <2>1. g = List!CreateNode(n, d, NULL, last)
    OBVIOUS
  <2> HIDE DEF t, g
  <2>2. NULL \in Node \cup {NULL} /\ NodesIn(heap)
    BY <1>2, ChainFact DEF NodesIn
  <2>3. Created(g, heap, n, d, NULL, last)
    BY <1>2, <2>1, <2>2, CreateFact
  <2> QED
    BY <1>1, <1>2, <2>3 DEF Created
<1> HIDE DEF t, g
<1>4. NodesOf(t) \subseteq Node
  BY <1>1, ChainFact
<1>5. /\ DOMAIN heap' = NodesOf(t) /\ heap' \in [NodesOf(t) -> ListNode]
      /\ \A m \in NodesOf(t) :
           /\ heap'[m].data = g[m].data
           /\ heap'[m].next = IF m = last THEN n ELSE g[m].next
           /\ heap'[m].prev = g[m].prev
  <2>1. last \in DOMAIN g \cup {NULL} /\ n \in Node \cup {NULL} /\ "next" \in {"next", "prev"}
    BY <1>1, <1>2, <1>3
  <2>2. NodesIn(g)
    BY <1>3, <1>4 DEF NodesIn
  <2>3. Stored(heap', g, last, "next", n)
    BY <1>0, <2>1, <2>2, StoreFact
  <2>4. "prev" # "next"
    OBVIOUS
  <2> QED
    BY <1>3, <2>3, <2>4 DEF Stored
<1>6. /\ heap'[n].data = d /\ heap'[n].next = NULL /\ heap'[n].prev = last
      /\ \A m \in NodesOf(s) : /\ heap'[m].data = heap[m].data
                               /\ heap'[m].next = IF m = last THEN n ELSE heap[m].next
                               /\ heap'[m].prev = heap[m].prev
  BY <1>1, <1>2, <1>3, <1>5
<1>7. \A i \in 1..Len(t) : i = Len(s) + 1 \/ (i \in 1..Len(s) /\ t[i] = s[i] /\ s[i] \in NodesOf(s))
  BY <1>1, <1>2, ChainFact
<1>8. \A i \in Int : i <= Len(s) => At(t, i) = At(s, i)
  BY <1>1, <1>2 DEF At
<1>9. At(t, Len(s) + 1) = n /\ At(t, Len(s) + 2) = NULL
  BY <1>1, <1>2 DEF At
<1>10. Links(t, heap', "next")
  <2> SUFFICES ASSUME NEW i \in 1..Len(t) PROVE heap'[t[i]].next = At(t, i + 1)
    BY DEF Links
  <2>1. CASE i = Len(s) + 1
    <3>1. i + 1 = Len(s) + 2
      BY <1>2, <2>1
    <3> QED
      BY <1>1, <1>6, <1>9, <2>1, <3>1
  <2>2. CASE i # Len(s) + 1
    <3>1. i \in 1..Len(s) /\ t[i] = s[i] /\ s[i] \in NodesOf(s)
      BY <1>7, <2>2
    <3>2. heap[s[i]].next = At(s, i + 1)
      BY <3>1 DEF Chained, Links
    <3>3. CASE i = Len(s)
      <4>1. s[i] = last
        BY <1>2, <3>1, <3>3 DEF At
      <4> QED
        BY <1>6, <1>9, <3>1, <3>3, <4>1
    <3>4. CASE i # Len(s)
      <4>1. s[i] # last
        <5>1. Len(s) \in 1..Len(s)
          BY <1>2, <3>1
        <5> QED
          BY <1>2, <3>1, <3>4, <5>1, ChainFact DEF At
      <4>2. At(t, i + 1) = At(s, i + 1)
        BY <1>2, <1>8, <3>1, <3>4
      <4> QED
        BY <1>6, <3>1, <3>2, <4>1, <4>2
    <3> QED
      BY <3>3, <3>4
  <2> QED
    BY <2>1, <2>2
<1>11. BackLinks(t, heap')
  <2> SUFFICES ASSUME NEW i \in 1..Len(t) PROVE heap'[t[i]].prev = At(t, i - 1)
    BY DEF BackLinks
  <2>0. i \in Int /\ i - 1 \in Int /\ i - 1 <= Len(s)
    BY <1>1, <1>2
  <2>1. CASE i = Len(s) + 1
    <3>1. i - 1 = Len(s)
      BY <1>2, <2>1
    <3> QED
      BY <1>1, <1>2, <1>6, <1>8, <2>0, <2>1, <3>1
  <2>2. CASE i # Len(s) + 1
    <3>1. i \in 1..Len(s) /\ t[i] = s[i] /\ s[i] \in NodesOf(s)
      BY <1>7, <2>2
    <3>2. heap[s[i]].prev = At(s, i - 1)
      BY <3>1 DEF Chained, BackLinks
    <3> QED
      BY <1>6, <1>8, <2>0, <3>1, <3>2
  <2> QED
    BY <2>1, <2>2
<1>12. At(t, Len(t)) = last'
  BY <1>0, <1>1, <1>9
<1>13. At(t, 1) = first'
  <2>1. CASE Len(s) = 0
    BY <1>0, <1>1, <1>2, <2>1 DEF At
  <2>2. CASE Len(s) # 0
    <3>1. first = s[1] /\ first # NULL /\ 1 \in 1..Len(s)
      BY <1>2, <2>2, ChainFact DEF At
    <3> QED
      BY <1>0, <1>1, <1>2, <3>1 DEF At
  <2> QED
    BY <2>1, <2>2
<1>14. Chained(t, heap', first', last', length')
  <2>1. length' = Len(t)
    BY <1>0, <1>1, <1>2
  <2> QED
    BY <1>5, <1>10, <1>11, <1>12, <1>13, <2>1 DEF Chained
<1>15. DataOf(t, heap') = Append(DataOf(s, heap), d)
  <2>1. \A i \in 1..Len(s) : heap'[t[i]].data = heap[s[i]].data
    BY <1>1, <1>6, ChainFact
  <2>2. heap'[t[Len(s) + 1]].data = d
    BY <1>1, <1>6
  <2> QED
    BY <1>1, <2>1, <2>2, ChainFact DEF DataOf
<1>16. Len(s) < Cardinality(Node)
  BY <1>1, <1>2, ChainFits
<1> QED
  BY <1>1, <1>14, <1>15, <1>16 DEF t

\* What the removals do around the i-th node.
LEMMA UnlinkListNode ==
  ASSUME NEW s \in Chain, Chained(s, heap, first, last, length), NEW i \in 1..Len(s),
         NEW h1, h1 = List!Store(heap, At(s, i - 1), "next", At(s, i + 1)),
         NEW h2, h2 = List!Store(h1, At(s, i + 1), "prev", At(s, i - 1)),
         NEW h3, h3 = List!Without(h2, {s[i]}),
         NEW f3, f3 = IF i = 1 THEN At(s, i + 1) ELSE first,
         NEW l3, l3 = IF i = Len(s) THEN At(s, i - 1) ELSE last
  PROVE  /\ Drop(s, i) \in Chain
         /\ Chained(Drop(s, i), h3, f3, l3, length - 1)
         /\ DataOf(Drop(s, i), h3) = Drop(DataOf(s, heap), i)
<1> DEFINE t == Drop(s, i)
           before == At(s, i - 1)
           after == At(s, i + 1)
<1>1. /\ t \in Chain /\ Len(t) = Len(s) - 1
      /\ \A j \in 1..(Len(s) - 1) : t[j] = IF j < i THEN s[j] ELSE s[j + 1]
      /\ NodesOf(t) = NodesOf(s) \ {s[i]}
  BY DropChain
<1>2. /\ i \in Nat /\ 1 <= i /\ i <= Len(s) /\ Len(s) \in Nat /\ s[i] \in NodesOf(s)
      /\ length = Len(s) /\ first = At(s, 1) /\ last = At(s, Len(s))
      /\ DOMAIN heap = NodesOf(s) /\ NodesIn(heap)
  BY ChainFact DEF Chained, NodesIn
<1>3. /\ before \in NodesOf(s) \cup {NULL} /\ before \in Node \cup {NULL}
      /\ after \in NodesOf(s) \cup {NULL} /\ after \in Node \cup {NULL}
  BY <1>2, ChainFact DEF At
<1>t. \A j \in Int : At(t, j) = IF j < i THEN At(s, j) ELSE At(s, j + 1)
  <2> HIDE DEF t
  <2> SUFFICES ASSUME NEW j \in Int PROVE At(t, j) = IF j < i THEN At(s, j) ELSE At(s, j + 1)
    OBVIOUS
  <2>1. CASE j \in 1..(Len(s) - 1)
    <3>1. j \in 1..Len(s) /\ j + 1 \in 1..Len(s) /\ j \in 1..Len(t)
      BY <1>1, <1>2, <2>1
    <3> QED
      BY <1>1, <2>1, <3>1 DEF At
  <2>2. CASE j \notin 1..(Len(s) - 1)
    <3>1. At(t, j) = NULL
      BY <1>1, <2>2 DEF At
    <3>2. j < i => j \notin 1..Len(s)
      BY <1>2, <2>2
    <3>3. ~(j < i) => j + 1 \notin 1..Len(s)
      BY <1>2, <2>2
    <3> QED
      BY <3>1, <3>2, <3>3 DEF At
  <2> QED
    BY <2>1, <2>2
<1>4. Stored(h1, heap, before, "next", after)
  <2>1. "next" \in {"next", "prev"}
    OBVIOUS
  <2> QED
    BY <1>2, <1>3, <2>1, StoreFact
<1>5. Stored(h2, h1, after, "prev", before)
  <2>1. "prev" \in {"next", "prev"}
    OBVIOUS
  <2>2. NodesIn(h1) /\ DOMAIN h1 = NodesOf(s)
    BY <1>2, <1>4 DEF Stored, NodesIn
  <2> QED
    BY <1>3, <2>1, <2>2, StoreFact
<1> HIDE DEF t, before, after
<1>6. /\ DOMAIN h2 = NodesOf(s) /\ h2 \in [NodesOf(s) -> ListNode]
      /\ \A m \in NodesOf(s) :
           /\ h2[m].data = heap[m].data
           /\ h2[m].next = IF m = before THEN after ELSE heap[m].next
           /\ h2[m].prev = IF m = after THEN before ELSE heap[m].prev
  <2>1. "prev" # "next"
    OBVIOUS
  <2> QED
    BY <1>2, <1>4, <1>5, <2>1 DEF Stored
<1>7. /\ DOMAIN h3 = NodesOf(t) /\ h3 \in [NodesOf(t) -> ListNode]
      /\ \A m \in NodesOf(t) : h3[m] = h2[m] /\ m \in NodesOf(s)
  BY <1>1, <1>6 DEF List!Without
<1>8. \A j \in 1..Len(t) : /\ t[j] \in NodesOf(t) /\ t[j] \in NodesOf(s) /\ j \in Nat
                           /\ j < i => j \in 1..Len(s) /\ t[j] = s[j]
                           /\ ~(j < i) => j + 1 \in 1..Len(s) /\ t[j] = s[j + 1]
  BY <1>1, <1>2, ChainFact
<1>9. Links(t, h3, "next")
  <2> SUFFICES ASSUME NEW j \in 1..Len(t) PROVE h3[t[j]].next = At(t, j + 1)
    BY DEF Links
  <2>0. h3[t[j]].next = (IF t[j] = before THEN after ELSE heap[t[j]].next) /\ j \in Nat /\ j + 1 \in Int
    <3>1. t[j] \in NodesOf(t) /\ t[j] \in NodesOf(s) /\ j \in Nat
      BY <1>8
    <3>2. h3[t[j]] = h2[t[j]]
      BY <1>7, <3>1
    <3> QED
      BY <1>6, <3>1, <3>2
  <2>1. CASE j < i - 1
    <3>1. t[j] = s[j] /\ j \in 1..Len(s) /\ i - 1 \in 1..Len(s) /\ j < i /\ j + 1 < i
      BY <1>2, <1>8, <2>0, <2>1
    <3>2. s[j] # before
      BY <2>1, <3>1, ChainFact DEF before, At
    <3>3. heap[s[j]].next = At(s, j + 1)
      BY <3>1 DEF Chained, Links
    <3> QED
      BY <1>t, <2>0, <3>1, <3>2, <3>3
  <2>2. CASE j = i - 1
    <3>1. t[j] = s[j] /\ j \in 1..Len(s) /\ j < i /\ j + 1 = i
      BY <1>2, <1>8, <2>0, <2>2
    <3>2. s[j] = before
      BY <2>2, <3>1 DEF before, At
    <3>3. At(t, j + 1) = after
      BY <1>t, <1>2, <3>1 DEF after
    <3> QED
      BY <2>0, <3>1, <3>2, <3>3
  <2>3. CASE j >= i
    <3>1. t[j] = s[j + 1] /\ j + 1 \in 1..Len(s) /\ ~(j < i) /\ ~(j + 1 < i)
      BY <1>2, <1>8, <2>0, <2>3
    <3>2. s[j + 1] # before
      <4>1. i - 1 # j + 1
        BY <1>2, <2>0, <2>3
      <4> QED
        BY <3>1, <4>1, ChainFact DEF before, At
    <3>3. heap[s[j + 1]].next = At(s, (j + 1) + 1)
      BY <3>1 DEF Chained, Links
    <3> QED
      BY <1>t, <2>0, <3>1, <3>2, <3>3
  <2> QED
    BY <1>2, <2>0, <2>1, <2>2, <2>3
<1>10. BackLinks(t, h3)
  <2> SUFFICES ASSUME NEW j \in 1..Len(t) PROVE h3[t[j]].prev = At(t, j - 1)
    BY DEF BackLinks
  <2>0. h3[t[j]].prev = (IF t[j] = after THEN before ELSE heap[t[j]].prev) /\ j \in Nat /\ j - 1 \in Int
    <3>1. t[j] \in NodesOf(t) /\ t[j] \in NodesOf(s) /\ j \in Nat
      BY <1>8
    <3>2. h3[t[j]] = h2[t[j]]
      BY <1>7, <3>1
    <3> QED
      BY <1>6, <3>1, <3>2
  <2>1. CASE j < i
    <3>1. t[j] = s[j] /\ j \in 1..Len(s) /\ j - 1 < i
      BY <1>2, <1>8, <2>0, <2>1
    <3>2. s[j] # after
      <4>1. i + 1 # j
        BY <1>2, <2>0, <2>1
      <4> QED
        BY <3>1, <4>1, ChainFact DEF after, At
    <3>3. heap[s[j]].prev = At(s, j - 1)
      BY <3>1 DEF Chained, BackLinks
    <3> QED
      BY <1>t, <2>0, <3>1, <3>2, <3>3
  <2>2. CASE j = i
    <3>1. t[j] = s[i + 1] /\ i + 1 \in 1..Len(s) /\ j - 1 < i
      BY <1>2, <1>8, <2>0, <2>2
    <3>2. s[i + 1] = after
      BY <3>1 DEF after, At
    <3>3. At(t, j - 1) = before
      BY <1>t, <2>0, <2>2, <3>1 DEF before
    <3> QED
      BY <2>0, <3>1, <3>2, <3>3
  <2>3. CASE j > i
    <3>1. t[j] = s[j + 1] /\ j + 1 \in 1..Len(s) /\ ~(j - 1 < i) /\ i + 1 # j + 1
      BY <1>2, <1>8, <2>0, <2>3
    <3>2. s[j + 1] # after
      BY <3>1, ChainFact DEF after, At
    <3>3. heap[s[j + 1]].prev = At(s, (j + 1) - 1) /\ (j + 1) - 1 = (j - 1) + 1
      BY <2>0, <3>1 DEF Chained, BackLinks
    <3> QED
      BY <1>t, <2>0, <3>1, <3>2, <3>3
  <2> QED
    BY <1>2, <2>0, <2>1, <2>2, <2>3
<1>11. At(t, 1) = f3
  <2>1. 1 \in Int /\ (1 < i <=> i # 1)
    BY <1>2
  <2> QED
    BY <1>t, <1>2, <2>1
<1>12. At(t, Len(t)) = l3
  <2>1. Len(t) \in Int /\ Len(t) = Len(s) - 1 /\ (Len(t) < i <=> i = Len(s)) /\ Len(t) + 1 = Len(s)
    BY <1>1, <1>2
  <2> QED
    BY <1>t, <1>2, <2>1
<1>13. Chained(t, h3, f3, l3, length - 1)
  <2>1. length - 1 = Len(t)
    BY <1>1, <1>2
  <2> QED
    BY <1>7, <1>9, <1>10, <1>11, <1>12, <2>1 DEF Chained
<1>14. DataOf(t, h3) = Drop(DataOf(s, heap), i)
  <2>1. DataOf(s, heap) = [j \in 1..Len(s) |-> heap[s[j]].data] /\ Len(DataOf(s, heap)) = Len(s)
    BY <1>2 DEF DataOf
  <2>2. \A j \in 1..Len(t) : h3[t[j]].data = heap[t[j]].data
    <3> SUFFICES ASSUME NEW j \in 1..Len(t) PROVE h3[t[j]].data = heap[t[j]].data
      OBVIOUS
    <3>1. t[j] \in NodesOf(t) /\ t[j] \in NodesOf(s)
      BY <1>8
    <3>2. h3[t[j]] = h2[t[j]]
      BY <1>7, <3>1
    <3> QED
      BY <1>6, <3>1, <3>2
  <2>3. \A j \in 1..Len(t) : heap[t[j]].data = IF j < i THEN heap[s[j]].data ELSE heap[s[j + 1]].data
    BY <1>8
  <2>4. \A j \in 1..Len(t) : (IF j < i THEN DataOf(s, heap)[j] ELSE DataOf(s, heap)[j + 1])
                              = IF j < i THEN heap[s[j]].data ELSE heap[s[j + 1]].data
    BY <1>8, <2>1
  <2>5. DataOf(t, h3) = [j \in 1..Len(t) |-> IF j < i THEN DataOf(s, heap)[j] ELSE DataOf(s, heap)[j + 1]]
    <3>1. \A j \in 1..Len(t) : h3[t[j]].data = IF j < i THEN DataOf(s, heap)[j] ELSE DataOf(s, heap)[j + 1]
      BY <2>2, <2>3, <2>4
    <3>2. DataOf(t, h3) = [j \in 1..Len(t) |-> h3[t[j]].data]
      BY DEF DataOf
    <3> DEFINE F(j) == h3[t[j]].data
               G(j) == IF j < i THEN DataOf(s, heap)[j] ELSE DataOf(s, heap)[j + 1]
    <3>3. \A j \in 1..Len(t) : F(j) = G(j)
      BY <3>1
    <3>4. [j \in 1..Len(t) |-> F(j)] = [j \in 1..Len(t) |-> G(j)]
      <4> HIDE DEF F, G
      <4> QED
        BY <3>3
    <3> QED
      BY <3>2, <3>4
  <2>6. Drop(DataOf(s, heap), i)
          = [j \in 1..Len(t) |-> IF j < i THEN DataOf(s, heap)[j] ELSE DataOf(s, heap)[j + 1]]
    BY <1>1, <2>1 DEF Drop
  <2> QED
    BY <2>5, <2>6
<1> QED
  BY <1>1, <1>13, <1>14 DEF t

\* A step of module Deque from q to q2.
DequeStep(q, q2) ==
  \/ FifoStep(q, q2)
  \/ \E d \in Data : Len(q) < Cardinality(Node) /\ q2 = <<d>> \o q
  \/ q # << >> /\ q2 = Drop(q, Len(q))

\* The list and its data; before it is created it has no nodes.
Held(s, h, f, l, c, a) == Chained(s, h, f, l, c) /\ (~a => s = << >>)

\* A pointer that is NULL is not written through.
LEMMA StoreNull ==
  ASSUME NEW h, NEW field, NEW v
  PROVE  List!Store(h, NULL, field, v) = h
BY DEF List!Store

\* Every call on a list that holds a chain of nodes leaves one, and changes
\* the data as the abstract double-ended queue does.
LEMMA ListNext ==
  ASSUME NEW s \in Chain, Held(s, heap, first, last, length, alive), List!Next
  PROVE  \E t \in Chain : /\ Held(t, heap', first', last', length', alive')
                          /\ DequeStep(DataOf(s, heap), DataOf(t, heap'))
<1> DEFINE Goal == \E t \in Chain : /\ Held(t, heap', first', last', length', alive')
                                    /\ DequeStep(DataOf(s, heap), DataOf(t, heap'))
<1>0. /\ Chained(s, heap, first, last, length) /\ (~alive => s = << >>)
      /\ Len(s) \in Nat /\ Len(DataOf(s, heap)) = Len(s) /\ DataOf(s, heap) \in Seq(Data)
      /\ \A i \in 1..Len(s) : DataOf(s, heap)[i] = heap[s[i]].data
      /\ first = At(s, 1) /\ last = At(s, Len(s)) /\ length = Len(s)
  BY ChainFact, ElementsSeq DEF DataOf, Held, Chained
<1>f. \A i \in 1..(Cardinality(Node) + 1) : List!Forward[i] = At(s, i)
  BY <1>0, ForwardWalk
<1>l. \A i \in 1..Len(s) : heap[s[i]].next = At(s, i + 1) /\ heap[s[i]].prev = At(s, i - 1)
  BY <1>0 DEF Chained, Links, BackLinks
<1>1. CASE List!CreateDoubleLinkedList
  <2>1. s = << >> /\ first' = NULL /\ last' = NULL /\ length' = 0 /\ heap' = heap /\ alive'
    BY <1>0, <1>1 DEF List!CreateDoubleLinkedList
  <2>2. first = NULL /\ last = NULL /\ length = 0
    BY <1>0, <2>1 DEF At
  <2>3. Held(s, heap', first', last', length', alive')
    BY <1>0, <2>1, <2>2 DEF Held
  <2>4. DataOf(s, heap') = << >>
    BY <2>1, NoNodes
  <2> QED
    BY <2>3, <2>4 DEF DequeStep, FifoStep
<1>2. ASSUME NEW n \in Node, NEW d \in Data, List!InsertFirst(n, d) PROVE Goal
  <2>1. /\ <<n>> \o s \in Chain
        /\ Chained(<<n>> \o s, heap', first', last', length')
        /\ DataOf(<<n>> \o s, heap') = <<d>> \o DataOf(s, heap)
        /\ Len(s) < Cardinality(Node)
    BY <1>0, <1>2, InsertFirstStep
  <2>2. alive'
    BY <1>2 DEF List!InsertFirst
  <2>3. Held(<<n>> \o s, heap', first', last', length', alive')
    BY <2>1, <2>2 DEF Held
  <2> QED
    BY <1>0, <2>1, <2>3 DEF DequeStep
<1>3. ASSUME NEW n \in Node, NEW d \in Data, List!InsertLast(n, d) PROVE Goal
  <2>1. /\ Append(s, n) \in Chain
        /\ Chained(Append(s, n), heap', first', last', length')
        /\ DataOf(Append(s, n), heap') = Append(DataOf(s, heap), d)
        /\ Len(s) < Cardinality(Node)
    BY <1>0, <1>3, InsertLastStep
  <2>2. alive'
    BY <1>3 DEF List!InsertLast
  <2>3. Held(Append(s, n), heap', first', last', length', alive')
    BY <2>1, <2>2 DEF Held
  <2> QED
    BY <1>0, <2>1, <2>3 DEF DequeStep, FifoStep
<1>4. CASE List!RemoveFirst
  <2>1. /\ first # NULL /\ alive'
        /\ heap' = List!Without(List!Store(heap, heap[first].next, "prev", NULL), {first})
        /\ first' = heap[first].next
        /\ last' = IF heap[first].next = NULL THEN NULL ELSE last
        /\ length' = length - 1
    BY <1>4 DEF List!RemoveFirst
  <2>2. 1 \in 1..Len(s) /\ first = s[1] /\ At(s, 1 - 1) = NULL /\ heap[first].next = At(s, 1 + 1)
    BY <1>0, <1>l, <2>1 DEF At
  <2>3. heap = List!Store(heap, At(s, 1 - 1), "next", At(s, 1 + 1))
    BY <2>2, StoreNull
  <2>4. (IF At(s, 1 + 1) = NULL THEN NULL ELSE last) = IF 1 = Len(s) THEN At(s, 1 - 1) ELSE last
    BY <1>0, <2>2, ChainFact DEF At
  <2>5. /\ Drop(s, 1) \in Chain
        /\ Chained(Drop(s, 1), heap', first', last', length')
        /\ DataOf(Drop(s, 1), heap') = Drop(DataOf(s, heap), 1)
    <3> DEFINE k == 1
               h2 == List!Store(heap, At(s, k + 1), "prev", At(s, k - 1))
    <3>1. heap' = List!Without(h2, {s[k]}) /\ k \in 1..Len(s)
      BY <2>1, <2>2
    <3>2. h2 = List!Store(heap, At(s, k + 1), "prev", At(s, k - 1))
      OBVIOUS
    <3>3. /\ first' = IF k = 1 THEN At(s, k + 1) ELSE first
          /\ last' = IF k = Len(s) THEN At(s, k - 1) ELSE last
      BY <2>1, <2>2, <2>4
    <3>4. heap = List!Store(heap, At(s, k - 1), "next", At(s, k + 1))
      BY <2>3
    <3> HIDE DEF h2, k
    <3>5. /\ Drop(s, k) \in Chain
          /\ Chained(Drop(s, k), heap', first', last', length')
          /\ DataOf(Drop(s, k), heap') = Drop(DataOf(s, heap), k)
      BY <1>0, <2>1, <3>1, <3>2, <3>3, <3>4, UnlinkListNode
    <3> QED
      BY <3>5 DEF k
  <2>6. DataOf(s, heap) # << >>
    BY <1>0, <2>2
  <2>7. Held(Drop(s, 1), heap', first', last', length', alive')
    BY <2>1, <2>5 DEF Held
  <2> QED
    BY <2>5, <2>6, <2>7 DEF DequeStep, FifoStep
<1>5. CASE List!RemoveLast
  <2> DEFINE k == Len(s)
  <2>1. /\ last # NULL /\ alive'
        /\ heap' = List!Without(List!Store(heap, heap[last].prev, "next", NULL), {last})
        /\ last' = heap[last].prev
        /\ first' = IF heap[last].prev = NULL THEN NULL ELSE first
        /\ length' = length - 1
    BY <1>5 DEF List!RemoveLast
  <2>2. k \in 1..Len(s) /\ last = s[k] /\ At(s, k + 1) = NULL /\ heap[last].prev = At(s, k - 1)
    BY <1>0, <1>l, <2>1 DEF At
  <2>3. (IF At(s, k - 1) = NULL THEN NULL ELSE first) = IF k = 1 THEN At(s, k + 1) ELSE first
    BY <1>0, <2>2, ChainFact DEF At
  <2>4. /\ Drop(s, k) \in Chain
        /\ Chained(Drop(s, k), heap', first', last', length')
        /\ DataOf(Drop(s, k), heap') = Drop(DataOf(s, heap), k)
    <3> DEFINE h2 == List!Store(heap, At(s, k - 1), "next", At(s, k + 1))
    <3>1. heap' = List!Without(h2, {s[k]})
      BY <2>1, <2>2
    <3>2. h2 = List!Store(heap, At(s, k - 1), "next", At(s, k + 1))
      OBVIOUS
    <3>3. /\ first' = IF k = 1 THEN At(s, k + 1) ELSE first
          /\ last' = IF k = Len(s) THEN At(s, k - 1) ELSE last
      BY <2>1, <2>2, <2>3
    <3>4. h2 = List!Store(h2, At(s, k + 1), "prev", At(s, k - 1))
      BY <2>2, StoreNull
    <3> HIDE DEF h2, k
    <3> QED
      BY <1>0, <2>1, <2>2, <3>1, <3>2, <3>3, <3>4, UnlinkListNode
  <2>5. DataOf(s, heap) # << >>
    BY <1>0, <2>2
  <2>6. Held(Drop(s, k), heap', first', last', length', alive')
    BY <2>1, <2>4 DEF Held
  <2> QED
    BY <1>0, <2>4, <2>5, <2>6 DEF DequeStep
<1>6. ASSUME NEW d \in Data, List!RemoveElement(d) PROVE Goal
  <2>1. PICK i \in 1..Cardinality(Node) :
          /\ List!Forward[i] # NULL /\ heap[List!Forward[i]].data = d
          /\ \A j \in 1..(i - 1) : heap[List!Forward[j]].data # d
          /\ List!Unlink(List!Forward[i])
    BY <1>6 DEF List!RemoveElement, List!Cardinality, Cardinality
  <2>2. alive' /\ length' = length - 1
    BY <1>6 DEF List!RemoveElement
  <2>3. i \in 1..Len(s) /\ List!Forward[i] = s[i]
    BY <1>f, <2>1, ChainFits DEF At
  <2>4. \A j \in 1..(i - 1) : j \in 1..Len(s) /\ List!Forward[j] = s[j]
    <3>1. \A j \in 1..(i - 1) : j \in 1..Len(s) /\ j \in 1..(Cardinality(Node) + 1)
      BY <1>0, <2>3, ChainFits
    <3> QED
      BY <1>f, <3>1 DEF At
  <2>5. /\ Drop(s, i) \in Chain
        /\ Chained(Drop(s, i), heap', first', last', length')
        /\ DataOf(Drop(s, i), heap') = Drop(DataOf(s, heap), i)
    <3> DEFINE h1 == List!Store(heap, At(s, i - 1), "next", At(s, i + 1))
               h2 == List!Store(h1, At(s, i + 1), "prev", At(s, i - 1))
    <3>1. heap[s[i]].next = At(s, i + 1) /\ heap[s[i]].prev = At(s, i - 1)
      BY <1>l, <2>3
    <3>2. /\ heap' = List!Without(h2, {s[i]})
          /\ first' = IF At(s, i - 1) = NULL THEN At(s, i + 1) ELSE first
          /\ last' = IF At(s, i + 1) = NULL THEN At(s, i - 1) ELSE last
      BY <2>1, <2>3, <3>1 DEF List!Unlink
    <3>3. (At(s, i - 1) = NULL <=> i = 1) /\ (At(s, i + 1) = NULL <=> i = Len(s))
      BY <1>0, <2>3, ChainFact DEF At
    <3>4. h1 = List!Store(heap, At(s, i - 1), "next", At(s, i + 1))
      OBVIOUS
    <3>5. h2 = List!Store(h1, At(s, i + 1), "prev", At(s, i - 1))
      OBVIOUS
    <3>6. /\ first' = IF i = 1 THEN At(s, i + 1) ELSE first
          /\ last' = IF i = Len(s) THEN At(s, i - 1) ELSE last
      BY <3>2, <3>3
    <3> HIDE DEF h1, h2
    <3> QED
      BY <1>0, <2>2, <2>3, <3>2, <3>4, <3>5, <3>6, UnlinkListNode
  <2>6. DataOf(s, heap)[i] = d /\ \A j \in 1..(i - 1) : DataOf(s, heap)[j] # d
    BY <1>0, <2>1, <2>3, <2>4
  <2>7. Held(Drop(s, i), heap', first', last', length', alive')
    BY <2>2, <2>5 DEF Held
  <2> QED
    BY <1>0, <2>3, <2>5, <2>6, <2>7 DEF DequeStep, FifoStep
<1>7. CASE List!FreeList
  <2>1. /\ heap' = List!Without(heap, NodesOf(s))
        /\ first' = NULL /\ last' = NULL /\ length' = 0
    BY <1>0, <1>7, ListReading DEF List!FreeList
  <2>2. DOMAIN heap' = {} /\ heap' = [m \in {} |-> heap'[m]]
    BY <1>0, <2>1 DEF List!Without, Chained
  <2>3. Held(<< >>, heap', first', last', length', alive')
    BY <2>1, <2>2, NoListNodes DEF Held
  <2> QED
    BY <2>3, NoNodes DEF DequeStep, FifoStep
<1> QED
  BY <1>1, <1>2, <1>3, <1>4, <1>5, <1>6, <1>7 DEF List!Next

-----------------------------------------------------------------------------
(* The inductive invariant, and the theorems.                               *)

QueueInv == \E s \in Chain : Queued(s, mem, front, rear, size)

ListInv == \E s \in Chain : Held(s, heap, first, last, length, alive)

ListsInv == QueueInv /\ ListInv

LEMMA InitLists ==
  Init => ListsInv
<1> SUFFICES ASSUME Init PROVE ListsInv
  OBVIOUS
<1>1. /\ front = NULL /\ rear = NULL /\ size = 0 /\ mem = << >>
      /\ first = NULL /\ last = NULL /\ length = 0 /\ heap = << >>
  BY DEF Init, Queue!Init, List!Init
<1>2. DOMAIN << >> = {} /\ << >> = [m \in {} |-> << >>[m]]
  OBVIOUS
<1>3. Queued(<< >>, mem, front, rear, size)
  BY <1>1, <1>2, NoNodes
<1>4. Held(<< >>, heap, first, last, length, alive)
  BY <1>1, <1>2, NoListNodes DEF Held
<1> QED
  BY <1>3, <1>4, NoNodes DEF ListsInv, QueueInv, ListInv

LEMMA NextLists ==
  ListsInv /\ [Next]_vars => ListsInv'
<1> SUFFICES ASSUME ListsInv, [Next]_vars PROVE ListsInv'
  OBVIOUS
<1>1. PICK s \in Chain : Queued(s, mem, front, rear, size)
  BY DEF ListsInv, QueueInv
<1>2. PICK t \in Chain : Held(t, heap, first, last, length, alive)
  BY DEF ListsInv, ListInv
<1>3. CASE QueueStep
  <2>1. Queue!Next /\ UNCHANGED listVars
    BY <1>3 DEF QueueStep
  <2>2. QueueInv'
    BY <1>1, <2>1, QueueNext DEF QueueInv
  <2>3. ListInv'
    BY <1>2, <2>1 DEF ListInv, listVars
  <2> QED
    BY <2>2, <2>3 DEF ListsInv
<1>4. CASE ListStep
  <2>1. List!Next /\ UNCHANGED queueVars
    BY <1>4 DEF ListStep
  <2>2. ListInv'
    BY <1>2, <2>1, ListNext DEF ListInv
  <2>3. QueueInv'
    BY <1>1, <2>1 DEF QueueInv, queueVars
  <2> QED
    BY <2>2, <2>3 DEF ListsInv
<1>5. CASE UNCHANGED vars
  BY <1>1, <1>2, <1>5 DEF ListsInv, QueueInv, ListInv, vars, queueVars, listVars
<1> QED
  BY <1>3, <1>4, <1>5 DEF Next

\* After any calls, the links of queue.c and of double_linked_list.c, their
\* end pointers and their counts describe the nodes that are allocated, for
\* any number of nodes and any data.
THEOREM ListsCorrect == Spec => []WellLinked
<1>1. ListsInv => WellLinked
  <2> SUFFICES ASSUME ListsInv PROVE WellLinked
    OBVIOUS
  <2>1. PICK s \in Chain : Queued(s, mem, front, rear, size)
    BY DEF ListsInv, QueueInv
  <2>2. PICK t \in Chain : Chained(t, heap, first, last, length)
    BY DEF ListsInv, ListInv, Held
  <2> QED
    BY <2>1, <2>2, QueueReading, ListReading DEF WellLinked
<1> QED
  BY InitLists, NextLists, <1>1, PTL DEF Spec

\* A step of the sequences is a step of modules Fifo and Deque.
LEMMA QueueAbstractStep ==
  ASSUME Queue!Contents \in Seq(Data), FifoStep(Queue!Contents, Queue!Contents')
  PROVE  Queue!Abstract!Next
<1> DEFINE q == Queue!Contents
           q2 == Queue!Contents'
<1>1. ASSUME NEW d \in Data, Len(q) < Cardinality(Node), q2 = Append(q, d) PROVE Queue!Abstract!Put(d)
  BY <1>1 DEF Queue!Abstract!Put, Queue!Cardinality, Cardinality
<1>2. ASSUME NEW d \in Data, NEW i \in 1..Len(q), q[i] = d, \A j \in 1..(i - 1) : q[j] # d, q2 = Drop(q, i)
      PROVE  Queue!Abstract!RemoveFirst(d)
  BY <1>2, DropIsCut DEF Queue!Abstract!RemoveFirst
<1>3. ASSUME q # << >>, q2 = Drop(q, 1) PROVE Queue!Abstract!Get
  BY <1>3, DropFirst DEF Queue!Abstract!Get
<1>4. ASSUME q2 = << >> PROVE Queue!Abstract!Clear
  BY <1>4 DEF Queue!Abstract!Clear
<1> QED
  BY <1>1, <1>2, <1>3, <1>4 DEF FifoStep, Queue!Abstract!Next

LEMMA ListAbstractStep ==
  ASSUME List!Elements \in Seq(Data), DequeStep(List!Elements, List!Elements')
  PROVE  List!Abstract!DequeNext
<1> DEFINE q == List!Elements
           q2 == List!Elements'
<1>1. ASSUME NEW d \in Data, Len(q) < Cardinality(Node), q2 = Append(q, d) PROVE List!Abstract!Put(d)
  BY <1>1 DEF List!Abstract!Put, List!Cardinality, Cardinality
<1>2. ASSUME NEW d \in Data, NEW i \in 1..Len(q), q[i] = d, \A j \in 1..(i - 1) : q[j] # d, q2 = Drop(q, i)
      PROVE  List!Abstract!RemoveFirst(d)
  BY <1>2, DropIsCut DEF List!Abstract!RemoveFirst
<1>3. ASSUME q # << >>, q2 = Drop(q, 1) PROVE List!Abstract!Get
  BY <1>3, DropFirst DEF List!Abstract!Get
<1>4. ASSUME q2 = << >> PROVE List!Abstract!Clear
  BY <1>4 DEF List!Abstract!Clear
<1>5. ASSUME NEW d \in Data, Len(q) < Cardinality(Node), q2 = <<d>> \o q PROVE List!Abstract!PutFront(d)
  BY <1>5 DEF List!Abstract!PutFront, List!Cardinality, Cardinality
<1>6. ASSUME q # << >>, q2 = Drop(q, Len(q)) PROVE List!Abstract!GetBack
  BY <1>6, DropLast DEF List!Abstract!GetBack
<1>7. CASE FifoStep(q, q2)
  BY <1>1, <1>2, <1>3, <1>4, <1>7 DEF FifoStep, List!Abstract!DequeNext, List!Abstract!Next
<1> QED
  BY <1>5, <1>6, <1>7 DEF DequeStep, List!Abstract!DequeNext

\* The data in the nodes, read along the links, behave as the sequences of
\* modules Fifo and Deque under every call, for any number of nodes and any
\* data.
THEOREM ListsImplementSequences == Spec => ImplementSequences
<1>1. Init => Queue!Abstract!Init /\ List!Abstract!Init
  <2> SUFFICES ASSUME Init PROVE Queue!Abstract!Init /\ List!Abstract!Init
    OBVIOUS
  <2>1. size = 0 /\ length = 0
    BY DEF Init, Queue!Init, List!Init
  <2>2. Queue!Contents = << >> /\ List!Elements = << >>
    BY <2>1 DEF Queue!Contents, List!Elements
  <2> QED
    BY <2>2 DEF Queue!Abstract!Init, List!Abstract!Init
<1>2. (\A s \in Chain : Queued(s, mem, front, rear, size) => Queue!Contents = DataOf(s, mem))'
  <2>1. \A s \in Chain : Queued(s, mem, front, rear, size) => Queue!Contents = DataOf(s, mem)
    BY QueueReading
  <2> QED
    BY <2>1, PTL
<1>3. (\A s \in Chain : Chained(s, heap, first, last, length) => List!Elements = DataOf(s, heap))'
  <2>1. \A s \in Chain : Chained(s, heap, first, last, length) => List!Elements = DataOf(s, heap)
    BY ListReading
  <2> QED
    BY <2>1, PTL
<1>4. ListsInv /\ [Next]_vars =>
        /\ [Queue!Abstract!Next]_(Queue!Contents)
        /\ [List!Abstract!DequeNext]_(List!Elements)
  <2> SUFFICES ASSUME ListsInv, [Next]_vars
               PROVE  /\ Queue!Abstract!Next \/ Queue!Contents' = Queue!Contents
                      /\ List!Abstract!DequeNext \/ List!Elements' = List!Elements
    OBVIOUS
  <2>1. PICK s \in Chain : Queued(s, mem, front, rear, size)
    BY DEF ListsInv, QueueInv
  <2>2. PICK t \in Chain : Held(t, heap, first, last, length, alive)
    BY DEF ListsInv, ListInv
  <2>3. Queue!Contents = DataOf(s, mem) /\ Queue!Contents \in Seq(Data)
    BY <2>1, QueueReading, DataSeq
  <2>4. List!Elements = DataOf(t, heap) /\ List!Elements \in Seq(Data)
    BY <2>2, ListReading, ElementsSeq DEF Held
  <2>5. ASSUME Queue!Next PROVE Queue!Abstract!Next
    <3>1. PICK u \in Chain : Queued(u, mem', front', rear', size') /\ FifoStep(DataOf(s, mem), DataOf(u, mem'))
      BY <2>1, <2>5, QueueNext
    <3>2. Queue!Contents' = DataOf(u, mem')
      BY <1>2, <3>1
    <3> QED
      BY <2>3, <3>1, <3>2, QueueAbstractStep
  <2>6. ASSUME List!Next PROVE List!Abstract!DequeNext
    <3>1. PICK u \in Chain : /\ Held(u, heap', first', last', length', alive')
                             /\ DequeStep(DataOf(t, heap), DataOf(u, heap'))
      BY <2>2, <2>6, ListNext
    <3>2. List!Elements' = DataOf(u, heap')
      BY <1>3, <3>1 DEF Held
    <3> QED
      BY <2>4, <3>1, <3>2, ListAbstractStep
  <2>7. ASSUME UNCHANGED queueVars PROVE Queue!Contents' = Queue!Contents
    <3>1. Queued(s, mem', front', rear', size') /\ mem' = mem
      BY <2>1, <2>7 DEF queueVars
    <3> QED
      BY <1>2, <2>3, <3>1
  <2>8. ASSUME UNCHANGED listVars PROVE List!Elements' = List!Elements
    <3>1. Chained(t, heap', first', last', length') /\ heap' = heap
      BY <2>2, <2>8 DEF listVars, Held
    <3> QED
      BY <1>3, <2>4, <3>1
  <2>9. \/ Queue!Next /\ UNCHANGED listVars
        \/ List!Next /\ UNCHANGED queueVars
        \/ UNCHANGED queueVars /\ UNCHANGED listVars
    BY DEF Next, QueueStep, ListStep, vars
  <2> QED
    BY <2>5, <2>6, <2>7, <2>8, <2>9
<1> QED
  BY <1>1, <1>4, InitLists, NextLists, PTL
     DEF Spec, ImplementSequences, Queue!ImplementsFifo, List!ImplementsDeque, Queue!Abstract!Spec, List!Abstract!DequeSpec
=============================================================================
