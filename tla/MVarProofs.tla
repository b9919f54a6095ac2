----------------------------- MODULE MVarProofs -----------------------------
(***************************************************************************)
(* The mvar program keeps its variable a single place, for any number of   *)
(* writers and readers.                                                    *)
(***************************************************************************)
EXTENDS MVar, FiniteSetTheorems, TLAPS

Proc == Writers \cup Readers

\* The processes between their two calls: they carry the place.
Busy == {p \in Proc : pc[p] \in {"write", "release"}}

TypeInv ==
  /\ data_pipe \in Seq(Writers)
  /\ token_pipe \in Nat
  /\ pc \in [Proc -> {"acquire", "write", "take", "release"}]
  /\ \A w \in Writers : pc[w] \in {"acquire", "write"}
  /\ \A r \in Readers : pc[r] \in {"take", "release"}

\* What makes SinglePlace inductive: a reader that has not given its token
\* back yet holds the last value put.
IInv ==
  /\ TypeInv
  /\ SinglePlace
  /\ \A r \in Readers : pc[r] = "release" => got = put

\* There are finitely many processes, so that those on their way can be counted.
LEMMA BusyFinite == IsFiniteSet(Busy) /\ Cardinality(Busy) \in Nat
<1>1. IsFiniteSet(Proc)
  BY MVarAssumption, FS_Union DEF Proc
<1>2. Busy \subseteq Proc
  BY DEF Busy
<1>3. QED
  BY <1>1, <1>2, FS_Subset, FS_CardinalityType

\* A process that enters its critical stretch counts one more, one that leaves
\* it one less, and somebody in it counts at least one.
LEMMA BusyCount ==
  ASSUME TypeInv, NEW p \in Proc, NEW place \in {"acquire", "write", "take", "release"},
         pc' = [pc EXCEPT ![p] = place]
  PROVE  /\ p \notin Busy /\ place \in {"write", "release"}
              => Cardinality(Busy') = Cardinality(Busy) + 1
         /\ p \in Busy /\ place \notin {"write", "release"}
              => Cardinality(Busy') = Cardinality(Busy) - 1
<1>1. ASSUME p \notin Busy, place \in {"write", "release"}
      PROVE  Cardinality(Busy') = Cardinality(Busy) + 1
  <2>1. Busy' = Busy \cup {p}
    BY <1>1 DEF Busy, TypeInv
  <2>2. QED
    BY <1>1, <2>1, BusyFinite, FS_AddElement
<1>2. ASSUME p \in Busy, place \notin {"write", "release"}
      PROVE  Cardinality(Busy') = Cardinality(Busy) - 1
  <2>1. Busy' = Busy \ {p}
    BY <1>2 DEF Busy, TypeInv
  <2>2. QED
    BY <1>2, <2>1, BusyFinite, FS_RemoveElement
<1>3. QED
  BY <1>1, <1>2

\* Two processes cannot both carry the place.
LEMMA BusyAlone ==
  ASSUME Cardinality(Busy) <= 1, NEW p \in Busy
  PROVE  Busy = {p}
<1>1. Cardinality(Busy \ {p}) = Cardinality(Busy) - 1
  BY BusyFinite, FS_RemoveElement
<1>2. IsFiniteSet(Busy \ {p}) /\ Cardinality(Busy \ {p}) \in Nat
  BY BusyFinite, FS_RemoveElement, FS_CardinalityType
<1>3. Cardinality(Busy \ {p}) = 0
  BY <1>1, <1>2, BusyFinite
<1>4. Busy \ {p} = {}
  BY <1>2, <1>3, FS_EmptySet
<1>5. QED
  BY <1>4

\* The variable starts empty, with its one token.
LEMMA InitInv == Init => IInv
<1> SUFFICES ASSUME Init PROVE IInv
  OBVIOUS
<1>1. TypeInv
  BY MVarAssumption DEF Init, TypeInv, Proc
<1>2. Busy = {}
  BY DEF Init, Busy, Proc
<1>3. Cardinality(Busy) = 0
  BY <1>2, FS_EmptySet
<1>4. SinglePlace
  BY <1>3 DEF Init, SinglePlace, Busy, Proc
<1>5. QED
  BY <1>1, <1>4 DEF IInv, Init, TypeInv

\* Every read and every write of a pipe preserves the invariant.
LEMMA StepInv == IInv /\ [Next]_vars => IInv'
<1> SUFFICES ASSUME IInv, [Next]_vars PROVE IInv'
  OBVIOUS
<1>1. /\ TypeInv /\ token_pipe \in Nat /\ Len(data_pipe) \in Nat /\ Cardinality(Busy) \in Nat
      /\ token_pipe + Len(data_pipe) + Cardinality(Busy) = 1
      /\ data_pipe # << >> => data_pipe = <<put>>
      /\ token_pipe = 1 => got = put
      /\ \A r \in Readers : pc[r] = "release" => got = put
  BY BusyFinite DEF IInv, TypeInv, SinglePlace, Busy, Proc
<1>2. Writers \subseteq Proc /\ Readers \subseteq Proc /\ \A w \in Writers : w \notin Readers
  BY MVarAssumption DEF Proc
<1>3. \A p \in Proc : p \in Busy <=> pc[p] \in {"write", "release"}
  BY DEF Busy
<1>4. Len(data_pipe) = 0 <=> data_pipe = << >>
  BY <1>1 DEF TypeInv
<1> DEFINE Total  == token_pipe + Len(data_pipe) + Cardinality(Busy)
           Values == /\ data_pipe # << >> => data_pipe = <<put>>
                     /\ token_pipe = 1 => got = put
                     /\ \A r \in Readers : pc[r] = "release" => got = put
<1>5. SUFFICES TypeInv' /\ Total' = 1 /\ Values'
  BY DEF IInv, SinglePlace, Busy, Proc
<1>6. ASSUME NEW w \in Writers, Acquire(w) PROVE TypeInv' /\ Total' = 1 /\ Values'
  <2>1. TypeInv'
    BY <1>1, <1>2, <1>6 DEF Acquire, TypeInv
  <2>2. Cardinality(Busy') = Cardinality(Busy) + 1
    BY <1>1, <1>2, <1>3, <1>6, BusyCount DEF Acquire
  <2>3. token_pipe = 1 /\ Len(data_pipe) = 0 /\ Cardinality(Busy) = 0
    BY <1>1, <1>6 DEF Acquire
  <2>4. Total' = 1
    BY <2>2, <2>3, <1>6 DEF Acquire
  <2>5. Values'
    BY <1>1, <1>2, <1>4, <1>6, <2>3 DEF Acquire, TypeInv
  <2>6. QED
    BY <2>1, <2>4, <2>5
<1>7. ASSUME NEW w \in Writers, Write(w) PROVE TypeInv' /\ Total' = 1 /\ Values'
  <2>1. TypeInv'
    BY <1>1, <1>2, <1>7 DEF Write, TypeInv
  <2>2. w \in Busy /\ Cardinality(Busy') = Cardinality(Busy) - 1
    BY <1>1, <1>2, <1>3, <1>7, BusyCount DEF Write
  <2>3. Cardinality(Busy) >= 1
    <3>1. /\ Cardinality(Busy \ {w}) = Cardinality(Busy) - 1
          /\ Cardinality(Busy \ {w}) \in Nat
      BY <2>2, FS_RemoveElement, BusyFinite, FS_CardinalityType
    <3>2. QED
      BY <1>1, <3>1
  <2>4. token_pipe = 0 /\ data_pipe = << >> /\ Cardinality(Busy) = 1
    BY <1>1, <1>4, <2>2, <2>3
  <2>5. data_pipe' = <<w>> /\ Len(data_pipe') = 1 /\ token_pipe' = 0 /\ put' = w
    BY <2>4, <1>7 DEF Write
  <2>6. Busy = {w}
    BY <2>2, <2>4, BusyAlone
  <2>7. \A r \in Readers : pc'[r] # "release"
    BY <1>1, <1>2, <1>3, <1>7, <2>6 DEF Write, TypeInv
  <2>8. QED
    BY <2>1, <2>2, <2>4, <2>5, <2>7
<1>8. ASSUME NEW r \in Readers, Take(r) PROVE TypeInv' /\ Total' = 1 /\ Values'
  <2>1. data_pipe = <<put>> /\ put \in Writers
    BY <1>1, <1>8 DEF Take, TypeInv
  <2>2. data_pipe' = << >> /\ got' = put
    BY <2>1, <1>8 DEF Take
  <2>3. TypeInv'
    BY <1>1, <1>2, <1>8, <2>2 DEF Take, TypeInv
  <2>4. Cardinality(Busy') = Cardinality(Busy) + 1
    BY <1>1, <1>2, <1>3, <1>8, BusyCount DEF Take
  <2>5. token_pipe' = 0 /\ Len(data_pipe) = 1 /\ Len(data_pipe') = 0 /\ Cardinality(Busy) = 0
    BY <1>1, <1>8, <2>1, <2>2 DEF Take
  <2>6. QED
    BY <1>8, <2>2, <2>3, <2>4, <2>5 DEF Take
<1>9. ASSUME NEW r \in Readers, Release(r) PROVE TypeInv' /\ Total' = 1 /\ Values'
  <2>1. TypeInv'
    BY <1>1, <1>2, <1>9 DEF Release, TypeInv
  <2>2. r \in Busy /\ Cardinality(Busy') = Cardinality(Busy) - 1
    BY <1>1, <1>2, <1>3, <1>9, BusyCount DEF Release
  <2>3. Total' = 1
    BY <1>1, <1>9, <2>2 DEF Release
  <2>4. got' = put' /\ data_pipe' = data_pipe /\ put' = put
    BY <1>1, <1>9 DEF Release
  <2>5. QED
    BY <1>1, <2>1, <2>3, <2>4
<1>10. CASE UNCHANGED vars
  BY <1>1, <1>10 DEF vars, TypeInv, Busy
<1>11. QED
  BY <1>6, <1>7, <1>8, <1>9, <1>10 DEF Next, WriterStep, ReaderStep

\* The invariant holds of every behaviour of the program.
THEOREM Invariance == Spec => []IInv
BY InitInv, StepInv, PTL DEF Spec

\* However many writers and readers run and however they are interleaved,
\* haskell.c's two pipes make a single place: its token, its value or one
\* process on its way, and nothing is overwritten before it is printed.
THEOREM SinglePlaceCorrect == Spec => []SinglePlace
<1>1. IInv => SinglePlace
  BY DEF IInv
<1>2. QED
  BY <1>1, Invariance, PTL
=============================================================================
