----------------------------- MODULE PipeProofs -----------------------------
(***************************************************************************)
(* Proofs about the pipe, for any buffer size and any number of processes. *)
(* In every environment of module Pipe it implements the channel, and      *)
(* nobody ever waits for its mutex; when nobody dies or clears the pipe,   *)
(* and the keyboard spares idle, the tokens account for the buffer.  The   *)
(* last section is about the pipelines of module Pipeline, which run on    *)
(* this pipe: the shell closes it after both commands have ended.          *)
(***************************************************************************)
EXTENDS Pipeline, KernelProofs, SequenceTheorems, FiniteSetTheorems

-----------------------------------------------------------------------------
(* The circular buffer.                                                     *)

N == PIPE_BUFFER_SIZE

Buffer ==
  [buffer : [0..(N - 1) -> Byte], readIdx : 0..(N - 1), writeIdx : 0..(N - 1), count : 0..N]

\* The write index is count places after the read index.
BufferOK(pp) == pp \in Buffer /\ pp.writeIdx = (pp.readIdx + pp.count) % N

Contents(pp) == [i \in 1..pp.count |-> pp.buffer[(pp.readIdx + i - 1) % N]]

\* An index that runs over the end of the buffer at most once.
LEMMA WrapFact ==
  ASSUME NEW a \in Nat, a < 2 * N
  PROVE  a % N = IF a < N THEN a ELSE a - N
<1>1. N \in Nat /\ N > 0
  BY SizeAssumption DEF N
<1>2. CASE a < N
  BY <1>1, <1>2
<1>3. CASE a >= N
  BY <1>1, <1>3
<1>4. QED
  BY <1>1, <1>2, <1>3

\* A sequence given as a function on its positions.
LEMMA SeqFact ==
  ASSUME NEW S, NEW n \in Nat, NEW f \in [1..n -> S]
  PROVE  /\ f \in Seq(S) /\ Len(f) = n
         /\ n > 0 => f # << >> /\ Head(f) = f[1]
         /\ \A b \in S : Append(f, b) = [i \in 1..(n + 1) |-> IF i <= n THEN f[i] ELSE b]
<1>1. f \in Seq(S) /\ Len(f) = n
  OBVIOUS
<1>2. n > 0 => f # << >> /\ Head(f) = f[1]
  BY <1>1
<1>3. ASSUME NEW b \in S
      PROVE  Append(f, b) = [i \in 1..(n + 1) |-> IF i <= n THEN f[i] ELSE b]
  <2> DEFINE t == [i \in 1..(n + 1) |-> IF i <= n THEN f[i] ELSE b]
  <2>1. n + 1 \in Nat /\ \A i \in 1..(n + 1) : (IF i <= n THEN f[i] ELSE b) \in S
    OBVIOUS
  <2>2. /\ t \in Seq(S) /\ Len(t) = n + 1
        /\ \A i \in 1..(n + 1) : t[i] = IF i <= n THEN f[i] ELSE b
    BY <2>1
  <2>3. /\ Append(f, b) \in Seq(S) /\ Len(Append(f, b)) = n + 1
        /\ \A i \in 1..(n + 1) : Append(f, b)[i] = IF i <= n THEN f[i] ELSE b
    BY <1>1
  <2> HIDE DEF t
  <2>4. Append(f, b) = t
    BY <2>2, <2>3, SeqEqual
  <2>5. QED
    BY <2>4 DEF t
<1>4. QED
  BY <1>1, <1>2, <1>3

\* pipeRead's body takes the oldest byte.
LEMMA TakeFact ==
  ASSUME NEW pp, BufferOK(pp), pp.count > 0
  PROVE  /\ BufferOK(Take(pp))
         /\ Contents(pp) # << >>
         /\ Contents(Take(pp)) = Tail(Contents(pp))
         /\ pp.buffer[pp.readIdx] = Head(Contents(pp))
<1> DEFINE n == pp.count  r == pp.readIdx  s == Contents(pp)  qq == Take(pp)
<1>1. N \in Nat /\ N > 0 /\ n \in Nat /\ n <= N /\ n > 0 /\ r \in Nat /\ r < N
  BY SizeAssumption DEF BufferOK, Buffer, N
<1>2. /\ qq.buffer = pp.buffer /\ qq.count = n - 1 /\ qq.writeIdx = pp.writeIdx
      /\ qq.readIdx = (r + 1) % N
  BY DEF Take, BufferOK, Buffer, N
<1>3. qq.readIdx = IF r + 1 < N THEN r + 1 ELSE 0
  BY <1>1, <1>2, WrapFact
<1>4. BufferOK(qq)
  <2>1. qq \in Buffer
    <3>1. (r + 1) % N \in 0..(N - 1) /\ n - 1 \in 0..N
      BY <1>1, <1>2, <1>3
    <3>2. qq = [pp EXCEPT !.readIdx = (r + 1) % N, !.count = n - 1]
      BY DEF Take, BufferOK, Buffer, N
    <3>3. QED
      BY <3>1, <3>2 DEF BufferOK, Buffer
  <2>2. (qq.readIdx + qq.count) % N = (r + n) % N
    <3>1. CASE r + 1 < N
      <4>1. qq.readIdx + qq.count = r + n
        BY <1>1, <1>2, <1>3, <3>1
      <4>2. QED
        BY <4>1
    <3>2. CASE r + 1 >= N
      <4>1. qq.readIdx + qq.count = n - 1 /\ r = N - 1 /\ r + n < 2 * N
        BY <1>1, <1>2, <1>3, <3>2
      <4>2. (n - 1) % N = n - 1 /\ (r + n) % N = n - 1
        BY <1>1, <4>1, WrapFact
      <4>3. QED
        BY <4>1, <4>2
    <3>3. QED
      BY <1>1, <3>1, <3>2
  <2>3. QED
    BY <1>2, <2>1, <2>2 DEF BufferOK
<1>6. s \in [1..n -> Byte] /\ \A i \in 1..n : s[i] = pp.buffer[(r + i - 1) % N]
  <2>1. \A i \in 1..n : pp.buffer[(r + i - 1) % N] \in Byte
    <3>1. ASSUME NEW i \in 1..n PROVE (r + i - 1) % N \in 0..(N - 1)
      BY <1>1, WrapFact
    <3>2. QED
      BY <3>1 DEF BufferOK, Buffer
  <2>2. s = [i \in 1..n |-> pp.buffer[(r + i - 1) % N]]
    BY DEF Contents
  <2>3. QED
    BY <2>1, <2>2
<1> HIDE DEF s
<1>7. s # << >> /\ pp.buffer[r] = Head(s)
  <2>1. r + 1 - 1 = r /\ r % N = r /\ 1 \in 1..n
    BY <1>1, WrapFact
  <2>2. s[1] = pp.buffer[(r + 1 - 1) % N]
    BY <1>6, <2>1
  <2>3. s[1] = pp.buffer[r]
    BY <2>1, <2>2
  <2> HIDE DEF n
  <2>4. QED
    BY <1>1, <1>6, <2>3, SeqFact
<1>8. Contents(qq) = Tail(s)
  <2> DEFINE t == Contents(qq)
  <2>1. t = [i \in 1..(n - 1) |-> pp.buffer[(qq.readIdx + i - 1) % N]]
    BY <1>2 DEF Contents
  <2>2. ASSUME NEW i \in 1..(n - 1) PROVE (qq.readIdx + i - 1) % N = (r + (i + 1) - 1) % N
    BY <1>1, <1>3, WrapFact
  <2>3. ASSUME NEW i \in 1..(n - 1)
        PROVE  i + 1 \in 1..n /\ s[i + 1] = pp.buffer[(r + (i + 1) - 1) % N]
    <3>1. i + 1 \in 1..n
      BY <1>1
    <3>2. QED
      BY <1>6, <3>1
  <2>4. \A i \in 1..(n - 1) : t[i] = s[i + 1] /\ s[i + 1] \in Byte
    BY <1>6, <2>1, <2>2, <2>3
  <2>5. n - 1 \in Nat /\ t \in [1..(n - 1) -> Byte]
    <3>1. n - 1 \in Nat
      BY <1>1
    <3>2. \A i \in 1..(n - 1) : t[i] \in Byte
      BY <2>4
    <3>3. QED
      BY <2>1, <3>1, <3>2
  <2>6. n \in Nat /\ n > 0 /\ s \in [1..n -> Byte]
    BY <1>1, <1>6
  <2> HIDE DEF t, n
  <2>7. t \in Seq(Byte) /\ Len(t) = n - 1
    BY <2>5
  <2>8. s \in Seq(Byte) /\ Len(s) = n
    BY <2>6
  <2>9. /\ Tail(s) \in Seq(Byte) /\ Len(Tail(s)) = n - 1
        /\ \A i \in 1..(n - 1) : Tail(s)[i] = s[i + 1]
    BY <2>6, <2>8
  <2>10. t = Tail(s)
    BY <2>4, <2>7, <2>9, SeqEqual
  <2>11. QED
    BY <2>10 DEF t
<1>9. QED
  BY <1>4, <1>7, <1>8 DEF s

\* pipeWrite's body adds a byte behind the others.
LEMMA StoreFact ==
  ASSUME NEW pp, BufferOK(pp), pp.count < N, NEW b \in Byte
  PROVE  /\ BufferOK(Store(pp, b))
         /\ Contents(Store(pp, b)) = Append(Contents(pp), b)
         /\ Len(Contents(pp)) < N
<1> DEFINE n == pp.count  r == pp.readIdx  w == pp.writeIdx  s == Contents(pp)
           qq == Store(pp, b)
<1>1. N \in Nat /\ N > 0 /\ n \in Nat /\ n < N /\ r \in Nat /\ r < N /\ w \in 0..(N - 1)
  BY SizeAssumption DEF BufferOK, Buffer, N
<1>2. /\ qq.buffer = [pp.buffer EXCEPT ![w] = b] /\ qq.count = n + 1
      /\ qq.writeIdx = (w + 1) % N /\ qq.readIdx = r
  BY DEF Store, BufferOK, Buffer, N
<1>3. w = IF r + n < N THEN r + n ELSE r + n - N
  BY <1>1, WrapFact DEF BufferOK
<1>4. qq.writeIdx = IF w + 1 < N THEN w + 1 ELSE 0
  BY <1>1, <1>2, WrapFact
<1>5. BufferOK(qq)
  <2>1. qq \in Buffer
    <3>1. (w + 1) % N \in 0..(N - 1) /\ n + 1 \in 0..N
      BY <1>1, <1>2, <1>4
    <3>2. qq = [pp EXCEPT !.buffer[w] = b, !.writeIdx = (w + 1) % N, !.count = n + 1]
      BY DEF Store, BufferOK, Buffer, N
    <3>3. QED
      BY <1>1, <3>1, <3>2, ZenonT(60) DEF BufferOK, Buffer
  <2>2. qq.writeIdx = (r + (n + 1)) % N
    BY <1>1, <1>3, <1>4, WrapFact
  <2>3. QED
    BY <1>2, <2>1, <2>2 DEF BufferOK
<1>6. \A i \in 1..n : /\ (r + i - 1) % N \in 0..(N - 1)
                      /\ (r + i - 1) % N # w
  BY <1>1, <1>3, WrapFact
<1>7. (r + (n + 1) - 1) % N = w
  BY <1>1, <1>3, WrapFact
<1>8. \A i \in 0..(N - 1) : pp.buffer[i] \in Byte
  BY DEF BufferOK, Buffer
<1>9. s = [i \in 1..n |-> pp.buffer[(r + i - 1) % N]] /\ s \in [1..n -> Byte]
  BY <1>6, <1>8 DEF Contents
<1> HIDE DEF s
<1>10. Contents(qq) = [i \in 1..(n + 1) |-> [pp.buffer EXCEPT ![w] = b][(r + i - 1) % N]]
  BY <1>2 DEF Contents
<1>11. Append(s, b) = [i \in 1..(n + 1) |-> IF i <= n THEN s[i] ELSE b]
  BY <1>1, <1>9, SeqFact
<1>12. ASSUME NEW i \in 1..(n + 1)
       PROVE  [pp.buffer EXCEPT ![w] = b][(r + i - 1) % N] = IF i <= n THEN s[i] ELSE b
  <2>1. CASE i <= n
    <3>1. i \in 1..n
      BY <1>1, <2>1
    <3>2. [pp.buffer EXCEPT ![w] = b][(r + i - 1) % N] = pp.buffer[(r + i - 1) % N]
      BY <3>1, <1>6 DEF BufferOK, Buffer
    <3>3. QED
      BY <2>1, <3>1, <3>2, <1>9
  <2>2. CASE i = n + 1
    BY <2>2, <1>1, <1>7, SMTT(30) DEF BufferOK, Buffer
  <2>3. QED
    BY <1>1, <2>1, <2>2
<1>13. Contents(qq) = Append(s, b)
  BY <1>10, <1>11, <1>12
<1>14. QED
  BY <1>1, <1>5, <1>9, <1>13, SeqFact DEF s

-----------------------------------------------------------------------------
(* Refinement: the pipe implements the channel.                             *)

PipeInv == BufferOK(pipe) /\ out \in Byte

\* An empty pipe is an empty channel.
LEMMA PipeInit == Init => PipeInv /\ Abstract!Init
<1> SUFFICES ASSUME Init PROVE PipeInv /\ Abstract!Init
  OBVIOUS
<1>1. PICK b \in Byte : pipe = [buffer |-> [i \in 0..(N - 1) |-> b],
                                readIdx |-> 0, writeIdx |-> 0, count |-> 0]
  BY DEF Init, N
<1>2. N \in Nat /\ N > 0 /\ 0 % N = 0 /\ 0 + 0 = 0
  BY SizeAssumption, WrapFact DEF N
<1>3. BufferOK(pipe)
  BY <1>1, <1>2 DEF BufferOK, Buffer
<1>4. Stored = << >>
  BY <1>1 DEF Stored
<1>5. QED
  BY <1>3, <1>4 DEF PipeInv, Abstract!Init, Init

\* Every statement of the pipe functions is a step of the channel, or leaves
\* it alone; so does everything else that happens in the kernel.
LEMMA PipeStep == PipeInv /\ [Next]_vars => PipeInv' /\ [Abstract!Next]_<<Stored, out>>
<1> SUFFICES ASSUME PipeInv, [Next]_vars PROVE PipeInv' /\ [Abstract!Next]_<<Stored, out>>
  OBVIOUS
<1>1. Stored = Contents(pipe) /\ Stored' = Contents(pipe')
  BY DEF Stored, Contents, N
<1>2. ASSUME UNCHANGED <<pipe, out>> PROVE PipeInv' /\ UNCHANGED <<Stored, out>>
  BY <1>1, <1>2 DEF PipeInv
<1>3. CASE ReadBody
  <2>1. CASE pipe.count > 0
    <3>1. pipe' = Take(pipe) /\ out' = pipe.buffer[pipe.readIdx]
      BY <1>3, <2>1 DEF ReadBody
    <3>2. PipeInv'
      <4>1. BufferOK(pipe')
        BY <2>1, <3>1, TakeFact DEF PipeInv
      <4>2. out' \in Byte
        BY <3>1 DEF PipeInv, BufferOK, Buffer
      <4>3. QED
        BY <4>1, <4>2 DEF PipeInv
    <3>3. Abstract!Get
      BY <1>1, <2>1, <3>1, TakeFact DEF PipeInv, Abstract!Get
    <3>4. QED
      BY <3>2, <3>3 DEF Abstract!Next
  <2>2. CASE ~(pipe.count > 0)
    BY <1>2, <1>3, <2>2 DEF ReadBody, Take
  <2>3. QED
    BY <2>1, <2>2
<1>4. ASSUME NEW b \in Byte, WriteBody(b) PROVE PipeInv' /\ [Abstract!Next]_<<Stored, out>>
  <2>1. CASE pipe.count < N
    <3>1. pipe' = Store(pipe, b) /\ out' = out
      BY <1>4 DEF WriteBody
    <3>2. PipeInv'
      BY <2>1, <3>1, StoreFact DEF PipeInv
    <3>3. Abstract!Put(b)
      BY <1>1, <2>1, <3>1, StoreFact DEF PipeInv, Abstract!Put, N
    <3>4. QED
      BY <3>2, <3>3 DEF Abstract!Next
  <2>2. CASE ~(pipe.count < N)
    BY <1>2, <1>4, <2>2 DEF WriteBody, Store, N
  <2>3. QED
    BY <2>1, <2>2
<1>5. CASE ClearBody
  <2>1. pipe' = [pipe EXCEPT !.readIdx = 0, !.writeIdx = 0, !.count = 0] /\ out' = out
    BY <1>5 DEF ClearBody
  <2>2. N \in Nat /\ N > 0 /\ 0 % N = 0 /\ 0 + 0 = 0
    BY SizeAssumption, WrapFact DEF N
  <2>3. PipeInv'
    <3>1. pipe \in Buffer /\ 0 \in 0..(N - 1) /\ 0 \in 0..N
      BY <2>2 DEF PipeInv, BufferOK
    <3>2. pipe' \in Buffer
      BY <2>1, <3>1 DEF Buffer
    <3>3. pipe'.readIdx = 0 /\ pipe'.writeIdx = 0 /\ pipe'.count = 0
      BY <2>1, <3>1 DEF Buffer
    <3>4. QED
      BY <2>1, <2>2, <3>2, <3>3 DEF PipeInv, BufferOK
  <2>4. pipe'.count = 0
    BY <2>1 DEF PipeInv, BufferOK, Buffer
  <2>5. Stored' = << >>
    BY <1>1, <2>4 DEF Contents
  <2>6. QED
    BY <2>1, <2>3, <2>5 DEF Abstract!Next, Abstract!Clear
<1>6. CASE WaitToken \/ WaitMutex
  BY <1>2, <1>6 DEF WaitToken, WaitMutex
<1>7. ASSUME NEW n \in 1..MaxCall, SysRead(n) \/ SysWrite(n)
      PROVE  PipeInv' /\ [Abstract!Next]_<<Stored, out>>
  BY <1>2, <1>7 DEF SysRead, SysWrite, Start
<1>8. CASE SysClear \/ KeyIRQ
  BY <1>2, <1>8 DEF SysClear, KeyIRQ, Start
<1>9. CASE TimerTick \/ SysYield \/ CtrlC \/ SysExit
  BY <1>2, <1>9 DEF TimerTick, SysYield, CtrlC, SysExit
<1>10. ASSUME NEW p \in Pid, SysKill(p) PROVE PipeInv' /\ [Abstract!Next]_<<Stored, out>>
  BY <1>2, <1>10 DEF SysKill
<1>11. CASE UNCHANGED vars
  BY <1>2, <1>11 DEF vars
<1>12. QED
  BY <1>3, <1>4, <1>5, <1>6, <1>7, <1>8, <1>9, <1>10, <1>11 DEF Next, KernelStep

\* Whatever dies, interrupts or clears, the circular buffer of pipe.c is a
\* first-in first-out channel of PIPE_BUFFER_SIZE bytes.
THEOREM ChannelImplemented == Spec => ImplementsChannel
<1>1. Spec => []PipeInv
  BY PipeInit, PipeStep, PTL DEF Spec
<1>2. QED
  BY <1>1, PipeInit, PipeStep, PTL DEF Spec, ImplementsChannel, Abstract!Spec

-----------------------------------------------------------------------------
(* The initial kernel.                                                      *)

\* f is StartedUpTo as far as n.
Begun(f, n) ==
  f = [p \in 1..n |-> IF p = ShellPid THEN SwitchContext(CreatePipe(BootKernel))
                      ELSE CreateProcess(f[p - 1], MIN_PRIORITY, TRUE, TRUE)]

\* The recursion of StartedUpTo has a solution, by the least n without one.
LEMMA StartedExists == \A n \in 1..MaxPid : \E f : Begun(f, n)
<1> DEFINE T == {n \in 1..MaxPid : ~ \E f : Begun(f, n)}
           first == SwitchContext(CreatePipe(BootKernel))
           More(kk) == CreateProcess(kk, MIN_PRIORITY, TRUE, TRUE)
<1> HIDE DEF first, More
<1>1. \A f, n : Begun(f, n) <=> f = [p \in 1..n |-> IF p = ShellPid THEN first ELSE More(f[p - 1])]
  BY DEF Begun, first, More
<1>2. SUFFICES ASSUME T # {} PROVE FALSE
  OBVIOUS
<1>8. T \subseteq Nat
  OBVIOUS
<1>9. \A n \in 1..MaxPid : n \notin T => \E f : Begun(f, n)
  OBVIOUS
<1>10. \A n \in T : n \in 1..MaxPid /\ ~(\E f : Begun(f, n))
  OBVIOUS
<1> HIDE DEF T
<1>3. PICK n \in T : \A m \in T : n <= m
  BY <1>2, <1>8, LeastNatural
<1>4. n \in 1..MaxPid /\ n \in Int /\ ShellPid = 1 /\ ~(\E f : Begun(f, n))
  BY <1>3, <1>10 DEF ShellPid
<1>5. CASE n = 1
  <2> DEFINE f == [p \in 1..1 |-> first]
  <2>1. f = [p \in 1..1 |-> IF p = ShellPid THEN first ELSE More(f[p - 1])]
    <3>1. \A p \in 1..1 : p = ShellPid
      BY <1>4
    <3>2. \A p \in 1..1 : f[p] = IF p = ShellPid THEN first ELSE More(f[p - 1])
      BY <3>1
    <3>3. f = [p \in 1..1 |-> f[p]]
      OBVIOUS
    <3> HIDE DEF f
    <3>4. QED
      BY <3>2, <3>3
  <2>2. QED
    BY <1>1, <1>4, <1>5, <2>1
<1>6. CASE n # 1
  <2>1. n - 1 \in 1..MaxPid /\ n - 1 \notin T
    <3>1. n - 1 \in 1..MaxPid /\ ~(n <= n - 1)
      BY <1>4, <1>6, MaxPidAssumption
    <3>2. QED
      BY <1>3, <3>1
  <2>2. PICK g : Begun(g, n - 1)
    BY <1>9, <2>1
  <2>3. g = [p \in 1..(n - 1) |-> IF p = ShellPid THEN first ELSE More(g[p - 1])]
    BY <1>1, <2>2
  <2> DEFINE f == [p \in 1..n |-> IF p = n THEN More(g[n - 1]) ELSE g[p]]
  <2>4. \A p \in 1..n : f[p] = IF p = ShellPid THEN first ELSE More(f[p - 1])
    <3> SUFFICES ASSUME NEW p \in 1..n PROVE f[p] = IF p = ShellPid THEN first ELSE More(f[p - 1])
      OBVIOUS
    <3>1. CASE p = n
      <4>1. f[p - 1] = g[n - 1] /\ f[p] = More(g[n - 1])
        BY <1>4, <1>6, <3>1
      <4>2. p # ShellPid
        BY <1>4, <1>6, <3>1
      <4> HIDE DEF f
      <4>3. QED
        BY <4>1, <4>2
    <3>2. CASE p # n
      <4>1. p \in 1..(n - 1) /\ f[p] = g[p]
        BY <1>4, <3>2
      <4>2. p # 1 => p - 1 \in 1..n /\ p - 1 # n
        BY <1>4, <4>1
      <4>3. p # 1 => f[p - 1] = g[p - 1]
        BY <4>2
      <4>4. g[p] = IF p = ShellPid THEN first ELSE More(g[p - 1])
        BY <2>3, <4>1
      <4> HIDE DEF f
      <4>5. CASE p = ShellPid
        BY <4>1, <4>4, <4>5
      <4>6. CASE p # ShellPid
        <5>1. f[p - 1] = g[p - 1]
          BY <1>4, <4>3, <4>6
        <5>2. QED
          BY <4>1, <4>4, <4>6, <5>1
      <4>7. QED
        BY <4>5, <4>6
    <3>3. QED
      BY <3>1, <3>2
  <2>5. f = [p \in 1..n |-> f[p]]
    OBVIOUS
  <2> HIDE DEF f
  <2>6. f = [p \in 1..n |-> IF p = ShellPid THEN first ELSE More(f[p - 1])]
    BY <2>4, <2>5
  <2>7. QED
    BY <1>1, <1>4, <2>6
<1>7. QED
  BY <1>5, <1>6

\* The shell is dispatched, then starts the processes one by one.
LEMMA StartedFact ==
  /\ StartedUpTo[1] = SwitchContext(CreatePipe(BootKernel))
  /\ \A p \in 2..MaxPid : StartedUpTo[p] = CreateProcess(StartedUpTo[p - 1], MIN_PRIORITY, TRUE, TRUE)
<1>1. \E f : Begun(f, MaxPid)
  BY StartedExists, MaxPidAssumption
<1>2. StartedUpTo = CHOOSE f : Begun(f, MaxPid)
  BY DEF StartedUpTo, Begun
<1>3. Begun(StartedUpTo, MaxPid)
  BY <1>1, <1>2
<1> DEFINE G == StartedUpTo
<1>4. G = [p \in 1..MaxPid |-> IF p = ShellPid THEN SwitchContext(CreatePipe(BootKernel))
                              ELSE CreateProcess(G[p - 1], MIN_PRIORITY, TRUE, TRUE)]
  BY <1>3 DEF Begun
<1> HIDE DEF G
<1>5. \A p \in 1..MaxPid : G[p] = IF p = ShellPid THEN SwitchContext(CreatePipe(BootKernel))
                                  ELSE CreateProcess(G[p - 1], MIN_PRIORITY, TRUE, TRUE)
  BY <1>4
<1>6. 1 \in 1..MaxPid /\ 1 = ShellPid /\ \A p \in 2..MaxPid : p \in 1..MaxPid /\ p # ShellPid
  BY MaxPidAssumption DEF ShellPid
<1>7. QED
  BY <1>5, <1>6 DEF G

\* The pipe's semaphores are its own, and n processes have been started, each
\* on its own stack and ready, while the shell runs.
PipeSems == {semReaders, semWriters, mutex}

BootOK(kk, n) ==
  /\ WF(kk, {}) /\ CurOK(kk, {}) /\ NoZombies(kk) /\ Sleepers(kk, {}) /\ kk.nextPid = n + 1
  /\ kk.sems[semReaders] = NewSem(0) /\ kk.sems[semWriters] = NewSem(PIPE_BUFFER_SIZE)
  /\ kk.sems[mutex] = NewSem(1)
  /\ \A x \in Pid : kk.pcb[x].children_sem \notin PipeSems
  /\ kk.first = FALSE /\ kk.cpu = kk.current /\ kk.current = ShellPid
  /\ \A x \in Pid : x < kk.nextPid => kk.pcb[x].rsp = x
  /\ \A x \in Pid \ {IdlePid} : x < kk.nextPid => InQueue(kk, "ready", x)
  /\ \A x \in Pid : ShellPid < x /\ x < kk.nextPid => kk.pcb[x].parentPid = ShellPid

\* createPipe, and the first dispatch of the shell.
LEMMA BootFirst == BootOK(SwitchContext(CreatePipe(BootKernel)), 1)
<1> DEFINE k0 == BootKernel
           k1 == SemInit(k0, semReaders, 0)
           k2 == SemInit(k1, semWriters, PIPE_BUFFER_SIZE)
           k3 == SemInit(k2, mutex, 1)
           k4 == SwitchContext(k3)
<1>1. /\ semReaders \in SemId /\ semWriters \in SemId /\ mutex \in SemId
      /\ semReaders # semWriters /\ semReaders # mutex /\ semWriters # mutex
      /\ PIPE_BUFFER_SIZE \in Nat /\ 0 \in Nat /\ 1 \in Nat
      /\ -1 \notin PipeSems
  BY TableAssumption, SizeAssumption, NumSemsAssumption DEF SemId, semReaders, semWriters, mutex, PipeSems
<1>2. /\ WF(k0, {}) /\ CurOK(k0, {}) /\ NoZombies(k0) /\ Sleepers(k0, {})
      /\ k0.current = ShellPid /\ k0.nextPid = ShellPid + 1 /\ k0.first = TRUE /\ k0.cpu = BootCtx
      /\ \A s \in SemId : k0.sems[s] = UnusedSem
      /\ \A q \in QueueName, p \in Pid : InQueue(k0, q, p) <=> q = "ready" /\ p = ShellPid
      /\ \A p \in Pid : /\ k0.pcb[p].children_sem = -1
                        /\ p < k0.nextPid => k0.pcb[p].rsp = p
  BY BootFact
<1>3. k4 = SwitchContext(CreatePipe(BootKernel))
  BY DEF CreatePipe
<1> HIDE DEF k0
<1>4. ~UnusedSem.used
  BY DEF UnusedSem
<1>5. /\ Steps(k0, k1, {}) /\ SameFields(k0, k1) /\ SameCpu(k0, k1)
      /\ k1.sems[semReaders] = NewSem(0) /\ \A t \in SemId \ {semReaders} : k1.sems[t] = k0.sems[t]
      /\ \A q \in QueueName, x \in Pid : InQueue(k1, q, x) <=> InQueue(k0, q, x)
  BY <1>1, <1>2, <1>4, SemInitEffect
<1> HIDE DEF k1
<1>6. WF(k1, {}) /\ ~k1.sems[semWriters].used
  BY <1>1, <1>2, <1>4, <1>5 DEF Steps, Keeps
<1>7. /\ Steps(k1, k2, {}) /\ SameFields(k1, k2) /\ SameCpu(k1, k2)
      /\ k2.sems[semWriters] = NewSem(PIPE_BUFFER_SIZE)
      /\ \A t \in SemId \ {semWriters} : k2.sems[t] = k1.sems[t]
      /\ \A q \in QueueName, x \in Pid : InQueue(k2, q, x) <=> InQueue(k1, q, x)
  BY <1>1, <1>6, SemInitEffect
<1> HIDE DEF k2
<1>8. WF(k2, {}) /\ ~k2.sems[mutex].used
  BY <1>1, <1>2, <1>4, <1>5, <1>7 DEF Steps, Keeps
<1>9. /\ Steps(k2, k3, {}) /\ SameFields(k2, k3) /\ SameCpu(k2, k3)
      /\ k3.sems[mutex] = NewSem(1) /\ \A t \in SemId \ {mutex} : k3.sems[t] = k2.sems[t]
      /\ \A q \in QueueName, x \in Pid : InQueue(k3, q, x) <=> InQueue(k2, q, x)
  BY <1>1, <1>8, SemInitEffect
<1> HIDE DEF k3
<1>10. Steps(k0, k3, {})
  BY <1>5, <1>7, <1>9, StepsTrans
<1>11. WF(k3, {}) /\ CurOK(k3, {}) /\ Sleepers(k3, {}) /\ NoZombies(k3) /\ k3.nextPid = 2
  BY <1>2, <1>10 DEF Steps, Keeps, NoZombies, ShellPid
<1>12. /\ k3.sems[semReaders] = NewSem(0) /\ k3.sems[semWriters] = NewSem(PIPE_BUFFER_SIZE)
       /\ k3.sems[mutex] = NewSem(1)
  BY <1>1, <1>5, <1>7, <1>9
<1>13. /\ k3.first = TRUE /\ k3.current = ShellPid
       /\ \A x \in Pid : k3.pcb[x].rsp = k0.pcb[x].rsp /\ k3.pcb[x].children_sem = -1
       /\ \A q \in QueueName, x \in Pid : InQueue(k3, q, x) <=> q = "ready" /\ x = ShellPid
  BY <1>2, <1>5, <1>7, <1>9 DEF SameCpu, SameFields, SameCounts
<1>14. /\ WF(k4, {}) /\ CurOK(k4, {}) /\ Quiet(k3, k4, {})
       /\ \A q \in QueueName, x \in Pid : InQueue(k4, q, x) <=> InQueue(k3, q, x)
  BY <1>11, SwitchContextFact
<1>15. SameFields(k3, k4) /\ Switched(k3, k4)
  BY <1>11, SwitchEffect
<1>16. k4.current # IdlePid
  BY <1>11, <1>13, SwitchNotIdle, PidFact
<1> HIDE DEF k4
<1>17. k4.current = ShellPid
  <2>1. InQueue(k4, "ready", k4.current) /\ k4.current \in Pid
    BY <1>14, <1>16 DEF CurOK, WF, KernelState
  <2>2. QED
    BY <1>13, <1>14, <2>1, PidFact
<1>18. k4.nextPid = 1 + 1 /\ k4.sems = k3.sems /\ Sleepers(k4, {})
  BY <1>11, <1>14, QuietFact DEF Quiet
<1>19. \A x \in Pid : k4.pcb[x].rsp = k0.pcb[x].rsp /\ k4.pcb[x].children_sem = -1
  BY <1>13, <1>15 DEF Switched, SameFields, SameCounts
<1>20. \A x \in Pid : x < k4.nextPid => k4.pcb[x].rsp = x
  BY <1>2, <1>18, <1>19 DEF ShellPid
<1>21. k4.first = FALSE /\ k4.cpu = k4.current
  <2>1. k4.cpu = k4.pcb[ShellPid].rsp /\ k4.first = FALSE
    BY <1>15, <1>17 DEF Switched
  <2>2. ShellPid < k4.nextPid
    BY <1>18 DEF ShellPid
  <2>3. QED
    BY <1>17, <1>20, <2>1, <2>2, PidFact
<1>22. \A x \in Pid \ {IdlePid} : x < k4.nextPid => InQueue(k4, "ready", x)
  <2>1. \A x \in Pid \ {IdlePid} : x < 2 => x = ShellPid
    BY DEF Pid, IdlePid, ShellPid
  <2>2. QED
    BY <1>13, <1>14, <1>18, <2>1, PidFact
<1>23. NoZombies(k4)
  BY <1>11, <1>14, PidFact DEF NoZombies
<1>24. \A x \in Pid : k4.pcb[x].children_sem \notin PipeSems
  BY <1>1, <1>19
<1>25. BootOK(k4, 1)
  <2>1. \A x \in Pid : ~(ShellPid < x /\ x < k4.nextPid)
    BY <1>18 DEF Pid, ShellPid
  <2>2. QED
    BY <1>12, <1>14, <1>17, <1>18, <1>20, <1>21, <1>22, <1>23, <1>24, <2>1 DEF BootOK
<1>26. QED
  BY <1>3, <1>25

\* The shell starts one more process.
LEMMA BootNext ==
  ASSUME NEW k0, NEW n \in 2..MaxPid, BootOK(k0, n - 1),
         NEW k9, k9 = CreateProcess(k0, MIN_PRIORITY, TRUE, TRUE)
  PROVE  BootOK(k9, n)
<1>1. /\ WF(k0, {}) /\ CurOK(k0, {}) /\ NoZombies(k0) /\ Sleepers(k0, {}) /\ k0.nextPid = n
      /\ n \in Pid /\ n \in Int /\ k0.nextPid <= MaxPid /\ MIN_PRIORITY \in Nat
      /\ MIN_PRIORITY # IDLE_PRIORITY /\ k0.current = ShellPid
  BY PriorityAssumption DEF BootOK, Pid, MIN_PRIORITY, IDLE_PRIORITY
<1>2. Sound(k0, k9, {})
  BY <1>1, CreateFact
<1>3. Created(k0, k9, TRUE) /\ InQueue(k9, "ready", n)
  BY <1>1, CreateEffect
<1>4. WF(k9, {}) /\ CurOK(k9, {}) /\ NoZombies(k9) /\ Sleepers(k9, {})
  BY <1>1, <1>2 DEF Sound, NoZombies
<1>5. /\ k9.nextPid = n + 1 /\ k9.cpu = k0.cpu /\ k9.first = k0.first
      /\ k9.current = ShellPid
      /\ k9.pcb[n].children_sem = -1 /\ k9.pcb[n].rsp = n
      /\ \A x \in Pid \ {n} : k9.pcb[x].rsp = k0.pcb[x].rsp /\ k9.pcb[x].parentPid = k0.pcb[x].parentPid
      /\ k9.pcb[n].parentPid = ShellPid
      /\ \A x \in Pid \ {n, ShellPid} : SameCounts(k0, k9, x)
      /\ CountedIn(k0, k9, ShellPid)
      /\ \A x \in Pid \ {n}, q \in QueueName : InQueue(k9, q, x) <=> InQueue(k0, q, x)
  <2> DEFINE p == k0.nextPid
             par == k0.current
  <2>1. par > 0 /\ par # IdlePid
    BY <1>1 DEF ShellPid, IdlePid
  <2>2. /\ k9.nextPid = p + 1 /\ k9.cpu = k0.cpu /\ k9.first = k0.first
        /\ k9.current = par \/ par = IdlePid
        /\ k9.pcb[p].children_sem = -1 /\ k9.pcb[p].rsp = p
        /\ k9.pcb[p].parentPid = par
        /\ \A x \in Pid \ {p} : SameKin(k0, k9, x) /\ k9.pcb[x].rsp = k0.pcb[x].rsp
        /\ \A x \in Pid \ {p} : x = par \/ SameCounts(k0, k9, x)
        /\ par > 0 => CountedIn(k0, k9, par)
        /\ \A x \in Pid \ {p}, q \in QueueName : InQueue(k9, q, x) <=> InQueue(k0, q, x)
    BY <1>3 DEF Created
  <2>3. p = n /\ par = ShellPid
    BY <1>1
  <2> HIDE DEF p, par
  <2>4. \A x \in Pid \ {n} : k9.pcb[x].parentPid = k0.pcb[x].parentPid
    BY <2>2, <2>3 DEF SameKin
  <2>5. QED
    BY <2>1, <2>2, <2>3, <2>4
<1>6. /\ semReaders \in SemId /\ semWriters \in SemId /\ mutex \in SemId
      /\ k0.sems[semReaders].used /\ k0.sems[semWriters].used /\ k0.sems[mutex].used
      /\ k0.sems \in [SemId -> Sem] /\ -1 \notin PipeSems
  <2>1. \A v : NewSem(v).used
    BY DEF NewSem
  <2>2. semReaders \in SemId /\ semWriters \in SemId /\ mutex \in SemId /\ -1 \notin PipeSems
    BY TableAssumption, NumSemsAssumption DEF SemId, semReaders, semWriters, mutex, PipeSems
  <2>3. QED
    BY <1>1, <2>1, <2>2, SemTypeFact DEF BootOK
<1>7. \A s \in PipeSems : k9.sems[s] = k0.sems[s] /\ k9.pcb[ShellPid].children_sem # s
  <2> SUFFICES ASSUME NEW s \in PipeSems
               PROVE  k9.sems[s] = k0.sems[s] /\ k9.pcb[ShellPid].children_sem # s
    OBVIOUS
  <2>1. s \in SemId /\ k0.sems[s].used /\ s # -1
    BY <1>6 DEF PipeSems
  <2>2. k0.pcb[ShellPid].children_sem # s
    BY PidFact DEF BootOK
  <2>3. QED
    BY <1>5, <1>6, <2>1, <2>2 DEF CountedIn, SameCounts
<1>8. /\ k9.sems[semReaders] = NewSem(0) /\ k9.sems[semWriters] = NewSem(PIPE_BUFFER_SIZE)
      /\ k9.sems[mutex] = NewSem(1)
  BY <1>7 DEF BootOK, PipeSems
<1>9. \A x \in Pid : k9.pcb[x].children_sem \notin PipeSems
  <2> SUFFICES ASSUME NEW x \in Pid PROVE k9.pcb[x].children_sem \notin PipeSems
    OBVIOUS
  <2>1. CASE x = n
    BY <1>5, <1>6, <2>1
  <2>2. CASE x = ShellPid
    BY <1>7, <2>2
  <2>3. CASE x # n /\ x # ShellPid
    <3>1. k9.pcb[x].children_sem = k0.pcb[x].children_sem
      BY <1>5, <2>3 DEF SameCounts
    <3>2. QED
      BY <3>1 DEF BootOK
  <2>4. QED
    BY <2>1, <2>2, <2>3
<1>10. k9.first = FALSE /\ k9.cpu = k9.current
  BY <1>5 DEF BootOK
<1>11. \A x \in Pid \ {n} : x < k9.nextPid => x < k0.nextPid
  <2>1. \A x \in Pid \ {n} : x < n + 1 => x < n
    BY <1>1, MaxPidAssumption DEF Pid
  <2>2. QED
    BY <1>1, <1>5, <2>1
<1>12. \A x \in Pid : x < k9.nextPid => k9.pcb[x].rsp = x
  BY <1>5, <1>11 DEF BootOK
<1>13. \A x \in Pid \ {IdlePid} : x < k9.nextPid => InQueue(k9, "ready", x)
  BY <1>3, <1>5, <1>11, PidFact DEF BootOK
<1>14. \A x \in Pid : ShellPid < x /\ x < k9.nextPid => k9.pcb[x].parentPid = ShellPid
  BY <1>5, <1>11 DEF BootOK
<1>15. QED
  BY <1>4, <1>5, <1>8, <1>9, <1>10, <1>12, <1>13, <1>14 DEF BootOK

\* The kernel in which the pipe is used.
LEMMA BootAll == BootOK(Started, MaxPid)
<1> DEFINE T == {n \in 1..MaxPid : ~BootOK(StartedUpTo[n], n)}
<1>1. SUFFICES T = {}
  BY MaxPidAssumption DEF Started
<1>2. SUFFICES ASSUME T # {} PROVE FALSE
  OBVIOUS
<1>3. T \subseteq Nat /\ \A n \in T : n \in 1..MaxPid /\ ~BootOK(StartedUpTo[n], n)
  OBVIOUS
<1>4. \A n \in 1..MaxPid : n \notin T => BootOK(StartedUpTo[n], n)
  OBVIOUS
<1> HIDE DEF T
<1>5. PICK n \in T : \A m \in T : n <= m
  BY <1>2, <1>3, LeastNatural
<1>6. n \in 1..MaxPid /\ ~BootOK(StartedUpTo[n], n)
  BY <1>3, <1>5
<1>7. n # 1
  BY <1>6, BootFirst, StartedFact
<1>8. n \in 2..MaxPid /\ n - 1 \in 1..MaxPid /\ ~(n <= n - 1)
  BY <1>6, <1>7, MaxPidAssumption
<1>9. BootOK(StartedUpTo[n - 1], n - 1)
  BY <1>4, <1>5, <1>8
<1>10. StartedUpTo[n] = CreateProcess(StartedUpTo[n - 1], MIN_PRIORITY, TRUE, TRUE)
  BY <1>8, StartedFact
<1>11. QED
  BY <1>6, <1>8, <1>9, <1>10, BootNext

-----------------------------------------------------------------------------
(* The mutex.                                                               *)

Job == [base : {"user", "halt"}, op : {"none", "read", "write", "clear"},
        at : {"token", "mutex", "body"}, left : Nat]

InBody(c) == job[c].op # "none" /\ job[c].at = "body"

\* The mutex is taken exactly while the running context is in the body of a
\* pipe function, and nobody else is in one: a body leaves the CPU to nobody.
\* No process's children_sem is one of the pipe's semaphores, so kill posts
\* and closes none of them.
MutexInv ==
  /\ WF(k, {}) /\ CurOK(k, {})
  /\ job \in [Context -> Job]
  /\ k.sems[mutex].blocked = << >>
  /\ k.sems[mutex].value = IF InBody(k.cpu) THEN 0 ELSE 1
  /\ \A c \in Context \ {k.cpu} : ~InBody(c)
  /\ \A x \in Pid : k.pcb[x].children_sem \notin PipeSems

\* The ids of the pipe's semaphores.
LEMMA PipeSemFact ==
  /\ semReaders \in SemId /\ semWriters \in SemId /\ mutex \in SemId
  /\ semReaders # semWriters /\ semReaders # mutex /\ semWriters # mutex
  /\ PipeSems \subseteq SemId /\ -1 \notin PipeSems
  /\ \A s \in PipeSems : s >= 0
BY TableAssumption, NumSemsAssumption DEF SemId, semReaders, semWriters, mutex, PipeSems

\* A pipe with nobody in it.
LEMMA MutexInit == Init => MutexInv
<1> SUFFICES ASSUME Init PROVE MutexInv
  OBVIOUS
<1>1. BootOK(k, MaxPid)
  BY BootAll DEF Init
<1>2. k.sems[mutex].blocked = << >> /\ k.sems[mutex].value = 1
  BY <1>1 DEF BootOK, NewSem
<1>3. job \in [Context -> Job] /\ \A c \in Context : ~InBody(c)
  BY DEF Init, NoJob, Job, InBody
<1>4. k.cpu \in Context
  BY <1>1 DEF BootOK, WF, KernelState
<1>5. QED
  BY <1>1, <1>2, <1>3, <1>4 DEF MutexInv, BootOK

\* A step with interrupts on, or one that sleeps on another semaphore: the
\* mutex is free before it and after it, wherever the CPU goes.
LEMMA MutexKept ==
  ASSUME MutexInv, ~InBody(k.cpu), WF(k', {}), CurOK(k', {}), job' \in [Context -> Job],
         k'.sems[mutex] = k.sems[mutex],
         \A c \in Context : ~(job'[c].op # "none" /\ job'[c].at = "body"),
         \A x \in Pid : k'.pcb[x].children_sem \notin PipeSems
  PROVE  MutexInv'
<1>1. k'.cpu \in Context
  BY DEF WF, KernelState
<1>2. QED
  BY <1>1 DEF MutexInv, InBody

\* The fields that dispatching leaves alone.
LEMMA FieldsKeepSems ==
  ASSUME NEW k0, NEW k1, SameFields(k0, k1), \A x \in Pid : k0.pcb[x].children_sem \notin PipeSems
  PROVE  \A x \in Pid : k1.pcb[x].children_sem \notin PipeSems
BY DEF SameFields, SameCounts

\* kill leaves the pipe's semaphores alone.
LEMMA KillKeepsPipe ==
  ASSUME NEW k0, WF(k0, {}), CurOK(k0, {}), NEW p \in Pid, NEW k9, k9 = Kill(k0, p),
         \A x \in Pid : k0.pcb[x].children_sem \notin PipeSems
  PROVE  /\ WF(k9, {}) /\ CurOK(k9, {}) /\ \A s \in PipeSems : k9.sems[s] = k0.sems[s]
         /\ \A x \in Pid : k9.pcb[x].children_sem \notin PipeSems
<1>1. WF(k9, {}) /\ CurOK(k9, {})
  BY KillFact DEF Sound
<1>2. CASE k9 = k0
  BY <1>1, <1>2
<1>3. CASE Killed(k0, k9, p)
  <2> DEFINE par == k0.pcb[p].parentPid
  <2>1. k9.pcb[p].children_sem = -1
    BY <1>3 DEF Killed
  <2>2. CASE Counted(k0, p)
    <3>1. par \in Pid
      <4>1. par \in Pid \cup {NoPid} /\ par > 0
        BY <2>2 DEF WF, KernelState, Pcb, Counted
      <4>2. QED
        BY <4>1 DEF NoPid
    <3>2. /\ \A x \in Pid \ {p, par} : SameCounts(k0, k9, x)
          /\ par # p => Uncounted(k0, k9, par)
          /\ SemGone(k0, k9, par)
      BY <1>3, <2>2 DEF Killed
    <3>3. par # p => k9.pcb[par].children_sem \in {-1, k0.pcb[par].children_sem}
      BY <3>2 DEF Uncounted
    <3>4. \A s \in PipeSems : k9.sems[s] = k0.sems[s]
      BY <3>1, <3>2, PipeSemFact DEF SemGone
    <3>5. \A x \in Pid : k9.pcb[x].children_sem \notin PipeSems
      <4> SUFFICES ASSUME NEW x \in Pid PROVE k9.pcb[x].children_sem \notin PipeSems
        OBVIOUS
      <4>1. CASE x = p
        BY <2>1, <4>1, PipeSemFact
      <4>2. CASE x = par /\ par # p
        BY <3>1, <3>3, <4>2, PipeSemFact
      <4>3. CASE x # p /\ x # par
        BY <3>2, <4>3 DEF SameCounts
      <4>4. QED
        BY <4>1, <4>2, <4>3
    <3>6. QED
      BY <1>1, <3>4, <3>5
  <2>3. CASE ~Counted(k0, p)
    <3>1. /\ \A x \in Pid \ {p} : SameCounts(k0, k9, x)
          /\ k9.sems = k0.sems
      BY <1>3, <2>3 DEF Killed
    <3>2. \A x \in Pid : k9.pcb[x].children_sem \notin PipeSems
      BY <2>1, <3>1, PipeSemFact DEF SameCounts
    <3>3. QED
      BY <1>1, <3>1, <3>2
  <2>4. QED
    BY <2>2, <2>3
<1>4. QED
  BY <1>2, <1>3, KillEffect

\* semWait on one of the pipe's other semaphores.
LEMMA WaitKeepsMutex ==
  ASSUME NEW k0, WF(k0, {}), CurOK(k0, {}), NEW s \in SemId, NEW k1, k1 = SemWait(k0, s)
  PROVE  /\ WF(k1, {}) /\ CurOK(k1, {}) /\ SameFields(k0, k1)
         /\ \A t \in SemId \ {s} : k1.sems[t] = k0.sems[t]
<1>1. WF(k1, {}) /\ CurOK(k1, {})
  BY SemWaitFact DEF Steps, Keeps
<1>2. Dispatched(k0, k1)
  BY SemWaitEffect
<1>3. QED
  BY <1>1, <1>2, SemOthers DEF Dispatched

\* The post of the mutex that ends every body.
LEMMA PostMutex ==
  ASSUME MutexInv, InBody(k.cpu), NEW k1, k1 = SemPost(k, mutex)
  PROVE  /\ WF(k1, {}) /\ CurOK(k1, {}) /\ SameFields(k, k1) /\ SameCpu(k, k1)
         /\ k1.sems[mutex].value = 1 /\ k1.sems[mutex].blocked = << >>
         /\ \A t \in SemId \ {mutex} : k1.sems[t] = k.sems[t]
         /\ \A q \in QueueName, x \in Pid : InQueue(k1, q, x) <=> InQueue(k, q, x)
<1>1. /\ WF(k, {}) /\ CurOK(k, {}) /\ mutex \in SemId /\ k.sems[mutex].blocked = << >>
      /\ k.sems[mutex].value = 0 /\ k.sems \in [SemId -> Sem] /\ k.sems[mutex] \in Sem
  BY PipeSemFact, SemTypeFact DEF MutexInv
<1>2. WF(k1, {}) /\ CurOK(k1, {})
  BY <1>1, SemPostFact DEF Steps, Keeps
<1>3. /\ SameFields(k, k1) /\ SameCpu(k, k1)
      /\ k1.sems = [k.sems EXCEPT ![mutex].value = @ + 1]
      /\ \A q \in QueueName, x \in Pid : InQueue(k1, q, x) <=> InQueue(k, q, x)
  BY <1>1, SemPostEffect, ZenonT(60)
<1>4. k1.sems[mutex].value = 1 /\ k1.sems[mutex].blocked = << >>
  BY <1>1, <1>3 DEF Sem
<1>5. \A t \in SemId \ {mutex} : k1.sems[t] = k.sems[t]
  BY <1>1, <1>3
<1>6. QED
  BY <1>2, <1>3, <1>4, <1>5

\* A body ends with the mutex free, and the context on the CPU out of it.
LEMMA BodyEnds ==
  ASSUME MutexInv, InBody(k.cpu), NextByte(k.cpu), WF(k', {}), CurOK(k', {}), SameFields(k, k'),
         k'.sems[mutex].value = 1, k'.sems[mutex].blocked = << >>
  PROVE  MutexInv'
<1>1. k.cpu \in Context /\ k'.cpu \in Context /\ job \in [Context -> Job]
  BY DEF MutexInv, WF, KernelState
<1> DEFINE j == job[k.cpu]
           m == ByteDone(j)
<1>8. job' = [job EXCEPT ![k.cpu] = m]
  BY DEF NextByte
<1>2. job' = [job EXCEPT ![k.cpu] = m] /\ j \in Job
  BY <1>1, <1>8
<1>3. m \in Job /\ m.at = "token"
  <2>1. j.left > 1 => j.left - 1 \in Nat
    BY <1>2 DEF Job
  <2>2. CASE j.left > 1
    <3>1. m = [j EXCEPT !.at = "token", !.left = @ - 1]
      BY <2>2 DEF ByteDone
    <3> HIDE DEF j, m
    <3>2. QED
      BY <1>2, <2>1, <2>2, <3>1 DEF Job
  <2>3. CASE ~(j.left > 1)
    <3>1. m = NoJob(j.base)
      BY <2>3 DEF ByteDone
    <3> HIDE DEF j, m
    <3>2. QED
      BY <1>2, <3>1 DEF Job, NoJob
  <2>4. QED
    BY <2>2, <2>3
<1> HIDE DEF m, j
<1>4. job' \in [Context -> Job] /\ job'[k.cpu] = m /\ \A c \in Context \ {k.cpu} : job'[c] = job[c]
  BY <1>1, <1>2, <1>3
<1>5. \A c \in Context : ~(job'[c].op # "none" /\ job'[c].at = "body")
  BY <1>3, <1>4 DEF MutexInv, InBody
<1>6. \A x \in Pid : k'.pcb[x].children_sem \notin PipeSems
  BY FieldsKeepSems DEF MutexInv
<1>7. QED
  BY <1>1, <1>4, <1>5, <1>6 DEF MutexInv, InBody

\* A system call or interrupt that enters a pipe function.
LEMMA StartKeeps ==
  ASSUME MutexInv, ~InBody(k.cpu), NEW op \in {"read", "write", "clear"},
         NEW at \in {"token", "mutex"}, NEW n \in Nat, Start(op, at, n)
  PROVE  MutexInv'
<1>1. /\ k.cpu \in Context /\ job \in [Context -> Job]
      /\ job' = [job EXCEPT ![k.cpu].op = op, ![k.cpu].at = at, ![k.cpu].left = n]
      /\ k' = k
  BY DEF MutexInv, WF, KernelState, Start
<1>2. /\ job' \in [Context -> Job] /\ job'[k.cpu].at = at
      /\ \A c \in Context \ {k.cpu} : job'[c] = job[c]
  BY <1>1 DEF Job
<1>3. \A c \in Context : ~(job'[c].op # "none" /\ job'[c].at = "body")
  BY <1>2 DEF MutexInv, InBody
<1>4. QED
  BY <1>1, <1>2, <1>3, MutexKept DEF MutexInv

\* Nobody is in a body and interrupts are on.
LEMMA Outside ==
  ASSUME MutexInv, ~InBody(k.cpu)
  PROVE  \A c \in Context : ~(job[c].op # "none" /\ job[c].at = "body")
BY DEF MutexInv, InBody

\* Every step keeps the mutex.
LEMMA MutexStep == MutexInv /\ [Next]_vars => MutexInv'
<1> SUFFICES ASSUME MutexInv, [Next]_vars PROVE MutexInv'
  OBVIOUS
<1>1. /\ WF(k, {}) /\ CurOK(k, {}) /\ job \in [Context -> Job] /\ k.cpu \in Context /\ k.current \in Pid
      /\ k.foreground \in Pid \cup {NoPid}
      /\ \A x \in Pid : k.pcb[x].children_sem \notin PipeSems
      /\ job[k.cpu] \in Job
  BY DEF MutexInv, WF, KernelState
<1>2. Interruptible => ~InBody(k.cpu)
  BY DEF Interruptible, InBody
<1>3. ASSUME NEW n \in 1..MaxCall, SysRead(n) \/ SysWrite(n) PROVE MutexInv'
  BY <1>2, <1>3, StartKeeps DEF SysRead, SysWrite, FindsPipe, InProgram
<1>4. CASE SysClear \/ KeyIRQ
  BY <1>2, <1>4, StartKeeps DEF SysClear, KeyIRQ, InProgram
<1>5. ASSUME Interruptible, Dispatched(k, k'), WF(k', {}), CurOK(k', {}), k'.sems = k.sems, job' = job
      PROVE  MutexInv'
  BY <1>1, <1>2, <1>5, Outside, MutexKept, FieldsKeepSems DEF Dispatched
<1>6. CASE TimerTick \/ SysYield
  <2>1. /\ Interruptible /\ job' = job
        /\ k' = Schedule(k) \/ k' = Yield(k)
    BY <1>6 DEF TimerTick, SysYield, InProgram
  <2>2. Dispatched(k, k')
    BY <1>1, <2>1, ScheduleEffect
  <2>3. WF(k', {}) /\ CurOK(k', {}) /\ k'.sems = k.sems
    BY <1>1, <2>1, ScheduleFact DEF Keeps, Quiet
  <2>4. QED
    BY <1>5, <2>1, <2>2, <2>3
<1>7. ASSUME Interruptible, NEW p \in Pid, k' = Kill(k, p), job' \in [Context -> Job],
             \A c \in Context : job'[c].op = job[c].op /\ job'[c].at = job[c].at
      PROVE  MutexInv'
  <2>1. /\ WF(k', {}) /\ CurOK(k', {}) /\ k'.sems[mutex] = k.sems[mutex]
        /\ \A x \in Pid : k'.pcb[x].children_sem \notin PipeSems
    BY <1>1, <1>7, KillKeepsPipe DEF PipeSems
  <2>2. QED
    BY <1>2, <1>7, <2>1, Outside, MutexKept
<1>8. CASE CtrlC
  BY <1>1, <1>7, <1>8 DEF CtrlC
<1>9. ASSUME NEW p \in Pid, SysKill(p) PROVE MutexInv'
  BY <1>1, <1>7, <1>9 DEF SysKill, InProgram
<1>10. CASE SysExit
  <2>1. /\ job' \in [Context -> Job]
        /\ \A c \in Context : job'[c].op = job[c].op /\ job'[c].at = job[c].at
    BY <1>1, <1>10 DEF SysExit, Job
  <2>2. QED
    BY <1>1, <1>7, <1>10, <2>1 DEF SysExit, InProgram
<1>11. CASE WaitToken
  <2> DEFINE s == TokenOf(job[k.cpu].op)
  <2>1. s \in SemId /\ s # mutex /\ ~InBody(k.cpu) /\ k' = SemWait(k, s)
        /\ job' = [job EXCEPT ![k.cpu].at = "mutex"]
    BY <1>11, PipeSemFact DEF WaitToken, At, TokenOf, InBody
  <2> HIDE DEF s
  <2>2. /\ WF(k', {}) /\ CurOK(k', {}) /\ SameFields(k, k')
        /\ \A t \in SemId \ {s} : k'.sems[t] = k.sems[t]
    BY <1>1, <2>1, WaitKeepsMutex
  <2>3. /\ job' \in [Context -> Job]
        /\ \A c \in Context : ~(job'[c].op # "none" /\ job'[c].at = "body")
    BY <1>1, <2>1, Outside DEF Job
  <2>4. k'.sems[mutex] = k.sems[mutex]
    BY <2>1, <2>2, PipeSemFact
  <2>5. \A x \in Pid : k'.pcb[x].children_sem \notin PipeSems
    BY <1>1, <2>2, FieldsKeepSems
  <2>6. QED
    BY <2>1, <2>2, <2>3, <2>4, <2>5, MutexKept
<1>12. CASE WaitMutex
  <2>1. /\ ~InBody(k.cpu) /\ k' = SemWait(k, mutex) /\ job[k.cpu].op # "none"
        /\ job' = [job EXCEPT ![k.cpu].at = "body"] /\ mutex \in SemId
    BY <1>12, PipeSemFact DEF WaitMutex, At, InBody
  <2>2. k.sems[mutex].value = 1 /\ k.sems[mutex].value > 0 /\ k.sems[mutex].blocked = << >>
    BY <2>1 DEF MutexInv
  <2>3. WF(k', {}) /\ CurOK(k', {}) /\ SameFields(k, k')
    BY <1>1, <2>1, WaitKeepsMutex
  <2>4. /\ Dispatched(k, k')
        /\ k'.sems = [k.sems EXCEPT ![mutex].value = @ - 1] /\ SameCpu(k, k')
    <3>1. WF(k, {}) /\ mutex \in SemId /\ k.sems[mutex].value > 0 /\ k' = SemWait(k, mutex)
      BY <1>1, <2>1, <2>2
    <3>2. QED
      BY ONLY <3>1, SemTakeEffect
  <2>5. k'.cpu = k.cpu
    BY <2>4 DEF SameCpu
  <2>6. k'.sems[mutex].value = 0 /\ k'.sems[mutex].blocked = << >>
    <3>1. k.sems \in [SemId -> Sem] /\ k.sems[mutex] \in Sem
      BY <1>1, <2>1, SemTypeFact
    <3>2. QED
      BY <2>1, <2>2, <2>4, <3>1 DEF Sem
  <2>7. job' \in [Context -> Job] /\ job'[k.cpu].at = "body" /\ job'[k.cpu].op # "none"
        /\ \A c \in Context \ {k.cpu} : job'[c] = job[c]
    BY <1>1, <2>1 DEF Job
  <2>8. \A x \in Pid : k'.pcb[x].children_sem \notin PipeSems
    BY <1>1, <2>3, FieldsKeepSems
  <2>9. QED
    BY <2>3, <2>5, <2>6, <2>7, <2>8 DEF MutexInv, InBody
<1>13. ASSUME NEW op \in {"read", "write"}, InBody(k.cpu), k' = Signal(op), NextByte(k.cpu)
       PROVE  MutexInv'
  <2> DEFINE k1 == SemPost(k, mutex)
             s == SignalOf(op)
  <2>1. /\ WF(k1, {}) /\ CurOK(k1, {}) /\ SameFields(k, k1) /\ SameCpu(k, k1)
        /\ k1.sems[mutex].value = 1 /\ k1.sems[mutex].blocked = << >>
    BY <1>13, PostMutex
  <2>2. k' = SemPost(k1, s) /\ s \in SemId /\ s # mutex
    BY <1>13, PipeSemFact DEF Signal, SignalOf
  <2> HIDE DEF k1, s
  <2>3. SameFields(k1, k')
    BY <2>1, <2>2, SemPostEffect
  <2>4. WF(k', {}) /\ CurOK(k', {})
    BY <2>1, <2>2, SemPostFact DEF Steps, Keeps
  <2>5. k'.sems[mutex] = k1.sems[mutex]
    BY <2>1, <2>2, SemOthers, PipeSemFact
  <2>6. SameFields(k, k')
    BY <2>1, <2>3 DEF SameFields, SameKin, SameCounts
  <2>7. QED
    BY <1>13, <2>1, <2>4, <2>5, <2>6, BodyEnds
<1>14. CASE ReadBody
  BY <1>13, <1>14 DEF ReadBody, At, InBody
<1>15. ASSUME NEW b \in Byte, WriteBody(b) PROVE MutexInv'
  BY <1>13, <1>15 DEF WriteBody, At, InBody
<1>16. CASE ClearBody
  <2>1. InBody(k.cpu) /\ k' = SemPost(k, mutex) /\ NextByte(k.cpu)
    BY <1>16 DEF ClearBody, At, InBody
  <2>2. QED
    BY <2>1, PostMutex, BodyEnds
<1>17. CASE UNCHANGED vars
  BY <1>17 DEF vars, MutexInv, InBody
<1>18. QED
  BY <1>3, <1>4, <1>6, <1>8, <1>9, <1>10, <1>11, <1>12, <1>14, <1>15, <1>16, <1>17
     DEF Next, KernelStep

\* Nobody ever sleeps on the mutex of the pipe, and it is free whenever an
\* interrupt or a death can happen, in every environment.
THEOREM MutexCorrect == Spec => []MutexFree
<1>1. Spec => []MutexInv
  BY MutexInit, MutexStep, PTL DEF Spec
<1>2. MutexInv => MutexFree
  BY DEF MutexInv, MutexFree, Interruptible, InBody
<1>3. QED
  BY <1>1, <1>2, PTL

-----------------------------------------------------------------------------
(* The tokens.                                                              *)

Ops == {"read", "write"}

Other(op) == IF op = "read" THEN "write" ELSE "read"

\* Every process is ready, or asleep on a semaphore.
Everyone(k0) == \A x \in Pid \ {IdlePid} : InQueue(k0, "ready", x) \/ InQueue(k0, "blockedBySem", x)

\* The CPU is on the stack of the current process, and everybody else's saved
\* stack is its own.
OwnStacks(k0) ==
  /\ k0.first = FALSE /\ k0.cpu = k0.current
  /\ \A x \in Pid \ {k0.current} : k0.pcb[x].rsp = x

\* Programs read and write, the keyboard writes.  It interrupts idle only when
\* the buffer has room, and until its byte is written idle keeps the CPU.
JobOps ==
  /\ \A c \in Context : job[c].op \in {"none", "read", "write"}
  /\ job[BootCtx].op = "none"
  /\ job[IdlePid].base = "halt"
  /\ job[IdlePid].op # "none" =>
       /\ job[IdlePid].op = "write" /\ job[IdlePid].left = 1 /\ k.current = IdlePid
       /\ job[IdlePid].at = "token" => k.sems[semWriters].value > 0

\* Whoever sleeps for a token has passed its wait for it.
SleepersAtMutex(jb, sm) ==
  \A op \in Ops : \A c : In(sm[TokenOf(op)].blocked, c) =>
    c # IdlePid /\ jb[c].op = op /\ jb[c].at = "mutex"

TokenCore == Sleepers(k, {}) /\ Everyone(k) /\ OwnStacks(k) /\ JobOps /\ SleepersAtMutex(job, k.sems)

TokenInv == MutexInv /\ PipeInv /\ TokenCore /\ TokensMatch

\* Asleep and Holders, as functions of the semaphores and the jobs.
AsleepIn(sm, c) == \E s \in PipeSems : In(sm[s].blocked, c)

Held(jb, sm, op) ==
  {c \in Context : jb[c].op = op /\ jb[c].at \in {"mutex", "body"} /\ ~AsleepIn(sm, c)}

\* Holders is a finite set of contexts.
LEMMA HeldFact ==
  /\ \A op : Holders(op) = Held(job, k.sems, op) /\ Holders(op)' = Held(job', k'.sems, op)
  /\ \A jb, sm, op : /\ IsFiniteSet(Held(jb, sm, op)) /\ Cardinality(Held(jb, sm, op)) \in Nat
<1>1. \A op : Holders(op) = Held(job, k.sems, op) /\ Holders(op)' = Held(job', k'.sems, op)
  BY DEF Holders, Held, Asleep, AsleepIn, In, PipeSems
<1>2. IsFiniteSet(Context)
  <2>1. IsFiniteSet(0..MaxPid)
    BY FS_Interval, MaxPidAssumption
  <2>2. QED
    BY <2>1, FS_AddElement DEF Context, Pid
<1>3. ASSUME NEW jb, NEW sm, NEW op
      PROVE  IsFiniteSet(Held(jb, sm, op)) /\ Cardinality(Held(jb, sm, op)) \in Nat
  <2>1. Held(jb, sm, op) \subseteq Context
    BY DEF Held
  <2>2. IsFiniteSet(Held(jb, sm, op))
    BY <1>2, <2>1, FS_Subset
  <2>3. QED
    BY <2>2, FS_CardinalityType
<1>4. QED
  BY <1>1, <1>3

\* The two operations and their semaphores.
LEMMA OpFact ==
  /\ \A op \in Ops : /\ TokenOf(op) \in SemId /\ TokenOf(op) # mutex /\ TokenOf(op) \in PipeSems
                     /\ Other(op) \in Ops /\ Other(op) # op /\ SignalOf(op) = TokenOf(Other(op))
                     /\ TokenOf(op) # TokenOf(Other(op))
                     /\ op \in {"none", "read", "write"} /\ op # "none"
                     /\ \A o \in Ops : o = op \/ o = Other(op)
  /\ \A s \in PipeSems : s = mutex \/ \E op \in Ops : s = TokenOf(op)
  /\ TokenOf("read") = semReaders /\ TokenOf("write") = semWriters
BY PipeSemFact DEF Ops, Other, TokenOf, SignalOf, PipeSems

\* The running context is awake, and a process sleeps in one place.
LEMMA CoreFact ==
  ASSUME MutexInv, TokenCore
  PROVE  /\ k.cpu = k.current /\ k.current \in Pid /\ k.cpu \in Context /\ k.cpu # BootCtx
         /\ WF(k, {}) /\ CurOK(k, {}) /\ job \in [Context -> Job]
         /\ ~AsleepIn(k.sems, k.cpu)
         /\ \A s \in PipeSems : \A i \in 1..Len(k.sems[s].blocked) :
              LET x == k.sems[s].blocked[i]
              IN  /\ s # mutex /\ x \in Pid /\ x # IdlePid /\ x \in Context
                  /\ InQueue(k, "blockedBySem", x) /\ x # k.current
         /\ \A s, t \in PipeSems : \A i \in 1..Len(k.sems[s].blocked), j \in 1..Len(k.sems[t].blocked) :
              k.sems[s].blocked[i] = k.sems[t].blocked[j] => s = t /\ i = j
         /\ job[IdlePid].op # "none" => k.cpu = IdlePid
<1>1. /\ WF(k, {}) /\ CurOK(k, {}) /\ job \in [Context -> Job] /\ k.cpu = k.current /\ k.current \in Pid
      /\ k.cpu \in Context /\ Sleepers(k, {}) /\ k.sems[mutex].blocked = << >>
      /\ States(k) /\ Queues(k)
  BY DEF MutexInv, TokenCore, OwnStacks, WF, KernelState
<1>2. k.cpu # BootCtx
  BY <1>1, MaxPidAssumption DEF Pid, BootCtx
<1>3. \A x \in Pid \ {IdlePid} : Alive(k, x, {})
  BY <1>1 DEF TokenCore, Everyone, Alive, States
<1>4. ASSUME NEW s \in PipeSems, NEW i \in 1..Len(k.sems[s].blocked), NEW x, x = k.sems[s].blocked[i]
      PROVE  /\ s # mutex /\ x \in Pid /\ x # IdlePid /\ x \in Context
             /\ InQueue(k, "blockedBySem", x) /\ x # k.current
  <2>1. s # mutex
    <3>1. Len(<< >>) = 0
      OBVIOUS
    <3>2. QED
      BY <1>1, <1>4, <3>1
  <2>2. PICK op \in Ops : s = TokenOf(op)
    BY <2>1, OpFact
  <2>3. x # IdlePid
    BY <1>4, <2>2 DEF TokenCore, SleepersAtMutex, In
  <2>4. x \in Pid
    BY <1>1, <1>4, SleeperPid, PipeSemFact
  <2>5. InQueue(k, "blockedBySem", x)
    BY <1>1, <1>3, <1>4, <2>3, <2>4, PipeSemFact DEF Sleepers
  <2>6. x # k.current
    <3>1. ~InQueue(k, "ready", x)
      BY <1>1, <2>4, <2>5, PidFact DEF Queues
    <3>2. QED
      BY <1>1, <2>3, <3>1 DEF CurOK
  <2>7. QED
    BY <2>1, <2>3, <2>4, <2>5, <2>6 DEF Context
<1>5. ~AsleepIn(k.sems, k.cpu)
  BY <1>1, <1>4 DEF AsleepIn, In
<1>6. ASSUME NEW s \in PipeSems, NEW t \in PipeSems,
             NEW i \in 1..Len(k.sems[s].blocked), NEW j \in 1..Len(k.sems[t].blocked),
             k.sems[s].blocked[i] = k.sems[t].blocked[j]
      PROVE  s = t /\ i = j
  <2>1. k.sems[s].blocked[i] \in Pid \ {IdlePid} /\ s \in SemId /\ t \in SemId
    BY <1>4, PipeSemFact
  <2>2. k.sems[s].blocked[i] # IdlePid /\ Alive(k, k.sems[s].blocked[i], {})
    BY <1>3, <2>1
  <2>3. QED
    BY <1>1, <1>6, <2>1, <2>2, SleeperUnique
<1>7. job[IdlePid].op # "none" => k.cpu = IdlePid
  BY <1>1 DEF TokenCore, JobOps
<1>8. QED
  BY <1>1, <1>2, <1>4, <1>5, <1>6, <1>7

\* Dispatching keeps every stack with its owner.
LEMMA DispatchStacks ==
  ASSUME NEW k0, NEW k1, OwnStacks(k0), Dispatched(k0, k1), k0.current \in Pid, k1.current \in Pid
  PROVE  OwnStacks(k1)
<1>1. CASE SameCpu(k0, k1)
  BY <1>1 DEF OwnStacks, SameCpu
<1>2. CASE Switched(k0, k1)
  <2>1. \A x \in Pid : k1.pcb[x].rsp = x
    BY <1>2 DEF Switched, OwnStacks
  <2>2. QED
    BY <1>2, <2>1 DEF Switched, OwnStacks
<1>3. QED
  BY <1>1, <1>2 DEF Dispatched

\* A step that moves nobody between the holders and the sleepers.
LEMMA SameTokens ==
  ASSUME TokensMatch, pipe'.count = pipe.count,
         \A op \in Ops : k'.sems[TokenOf(op)].value = k.sems[TokenOf(op)].value,
         \A op \in Ops : Held(job', k'.sems, op) = Held(job, k.sems, op)
  PROVE  TokensMatch'
<1>1. \A op \in Ops : Holders(op)' = Holders(op)
  BY HeldFact
<1>2. Cardinality(Holders("read"))' = Cardinality(Holders("read"))
      /\ Cardinality(Holders("write"))' = Cardinality(Holders("write"))
  BY <1>1 DEF Ops
<1>3. QED
  BY <1>2, OpFact DEF TokensMatch, Ops

\* The pipe is empty, and all its room is in the writers' semaphore.
LEMMA TokenInit == Init => TokenInv
<1> SUFFICES ASSUME Init PROVE TokenInv
  OBVIOUS
<1>1. MutexInv /\ PipeInv
  BY MutexInit, PipeInit
<1>2. BootOK(k, MaxPid) /\ k.current \in Pid
  BY BootAll DEF Init, BootOK, WF, KernelState
<1>3. /\ k.sems[semReaders].value = 0 /\ k.sems[semWriters].value = PIPE_BUFFER_SIZE
      /\ k.sems[semReaders].blocked = << >> /\ k.sems[semWriters].blocked = << >>
  BY <1>2 DEF BootOK, NewSem
<1>4. \A c \in Context : job[c].op = "none" /\ job[c].at = "token"
  BY DEF Init, NoJob
<1>5. job[IdlePid].base = "halt" /\ IdlePid \in Context /\ BootCtx \in Context
  BY PidFact DEF Init, NoJob, Context
<1>6. \A x \in Pid : x < k.nextPid
  BY <1>2, MaxPidAssumption DEF BootOK, Pid
<1>7. Sleepers(k, {}) /\ Everyone(k) /\ OwnStacks(k)
  BY <1>2, <1>6 DEF BootOK, Everyone, OwnStacks
<1>8. JobOps
  BY <1>4, <1>5 DEF JobOps
<1>9. SleepersAtMutex(job, k.sems)
  <2>1. Len(<< >>) = 0
    OBVIOUS
  <2>2. \A op \in Ops : k.sems[TokenOf(op)].blocked = << >>
    BY <1>3 DEF TokenOf
  <2>3. \A op \in Ops : Len(k.sems[TokenOf(op)].blocked) = 0
    BY <2>1, <2>2
  <2>4. QED
    BY <2>3 DEF SleepersAtMutex, In
<1>10. TokensMatch
  <2>1. Holders("read") = {} /\ Holders("write") = {}
    BY <1>4 DEF Holders
  <2>2. Cardinality({}) = 0
    BY FS_EmptySet
  <2>3. pipe.count = 0
    BY DEF Init
  <2>4. Cardinality(Holders("read")) = 0 /\ Cardinality(Holders("write")) = 0
    BY <2>1, <2>2
  <2>5. PIPE_BUFFER_SIZE + 0 + 0 = PIPE_BUFFER_SIZE /\ 0 + 0 = 0
    BY SizeAssumption
  <2>6. QED
    BY <1>3, <2>3, <2>4, <2>5 DEF TokensMatch
<1>11. QED
  BY <1>1, <1>7, <1>8, <1>9, <1>10 DEF TokenInv, TokenCore

\* A call or an interrupt enters a pipe function.
LEMMA TokenStart ==
  ASSUME MutexInv, TokenCore, TokensMatch, Interruptible, NEW op \in Ops, NEW n \in Nat,
         Start(op, "token", n),
         k.cpu = IdlePid => op = "write" /\ n = 1 /\ k.sems[semWriters].value > 0
  PROVE  TokenCore' /\ TokensMatch'
<1>1. /\ k.cpu = k.current /\ k.current \in Pid /\ k.cpu \in Context /\ k.cpu # BootCtx
      /\ WF(k, {}) /\ job \in [Context -> Job] /\ ~AsleepIn(k.sems, k.cpu)
      /\ job[IdlePid].op # "none" => k.cpu = IdlePid
  BY CoreFact
<1>2. /\ k' = k /\ pipe' = pipe /\ job[k.cpu].op = "none"
      /\ job' = [job EXCEPT ![k.cpu].op = op, ![k.cpu].at = "token", ![k.cpu].left = n]
  BY DEF Start, Interruptible
<1>3. /\ job'[k.cpu].op = op /\ job'[k.cpu].at = "token" /\ job'[k.cpu].left = n
      /\ job'[k.cpu].base = job[k.cpu].base
      /\ \A c \in Context \ {k.cpu} : job'[c] = job[c]
      /\ IdlePid \in Context /\ BootCtx \in Context
  BY <1>1, <1>2, PidFact DEF Job, Context
<1>4. JobOps'
  <2>1. \A c \in Context : job'[c].op \in {"none", "read", "write"}
    BY <1>3, OpFact DEF TokenCore, JobOps
  <2>2. job'[BootCtx].op = "none" /\ job'[IdlePid].base = "halt"
    BY <1>1, <1>3 DEF TokenCore, JobOps
  <2>3. CASE k.cpu = IdlePid
    BY <1>1, <1>2, <1>3, <2>1, <2>2, <2>3 DEF JobOps
  <2>4. CASE k.cpu # IdlePid
    BY <1>1, <1>3, <2>1, <2>2, <2>4 DEF JobOps
  <2>5. QED
    BY <2>3, <2>4
<1>5. SleepersAtMutex(job', k'.sems)
  <2>1. SUFFICES ASSUME NEW o \in Ops, NEW c, In(k.sems[TokenOf(o)].blocked, c)
                 PROVE  c # IdlePid /\ job'[c].op = o /\ job'[c].at = "mutex"
    BY <1>2 DEF SleepersAtMutex
  <2>2. c # IdlePid /\ job[c].op = o /\ job[c].at = "mutex"
    BY <2>1 DEF SleepersAtMutex, TokenCore
  <2>3. c \in Context \ {k.cpu}
    BY <1>1, <2>1, CoreFact, OpFact DEF In
  <2>4. QED
    BY <1>3, <2>2, <2>3
<1>6. TokenCore'
  BY <1>2, <1>4, <1>5 DEF TokenCore
<1>7. \A o \in Ops : Held(job', k'.sems, o) = Held(job, k.sems, o)
  <2> SUFFICES ASSUME NEW o \in Ops, NEW c \in Context
               PROVE  c \in Held(job', k'.sems, o) <=> c \in Held(job, k.sems, o)
    BY DEF Held
  <2>1. CASE c = k.cpu
    BY <1>2, <1>3, <2>1, OpFact DEF Held
  <2>2. CASE c # k.cpu
    BY <1>2, <1>3, <2>2 DEF Held
  <2>3. QED
    BY <2>1, <2>2
<1>8. QED
  BY <1>2, <1>6, <1>7, SameTokens

\* The timer and yield move the CPU and nothing else.
LEMMA TokenDispatch ==
  ASSUME MutexInv, TokenCore, TokensMatch, Interruptible, UNCHANGED <<pipe, job>>,
         k' = Schedule(k) \/ k' = Yield(k)
  PROVE  TokenCore' /\ TokensMatch'
<1>1. /\ k.cpu = k.current /\ k.current \in Pid /\ WF(k, {}) /\ CurOK(k, {})
      /\ job[IdlePid].op # "none" => k.cpu = IdlePid
  BY CoreFact
<1>2. Dispatched(k, k')
  BY <1>1, ScheduleEffect
<1>3. /\ Keeps(k, k', {}) /\ Quiet(k, k', {})
      /\ \A q \in QueueName, x \in Pid : InQueue(k', q, x) <=> InQueue(k, q, x)
  BY <1>1, ScheduleFact
<1>4. k'.sems = k.sems /\ k'.current \in Pid
  BY <1>3 DEF Quiet, Keeps, WF, KernelState
<1>5. Sleepers(k', {})
  BY <1>1, <1>3, QuietFact DEF TokenCore
<1>6. Everyone(k')
  BY <1>3, PidFact DEF TokenCore, Everyone
<1>7. OwnStacks(k')
  BY <1>1, <1>2, <1>4, DispatchStacks DEF TokenCore
<1>8. JobOps'
  <2>1. job[IdlePid].op = "none"
    BY <1>1 DEF Interruptible
  <2>2. QED
    BY <2>1 DEF TokenCore, JobOps
<1>9. SleepersAtMutex(job', k'.sems)
  BY <1>4 DEF SleepersAtMutex, TokenCore
<1>10. QED
  BY <1>4, <1>5, <1>6, <1>7, <1>8, <1>9, SameTokens DEF TokenCore

\* The units of op's semaphore, free or in hand.
Tokens(jb, sm, op) == sm[TokenOf(op)].value + Cardinality(Held(jb, sm, op))

LEMMA TokensFact ==
  ASSUME MutexInv, PipeInv
  PROVE  /\ TokensMatch <=> /\ Tokens(job, k.sems, "read") = pipe.count
                            /\ Tokens(job, k.sems, "write") + pipe.count = N
         /\ \A op \in Ops : /\ k.sems[TokenOf(op)].value \in Nat
                            /\ Tokens(job, k.sems, op) \in Nat
         /\ pipe.count \in Nat /\ pipe.count <= N /\ N \in Nat
<1>1. \A op \in Ops : k.sems[TokenOf(op)] \in Sem
  BY OpFact, SemTypeFact DEF MutexInv
<1>2. \A op \in Ops : k.sems[TokenOf(op)].value \in Nat
  BY <1>1 DEF Sem
<1>3. \A op \in Ops : Tokens(job, k.sems, op) \in Nat
  BY <1>2, HeldFact DEF Tokens
<1>4. pipe.count \in Nat /\ pipe.count <= N /\ N \in Nat
  BY SizeAssumption DEF PipeInv, BufferOK, Buffer, N
<1>5. /\ Holders("read") = Held(job, k.sems, "read") /\ Holders("write") = Held(job, k.sems, "write")
  BY HeldFact
<1>6. TokensMatch <=> /\ Tokens(job, k.sems, "read") = pipe.count
                      /\ Tokens(job, k.sems, "write") + pipe.count = N
  BY <1>5, OpFact DEF TokensMatch, Tokens, N
<1>7. QED
  BY <1>2, <1>3, <1>4, <1>6

LEMMA TokensKept ==
  ASSUME MutexInv, MutexInv', PipeInv, PipeInv', TokensMatch, pipe' = pipe,
         \A op \in Ops : Tokens(job', k'.sems, op) = Tokens(job, k.sems, op)
  PROVE  TokensMatch'
<1>1. TokensMatch <=> /\ Tokens(job, k.sems, "read") = pipe.count
                      /\ Tokens(job, k.sems, "write") + pipe.count = N
  BY TokensFact
<1>2. TokensMatch' <=> /\ Tokens(job', k'.sems, "read") = pipe'.count
                       /\ Tokens(job', k'.sems, "write") + pipe'.count = N
  <2>1. \A op : Holders(op)' = Held(job', k'.sems, op)
    BY HeldFact
  <2>2. QED
    BY <2>1, OpFact DEF TokensMatch, Tokens, N
<1>3. QED
  BY <1>1, <1>2 DEF Ops

\* One context joins or leaves the holders.
LEMMA HeldAdd ==
  ASSUME NEW S, IsFiniteSet(S), NEW c, c \notin S
  PROVE  Cardinality(S \cup {c}) = Cardinality(S) + 1 /\ Cardinality(S) \in Nat
BY FS_AddElement, FS_CardinalityType

LEMMA HeldRemove ==
  ASSUME NEW S, IsFiniteSet(S), NEW c \in S
  PROVE  /\ Cardinality(S \ {c}) = Cardinality(S) - 1
         /\ Cardinality(S) \in Nat /\ Cardinality(S) >= 1 /\ IsFiniteSet(S \ {c})
<1>1. IsFiniteSet(S \ {c}) /\ Cardinality(S \ {c}) = Cardinality(S) - 1
  BY FS_RemoveElement
<1>2. Cardinality(S) \in Nat /\ Cardinality(S \ {c}) \in Nat
  BY <1>1, FS_CardinalityType
<1>3. QED
  BY <1>1, <1>2

\* The running context passes its wait for a token: it takes one, or goes to
\* sleep without.
LEMMA TokenWait ==
  ASSUME MutexInv, MutexInv', PipeInv, PipeInv', TokenCore, TokensMatch, WaitToken
  PROVE  TokenCore' /\ TokensMatch'
<1> DEFINE op == job[k.cpu].op
           s == TokenOf(op)
<1>1. /\ k.cpu = k.current /\ k.current \in Pid /\ k.cpu \in Context /\ k.cpu # BootCtx
      /\ WF(k, {}) /\ CurOK(k, {}) /\ job \in [Context -> Job] /\ ~AsleepIn(k.sems, k.cpu)
      /\ job[IdlePid].op # "none" => k.cpu = IdlePid
  BY CoreFact
<1>2. op \in Ops
  BY <1>1 DEF WaitToken, At, TokenCore, JobOps, Ops
<1>3. /\ k' = SemWait(k, s) /\ pipe' = pipe /\ job[k.cpu].at = "token"
      /\ job' = [job EXCEPT ![k.cpu].at = "mutex"]
  BY DEF WaitToken, At
<1>4. /\ job'[k.cpu].op = op /\ job'[k.cpu].at = "mutex"
      /\ job'[k.cpu].left = job[k.cpu].left /\ job'[k.cpu].base = job[k.cpu].base
      /\ \A c \in Context \ {k.cpu} : job'[c] = job[c]
      /\ IdlePid \in Context /\ BootCtx \in Context
  BY <1>1, <1>3, PidFact DEF Job, Context
<1>5. /\ s \in SemId /\ s # mutex /\ s \in PipeSems /\ s # TokenOf(Other(op))
      /\ k.sems \in [SemId -> Sem] /\ k.sems[s] \in Sem
  BY <1>1, <1>2, OpFact, SemTypeFact
<1>6. op = job[k.cpu].op /\ s = TokenOf(op)
  OBVIOUS
<1> HIDE DEF op, s
<1>7. Sleepers(k', {})
  BY <1>1, <1>3, <1>5, SemWaitFact DEF Steps, TokenCore
<1>8. \A t \in SemId \ {s} : k'.sems[t] = k.sems[t]
  BY <1>1, <1>3, <1>5, SemOthers
<1>9. OwnStacks(k') /\ k'.current \in Pid
  <2>1. Dispatched(k, k')
    BY <1>1, <1>3, <1>5, SemWaitEffect
  <2>2. k'.current \in Pid
    BY DEF MutexInv, WF, KernelState
  <2>3. QED
    BY <1>1, <2>1, <2>2, DispatchStacks DEF TokenCore
<1>10. /\ \A c \in Context : job'[c].op = job[c].op
       /\ \A c \in Context : job'[c].op \in {"none", "read", "write"}
       /\ job'[BootCtx].op = "none" /\ job'[IdlePid].base = "halt"
       /\ job'[IdlePid].left = job[IdlePid].left
  BY <1>4, <1>6 DEF TokenCore, JobOps
<1>11. CASE k.sems[s].value > 0
  <2>1. /\ k'.sems = [k.sems EXCEPT ![s].value = @ - 1] /\ SameCpu(k, k')
        /\ \A q \in QueueName, x \in Pid : InQueue(k', q, x) <=> InQueue(k, q, x)
    BY <1>1, <1>3, <1>5, <1>11, SemTakeEffect
  <2>2. k'.sems[s].value = k.sems[s].value - 1 /\ k'.sems[s].blocked = k.sems[s].blocked
    BY <1>5, <2>1 DEF Sem
  <2>3. \A t \in PipeSems : k'.sems[t].blocked = k.sems[t].blocked
    BY <1>8, <2>2, PipeSemFact
  <2>4. Everyone(k')
    BY <2>1, PidFact DEF TokenCore, Everyone
  <2>5. JobOps'
    <3>1. k'.current = k.current
      BY <2>1 DEF SameCpu
    <3>2. CASE k.cpu = IdlePid
      BY <1>1, <1>4, <1>10, <3>1, <3>2 DEF TokenCore, JobOps
    <3>3. CASE k.cpu # IdlePid
      BY <1>1, <1>4, <1>10, <3>3 DEF JobOps
    <3>4. QED
      BY <3>2, <3>3
  <2>6. SleepersAtMutex(job', k'.sems)
    <3>1. SUFFICES ASSUME NEW o \in Ops, NEW c, In(k.sems[TokenOf(o)].blocked, c)
                   PROVE  c # IdlePid /\ job'[c].op = o /\ job'[c].at = "mutex"
      BY <2>3, OpFact DEF SleepersAtMutex
    <3>2. c # IdlePid /\ job[c].op = o /\ job[c].at = "mutex"
      BY <3>1 DEF SleepersAtMutex, TokenCore
    <3>3. c \in Context \ {k.cpu}
      BY <1>1, <3>1, CoreFact, OpFact DEF In
    <3>4. QED
      BY <1>4, <3>2, <3>3
  <2>7. \A c : AsleepIn(k'.sems, c) <=> AsleepIn(k.sems, c)
    BY <2>3 DEF AsleepIn
  <2>8. /\ Held(job', k'.sems, op) = Held(job, k.sems, op) \cup {k.cpu}
        /\ Held(job', k'.sems, Other(op)) = Held(job, k.sems, Other(op))
        /\ k.cpu \notin Held(job, k.sems, op)
    <3>1. k.cpu \notin Held(job, k.sems, op) /\ Other(op) # op
      BY <1>2, <1>3, OpFact DEF Held
    <3>2. \A c \in Context : /\ c \in Held(job', k'.sems, op) <=> c \in Held(job, k.sems, op) \cup {k.cpu}
                             /\ c \in Held(job', k'.sems, Other(op)) <=> c \in Held(job, k.sems, Other(op))
      <4> SUFFICES ASSUME NEW c \in Context
                   PROVE  /\ c \in Held(job', k'.sems, op) <=> c \in Held(job, k.sems, op) \cup {k.cpu}
                          /\ c \in Held(job', k'.sems, Other(op)) <=> c \in Held(job, k.sems, Other(op))
        OBVIOUS
      <4>1. CASE c = k.cpu
        BY <1>1, <1>4, <1>6, <2>7, <3>1, <4>1 DEF Held
      <4>2. CASE c # k.cpu
        BY <1>4, <2>7, <4>2 DEF Held
      <4>3. QED
        BY <4>1, <4>2
    <3>3. QED
      BY <1>1, <3>1, <3>2 DEF Held
  <2>9. \A o \in Ops : Tokens(job', k'.sems, o) = Tokens(job, k.sems, o)
    <3>1. Tokens(job', k'.sems, op) = Tokens(job, k.sems, op)
      <4>1. /\ Cardinality(Held(job', k'.sems, op)) = Cardinality(Held(job, k.sems, op)) + 1
            /\ Cardinality(Held(job, k.sems, op)) \in Nat
        BY <2>8, HeldFact, HeldAdd
      <4>2. k.sems[s].value \in Nat
        BY <1>5 DEF Sem
      <4>3. QED
        BY <1>6, <2>2, <4>1, <4>2 DEF Tokens
    <3>2. Tokens(job', k'.sems, Other(op)) = Tokens(job, k.sems, Other(op))
      <4>1. k'.sems[TokenOf(Other(op))] = k.sems[TokenOf(Other(op))]
        BY <1>2, <1>5, <1>8, OpFact
      <4>2. QED
        BY <2>8, <4>1 DEF Tokens
    <3>3. QED
      BY <1>2, <3>1, <3>2, OpFact
  <2>10. QED
    BY <1>3, <1>7, <1>9, <2>4, <2>5, <2>6, <2>9, TokensKept DEF TokenCore
<1>12. CASE k.sems[s].value = 0
  <2>1. k.cpu # IdlePid
    <3>1. ASSUME k.cpu = IdlePid PROVE FALSE
      <4>1. op = "write" /\ k.sems[semWriters].value > 0
        BY <1>2, <1>3, <1>6, <3>1 DEF TokenCore, JobOps, Ops
      <4>2. QED
        BY <1>6, <1>12, <4>1, OpFact
    <3>2. QED
      BY <3>1
  <2>2. /\ k'.sems = [k.sems EXCEPT ![s].blocked = Append(@, k.current)]
        /\ \A q \in QueueName, x \in Pid :
             InQueue(k', q, x) <=> IF x = k.current THEN q = "blockedBySem" ELSE InQueue(k, q, x)
    BY <1>1, <1>3, <1>5, <1>12, <2>1, SemSleepEffect
  <2>3. /\ k'.sems[s].value = k.sems[s].value
        /\ k'.sems[s].blocked = Append(k.sems[s].blocked, k.cpu)
        /\ k.sems[s].blocked \in Seq(Pid)
    BY <1>1, <1>5, <2>2 DEF Sem
  <2>4. \A c : In(k'.sems[s].blocked, c) <=> In(k.sems[s].blocked, c) \/ c = k.cpu
    <3>1. NoDup(k.sems[s].blocked)
      BY <1>5, CoreFact DEF NoDup
    <3>2. ~In(k.sems[s].blocked, k.cpu) /\ k.cpu \in Pid
      BY <1>1, <1>5 DEF AsleepIn
    <3>3. QED
      BY <2>3, <3>1, <3>2, AppendFact
  <2>5. Everyone(k')
    BY <2>2, PidFact DEF TokenCore, Everyone
  <2>6. JobOps'
    BY <1>1, <1>4, <1>10, <2>1 DEF JobOps
  <2>7. SleepersAtMutex(job', k'.sems)
    <3>1. SUFFICES ASSUME NEW o \in Ops, NEW c, In(k'.sems[TokenOf(o)].blocked, c)
                   PROVE  c # IdlePid /\ job'[c].op = o /\ job'[c].at = "mutex"
      BY DEF SleepersAtMutex
    <3>2. CASE In(k.sems[TokenOf(o)].blocked, c)
      <4>1. c # IdlePid /\ job[c].op = o /\ job[c].at = "mutex"
        BY <3>2 DEF SleepersAtMutex, TokenCore
      <4>2. c \in Context \ {k.cpu}
        BY <1>1, <3>2, CoreFact, OpFact DEF In
      <4>3. QED
        BY <1>4, <4>1, <4>2
    <3>3. CASE ~In(k.sems[TokenOf(o)].blocked, c)
      <4>1. TokenOf(o) = s
        BY <1>8, <3>1, <3>3, OpFact
      <4>2. o = op /\ c = k.cpu
        BY <1>2, <1>5, <1>6, <2>4, <3>1, <3>3, <4>1, OpFact
      <4>3. QED
        BY <1>4, <2>1, <4>2
    <3>4. QED
      BY <3>2, <3>3
  <2>8. \A c : AsleepIn(k'.sems, c) <=> AsleepIn(k.sems, c) \/ c = k.cpu
    <3>1. \A t \in PipeSems : t # s => k'.sems[t].blocked = k.sems[t].blocked
      BY <1>8, PipeSemFact
    <3>2. QED
      BY <1>5, <2>4, <3>1 DEF AsleepIn
  <2>9. \A o \in Ops : Held(job', k'.sems, o) = Held(job, k.sems, o)
    <3> SUFFICES ASSUME NEW o \in Ops, NEW c \in Context
                 PROVE  c \in Held(job', k'.sems, o) <=> c \in Held(job, k.sems, o)
      BY DEF Held
    <3>1. CASE c = k.cpu
      BY <1>3, <2>8, <3>1 DEF Held
    <3>2. CASE c # k.cpu
      BY <1>4, <2>8, <3>2 DEF Held
    <3>3. QED
      BY <3>1, <3>2
  <2>10. \A o \in Ops : k'.sems[TokenOf(o)].value = k.sems[TokenOf(o)].value
    BY <1>8, <2>3, OpFact
  <2>11. QED
    BY <1>3, <1>7, <1>9, <2>5, <2>6, <2>7, <2>9, <2>10, SameTokens DEF TokenCore
<1>13. QED
  <2>1. k.sems[s].value \in Nat
    BY <1>5 DEF Sem
  <2>2. QED
    BY <1>11, <1>12, <2>1

\* Taking the mutex: it is free, so nobody sleeps or wakes.
LEMMA TokenMutex ==
  ASSUME MutexInv, MutexInv', TokenCore, TokensMatch, WaitMutex
  PROVE  TokenCore' /\ TokensMatch'
<1>1. /\ k.cpu = k.current /\ k.current \in Pid /\ k.cpu \in Context /\ k.cpu # BootCtx
      /\ WF(k, {}) /\ CurOK(k, {}) /\ job \in [Context -> Job] /\ ~AsleepIn(k.sems, k.cpu)
      /\ job[IdlePid].op # "none" => k.cpu = IdlePid
  BY CoreFact
<1>2. /\ k' = SemWait(k, mutex) /\ pipe' = pipe /\ job[k.cpu].at = "mutex"
      /\ job' = [job EXCEPT ![k.cpu].at = "body"] /\ mutex \in SemId
  BY PipeSemFact DEF WaitMutex, At
<1>3. k.sems[mutex].value > 0
  BY <1>2 DEF MutexInv, InBody
<1>4. /\ job'[k.cpu].op = job[k.cpu].op /\ job'[k.cpu].at = "body"
      /\ job'[k.cpu].left = job[k.cpu].left /\ job'[k.cpu].base = job[k.cpu].base
      /\ \A c \in Context \ {k.cpu} : job'[c] = job[c]
      /\ IdlePid \in Context /\ BootCtx \in Context
  BY <1>1, <1>2, PidFact DEF Job, Context
<1>5. SameCpu(k, k') /\ \A q \in QueueName, x \in Pid : InQueue(k', q, x) <=> InQueue(k, q, x)
  BY <1>1, <1>2, <1>3, SemWaitEffect
<1>6. \A t \in SemId \ {mutex} : k'.sems[t] = k.sems[t]
  BY <1>1, <1>2, SemOthers
<1>7. \A op \in Ops : k'.sems[TokenOf(op)] = k.sems[TokenOf(op)]
  BY <1>6, OpFact
<1>8. Sleepers(k', {})
  BY <1>1, <1>2, SemWaitFact DEF Steps, TokenCore
<1>9. Everyone(k')
  BY <1>5, PidFact DEF TokenCore, Everyone
<1>10. OwnStacks(k')
  BY <1>5 DEF TokenCore, OwnStacks, SameCpu
<1>11. JobOps'
  <2>1. /\ \A c \in Context : job'[c].op = job[c].op
        /\ \A c \in Context : job'[c].op \in {"none", "read", "write"}
        /\ job'[BootCtx].op = "none" /\ job'[IdlePid].base = "halt"
        /\ job'[IdlePid].left = job[IdlePid].left
    BY <1>4 DEF TokenCore, JobOps
  <2>2. k'.current = k.current
    BY <1>5 DEF SameCpu
  <2>3. CASE k.cpu = IdlePid
    BY <1>1, <1>4, <2>1, <2>2, <2>3 DEF TokenCore, JobOps
  <2>4. CASE k.cpu # IdlePid
    BY <1>1, <1>4, <2>1, <2>4 DEF JobOps
  <2>5. QED
    BY <2>3, <2>4
<1>12. SleepersAtMutex(job', k'.sems)
  <2>1. SUFFICES ASSUME NEW o \in Ops, NEW c, In(k.sems[TokenOf(o)].blocked, c)
                 PROVE  c # IdlePid /\ job'[c].op = o /\ job'[c].at = "mutex"
    BY <1>7 DEF SleepersAtMutex
  <2>2. c # IdlePid /\ job[c].op = o /\ job[c].at = "mutex"
    BY <2>1 DEF SleepersAtMutex, TokenCore
  <2>3. c \in Context \ {k.cpu}
    BY <1>1, <2>1, CoreFact, OpFact DEF In
  <2>4. QED
    BY <1>4, <2>2, <2>3
<1>13. \A s \in PipeSems : k'.sems[s].blocked = k.sems[s].blocked
  BY <1>7, OpFact DEF MutexInv
<1>14. \A o \in Ops : Held(job', k'.sems, o) = Held(job, k.sems, o)
  <2> SUFFICES ASSUME NEW o \in Ops, NEW c \in Context
               PROVE  c \in Held(job', k'.sems, o) <=> c \in Held(job, k.sems, o)
    BY DEF Held
  <2>1. AsleepIn(k'.sems, c) <=> AsleepIn(k.sems, c)
    BY <1>13 DEF AsleepIn
  <2>2. CASE c = k.cpu
    BY <1>2, <1>4, <2>1, <2>2 DEF Held
  <2>3. CASE c # k.cpu
    BY <1>4, <2>1, <2>3 DEF Held
  <2>4. QED
    BY <2>2, <2>3
<1>15. QED
  BY <1>2, <1>7, <1>8, <1>9, <1>10, <1>11, <1>12, <1>14, SameTokens DEF TokenCore

\* The first of a queue leaves it.
LEMMA TailFact ==
  ASSUME NEW s \in Seq(Pid), NoDup(s), s # << >>
  PROVE  /\ In(s, Head(s)) /\ Head(s) \in Pid
         /\ \A x : In(Tail(s), x) <=> In(s, x) /\ x # Head(s)
<1>1. /\ Len(s) > 0 /\ Len(s) \in Nat /\ Head(s) = s[1] /\ s[1] \in Pid
      /\ Len(Tail(s)) = Len(s) - 1 /\ \A i \in 1..(Len(s) - 1) : Tail(s)[i] = s[i + 1]
  OBVIOUS
<1>2. In(s, Head(s))
  BY <1>1 DEF In
<1>3. ASSUME NEW x, In(Tail(s), x) PROVE In(s, x) /\ x # Head(s)
  <2>1. PICK i \in 1..Len(Tail(s)) : Tail(s)[i] = x
    BY <1>3 DEF In
  <2>2. i \in 1..(Len(s) - 1) /\ i + 1 \in 1..Len(s) /\ i + 1 # 1 /\ 1 \in 1..Len(s)
    BY <1>1, <2>1
  <2>3. s[i + 1] = x
    BY <1>1, <2>1, <2>2
  <2>4. QED
    BY <1>1, <2>2, <2>3 DEF In, NoDup
<1>4. ASSUME NEW x, In(s, x), x # Head(s) PROVE In(Tail(s), x)
  <2>1. PICK i \in 1..Len(s) : s[i] = x
    BY <1>4 DEF In
  <2>2. i # 1
    BY <1>1, <1>4, <2>1
  <2>3. i - 1 \in 1..(Len(s) - 1) /\ (i - 1) + 1 = i
    BY <1>1, <2>2
  <2>4. Tail(s)[i - 1] = x
    BY <1>1, <2>1, <2>3
  <2>5. QED
    BY <1>1, <2>3, <2>4 DEF In
<1>5. QED
  BY <1>1, <1>2, <1>3, <1>4

\* The end of a body: the running context gives up its token, and the other
\* side gets one: its semaphore, or the first that sleeps there.
LEMMA TokenBody ==
  ASSUME MutexInv, MutexInv', TokenCore, NEW op \in Ops, At("body"), job[k.cpu].op = op,
         k' = Signal(op), NextByte(k.cpu)
  PROVE  /\ TokenCore'
         /\ Tokens(job, k.sems, op) >= 1
         /\ Tokens(job', k'.sems, op) = Tokens(job, k.sems, op) - 1
         /\ Tokens(job', k'.sems, Other(op)) = Tokens(job, k.sems, Other(op)) + 1
<1> DEFINE k1 == SemPost(k, mutex)
           s == TokenOf(op)
           z == TokenOf(Other(op))
           q == k.sems[z].blocked
           m == ByteDone(job[k.cpu])
<1>1. /\ k.cpu = k.current /\ k.current \in Pid /\ k.cpu \in Context /\ k.cpu # BootCtx
      /\ WF(k, {}) /\ CurOK(k, {}) /\ job \in [Context -> Job] /\ ~AsleepIn(k.sems, k.cpu)
      /\ job[IdlePid].op # "none" => k.cpu = IdlePid
      /\ IdlePid \in Context /\ BootCtx \in Context
  BY CoreFact, PidFact DEF Context
<1>2. /\ job[k.cpu].at = "body" /\ job[k.cpu].op = op /\ op # "none" /\ InBody(k.cpu)
      /\ job' = [job EXCEPT ![k.cpu] = m] /\ job[k.cpu] \in Job
  BY <1>1, OpFact DEF At, NextByte, InBody
<1>3. /\ m.at = "token" /\ m.base = job[k.cpu].base /\ m.op \in {op, "none"}
      /\ job[k.cpu].left = 1 => m.op = "none"
  <2>1. CASE job[k.cpu].left > 1
    <3>1. m = [job[k.cpu] EXCEPT !.at = "token", !.left = @ - 1]
      BY <2>1 DEF ByteDone
    <3>2. QED
      BY <1>2, <2>1, <3>1 DEF Job
  <2>2. CASE ~(job[k.cpu].left > 1)
    BY <2>2 DEF ByteDone, NoJob
  <2>3. QED
    BY <2>1, <2>2
<1>4. /\ s \in SemId /\ z \in SemId /\ s # z /\ s # mutex /\ z # mutex /\ z = SignalOf(op)
      /\ s \in PipeSems /\ z \in PipeSems /\ Other(op) \in Ops /\ Other(op) # op
      /\ k.sems \in [SemId -> Sem] /\ k.sems[s] \in Sem /\ k.sems[z] \in Sem
      /\ \A t \in PipeSems : t \in {mutex, s, z}
  <2>1. /\ s \in SemId /\ z \in SemId /\ s # z /\ s # mutex /\ z # mutex /\ z = SignalOf(op)
        /\ s \in PipeSems /\ z \in PipeSems /\ Other(op) \in Ops /\ Other(op) # op
    BY OpFact
  <2>2. \A t \in PipeSems : t \in {mutex, s, z}
    BY OpFact
  <2>3. k.sems \in [SemId -> Sem] /\ \A t \in SemId : k.sems[t] \in Sem
    BY <1>1, <2>1, SemTypeFact
  <2>4. QED
    BY <2>1, <2>2, <2>3
<1> HIDE DEF m
<1>5. /\ job'[k.cpu] = m /\ \A c \in Context \ {k.cpu} : job'[c] = job[c]
  BY <1>1, <1>2
<1>6. /\ WF(k1, {}) /\ CurOK(k1, {}) /\ SameFields(k, k1) /\ SameCpu(k, k1)
      /\ k1.sems[mutex].value = 1 /\ k1.sems[mutex].blocked = << >>
      /\ \A t \in SemId \ {mutex} : k1.sems[t] = k.sems[t]
      /\ \A n \in QueueName, x \in Pid : InQueue(k1, n, x) <=> InQueue(k, n, x)
  BY <1>2, PostMutex
<1>7. Sleepers(k1, {})
  BY <1>1, SemPostFact, PipeSemFact DEF Steps, TokenCore
<1>8. k' = SemPost(k1, z)
  BY <1>4 DEF Signal
<1>9. s = TokenOf(op) /\ z = TokenOf(Other(op)) /\ q = k1.sems[z].blocked /\ q = k.sems[z].blocked
  BY <1>4, <1>6
<1> HIDE DEF k1, s, z, q
<1>10. k1.sems \in [SemId -> Sem] /\ k1.sems[z] \in Sem /\ k1.sems[z] = k.sems[z] /\ z \in SemId
  BY <1>4, <1>6, SemTypeFact
<1>11. Sleepers(k', {})
  BY <1>4, <1>6, <1>7, <1>8, SemPostFact DEF Steps
<1>12. \A t \in SemId \ {mutex, z} : k'.sems[t] = k.sems[t]
  BY <1>4, <1>6, <1>8, SemOthers
<1>13. SameCpu(k1, k')
  BY <1>4, <1>6, <1>8, SemPostEffect
<1>14. OwnStacks(k') /\ k'.current = k.current
  BY <1>6, <1>13 DEF TokenCore, OwnStacks, SameCpu
<1>15. JobOps'
  <2>1. /\ \A c \in Context : job'[c].op \in {"none", "read", "write"}
        /\ job'[BootCtx].op = "none" /\ job'[IdlePid].base = "halt"
    <3>1. m.op \in {"none", "read", "write"}
      BY <1>3, OpFact
    <3>2. QED
      BY <1>1, <1>3, <1>5, <3>1 DEF TokenCore, JobOps
  <2>2. job'[IdlePid].op = "none"
    <3>1. CASE k.cpu = IdlePid
      <4>1. job[k.cpu].left = 1
        BY <1>2, <3>1 DEF TokenCore, JobOps
      <4>2. QED
        BY <1>3, <1>5, <3>1, <4>1
    <3>2. CASE k.cpu # IdlePid
      BY <1>1, <1>5, <3>2
    <3>3. QED
      BY <3>1, <3>2
  <2>3. QED
    BY <2>1, <2>2 DEF JobOps
<1>16. \A o \in Ops : \A c : In(k.sems[TokenOf(o)].blocked, c) =>
         /\ c # IdlePid /\ job'[c].op = o /\ job'[c].at = "mutex" /\ c \in Context \ {k.cpu}
         /\ job[c].op = o /\ job[c].at = "mutex"
  <2> SUFFICES ASSUME NEW o \in Ops, NEW c, In(k.sems[TokenOf(o)].blocked, c)
               PROVE  /\ c # IdlePid /\ job'[c].op = o /\ job'[c].at = "mutex" /\ c \in Context \ {k.cpu}
                      /\ job[c].op = o /\ job[c].at = "mutex"
    OBVIOUS
  <2>1. c # IdlePid /\ job[c].op = o /\ job[c].at = "mutex"
    BY DEF SleepersAtMutex, TokenCore
  <2>2. c \in Context \ {k.cpu}
    BY <1>1, CoreFact, OpFact DEF In
  <2>3. QED
    BY <1>5, <2>1, <2>2
<1>17. k.sems[mutex].blocked = << >> /\ k'.sems[mutex].blocked = << >>
  BY DEF MutexInv
<1>18. k.cpu \in Held(job, k.sems, op)
  BY <1>1, <1>2 DEF Held
<1>19. /\ \A c \in Context \ {k.cpu} : (AsleepIn(k'.sems, c) <=> AsleepIn(k.sems, c)) =>
            \A o \in Ops : c \in Held(job', k'.sems, o) <=> c \in Held(job, k.sems, o)
       /\ \A o \in Ops : k.cpu \notin Held(job', k'.sems, o)
       /\ k.cpu \notin Held(job, k.sems, Other(op))
  BY <1>2, <1>3, <1>4, <1>5 DEF Held
<1>20. IsFiniteSet(Held(job, k.sems, op)) /\ IsFiniteSet(Held(job, k.sems, Other(op)))
  BY HeldFact
<1>21. k.sems[s].value \in Nat /\ k.sems[z].value \in Nat
  BY <1>4 DEF Sem
<1>22. ASSUME Held(job', k'.sems, op) = Held(job, k.sems, op) \ {k.cpu}
       PROVE  /\ Tokens(job, k.sems, op) >= 1
              /\ Tokens(job', k'.sems, op) = Tokens(job, k.sems, op) - 1
  <2>1. /\ Cardinality(Held(job', k'.sems, op)) = Cardinality(Held(job, k.sems, op)) - 1
        /\ Cardinality(Held(job, k.sems, op)) \in Nat /\ Cardinality(Held(job, k.sems, op)) >= 1
    BY <1>18, <1>20, <1>22, HeldRemove
  <2>2. k'.sems[s] = k.sems[s]
    BY <1>4, <1>12
  <2>3. QED
    BY <1>9, <1>21, <2>1, <2>2 DEF Tokens
<1>23. CASE q = << >>
  <2>1. /\ k'.sems = [k1.sems EXCEPT ![z].value = @ + 1]
        /\ \A n \in QueueName, x \in Pid : InQueue(k', n, x) <=> InQueue(k1, n, x)
    <3>1. WF(k1, {}) /\ z \in SemId /\ k' = SemPost(k1, z) /\ k1.sems[z].blocked = << >>
      BY <1>4, <1>6, <1>8, <1>9, <1>23
    <3>2. QED
      BY <3>1, SemPostEffect
  <2>2. k'.sems[z].value = k.sems[z].value + 1 /\ k'.sems[z].blocked = k.sems[z].blocked
    <3>1. k1.sems[z].value \in Nat
      BY <1>10 DEF Sem
    <3>2. k'.sems[z].value = k1.sems[z].value + 1 /\ k'.sems[z].blocked = k1.sems[z].blocked
      BY <1>10, <2>1 DEF Sem
    <3>3. QED
      BY <1>10, <3>2
  <2>3. \A t \in PipeSems : k'.sems[t].blocked = k.sems[t].blocked
    BY <1>4, <1>12, <1>17, <2>2
  <2>4. Everyone(k')
    BY <1>6, <2>1, PidFact DEF TokenCore, Everyone
  <2>5. SleepersAtMutex(job', k'.sems)
    BY <1>16, <2>3, OpFact DEF SleepersAtMutex
  <2>6. \A c : AsleepIn(k'.sems, c) <=> AsleepIn(k.sems, c)
    BY <2>3 DEF AsleepIn
  <2>7. Held(job', k'.sems, op) = Held(job, k.sems, op) \ {k.cpu}
    BY <1>19, <2>6 DEF Held
  <2>8. Held(job', k'.sems, Other(op)) = Held(job, k.sems, Other(op))
    BY <1>4, <1>19, <2>6 DEF Held
  <2>9. Tokens(job', k'.sems, Other(op)) = Tokens(job, k.sems, Other(op)) + 1
    <3>1. Cardinality(Held(job, k.sems, Other(op))) \in Nat
      BY HeldFact
    <3>2. QED
      BY <1>9, <1>21, <2>2, <2>8, <3>1 DEF Tokens
  <2>10. QED
    BY <1>11, <1>14, <1>15, <1>22, <2>4, <2>5, <2>7, <2>9 DEF TokenCore
<1>24. CASE q # << >>
  <2> DEFINE h == Head(q)
  <2>1. /\ k'.sems = [k1.sems EXCEPT ![z].blocked = Tail(@)]
        /\ \A n \in QueueName, x \in Pid :
             InQueue(k', n, x) <=> IF x = h /\ InQueue(k1, "blockedBySem", h)
                                   THEN n = "ready" ELSE InQueue(k1, n, x)
    <3>1. WF(k1, {}) /\ z \in SemId /\ k' = SemPost(k1, z) /\ k1.sems[z].blocked # << >>
      BY <1>4, <1>6, <1>8, <1>9, <1>24
    <3>2. h = Head(k1.sems[z].blocked)
      BY <1>9
    <3>3. /\ k'.sems = [k1.sems EXCEPT ![z].blocked = Tail(@)]
          /\ \A n \in QueueName, x \in Pid :
               InQueue(k', n, x) <=> IF x = Head(k1.sems[z].blocked)
                                          /\ InQueue(k1, "blockedBySem", Head(k1.sems[z].blocked))
                                     THEN n = "ready" ELSE InQueue(k1, n, x)
      BY <3>1, SemPostEffect
    <3> HIDE DEF h
    <3>4. QED
      BY <3>2, <3>3
  <2>2. k'.sems[z].value = k.sems[z].value /\ k'.sems[z].blocked = Tail(q) /\ q \in Seq(Pid)
    <3>1. k'.sems[z].value = k1.sems[z].value /\ k'.sems[z].blocked = Tail(k1.sems[z].blocked)
      BY <1>10, <2>1 DEF Sem
    <3>2. k1.sems[z].blocked \in Seq(Pid)
      BY <1>10 DEF Sem
    <3>3. QED
      BY <1>9, <1>10, <3>1, <3>2
  <2>3. NoDup(q)
    BY <1>4, <1>9, CoreFact DEF NoDup
  <2>4. /\ In(q, h) /\ h \in Pid
        /\ \A x : In(Tail(q), x) <=> In(q, x) /\ x # h
    BY <1>24, <2>2, <2>3, TailFact
  <2> HIDE DEF h
  <2>5. Everyone(k')
    <3>1. Everyone(k)
      BY DEF TokenCore
    <3>2. \A x \in Pid \ {IdlePid} : InQueue(k1, "ready", x) \/ InQueue(k1, "blockedBySem", x)
      BY <1>6, <3>1, PidFact DEF Everyone
    <3>3. QED
      BY <2>1, <3>2, PidFact DEF Everyone
  <2>6. SleepersAtMutex(job', k'.sems)
    <3>1. \A o \in Ops : \A c : In(k'.sems[TokenOf(o)].blocked, c) => In(k.sems[TokenOf(o)].blocked, c)
      BY <1>9, <1>12, <2>2, <2>4, OpFact
    <3>2. QED
      BY <1>16, <3>1 DEF SleepersAtMutex
  <2>7. \A t \in PipeSems : \A c : In(k.sems[t].blocked, c) /\ In(q, c) => t = z
    BY <1>4, <1>9, CoreFact DEF In
  <2>8. \A c : c # h => (AsleepIn(k'.sems, c) <=> AsleepIn(k.sems, c))
    <3>1. \A t \in PipeSems : t # z => k'.sems[t].blocked = k.sems[t].blocked
      BY <1>4, <1>12, <1>17
    <3>2. \A c : c # h => (In(k'.sems[z].blocked, c) <=> In(k.sems[z].blocked, c))
      BY <1>9, <2>2, <2>4
    <3>3. QED
      BY <1>4, <3>1, <3>2 DEF AsleepIn
  <2>9. ~AsleepIn(k'.sems, h) /\ AsleepIn(k.sems, h)
    <3>1. \A t \in PipeSems : t # z => k'.sems[t].blocked = k.sems[t].blocked
      BY <1>4, <1>12, <1>17
    <3>2. \A t \in PipeSems : t # z => ~In(k.sems[t].blocked, h)
      BY <2>4, <2>7
    <3>3. ~In(k'.sems[z].blocked, h)
      BY <2>2, <2>4
    <3>4. ~AsleepIn(k'.sems, h)
      BY <3>1, <3>2, <3>3 DEF AsleepIn
    <3>5. QED
      BY <1>4, <1>9, <2>4, <3>4 DEF AsleepIn
  <2>10. /\ h # k.cpu /\ h \in Context /\ job'[h].op = Other(op) /\ job'[h].at = "mutex"
         /\ job[h].op = Other(op)
    BY <1>4, <1>9, <1>16, <2>4
  <2>11. /\ h \in Held(job', k'.sems, Other(op)) /\ h \notin Held(job, k.sems, Other(op))
         /\ h \notin Held(job', k'.sems, op) /\ h \notin Held(job, k.sems, op)
    BY <1>4, <2>9, <2>10 DEF Held
  <2>12. Held(job', k'.sems, op) = Held(job, k.sems, op) \ {k.cpu}
    BY <1>19, <2>8, <2>11 DEF Held
  <2>13. Held(job', k'.sems, Other(op)) = Held(job, k.sems, Other(op)) \cup {h}
    <3>1. \A c \in Context : c \in Held(job', k'.sems, Other(op)) <=> c \in Held(job, k.sems, Other(op)) \cup {h}
      BY <1>4, <1>19, <2>8, <2>11
    <3>2. QED
      BY <2>10, <3>1 DEF Held
  <2>14. Tokens(job', k'.sems, Other(op)) = Tokens(job, k.sems, Other(op)) + 1
    <3>1. /\ Cardinality(Held(job', k'.sems, Other(op))) = Cardinality(Held(job, k.sems, Other(op))) + 1
          /\ Cardinality(Held(job, k.sems, Other(op))) \in Nat
      BY <1>20, <2>11, <2>13, HeldAdd
    <3>2. QED
      BY <1>9, <1>21, <2>2, <3>1 DEF Tokens
  <2>15. QED
    BY <1>11, <1>14, <1>15, <1>22, <2>5, <2>6, <2>12, <2>14 DEF TokenCore
<1>25. QED
  BY <1>23, <1>24

\* Every step of programs that live and a keyboard that spares idle keeps the
\* account of the tokens.
LEMMA TokenStep ==
  ASSUME Env \subseteq {"key"}, TokenInv, [Next]_vars
  PROVE  TokenInv'
<1>1. MutexInv /\ PipeInv /\ TokenCore /\ TokensMatch
  BY DEF TokenInv
<1>2. MutexInv' /\ PipeInv'
  BY <1>1, MutexStep, PipeStep
<1>3. SUFFICES TokenCore' /\ TokensMatch'
  BY <1>2 DEF TokenInv
<1>4. "idleKey" \notin Env /\ "clear" \notin Env /\ "kill" \notin Env
  OBVIOUS
<1>5. job[IdlePid].base = "halt" /\ k.cpu = k.current /\ k.current \in Pid
  BY <1>1, CoreFact DEF TokenCore, JobOps
<1>6. ASSUME NEW n \in 1..MaxCall, SysRead(n) \/ SysWrite(n) PROVE TokenCore' /\ TokensMatch'
  <2>1. Interruptible /\ k.cpu # IdlePid
    BY <1>5, <1>6 DEF SysRead, SysWrite, FindsPipe, InProgram
  <2>2. PICK op \in Ops : Start(op, "token", n)
    BY <1>6 DEF SysRead, SysWrite, Ops
  <2>3. n \in Nat
    BY CallAssumption
  <2>4. QED
    BY <1>1, <2>1, <2>2, <2>3, TokenStart
<1>7. CASE KeyIRQ
  <2>1. /\ Interruptible /\ Start("write", "token", 1)
        /\ k.current # IdlePid \/ k.sems[semWriters].value > 0
    BY <1>4, <1>7 DEF KeyIRQ
  <2>2. "write" \in Ops /\ 1 \in Nat
    BY DEF Ops
  <2>3. QED
    BY <1>1, <1>5, <2>1, <2>2, TokenStart
<1>8. CASE TimerTick \/ SysYield
  BY <1>1, <1>8, TokenDispatch DEF TimerTick, SysYield, InProgram
<1>9. CASE WaitToken
  BY <1>1, <1>2, <1>9, TokenWait
<1>10. CASE WaitMutex
  BY <1>1, <1>2, <1>10, TokenMutex
<1>11. /\ Tokens(job, k.sems, "read") = pipe.count
       /\ Tokens(job, k.sems, "write") + pipe.count = N
       /\ Tokens(job, k.sems, "read") \in Nat /\ Tokens(job, k.sems, "write") \in Nat
       /\ pipe.count \in Nat /\ pipe.count <= N /\ N \in Nat
  BY <1>1, TokensFact DEF Ops
<1>12. ASSUME /\ Tokens(job', k'.sems, "read") = pipe'.count
              /\ Tokens(job', k'.sems, "write") + pipe'.count = N
       PROVE  TokensMatch'
  <2>1. \A op : Holders(op)' = Held(job', k'.sems, op)
    BY HeldFact
  <2>2. QED
    BY <1>12, <2>1, OpFact DEF TokensMatch, Tokens, N
<1>13. CASE ReadBody
  <2>1. /\ At("body") /\ job[k.cpu].op = "read" /\ k' = Signal("read") /\ NextByte(k.cpu)
        /\ pipe' = Take(pipe) /\ "read" \in Ops /\ Other("read") = "write"
    BY <1>13 DEF ReadBody, Ops, Other
  <2>2. /\ TokenCore'
        /\ Tokens(job, k.sems, "read") >= 1
        /\ Tokens(job', k'.sems, "read") = Tokens(job, k.sems, "read") - 1
        /\ Tokens(job', k'.sems, Other("read")) = Tokens(job, k.sems, Other("read")) + 1
    BY <1>1, <1>2, <2>1, TokenBody
  <2>3. pipe'.count = pipe.count - 1
    <3>1. pipe.count > 0
      BY <1>11, <2>2
    <3>2. QED
      BY <1>1, <2>1, <3>1 DEF Take, PipeInv, BufferOK, Buffer
  <2>4. TokensMatch'
    BY <1>11, <1>12, <2>1, <2>2, <2>3
  <2>5. QED
    BY <2>2, <2>4
<1>14. ASSUME NEW b \in Byte, WriteBody(b) PROVE TokenCore' /\ TokensMatch'
  <2>1. /\ At("body") /\ job[k.cpu].op = "write" /\ k' = Signal("write") /\ NextByte(k.cpu)
        /\ pipe' = Store(pipe, b) /\ "write" \in Ops /\ Other("write") = "read"
    BY <1>14 DEF WriteBody, Ops, Other
  <2>2. /\ TokenCore'
        /\ Tokens(job, k.sems, "write") >= 1
        /\ Tokens(job', k'.sems, "write") = Tokens(job, k.sems, "write") - 1
        /\ Tokens(job', k'.sems, Other("write")) = Tokens(job, k.sems, Other("write")) + 1
    BY <1>1, <1>2, <2>1, TokenBody
  <2>3. pipe'.count = pipe.count + 1
    <3>1. pipe.count < N
      BY <1>11, <2>2
    <3>2. QED
      BY <1>1, <2>1, <3>1 DEF Store, PipeInv, BufferOK, Buffer, N
  <2>4. TokensMatch'
    BY <1>11, <1>12, <2>1, <2>2, <2>3
  <2>5. QED
    BY <2>2, <2>4
<1>15. ~ClearBody
  BY <1>1 DEF ClearBody, TokenCore, JobOps, MutexInv, WF, KernelState
<1>16. CASE UNCHANGED vars
  <2>1. k' = k /\ job' = job /\ pipe' = pipe
    BY <1>16 DEF vars
  <2>2. TokenCore'
    BY <1>1, <2>1 DEF TokenCore, JobOps
  <2>3. Holders("read")' = Holders("read") /\ Holders("write")' = Holders("write")
    BY <2>1 DEF Holders, Asleep
  <2>4. TokensMatch'
    BY <1>1, <2>1, <2>3 DEF TokensMatch
  <2>5. QED
    BY <2>2, <2>4
<1>17. ~SysClear /\ ~CtrlC /\ ~SysExit /\ \A p \in Pid : ~SysKill(p)
  BY <1>4 DEF SysClear, CtrlC, SysExit, SysKill
<1>18. QED
  BY <1>6, <1>7, <1>8, <1>9, <1>10, <1>13, <1>14, <1>15, <1>16, <1>17 DEF Next, KernelStep

\* While nobody dies or clears the pipe, and the keyboard interrupts idle only
\* when the buffer has room: every byte has one reader's token and every free
\* place one writer's token, in a semaphore or in the hands of one context.
THEOREM TokensCorrect ==
  ASSUME Env \subseteq {"key"}
  PROVE  Spec => []TokensMatch
<1>1. TokenInv /\ [Next]_vars => TokenInv'
  BY TokenStep
<1>2. TokenInv => TokensMatch
  BY DEF TokenInv
<1>3. QED
  BY <1>1, <1>2, TokenInit, PTL DEF Spec

-----------------------------------------------------------------------------
(* A pipeline: the processes of module Pipeline on this pipe.               *)

\* The CPU is on the stack of whoever is current, and a process that lives and
\* is not current goes on with its own.  (Idle may hold a dead process's.)
HomeStacks(k0) ==
  /\ k0.first = FALSE
  /\ k0.current # IdlePid => k0.cpu = k0.current
  /\ \A x \in Pid \ {IdlePid} : x # k0.current /\ Exists(k0, x) => k0.pcb[x].rsp = x

\* Whoever lives is in a queue and was started by the shell, which lives, and
\* only the two commands sleep on semaphores.
Staff(k0) ==
  /\ WF(k0, {}) /\ CurOK(k0, {}) /\ OwnStack(k0, {}) /\ HomeStacks(k0)
  /\ Exists(k0, ShellPid)
  /\ \A x \in Pid \ {IdlePid} : Exists(k0, x) => Queued(k0, x)
  /\ \A x \in Pid : x > ShellPid /\ Exists(k0, x) => k0.pcb[x].parentPid = ShellPid
  /\ \A x \in Pid : InQueue(k0, "blockedBySem", x) => x \in {Writer, Reader}

\* The shell sleeps until its target dies.
Suspended(k0, target) ==
  Exists(k0, target) => InQueue(k0, "blocked", ShellPid) /\ k0.pcb[ShellPid].waitingForPid = target

\* What a pipeline sees of the kernel's functions.
Runs(k0, k1) ==
  /\ Staff(k1)
  /\ \A x \in Pid \ {IdlePid} : Exists(k1, x) => Exists(k0, x)
  /\ \A x \in Pid \ {IdlePid} : Suspended(k0, x) => Suspended(k1, x)

LEMMA RunsTrans ==
  ASSUME NEW k0, NEW k1, NEW k2, Runs(k0, k1), Runs(k1, k2)
  PROVE  Runs(k0, k2)
BY DEF Runs

LEMMA StaffTypes ==
  ASSUME NEW k0, Staff(k0)
  PROVE  /\ WF(k0, {}) /\ CurOK(k0, {}) /\ OwnStack(k0, {}) /\ HomeStacks(k0)
         /\ k0.pcb \in [Pid -> Pcb] /\ k0.current \in Pid /\ k0.cpu \in Context /\ k0.foreground \in Pid \cup {NoPid}
         /\ ShellPid \in Pid \ {IdlePid} /\ IdlePid \in Pid
         /\ k0.current # IdlePid => Exists(k0, k0.current) /\ InQueue(k0, "ready", k0.current)
<1>1. WF(k0, {}) /\ CurOK(k0, {}) /\ OwnStack(k0, {}) /\ HomeStacks(k0)
  BY DEF Staff
<1>2. /\ k0.pcb \in [Pid -> Pcb] /\ k0.current \in Pid /\ k0.cpu \in Context
      /\ k0.foreground \in Pid \cup {NoPid}
  BY <1>1 DEF WF, KernelState
<1>3. k0.current # IdlePid => Exists(k0, k0.current) /\ InQueue(k0, "ready", k0.current)
  BY <1>1, <1>2 DEF CurOK, WF, States, Exists
<1>4. ShellPid # IdlePid
  BY DEF ShellPid, IdlePid
<1> QED
  BY <1>1, <1>2, <1>3, <1>4, PidFact

\* A dispatch.
LEMMA DispatchHome ==
  ASSUME NEW k0, WF(k0, {}), HomeStacks(k0), NEW k1, WF(k1, {}), CurOK(k1, {}), Dispatched(k0, k1)
  PROVE  HomeStacks(k1)
<1>1. /\ k0.current \in Pid /\ k1.current \in Pid
      /\ k1.current # IdlePid => Exists(k1, k1.current)
  BY DEF WF, KernelState, CurOK, States, Exists
<1>2. \A x \in Pid \ {IdlePid} : Exists(k1, x) <=> Exists(k0, x)
  BY DEF Dispatched, SameFields, SameKin, Exists
<1>3. CASE SameCpu(k0, k1)
  BY <1>1, <1>2, <1>3 DEF SameCpu, HomeStacks
<1>4. CASE Switched(k0, k1)
  <2>1. \A x \in Pid \ {IdlePid} : Exists(k1, x) => k1.pcb[x].rsp = x
    BY <1>1, <1>2, <1>4 DEF Switched, HomeStacks
  <2> QED
    BY <1>1, <1>4, <2>1 DEF Switched, HomeStacks
<1> QED
  BY <1>3, <1>4 DEF Dispatched

\* A death.
LEMMA KillHome ==
  ASSUME NEW k0, WF(k0, {}), HomeStacks(k0), NEW k1, WF(k1, {}), CurOK(k1, {}), NEW p \in Pid \ {IdlePid},
         Killed(k0, k1, p), KillCpu(k0, k1, p)
  PROVE  HomeStacks(k1)
<1> DEFINE cur == IF k0.current = p THEN IdlePid ELSE k0.current
<1>1. /\ k0.current \in Pid /\ k1.current \in Pid /\ k1.current # p
      /\ k1.current # IdlePid => Exists(k1, k1.current)
  BY DEF WF, KernelState, CurOK, States, Exists, Killed
<1>2. /\ ~Exists(k1, p)
      /\ \A x \in Pid \ {p, IdlePid} : Exists(k1, x) => Exists(k0, x)
  BY DEF Killed, SameKin, Exists
<1>3. CASE /\ k1.cpu = k0.cpu /\ k1.first = k0.first /\ k1.current = cur
           /\ \A x \in Pid \ {p} : k1.pcb[x].rsp = k0.pcb[x].rsp
  BY <1>1, <1>2, <1>3 DEF HomeStacks
<1>4. CASE /\ k1.first = FALSE
           /\ \A x \in Pid \ {p} : k1.pcb[x].rsp = IF x = cur /\ ~k0.first THEN k0.cpu ELSE k0.pcb[x].rsp
           /\ k1.cpu = k1.pcb[k1.current].rsp
  <2>1. \A x \in Pid \ {p, IdlePid} : Exists(k1, x) => k1.pcb[x].rsp = x
    BY <1>1, <1>2, <1>4 DEF HomeStacks
  <2> QED
    BY <1>1, <1>2, <1>4, <2>1 DEF HomeStacks
<1> QED
  BY <1>3, <1>4 DEF KillCpu

\* A function that changes nothing of a process but its place in the queues.
LEMMA QueuesRun ==
  ASSUME NEW k0, Staff(k0), NEW k1, WF(k1, {}), CurOK(k1, {}), k1.nextPid = k0.nextPid, Dispatched(k0, k1),
         \A x \in Pid : /\ Queued(k0, x) => Queued(k1, x)
                        /\ InQueue(k0, "blocked", x) => InQueue(k1, "blocked", x)
                        /\ InQueue(k1, "blockedBySem", x) =>
                             InQueue(k0, "blockedBySem", x) \/ x \in {Writer, Reader}
  PROVE  Runs(k0, k1)
<1>1. /\ WF(k0, {}) /\ OwnStack(k0, {}) /\ HomeStacks(k0) /\ ShellPid \in Pid \ {IdlePid}
      /\ \A x \in Pid : x > ShellPid => x # IdlePid
  BY StaffTypes DEF Pid, ShellPid, IdlePid
<1>2. OwnStack(k1, {}) /\ HomeStacks(k1)
  BY <1>1, DispatchOwn, DispatchHome
<1>3. \A x \in Pid \ {IdlePid} : Exists(k1, x) <=> Exists(k0, x)
  BY DEF Dispatched, SameFields, SameKin, Exists
<1>4. \A x \in Pid : /\ k1.pcb[x].parentPid = k0.pcb[x].parentPid
                     /\ k1.pcb[x].waitingForPid = k0.pcb[x].waitingForPid
  BY DEF Dispatched, SameFields, SameKin
<1>5. Staff(k1)
  BY <1>1, <1>2, <1>3, <1>4 DEF Staff
<1>6. \A x \in Pid \ {IdlePid} : Suspended(k0, x) => Suspended(k1, x)
  BY <1>1, <1>3, <1>4 DEF Suspended
<1> QED
  BY <1>3, <1>5, <1>6 DEF Runs

LEMMA ScheduleRuns ==
  ASSUME NEW k0, Staff(k0)
  PROVE  Runs(k0, Schedule(k0))
<1> DEFINE k1 == Schedule(k0)
<1>1. WF(k0, {}) /\ CurOK(k0, {})
  BY DEF Staff
<1>2. /\ WF(k1, {}) /\ CurOK(k1, {}) /\ k1.nextPid = k0.nextPid
      /\ \A q \in QueueName, x \in Pid : InQueue(k1, q, x) <=> InQueue(k0, q, x)
  BY <1>1, ScheduleFact DEF Keeps, Quiet
<1>3. Dispatched(k0, k1)
  BY <1>1, ScheduleEffect
<1> HIDE DEF k1
<1>4. \A x \in Pid : /\ Queued(k0, x) => Queued(k1, x)
                     /\ InQueue(k0, "blocked", x) => InQueue(k1, "blocked", x)
                     /\ InQueue(k1, "blockedBySem", x) => InQueue(k0, "blockedBySem", x)
  BY <1>2, PidFact DEF Queued
<1>5. Runs(k0, k1)
  BY <1>2, <1>3, <1>4, QueuesRun
<1> QED
  BY <1>5 DEF k1

\* A wait of one of the commands, or of idle with a dead command's stack.
LEMMA WaitRuns ==
  ASSUME NEW k0, Staff(k0), NEW s \in SemId, k0.current \in {IdlePid, Writer, Reader}
  PROVE  Runs(k0, SemWait(k0, s))
<1> DEFINE k1 == SemWait(k0, s)
<1>1. WF(k0, {}) /\ CurOK(k0, {}) /\ k0.sems[s].value \in Nat
  BY SemTypeFact DEF Staff
<1>2. WF(k1, {}) /\ CurOK(k1, {}) /\ k1.nextPid = k0.nextPid
  BY <1>1, SemWaitFact DEF Steps, Keeps
<1>3. k1 = SemWait(k0, s)
  OBVIOUS
<1> HIDE DEF k1
<1>4. /\ Dispatched(k0, k1)
      /\ \/ \A q \in QueueName, x \in Pid : InQueue(k1, q, x) <=> InQueue(k0, q, x)
         \/ /\ k0.current # IdlePid
            /\ \A q \in QueueName, x \in Pid :
                 InQueue(k1, q, x) <=> IF x = k0.current THEN q = "blockedBySem" ELSE InQueue(k0, q, x)
  <2>1. Dispatched(k0, k1)
    BY <1>1, <1>3, SemWaitEffect
  <2>2. CASE k0.sems[s].value > 0
    BY <1>1, <1>3, <2>1, <2>2, SemTakeEffect
  <2>3. CASE k0.sems[s].value = 0 /\ k0.current = IdlePid
    <3>1. /\ WF(k0, {}) /\ CurOK(k0, {}) /\ s \in SemId /\ k0.sems[s].value = 0
          /\ k0.current = IdlePid /\ k1 = SemWait(k0, s)
      BY <1>1, <1>3, <2>3
    <3>2. /\ k1.sems = [k0.sems EXCEPT ![s].blocked = Append(@, k0.current)]
          /\ \A q \in QueueName, x \in Pid : InQueue(k1, q, x) <=> InQueue(k0, q, x)
      BY ONLY <3>1, SemIdleEffect
    <3>3. QED
      BY <2>1, <3>2
  <2>4. CASE k0.sems[s].value = 0 /\ k0.current # IdlePid
    <3>1. /\ WF(k0, {}) /\ CurOK(k0, {}) /\ s \in SemId /\ k0.sems[s].value = 0
          /\ k0.current # IdlePid /\ k0.current \notin {} /\ k1 = SemWait(k0, s)
      BY <1>1, <1>3, <2>4
    <3>2. /\ k1.sems = [k0.sems EXCEPT ![s].blocked = Append(@, k0.current)]
          /\ \A q \in QueueName, x \in Pid :
               InQueue(k1, q, x) <=> IF x = k0.current THEN q = "blockedBySem" ELSE InQueue(k0, q, x)
      BY ONLY <3>1, SemSleepEffect
    <3>3. QED
      BY <2>1, <2>4, <3>2
  <2> QED
    BY <1>1, <2>2, <2>3, <2>4
<1>5. k0.current # IdlePid => ~InQueue(k0, "blocked", k0.current) /\ k0.current \in Pid
  <2>1. k0.current # IdlePid => InQueue(k0, "ready", k0.current) /\ k0.current \in Pid
    BY StaffTypes
  <2> QED
    BY <1>1, <2>1, PidFact DEF WF, Queues
<1>6. \A x \in Pid : /\ Queued(k0, x) => Queued(k1, x)
                     /\ InQueue(k0, "blocked", x) => InQueue(k1, "blocked", x)
                     /\ InQueue(k1, "blockedBySem", x) =>
                          InQueue(k0, "blockedBySem", x) \/ x \in {Writer, Reader}
  <2> SUFFICES ASSUME NEW x \in Pid
               PROVE  /\ Queued(k0, x) => Queued(k1, x)
                      /\ InQueue(k0, "blocked", x) => InQueue(k1, "blocked", x)
                      /\ InQueue(k1, "blockedBySem", x) =>
                           InQueue(k0, "blockedBySem", x) \/ x \in {Writer, Reader}
    OBVIOUS
  <2>1. CASE \A q \in QueueName, y \in Pid : InQueue(k1, q, y) <=> InQueue(k0, q, y)
    BY <2>1, PidFact DEF Queued
  <2>2. CASE /\ k0.current # IdlePid
             /\ \A q \in QueueName, y \in Pid :
                  InQueue(k1, q, y) <=> IF y = k0.current THEN q = "blockedBySem" ELSE InQueue(k0, q, y)
    <3>1. CASE x = k0.current
      BY <1>5, <2>2, <3>1, PidFact DEF Queued
    <3>2. CASE x # k0.current
      BY <2>2, <3>2, PidFact DEF Queued
    <3> QED
      BY <3>1, <3>2
  <2> QED
    BY <1>4, <2>1, <2>2
<1>7. Runs(k0, k1)
  BY <1>2, <1>4, <1>6, QueuesRun
<1> QED
  BY <1>7 DEF k1

LEMMA PostRuns ==
  ASSUME NEW k0, Staff(k0), NEW s \in SemId
  PROVE  Runs(k0, SemPost(k0, s)) /\ Runs(k0, SemClose(k0, s))
<1> DEFINE k1 == SemPost(k0, s)
           k2 == SemClose(k0, s)
<1>1. WF(k0, {}) /\ CurOK(k0, {})
  BY DEF Staff
<1>2. /\ WF(k1, {}) /\ CurOK(k1, {}) /\ k1.nextPid = k0.nextPid
      /\ WF(k2, {}) /\ CurOK(k2, {}) /\ k2.nextPid = k0.nextPid
  BY <1>1, SemPostFact, SemEntryFact DEF Steps, Keeps
<1>3. Dispatched(k0, k1) /\ OnlySleepersMove(k0, k1)
  BY <1>1, SemPostEffect, PostMoves DEF Dispatched
<1>4. SameFields(k0, k2) /\ SameCpu(k0, k2) /\ k2.queue = k0.queue
  <2>1. k2 = SemClose(k0, s) /\ 0 \in Nat
    OBVIOUS
  <2> HIDE DEF k2
  <2> QED
    BY <1>1, <2>1, EntryEffect
<1> HIDE DEF k1, k2
<1>5. Runs(k0, k1)
  BY <1>2, <1>3, QueuesRun DEF OnlySleepersMove
<1>6. \A x \in Pid : /\ Queued(k0, x) => Queued(k2, x)
                     /\ InQueue(k0, "blocked", x) => InQueue(k2, "blocked", x)
                     /\ InQueue(k2, "blockedBySem", x) => InQueue(k0, "blockedBySem", x)
  BY <1>4 DEF Queued, InQueue
<1>7. Runs(k0, k2)
  BY <1>2, <1>4, <1>6, QueuesRun DEF Dispatched
<1> QED
  BY <1>5, <1>7 DEF k1, k2

\* A death wakes the shell only if it is the one that the shell waits for.
LEMMA KillRuns ==
  ASSUME NEW k0, Staff(k0), NEW p \in Pid
  PROVE  Runs(k0, Kill(k0, p))
<1> DEFINE k1 == Kill(k0, p)
<1>1. /\ WF(k0, {}) /\ CurOK(k0, {}) /\ OwnStack(k0, {}) /\ HomeStacks(k0) /\ k0.pcb \in [Pid -> Pcb]
      /\ ShellPid \in Pid \ {IdlePid}
  BY StaffTypes
<1>2. WF(k1, {}) /\ CurOK(k1, {})
  BY <1>1, KillFact DEF Sound
<1>3. IF p > ShellPid /\ Killable(k0, p)
      THEN Killed(k0, k1, p) /\ KillCpu(k0, k1, p)
      ELSE k1 = k0
  BY <1>1, KillEffect
<1>4. CASE k1 = k0
  BY <1>4 DEF Runs
<1>5. CASE p > ShellPid /\ Killable(k0, p)
  <2>1. Killed(k0, k1, p) /\ KillCpu(k0, k1, p) /\ p # IdlePid /\ p # ShellPid
    BY <1>3, <1>5 DEF Pid, ShellPid, IdlePid
  <2>2. \A x \in Pid \ {p} :
          /\ Queued(k0, x) => Queued(k1, x)
          /\ InQueue(k0, "blocked", x) /\ ~Wakes(k0, x, k0.pcb[p].parentPid, p) => InQueue(k1, "blocked", x)
    BY <1>1, <1>5, KillMoves
  <2> HIDE DEF k1
  <2>3. OwnStack(k1, {}) /\ HomeStacks(k1)
    BY <1>1, <1>2, <2>1, KillOwn, KillHome
  <2>4. /\ ~Exists(k1, p)
        /\ \A x \in Pid \ {p} : SameKin(k0, k1, x)
        /\ \A x \in Pid : InQueue(k1, "blockedBySem", x) => InQueue(k0, "blockedBySem", x)
    BY <2>1 DEF Killed, Exists
  <2>5. \A x \in Pid \ {p} : /\ k1.pcb[x].parentPid = k0.pcb[x].parentPid
                             /\ k1.pcb[x].waitingForPid = k0.pcb[x].waitingForPid
                             /\ x # IdlePid => (Exists(k1, x) <=> Exists(k0, x))
    BY <2>4 DEF SameKin, Exists
  <2>6. Exists(k1, ShellPid)
    BY <1>1, <2>1, <2>5 DEF Staff
  <2>7. \A x \in Pid \ {IdlePid} : Exists(k1, x) => Queued(k1, x)
    BY <2>2, <2>4, <2>5 DEF Staff
  <2>8. \A x \in Pid : x > ShellPid /\ Exists(k1, x) => k1.pcb[x].parentPid = ShellPid
    <3>1. \A x \in Pid : x > ShellPid => x # IdlePid
      BY DEF Pid, ShellPid, IdlePid
    <3> QED
      BY <2>4, <2>5, <3>1 DEF Staff
  <2>9. Staff(k1)
    BY <1>2, <2>3, <2>4, <2>6, <2>7, <2>8 DEF Staff
  <2>10. ASSUME NEW x \in Pid \ {IdlePid}, Suspended(k0, x) PROVE Suspended(k1, x)
    <3> SUFFICES ASSUME Exists(k1, x)
                 PROVE  InQueue(k1, "blocked", ShellPid) /\ k1.pcb[ShellPid].waitingForPid = x
      BY DEF Suspended
    <3>1. x # p /\ Exists(k0, x)
      BY <2>4, <2>5
    <3>2. InQueue(k0, "blocked", ShellPid) /\ k0.pcb[ShellPid].waitingForPid = x
      BY <2>10, <3>1 DEF Suspended
    <3>3. ~Wakes(k0, ShellPid, k0.pcb[p].parentPid, p)
      BY <3>1, <3>2 DEF Wakes
    <3> QED
      BY <1>1, <2>1, <2>2, <2>5, <3>2, <3>3
  <2>11. \A x \in Pid \ {IdlePid} : Exists(k1, x) => Exists(k0, x)
    BY <2>4, <2>5
  <2>12. Runs(k0, k1)
    BY <2>9, <2>10, <2>11 DEF Runs
  <2> QED
    BY <2>12 DEF k1
<1> QED
  BY <1>3, <1>4, <1>5

\* The shell waits for a process that lives.
LEMMA WaitpidRuns ==
  ASSUME NEW k0, Staff(k0), k0.current = ShellPid, NEW p \in Pid, NEW k1, k1 = WaitpidBlock(k0, p)
  PROVE  /\ Staff(k1) /\ Suspended(k1, p)
         /\ \A x \in Pid \ {IdlePid} : Exists(k1, x) => Exists(k0, x)
<1>1. /\ WF(k0, {}) /\ CurOK(k0, {}) /\ OwnStack(k0, {}) /\ HomeStacks(k0)
      /\ ShellPid \in Pid \ {IdlePid} /\ InQueue(k0, "ready", ShellPid)
  BY StaffTypes
<1>2. CanBlock(k0, ShellPid)
  BY <1>1, PidFact DEF CanBlock, WF, Queues
<1>3. WF(k1, {}) /\ CurOK(k1, {})
  BY <1>1, WaitpidBlockFact DEF Sound
<1>4. /\ k1.nextPid = k0.nextPid /\ Switched(k0, k1)
      /\ \A x \in Pid : /\ k1.pcb[x].parentPid = k0.pcb[x].parentPid
                        /\ x # IdlePid => (k1.pcb[x].state = "UNUSED" <=> k0.pcb[x].state = "UNUSED")
      /\ k1.pcb[ShellPid].waitingForPid = p
  BY <1>1, <1>2, WaitpidBlockEffect
<1>5. OneMoves(k0, k1, ShellPid, "blocked")
  BY <1>1, <1>2, WaitpidQueues
<1>6. \A x \in Pid \ {IdlePid} : Exists(k1, x) <=> Exists(k0, x)
  BY <1>4 DEF Exists
<1>7. OwnStack(k1, {})
  BY <1>1, <1>3, <1>4, <1>6, StackOwn
<1>8. HomeStacks(k1)
  <2>1. /\ k1.current \in Pid /\ (k1.current # IdlePid => Exists(k1, k1.current))
        /\ k0.current \in Pid
    BY <1>1, <1>3 DEF WF, KernelState, CurOK, States, Exists
  <2>2. \A x \in Pid \ {IdlePid} : Exists(k1, x) => k1.pcb[x].rsp = x
    BY <1>1, <1>4, <1>6, <2>1 DEF Switched, HomeStacks
  <2> QED
    BY <1>4, <2>1, <2>2 DEF Switched, HomeStacks
<1>9. \A x \in Pid : Queued(k0, x) => Queued(k1, x)
  BY <1>5, PidFact DEF OneMoves, Queued
<1>10. \A x \in Pid : InQueue(k1, "blockedBySem", x) => InQueue(k0, "blockedBySem", x)
  BY <1>5, PidFact DEF OneMoves
<1>11. Staff(k1)
  <2>1. \A x \in Pid : x > ShellPid => x # IdlePid
    BY DEF Pid, ShellPid, IdlePid
  <2> QED
    BY <1>1, <1>3, <1>4, <1>6, <1>7, <1>8, <1>9, <1>10, <2>1 DEF Staff
<1>12. Suspended(k1, p)
  BY <1>1, <1>4, <1>5, PidFact DEF Suspended, OneMoves
<1> QED
  BY <1>6, <1>11, <1>12

LEMMA StartedStaff == Staff(Started)
<1>1. BootOK(Started, MaxPid)
  BY BootAll
<1> DEFINE k0 == Started
<1> HIDE DEF k0
<1>2. /\ WF(k0, {}) /\ CurOK(k0, {}) /\ k0.nextPid = MaxPid + 1
      /\ k0.first = FALSE /\ k0.cpu = k0.current /\ k0.current = ShellPid
      /\ \A x \in Pid : x < k0.nextPid => k0.pcb[x].rsp = x
      /\ \A x \in Pid \ {IdlePid} : x < k0.nextPid => InQueue(k0, "ready", x)
      /\ \A x \in Pid : ShellPid < x /\ x < k0.nextPid => k0.pcb[x].parentPid = ShellPid
  BY <1>1 DEF BootOK, k0
<1>3. /\ \A x \in Pid : x < k0.nextPid /\ x \in Int
      /\ ShellPid \in Pid \ {IdlePid} /\ ShellPid \in Int
  BY <1>2, MaxPidAssumption DEF Pid, ShellPid, IdlePid
<1>4. \A x \in Pid \ {IdlePid} : InQueue(k0, "ready", x) /\ Queued(k0, x) /\ Exists(k0, x)
  BY <1>2, <1>3, PidFact DEF Queued, Exists, WF, States
<1>5. \A x \in Pid : k0.pcb[x].rsp = x
  BY <1>2, <1>3
<1>6. OwnStack(k0, {})
  BY <1>2, <1>3, <1>5 DEF OwnStack
<1>7. HomeStacks(k0)
  BY <1>2, <1>5 DEF HomeStacks
<1>8. \A x \in Pid : ~InQueue(k0, "blockedBySem", x)
  <2>1. Queues(k0)
    BY <1>2 DEF WF
  <2> QED
    BY <1>4, <2>1, PidFact DEF Queues
<1>9. \A x \in Pid : x > ShellPid => k0.pcb[x].parentPid = ShellPid
  <2>1. \A x \in Pid : x > ShellPid => ShellPid < x
    BY <1>3
  <2> QED
    BY <1>2, <1>3, <2>1
<1>10. Staff(k0)
  BY <1>2, <1>3, <1>4, <1>6, <1>7, <1>8, <1>9 DEF Staff
<1> QED
  BY <1>10 DEF k0

\* What the contexts do: the commands read and write, the shell waits.
LineJob ==
  [base : {"user", "halt"}, op : {"none", "read", "write", "waitpid"},
   at : {"token", "mutex", "body", "waitpid"}, left : Int]

Roles(jobs, line) ==
  /\ jobs \in [Context -> LineJob] /\ line \in [shell : ShellState, left : Int]
  /\ \A c \in Context : jobs[c].op \in {"read", "write"} => c \in {Writer, Reader}
  /\ \A c \in Context : jobs[c].op = "waitpid" =>
       c = ShellPid /\ jobs[c].at = "waitpid" /\ line.shell \in {"wait1", "wait2"}

\* What the shell has waited for is gone.
Waited(k0, line) ==
  /\ line.shell # "wait1" => ~Exists(k0, Writer)
  /\ line.shell \in {"close", "prompt"} => ~Exists(k0, Reader)

PipelineInv ==
  /\ Staff(k) /\ Roles(job, prog) /\ Waited(k, prog)
  /\ job[ShellPid].op = "waitpid" => Suspended(k, Target)

LEMMA LineFact ==
  ASSUME MaxPid >= 3
  PROVE  /\ Writer \in Pid \ {IdlePid} /\ Reader \in Pid \ {IdlePid} /\ Target \in Pid \ {IdlePid}
         /\ Writer > ShellPid /\ Reader > ShellPid /\ Writer # ShellPid /\ Reader # ShellPid
         /\ ShellPid \in Pid \ {IdlePid} /\ Pid \subseteq Context
         /\ Target \in {Writer, Reader} /\ Target > ShellPid /\ Target # ShellPid
BY MaxPidAssumption DEF Writer, Reader, Target, Pid, ShellPid, IdlePid, Context

\* A step after which the shell is where it was.
LEMMA LineKept ==
  ASSUME MaxPid >= 3, PipelineInv, Runs(k, k'), prog'.shell = prog.shell, Roles(job', prog'),
         job'[ShellPid].op = "waitpid" => job[ShellPid].op = "waitpid"
  PROVE  PipelineInv'
<1>1. Target' = Target
  BY DEF Target
<1>2. Waited(k', prog')
  BY LineFact DEF PipelineInv, Waited, Runs
<1>3. job'[ShellPid].op = "waitpid" => Suspended(k', Target)
  BY LineFact DEF PipelineInv, Runs
<1>4. Staff(k')
  BY DEF Runs
<1> QED
  BY <1>1, <1>2, <1>3, <1>4 DEF PipelineInv

\* The shell goes on after a wait whose target is gone.
LEMMA ShellGoesOn ==
  ASSUME MaxPid >= 3, PipelineInv, prog.shell \in {"wait1", "wait2"}, ~Exists(k, Target),
         prog' = [prog EXCEPT !.shell = AfterWait], k' = k,
         job' = job \/ job' = [job EXCEPT ![ShellPid] = NoJob("user")],
         job'[ShellPid].op = "none"
  PROVE  PipelineInv'
<1>1. Staff(k) /\ Roles(job, prog) /\ Waited(k, prog)
  BY DEF PipelineInv
<1>2. /\ prog' \in [shell : ShellState, left : Int] /\ prog'.shell = AfterWait
      /\ AfterWait \in {"wait2", "close"}
  BY <1>1 DEF Roles, AfterWait, ShellState
<1>3. Waited(k', prog')
  BY <1>1, <1>2 DEF Waited, AfterWait, Target
<1>4. Roles(job', prog')
  <2>1. NoJob("user") \in LineJob /\ NoJob("user").op = "none"
    BY DEF NoJob, LineJob
  <2>2. job' \in [Context -> LineJob]
    BY <1>1, <2>1 DEF Roles
  <2>3. \A c \in Context : c # ShellPid => job'[c] = job[c]
    BY <1>1 DEF Roles
  <2>4. \A c \in Context : job'[c].op \in {"read", "write"} => c \in {Writer, Reader}
    BY <1>1, <2>3 DEF Roles
  <2>5. \A c \in Context : job'[c].op # "waitpid"
    BY <1>1, <2>3 DEF Roles
  <2> QED
    BY <1>2, <2>2, <2>4, <2>5 DEF Roles
<1> QED
  BY <1>1, <1>3, <1>4 DEF PipelineInv

LEMMA LineInit ==
  ASSUME MaxPid >= 3
  PROVE  PipelineInit => PipelineInv
<1> SUFFICES ASSUME PipelineInit PROVE PipelineInv
  OBVIOUS
<1>1. k = Started /\ prog = [shell |-> "wait1", left |-> Output]
      /\ job = [c \in Context |-> NoJob(IF c \in {IdlePid, BootCtx} THEN "halt" ELSE "user")]
  BY DEF PipelineInit, Init
<1>2. Staff(k)
  BY <1>1, StartedStaff
<1>3. \A c \in Context : job[c] \in LineJob /\ job[c].op = "none"
  BY <1>1 DEF NoJob, LineJob
<1>4. job \in [Context -> LineJob]
  BY <1>1, <1>3
<1>5. prog \in [shell : ShellState, left : Int] /\ prog.shell = "wait1"
  BY <1>1, PipelineAssumption DEF ShellState
<1>6. Roles(job, prog)
  BY <1>3, <1>4, <1>5 DEF Roles
<1>7. Waited(k, prog)
  BY <1>5 DEF Waited
<1>8. job[ShellPid].op # "waitpid"
  BY <1>3, LineFact
<1> QED
  BY <1>2, <1>6, <1>7, <1>8 DEF PipelineInv

\* Who has the CPU.
LEMMA OnCpu ==
  ASSUME MaxPid >= 3, PipelineInv
  PROVE  /\ k.cpu \in Context /\ job[k.cpu] \in LineJob
         /\ k.cpu = ShellPid => k.current = ShellPid
         /\ k.cpu \in {Writer, Reader} => k.current \in {IdlePid, Writer, Reader}
<1>1. Staff(k) /\ Roles(job, prog)
  BY DEF PipelineInv
<1>2. /\ k.cpu \in Context /\ OwnStack(k, {}) /\ HomeStacks(k) /\ Exists(k, ShellPid)
  BY <1>1, StaffTypes DEF Staff
<1>3. job[k.cpu] \in LineJob
  BY <1>1, <1>2 DEF Roles
<1>4. k.cpu = ShellPid => k.current = ShellPid
  BY <1>2, LineFact DEF OwnStack
<1>5. k.cpu \in {Writer, Reader} => k.current \in {IdlePid, Writer, Reader}
  BY <1>2 DEF HomeStacks
<1> QED
  BY <1>2, <1>3, <1>4, <1>5

\* A statement of pipeRead or pipeWrite is one of a command's.
LEMMA CommandStep ==
  ASSUME MaxPid >= 3, PipelineInv, NEW place \in {"token", "mutex", "body"}, At(place)
  PROVE  /\ job[k.cpu].op \in {"read", "write"} /\ k.cpu \in {Writer, Reader}
         /\ k.current \in {IdlePid, Writer, Reader}
<1>1. k.cpu \in Context /\ job[k.cpu] \in LineJob /\ Roles(job, prog)
  BY OnCpu DEF PipelineInv
<1>2. job[k.cpu].op # "none" /\ job[k.cpu].at = place
  BY DEF At
<1>3. job[k.cpu].op # "waitpid"
  BY <1>1, <1>2 DEF Roles
<1>4. job[k.cpu].op \in {"read", "write"}
  BY <1>1, <1>2, <1>3 DEF LineJob
<1>5. k.cpu \in {Writer, Reader}
  BY <1>1, <1>4 DEF Roles
<1> QED
  BY <1>4, <1>5, OnCpu

\* A command's context changes what it does.
LEMMA RolesKept ==
  ASSUME MaxPid >= 3, PipelineInv, NEW c \in {Writer, Reader}, NEW j \in LineJob, j.op # "waitpid",
         job' = [job EXCEPT ![c] = j],
         prog'.shell = prog.shell, prog' \in [shell : ShellState, left : Int]
  PROVE  Roles(job', prog') /\ (job'[ShellPid].op = "waitpid" => job[ShellPid].op = "waitpid")
<1>1. c \in Context /\ c # ShellPid /\ job \in [Context -> LineJob] /\ ShellPid \in Context
  BY LineFact DEF PipelineInv, Roles
<1>2. job' \in [Context -> LineJob] /\ job'[c] = j /\ \A x \in Context \ {c} : job'[x] = job[x]
  BY <1>1
<1> QED
  BY <1>1, <1>2 DEF PipelineInv, Roles

LEMMA LineKernel ==
  ASSUME MaxPid >= 3, PipelineInv, KernelStep, UNCHANGED prog
  PROVE  PipelineInv'
<1> DEFINE c == k.cpu
<1>1. Staff(k) /\ Roles(job, prog) /\ job \in [Context -> LineJob] /\ c \in Context /\ job[c] \in LineJob
  BY OnCpu DEF PipelineInv, Roles
<1>2. prog'.shell = prog.shell /\ prog' \in [shell : ShellState, left : Int]
  BY <1>1 DEF Roles
<1>3. semReaders \in SemId /\ semWriters \in SemId /\ mutex \in SemId
  BY PipeSemFact
<1>4. \A op : TokenOf(op) \in SemId /\ SignalOf(op) \in SemId
  BY <1>3 DEF TokenOf, SignalOf
<1>5. \A j \in LineJob : j.op \in {"read", "write"} =>
        /\ ByteDone(j) \in LineJob /\ ByteDone(j).op # "waitpid"
        /\ [j EXCEPT !.at = "mutex"] \in LineJob /\ [j EXCEPT !.at = "mutex"].op = j.op
        /\ [j EXCEPT !.at = "body"] \in LineJob /\ [j EXCEPT !.at = "body"].op = j.op
  <2> SUFFICES ASSUME NEW j \in LineJob, j.op \in {"read", "write"}
               PROVE  /\ ByteDone(j) \in LineJob /\ ByteDone(j).op # "waitpid"
                      /\ [j EXCEPT !.at = "mutex"] \in LineJob /\ [j EXCEPT !.at = "mutex"].op = j.op
                      /\ [j EXCEPT !.at = "body"] \in LineJob /\ [j EXCEPT !.at = "body"].op = j.op
    OBVIOUS
  <2>1. ASSUME j.left > 1 PROVE ByteDone(j) \in LineJob /\ ByteDone(j).op # "waitpid"
    <3>1. ByteDone(j) = [j EXCEPT !.at = "token", !.left = j.left - 1]
      BY <2>1 DEF ByteDone
    <3> DEFINE j1 == [j EXCEPT !.at = "token"]
    <3>2. j1 \in LineJob /\ j1.op = j.op /\ j1.left = j.left /\ j.left - 1 \in Int
      BY DEF LineJob
    <3>3. \A n \in Int : [j1 EXCEPT !.left = n] \in LineJob /\ [j1 EXCEPT !.left = n].op = j1.op
      BY <3>2 DEF LineJob
    <3> QED
      BY <3>1, <3>2, <3>3
  <2>2. ASSUME ~(j.left > 1) PROVE ByteDone(j) \in LineJob /\ ByteDone(j).op # "waitpid"
    <3>1. ByteDone(j) = NoJob(j.base)
      BY <2>2 DEF ByteDone
    <3> QED
      BY <3>1 DEF NoJob, LineJob
  <2>3. /\ [j EXCEPT !.at = "mutex"] \in LineJob /\ [j EXCEPT !.at = "mutex"].op = j.op
        /\ [j EXCEPT !.at = "body"] \in LineJob /\ [j EXCEPT !.at = "body"].op = j.op
    BY DEF LineJob
  <2>4. ByteDone(j) \in LineJob /\ ByteDone(j).op # "waitpid"
    BY <2>1, <2>2
  <2> QED
    BY <2>3, <2>4
<1> HIDE DEF c
<1>6. ASSUME WaitToken PROVE PipelineInv'
  <2>1. /\ job[c].op \in {"read", "write"} /\ c \in {Writer, Reader}
        /\ k.current \in {IdlePid, Writer, Reader}
        /\ k' = SemWait(k, TokenOf(job[c].op)) /\ job' = [job EXCEPT ![c].at = "mutex"]
    BY <1>6, CommandStep DEF WaitToken, c
  <2>2. Runs(k, k')
    BY <1>1, <1>4, <2>1, WaitRuns
  <2>3. job' = [job EXCEPT ![c] = [job[c] EXCEPT !.at = "mutex"]]
    BY <1>1, <2>1
  <2>4. Roles(job', prog') /\ (job'[ShellPid].op = "waitpid" => job[ShellPid].op = "waitpid")
    BY <1>1, <1>2, <1>5, <2>1, <2>3, RolesKept
  <2> QED
    BY <1>2, <2>2, <2>4, LineKept
<1>7. ASSUME WaitMutex PROVE PipelineInv'
  <2>1. /\ job[c].op \in {"read", "write"} /\ c \in {Writer, Reader}
        /\ k.current \in {IdlePid, Writer, Reader}
        /\ k' = SemWait(k, mutex) /\ job' = [job EXCEPT ![c].at = "body"]
    BY <1>7, CommandStep DEF WaitMutex, c
  <2>2. Runs(k, k')
    BY <1>1, <1>3, <2>1, WaitRuns
  <2>3. job' = [job EXCEPT ![c] = [job[c] EXCEPT !.at = "body"]]
    BY <1>1, <2>1
  <2>4. Roles(job', prog') /\ (job'[ShellPid].op = "waitpid" => job[ShellPid].op = "waitpid")
    BY <1>1, <1>2, <1>5, <2>1, <2>3, RolesKept
  <2> QED
    BY <1>2, <2>2, <2>4, LineKept
<1>8. ASSUME NEW op, At("body"), job[c].op = op, k' = Signal(op), NextByte(c)
      PROVE  PipelineInv'
  <2>1. job[c].op \in {"read", "write"} /\ c \in {Writer, Reader}
    BY <1>8, CommandStep DEF c
  <2>2. Runs(k, SemPost(k, mutex))
    BY <1>1, <1>3, PostRuns
  <2>3. Staff(SemPost(k, mutex))
    BY <2>2 DEF Runs
  <2>4. Runs(SemPost(k, mutex), SemPost(SemPost(k, mutex), SignalOf(op)))
    BY <1>4, <2>3, PostRuns
  <2>5. Runs(k, k')
    BY <1>8, <2>2, <2>4, RunsTrans DEF Signal
  <2>6. job' = [job EXCEPT ![c] = ByteDone(job[c])]
    BY <1>8 DEF NextByte
  <2>7. Roles(job', prog') /\ (job'[ShellPid].op = "waitpid" => job[ShellPid].op = "waitpid")
    BY <1>1, <1>2, <1>5, <2>1, <2>6, RolesKept
  <2> QED
    BY <1>2, <2>5, <2>7, LineKept
<1>9. ASSUME ReadBody PROVE PipelineInv'
  BY <1>8, <1>9 DEF ReadBody, c
<1>10. ASSUME NEW b \in Byte, WriteBody(b) PROVE PipelineInv'
  BY <1>8, <1>10 DEF WriteBody, c
<1>11. ~ClearBody
  <2>1. At("body") => job[c].op \in {"read", "write"}
    BY CommandStep DEF c
  <2> QED
    BY <2>1 DEF ClearBody, c
<1> QED
  BY <1>6, <1>7, <1>9, <1>10, <1>11 DEF KernelStep

\* The shell's system calls.
LEMMA LineShell ==
  ASSUME MaxPid >= 3, PipelineInv, ShellWait \/ ShellResume \/ ShellClose
  PROVE  PipelineInv'
<1>1. /\ Staff(k) /\ Roles(job, prog) /\ Waited(k, prog)
      /\ job \in [Context -> LineJob] /\ ShellPid \in Context /\ job[ShellPid] \in LineJob
      /\ prog \in [shell : ShellState, left : Int]
  BY LineFact DEF PipelineInv, Roles
<1>2. /\ ShellPid \in Pid \ {IdlePid} /\ Target \in Pid \ {IdlePid}
      /\ Target \in {Writer, Reader} /\ Target > ShellPid /\ Target # ShellPid
  BY LineFact
<1>3. k.cpu = ShellPid => k.current = ShellPid
  BY OnCpu
<1>4. k.current = ShellPid => Exists(k, ShellPid) /\ InQueue(k, "ready", ShellPid)
  BY <1>1, <1>2, StaffTypes
<1>5. ASSUME ShellWait PROVE PipelineInv'
  <2>1. /\ k.cpu = ShellPid /\ k.current = ShellPid /\ job[ShellPid].op = "none"
        /\ prog.shell \in {"wait1", "wait2"}
    BY <1>3, <1>5 DEF ShellWait, InProgram, Interruptible
  <2>2. CASE MayWaitFor(k, Target) /\ CanBlock(k, ShellPid)
    <3>1. /\ k' = WaitpidBlock(k, Target) /\ prog' = prog
          /\ job' = [job EXCEPT ![ShellPid].op = "waitpid", ![ShellPid].at = "waitpid"]
      BY <1>5, <2>2 DEF ShellWait
    <3>2. /\ Staff(k') /\ Suspended(k', Target)
          /\ \A x \in Pid \ {IdlePid} : Exists(k', x) => Exists(k, x)
      BY <1>1, <1>2, <2>1, <3>1, WaitpidRuns
    <3>3. Target' = Target
      BY <3>1 DEF Target
    <3>4. Waited(k', prog')
      BY <1>1, <3>1, <3>2, LineFact DEF Waited
    <3>5. Roles(job', prog')
      <4>1. /\ \A x \in Context \ {ShellPid} : job'[x] = job[x]
            /\ job'[ShellPid].op = "waitpid" /\ job'[ShellPid].at = "waitpid"
            /\ job'[ShellPid] \in LineJob /\ job' \in [Context -> LineJob]
        BY <1>1, <3>1 DEF LineJob
      <4> QED
        BY <1>1, <2>1, <3>1, <4>1 DEF Roles
    <3> QED
      BY <3>2, <3>3, <3>4, <3>5 DEF PipelineInv
  <2>3. CASE ~(MayWaitFor(k, Target) /\ CanBlock(k, ShellPid))
    <3>1. /\ prog' = [prog EXCEPT !.shell = AfterWait] /\ k' = k /\ job' = job
      BY <1>5, <2>3 DEF ShellWait
    <3>2. CanBlock(k, ShellPid)
      BY <1>1, <1>2, <1>4, <2>1, PidFact DEF CanBlock, Staff, WF, Queues
    <3>3. ~Exists(k, Target)
      <4>1. Exists(k, Target) => Queued(k, Target) /\ k.pcb[Target].parentPid = k.current
        BY <1>1, <1>2, <2>1 DEF Staff
      <4> QED
        BY <2>3, <3>2, <4>1 DEF MayWaitFor, HasProcess, Queued
    <3> QED
      BY <2>1, <3>1, <3>3, ShellGoesOn
  <2> QED
    BY <2>2, <2>3
<1>6. ASSUME ShellResume PROVE PipelineInv'
  <2>1. /\ k.current = ShellPid /\ job[ShellPid].op = "waitpid" /\ k' = k
        /\ prog' = [prog EXCEPT !.shell = AfterWait] /\ job' = [job EXCEPT ![ShellPid] = NoJob("user")]
    BY <1>3, <1>6 DEF ShellResume
  <2>2. prog.shell \in {"wait1", "wait2"} /\ Suspended(k, Target)
    BY <1>1, <2>1 DEF PipelineInv, Roles
  <2>3. ~InQueue(k, "blocked", ShellPid)
    BY <1>1, <1>2, <1>4, <2>1, PidFact DEF Staff, WF, Queues
  <2>4. ~Exists(k, Target)
    BY <2>2, <2>3 DEF Suspended
  <2>5. job'[ShellPid].op = "none"
    BY <1>1, <2>1 DEF NoJob
  <2> QED
    BY <2>1, <2>2, <2>4, <2>5, ShellGoesOn
<1>7. ASSUME ShellClose PROVE PipelineInv'
  <2> DEFINE k1 == SemClose(k, semReaders)
             k2 == SemClose(k1, semWriters)
  <2>1. /\ k' = SemClose(k2, mutex) /\ prog' = [prog EXCEPT !.shell = "prompt"] /\ job' = job
        /\ prog.shell = "close" /\ job[ShellPid].op = "none"
    BY <1>7 DEF ShellClose, InProgram, Interruptible
  <2>2. semReaders \in SemId /\ semWriters \in SemId /\ mutex \in SemId
    BY PipeSemFact
  <2>3. Runs(k, k1) /\ Staff(k1)
    BY <1>1, <2>2, PostRuns DEF Runs
  <2>4. Runs(k1, k2) /\ Staff(k2)
    BY <2>2, <2>3, PostRuns DEF Runs
  <2>5. Runs(k2, k')
    BY <2>1, <2>2, <2>4, PostRuns
  <2> HIDE DEF k1, k2
  <2>6. Runs(k, k')
    BY <2>3, <2>4, <2>5, RunsTrans
  <2>7. prog' \in [shell : ShellState, left : Int] /\ prog'.shell = "prompt"
    BY <1>1, <2>1 DEF ShellState
  <2>8. Waited(k', prog')
    BY <1>1, <2>1, <2>6, <2>7, LineFact DEF Waited, Runs
  <2>9. Roles(job', prog')
    BY <1>1, <2>1, <2>7 DEF Roles
  <2> QED
    BY <2>1, <2>6, <2>8, <2>9 DEF PipelineInv, Runs
<1> QED
  BY <1>5, <1>6, <1>7

\* The commands' system calls, and their ends.
LEMMA LineCommands ==
  ASSUME MaxPid >= 3, PipelineInv, WriterWrites \/ WriterExits \/ ReaderReads \/ DeadReaderStops
  PROVE  PipelineInv'
<1> DEFINE c == k.cpu
<1>1. /\ Staff(k) /\ Roles(job, prog) /\ job \in [Context -> LineJob]
      /\ c \in Context /\ job[c] \in LineJob /\ c \in {Writer, Reader} /\ job[c].op = "none"
      /\ prog \in [shell : ShellState, left : Int]
  BY OnCpu DEF PipelineInv, Roles, WriterWrites, WriterExits, ReaderReads, DeadReaderStops, FindsPipe,
               InProgram, Interruptible
<1> HIDE DEF c
<1>2. ASSUME NEW op \in {"read", "write"}, Start(op, "token", 1),
             prog'.shell = prog.shell, prog' \in [shell : ShellState, left : Int]
      PROVE  PipelineInv'
  <2> DEFINE j == [[[job[c] EXCEPT !.op = op] EXCEPT !.at = "token"] EXCEPT !.left = 1]
  <2>1. j \in LineJob /\ j.op = op
    <3> DEFINE i == [job[c] EXCEPT !.op = op]
               h == [i EXCEPT !.at = "token"]
    <3>1. i \in LineJob /\ i.op = op
      BY <1>1 DEF LineJob
    <3> HIDE DEF i
    <3>2. h \in LineJob /\ h.op = op
      BY <3>1 DEF LineJob
    <3> HIDE DEF h
    <3>3. [h EXCEPT !.left = 1] \in LineJob /\ [h EXCEPT !.left = 1].op = op
      BY <3>2 DEF LineJob
    <3> QED
      BY <3>3 DEF h, i
  <2>2. job' = [job EXCEPT ![c] = j] /\ k' = k
    BY <1>1, <1>2 DEF Start, c
  <2>3. Roles(job', prog') /\ (job'[ShellPid].op = "waitpid" => job[ShellPid].op = "waitpid")
    BY <1>1, <1>2, <2>1, <2>2, RolesKept
  <2>4. Runs(k, k')
    BY <1>1, <2>2 DEF Runs
  <2> QED
    BY <1>2, <2>3, <2>4, LineKept
<1>3. ASSUME WriterWrites PROVE PipelineInv'
  <2>1. /\ Start("write", "token", 1) \/ UNCHANGED vars
        /\ prog' = [prog EXCEPT !.left = prog.left - 1]
    BY <1>3 DEF WriterWrites
  <2>2. prog.left - 1 \in Int
    BY <1>1
  <2>3. prog'.shell = prog.shell /\ prog' \in [shell : ShellState, left : Int]
    BY <1>1, <2>1, <2>2
  <2>4. CASE Start("write", "token", 1)
    BY <1>2, <2>3, <2>4
  <2>5. CASE UNCHANGED vars
    <3>1. Runs(k, k') /\ job' = job
      BY <1>1, <2>5 DEF vars, Runs
    <3>2. Roles(job', prog') /\ prog'.shell = prog.shell
      BY <1>1, <2>3, <3>1 DEF Roles
    <3> QED
      BY <2>3, <3>1, <3>2, LineKept
  <2> QED
    BY <2>1, <2>4, <2>5
<1>4. ASSUME ReaderReads PROVE PipelineInv'
  BY <1>1, <1>2, <1>4 DEF ReaderReads
<1>5. ASSUME WriterExits \/ DeadReaderStops PROVE PipelineInv'
  <2> DEFINE j == [job[c] EXCEPT !.base = "halt"]
  <2>1. j \in LineJob /\ j.op = "none"
    BY <1>1 DEF LineJob
  <2>2. job' = [job EXCEPT ![c] = j] /\ k' = Kill(k, k.current) /\ prog' = prog
    BY <1>1, <1>5 DEF WriterExits, DeadReaderStops, InProgram, c
  <2>3. Roles(job', prog') /\ (job'[ShellPid].op = "waitpid" => job[ShellPid].op = "waitpid")
    BY <1>1, <2>1, <2>2, RolesKept
  <2>4. Runs(k, k')
    BY <1>1, <2>2, StaffTypes, KillRuns
  <2> QED
    BY <2>2, <2>3, <2>4, LineKept
<1> QED
  BY <1>3, <1>4, <1>5

\* Every step of a pipeline.
LEMMA LineStep ==
  ASSUME MaxPid >= 3
  PROVE  PipelineInv /\ [PipelineNext]_allVars => PipelineInv'
<1> SUFFICES ASSUME PipelineInv, [PipelineNext]_allVars PROVE PipelineInv'
  OBVIOUS
<1>1. Staff(k) /\ Roles(job, prog)
  BY DEF PipelineInv
<1>2. ASSUME Runs(k, k'), job' = job, prog' = prog PROVE PipelineInv'
  BY <1>1, <1>2, LineKept
<1>3. CASE ProgStep
  BY <1>3, LineShell, LineCommands DEF ProgStep
<1>4. CASE ShellResume
  BY <1>4, LineShell
<1>5. CASE KernelStep /\ UNCHANGED prog
  BY <1>5, LineKernel
<1>6. CASE TimerTick /\ UNCHANGED prog
  BY <1>1, <1>2, <1>6, ScheduleRuns DEF TimerTick
<1>7. CASE CtrlC /\ UNCHANGED prog
  <2>1. k.foreground \in Pid
    BY <1>1, <1>7, StaffTypes DEF CtrlC
  <2> QED
    BY <1>1, <1>2, <1>7, <2>1, KillRuns DEF CtrlC
<1>8. CASE DeadReaderStops
  BY <1>8, LineCommands
<1>9. CASE UNCHANGED allVars
  <2>1. Runs(k, k') /\ job' = job /\ prog' = prog
    BY <1>1, <1>9 DEF allVars, vars, Runs
  <2> QED
    BY <1>2, <2>1
<1> QED
  BY <1>3, <1>4, <1>5, <1>6, <1>7, <1>8, <1>9 DEF PipelineNext

LEMMA LineClosed == MaxPid >= 3 /\ PipelineInv => ClosedLast
<1> SUFFICES ASSUME MaxPid >= 3, PipelineInv, prog.shell \in {"close", "prompt"}
             PROVE  /\ Gone(Writer) /\ Gone(Reader)
                    /\ \A p \in Pid : ~InQueue(k, "blockedBySem", p)
  BY DEF ClosedLast
<1>1. Staff(k) /\ ~Exists(k, Writer) /\ ~Exists(k, Reader)
  BY DEF PipelineInv, Waited
<1>2. Gone(Writer) /\ Gone(Reader)
  BY <1>1 DEF Gone, Exists
<1>3. \A p \in Pid : InQueue(k, "blockedBySem", p) => p \in {Writer, Reader} /\ Exists(k, p)
  BY <1>1 DEF Staff, WF, States, Exists
<1> QED
  BY <1>1, <1>2, <1>3

(* handle_piped_commands (shell.c) closes the pipe after waitpid has         *)
(* returned for both commands: at that time both are gone and nobody sleeps  *)
(* on the semaphores of the pipe or on any other, whether the commands       *)
(* returned or were killed with ctrl+c, and with any number of other         *)
(* processes, ticks and bytes.  MaxPid bounds the process numbers: 3 is the  *)
(* number of the second command.                                             *)
THEOREM ClosedLastCorrect ==
  ASSUME MaxPid >= 3
  PROVE  PipelineSpec => []ClosedLast
<1>1. PipelineInit => PipelineInv
  BY LineInit
<1>2. PipelineInv /\ [PipelineNext]_allVars => PipelineInv'
  BY LineStep
<1>3. PipelineInv => ClosedLast
  BY LineClosed
<1> QED
  BY <1>1, <1>2, <1>3, PTL DEF PipelineSpec
=============================================================================
