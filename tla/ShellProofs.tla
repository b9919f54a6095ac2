---------------------------- MODULE ShellProofs ----------------------------
(***************************************************************************)
(* Proofs about the shell's loop, for any set of lines, any heap and any   *)
(* tables of pipes and semaphores.  What the shell still has to do with a  *)
(* line, sh.todo, says what it holds: the parts of the inductive invariant *)
(* relate the list to the pointers, the processes and the pipe.            *)
(***************************************************************************)
EXTENDS Shell, FiniteSetTheorems, TLAPS

-----------------------------------------------------------------------------
(* The inductive invariant.                                                 *)

Fields == {"at", "todo", "part", "line", "ptr", "cmd", "pids", "pipe", "before", "starved"}
Parsing == {"buffer", "read", "arg", "instruction", "split", "verify", "control"}
Stages == Parsing \cup {"prompt", "run", "returned", "fault"}
Starting == {"handler", "argv", "create"}
Item ==
  [op : Starting \cup {"builtin", "waitpid"}, x : 1..2]
    \cup [op : {"open", "close", "created"}, x : {0}] \cup [op : {"free"}, x : Vars]

Pointers == [Vars -> Block \cup {NULL}]

\* The ranges of the fields that the proofs speak of.
ShellOK ==
  /\ DOMAIN sh = Fields
  /\ sh.at \in Stages
  /\ sh.todo \in Seq(Item)
  /\ sh.at = "run" <=> sh.todo # << >>
  /\ sh.part \in 1..2
  /\ sh.ptr \in Pointers
  /\ sh.pids \in [1..2 -> Int]
  /\ owner \in [Block -> {"none", "shell", "other"}]
  /\ DOMAIN live \subseteq 1..MaxProcs

Has(t, it) == \E n \in 1..Len(t) : t[n] = it
HasOp(t, op) == \E n \in 1..Len(t) : t[n].op = op

\* Somebody will wait for command i, or decide about it.
Awaited(t, i) == Has(t, Do("waitpid", i)) \/ HasOp(t, "created")

\* The shape of the list of steps.
OpenFirst(t) ==
  \A n \in 1..Len(t) : t[n].op = "open" => n = 1 /\ HasOp(t, "created") /\ ~HasOp(t, "free")
CreatedLast(t) == \A n \in 1..Len(t) : t[n].op = "created" => n = Len(t)
CloseLate(t)   == \A n, m \in 1..Len(t) : t[n].op = "close" /\ n < m => t[m].op = "free"
ArgvFirst(t) ==
  \A n \in 1..Len(t) : t[n].op = "argv" =>
    n = 1 /\ Len(t) >= 3 /\ t[2] = Do("create", t[1].x) /\ t[3] = FreeOf("argv")
StartedAwaited(t) ==
  \A n \in 1..Len(t) : t[n].op \in Starting =>
    \E m \in 1..Len(t) : n < m /\ (t[m] = Do("waitpid", t[n].x) \/ t[m].op = "created")
HandlerPays(t) ==
  \A n \in 1..Len(t) : t[n].op = "handler" =>
    \E m \in 1..Len(t) : n < m /\ (t[m] = FreeOf(Arg(t[n].x)) \/ t[m].op = "created")
ArgvBefore(t) == \A n, m \in 1..Len(t) : t[n].op = "handler" /\ t[m] = FreeOf("argv") => m < n
ArgvOnce(t) == \A n, m \in 1..Len(t) : t[n] = FreeOf("argv") /\ t[m] = FreeOf("argv") => n = m
Shape(t) ==
  /\ OpenFirst(t) /\ CreatedLast(t) /\ CloseLate(t) /\ ArgvFirst(t)
  /\ StartedAwaited(t) /\ HandlerPays(t) /\ ArgvBefore(t) /\ ArgvOnce(t)

\* No free is in the list twice.
FreesOnce(t) ==
  /\ \A n, m \in 1..Len(t) : t[n].op = "free" /\ t[m] = t[n] => n = m
  /\ HasOp(t, "created") => \A n \in 1..Len(t) : t[n].op = "free" => t[n].x = "argv"

NoSelf == {sh.cmd.inst[1], sh.cmd.inst[2]} \cap SelfFreeing = {}

\* The pointers whose blocks the rest of the turn gives back.
Kept == {"pipe_cmd", "arg1", "arg2"}
Owed(t) ==
  {x \in Vars : Has(t, FreeOf(x)) /\ (x = "argv" => ~HasOp(t, "argv"))}
    \cup {x \in Kept : HasOp(t, "created")}
Held(s) ==
  CASE s.at = "run" -> Owed(s.todo)
    [] s.at \in {"prompt", "returned", "fault"} -> {}
    [] s.at = "control" -> Kept
    [] s.at = "verify" /\ s.part = 1 -> Kept \cup {"instruction"}
    [] OTHER -> Kept \cup {"instruction", "shell_buffer"}

\* The pointers that are not set yet, while the line is parsed.
Unset(s) ==
  CASE s.at = "buffer" -> {"shell_buffer", "arg1", "arg2", "instruction"}
    [] s.at = "read" -> {"arg1", "arg2", "instruction"}
    [] s.at = "arg" -> {"arg1", "instruction"} \cup {x \in {"arg2"} : s.part = 2}
    [] s.at = "instruction" -> {"instruction"} \cup {x \in {"arg1"} : s.part = 2}
    [] s.at \in {"split", "verify"} -> {x \in {"arg1"} : s.part = 2}
    [] OTHER -> {}
ParseOK ==
  /\ \A x \in Unset(sh) : sh.ptr[x] = NULL
  /\ (sh.at \in Parsing \ {"buffer", "read"} /\ ~Piped(sh.line)) =>
       sh.part = 1 /\ sh.ptr["arg2"] = NULL

\* What is held is the shell's own, and held once.
Owns(held, ptr, own) ==
  \A x \in held : ptr[x] # NULL => own[ptr[x]] = "shell" /\ \A y \in held \ {x} : ptr[y] # ptr[x]
OwnBlocks == (sh.at = "run" => NoSelf) => Owns(Held(sh), sh.ptr, owner)

\* Every block of the shell is held, but for as many as at the last prompt.
Leaks == Piped(sh.line) /\ (sh.cmd.inst[1] \in BuiltIns \/ "none" \in {sh.cmd.inst[1], sh.cmd.inst[2]})
Exact(Old, held, ptr, own) ==
  /\ \A b \in Old : own[b] = "shell"
  /\ \A x \in held : ptr[x] \notin Old
  /\ \A b \in Block : own[b] = "shell" => b \in Old \/ \E x \in held : ptr[x] = b
Accountable ==
  ~sh.starved /\ (sh.at \in {"run", "prompt"} => ~Leaks) /\ sh.at \notin {"returned", "fault"}
AccountsOK ==
  Accountable =>
    \E Old \in SUBSET Block : Cardinality(Old) = sh.before /\ Exact(Old, Held(sh), sh.ptr, owner)

\* Processes of the line that live are waited for, unless one of the two could
\* not be started.
PidsOK ==
  /\ sh.at \in Parsing \/ HasOp(sh.todo, "open") => sh.pids[1] = 0 /\ sh.pids[2] = 0
  /\ \A i \in 1..2 : sh.pids[i] \in DOMAIN live =>
       \/ Awaited(sh.todo, i)
       \/ /\ \E j \in 1..2 : sh.pids[j] < 0
          /\ \A n \in 1..Len(sh.todo) : sh.todo[n].op \notin Starting

\* The pipe of the line is closed once, and it is the only one that can be.
WillClose == (HasOp(sh.todo, "close") \/ HasOp(sh.todo, "created")) /\ ~HasOp(sh.todo, "open")
PipeOK ==
  /\ WillClose => sh.pipe \in given
  /\ \A i \in Good : (i > 2 /\ i + 2 < MAX_PIPES) => sh.pipe = i + 2 /\ WillClose

PipeRecord == [isOpen : BOOLEAN, semReaders : Int, semWriters : Int, mutex : Int]
TableOK ==
  /\ pipes \in [Slot -> PipeRecord]
  /\ next_sem_id \in Nat
  /\ others \subseteq used
  /\ \A i \in lost : i \in Slot /\ pipes[i].isOpen
  /\ given = {ExportedId(i) : i \in Good}
  /\ \A i \in Good :
       /\ pipes[i].semReaders \in Nat
       /\ pipes[i].semWriters = pipes[i].semReaders + 1
       /\ pipes[i].mutex = pipes[i].semReaders + 2
       /\ pipes[i].semReaders + 3 <= next_sem_id
       /\ Sems(i) \subseteq used \ others
  /\ \A i, j \in Good : i # j =>
       \/ pipes[i].semReaders + 3 <= pipes[j].semReaders
       \/ pipes[j].semReaders + 3 <= pipes[i].semReaders

ShInv ==
  /\ ShellOK /\ Shape(sh.todo) /\ (NoSelf => FreesOnce(sh.todo))
  /\ ParseOK /\ OwnBlocks /\ AccountsOK /\ PidsOK /\ PipeOK /\ TableOK

-----------------------------------------------------------------------------
(* Lists of steps.                                                          *)

LEMMA ItemFacts ==
  ASSUME NEW it \in Item
  PROVE  /\ it.op \in Starting \cup {"builtin", "waitpid", "open", "close", "created", "free"}
         /\ it.op \in Starting \cup {"builtin", "waitpid"} => it.x \in 1..2
         /\ it.op = "free" => it.x \in Vars /\ it = FreeOf(it.x)
         /\ it.op = "waitpid" => it = Do("waitpid", it.x)
  BY DEF Item, Starting, FreeOf, Do

LEMMA TailFacts ==
  ASSUME NEW t \in Seq(Item), t # << >>
  PROVE  /\ Tail(t) \in Seq(Item)
         /\ Len(Tail(t)) = Len(t) - 1 /\ Len(t) \in Nat /\ Len(t) >= 1
         /\ \A n \in 1..(Len(t) - 1) : Tail(t)[n] = t[n + 1]
         /\ Head(t) = t[1] /\ t[1] \in Item
  OBVIOUS

\* Dropping the first step keeps the shape.
LEMMA ShapeTail ==
  ASSUME NEW t \in Seq(Item), t # << >>, Shape(t)
  PROVE  Shape(Tail(t))
<1> DEFINE r == Tail(t)
<1>1. /\ Len(r) = Len(t) - 1 /\ Len(t) \in Nat /\ Len(t) >= 1
      /\ \A n \in 1..Len(r) : n + 1 \in 1..Len(t) /\ r[n] = t[n + 1]
      /\ \A n \in 1..Len(t) : n # 1 => n - 1 \in 1..Len(r) /\ r[n - 1] = t[n]
  BY TailFacts
<1> HIDE DEF r
<1>2. OpenFirst(r)
  BY <1>1 DEF Shape, OpenFirst
<1>3. CreatedLast(r)
  BY <1>1 DEF Shape, CreatedLast
<1>4. CloseLate(r)
  BY <1>1 DEF Shape, CloseLate
<1>5. ArgvFirst(r)
  BY <1>1 DEF Shape, ArgvFirst
<1>6. StartedAwaited(r)
  <2> SUFFICES ASSUME NEW n \in 1..Len(r), r[n].op \in Starting
               PROVE  \E m \in 1..Len(r) : n < m /\ (r[m] = Do("waitpid", r[n].x) \/ r[m].op = "created")
    BY DEF StartedAwaited
  <2>1. PICK m \in 1..Len(t) : n + 1 < m /\ (t[m] = Do("waitpid", t[n + 1].x) \/ t[m].op = "created")
    BY <1>1 DEF Shape, StartedAwaited
  <2> QED BY <1>1, <2>1
<1>7. HandlerPays(r)
  <2> SUFFICES ASSUME NEW n \in 1..Len(r), r[n].op = "handler"
               PROVE  \E m \in 1..Len(r) : n < m /\ (r[m] = FreeOf(Arg(r[n].x)) \/ r[m].op = "created")
    BY DEF HandlerPays
  <2>1. PICK m \in 1..Len(t) : n + 1 < m /\ (t[m] = FreeOf(Arg(t[n + 1].x)) \/ t[m].op = "created")
    BY <1>1 DEF Shape, HandlerPays
  <2> QED BY <1>1, <2>1
<1>8. ArgvBefore(r)
  BY <1>1 DEF Shape, ArgvBefore
<1>9. ArgvOnce(r)
  BY <1>1 DEF Shape, ArgvOnce
<1> QED BY <1>2, <1>3, <1>4, <1>5, <1>6, <1>7, <1>8, <1>9 DEF Shape, r

\* The steps that start command x, and what comes after them.
StartOf(p, x) ==
  /\ \A n \in 1..Len(p) : p[n].op \in {"free", "create", "argv"} /\ (p[n].op \in Starting => p[n].x = x)
  /\ ArgvFirst(p) /\ ArgvOnce(p)
AwaitsFor(r, x) == \E m \in 1..Len(r) : r[m] = Do("waitpid", x) \/ r[m].op = "created"
PaysFor(r, x) == \E m \in 1..Len(r) : r[m] = FreeOf(Arg(x)) \/ r[m].op = "created"
NothingBefore(r) == ~HasOp(r, "open") /\ ~HasOp(r, "argv") /\ ~Has(r, FreeOf("argv"))

\* The start of a command in front of the rest keeps the shape.
LEMMA ShapePrepend ==
  ASSUME NEW r \in Seq(Item), Shape(r), NEW p \in Seq(Item), NEW x \in 1..2,
         NothingBefore(r), AwaitsFor(r, x), StartOf(p, x)
  PROVE  p \o r \in Seq(Item) /\ Shape(p \o r)
<1> DEFINE t == p \o r
           k == Len(p)
           q == Len(r)
<1>0. t \in Seq(Item)
  OBVIOUS
<1>1. /\ k \in Nat /\ q \in Nat /\ Len(t) = k + q
      /\ \A n \in 1..k : t[n] = p[n]
      /\ \A n \in (k + 1)..(k + q) : t[n] = r[n - k]
  OBVIOUS
<1>2. \A n \in 1..k : t[n].op \in {"free", "create", "argv"} /\ (t[n].op \in Starting => t[n].x = x)
  BY <1>1 DEF StartOf
<1> HIDE DEF t, k, q
<1>3. /\ k \in Nat /\ q \in Nat /\ Len(t) = k + q
      /\ \A n \in 1..Len(t) : n > k => n - k \in 1..q /\ t[n] = r[n - k]
      /\ \A n \in 1..q : n + k \in 1..Len(t) /\ t[n + k] = r[n]
  <2>1. ASSUME NEW n \in 1..Len(t), n > k PROVE n - k \in 1..q /\ t[n] = r[n - k]
    <3>1. n \in (k + 1)..(k + q) /\ n - k \in 1..q
      BY <2>1, <1>1
    <3> QED BY <3>1, <1>1
  <2>2. ASSUME NEW n \in 1..q PROVE n + k \in 1..Len(t) /\ t[n + k] = r[n]
    <3>1. n + k \in (k + 1)..(k + q) /\ n + k \in 1..Len(t) /\ (n + k) - k = n
      BY <1>1
    <3> QED BY <3>1, <1>1
  <2> QED BY <2>1, <2>2, <1>1
<1>4. ASSUME NEW n \in 1..Len(t)
      PROVE  \/ n \in 1..k /\ n <= k /\ t[n] = p[n] /\ t[n].op \in {"free", "create", "argv"}
                /\ (t[n].op \in Starting => t[n].x = x)
             \/ n > k /\ n - k \in 1..q /\ t[n] = r[n - k]
  BY <1>1, <1>2, <1>3
<1>5. OpenFirst(t)
  <2> SUFFICES ASSUME NEW n \in 1..Len(t), t[n].op = "open" PROVE FALSE
    BY DEF OpenFirst
  <2> QED BY <1>4 DEF NothingBefore, HasOp, q
<1>6. CreatedLast(t)
  <2> SUFFICES ASSUME NEW n \in 1..Len(t), t[n].op = "created" PROVE n = Len(t)
    BY DEF CreatedLast
  <2>1. n > k /\ n - k \in 1..q /\ r[n - k].op = "created"
    BY <1>4
  <2>2. n - k = q
    BY <2>1 DEF Shape, CreatedLast, q
  <2> QED BY <2>2, <1>3
<1>7. CloseLate(t)
  <2> SUFFICES ASSUME NEW n \in 1..Len(t), NEW m \in 1..Len(t), t[n].op = "close", n < m
               PROVE  t[m].op = "free"
    BY DEF CloseLate
  <2>1. n > k /\ n - k \in 1..q /\ r[n - k].op = "close"
    BY <1>4
  <2>2. m > k /\ m - k \in 1..q /\ t[m] = r[m - k] /\ n - k < m - k
    BY <2>1, <1>3, SMTT(30)
  <2> QED BY <2>1, <2>2 DEF Shape, CloseLate, q
<1>8. ArgvFirst(t)
  <2> SUFFICES ASSUME NEW n \in 1..Len(t), t[n].op = "argv"
               PROVE  n = 1 /\ Len(t) >= 3 /\ t[2] = Do("create", t[1].x) /\ t[3] = FreeOf("argv")
    BY DEF ArgvFirst
  <2>1. n \in 1..k /\ t[n] = p[n]
    BY <1>4 DEF NothingBefore, HasOp, q
  <2>2. n = 1 /\ k >= 3 /\ p[2] = Do("create", p[1].x) /\ p[3] = FreeOf("argv")
    BY <2>1 DEF StartOf, ArgvFirst, k
  <2>3. 1 \in 1..k /\ 2 \in 1..k /\ 3 \in 1..k /\ Len(t) >= 3
    BY <2>2, <1>3
  <2> QED BY <2>2, <2>3, <1>1
<1>9. StartedAwaited(t)
  <2> SUFFICES ASSUME NEW n \in 1..Len(t), t[n].op \in Starting
               PROVE  \E m \in 1..Len(t) : n < m /\ (t[m] = Do("waitpid", t[n].x) \/ t[m].op = "created")
    BY DEF StartedAwaited
  <2>1. CASE n <= k
    <3>1. t[n].x = x
      BY <2>1, <1>4, <1>3
    <3>2. PICK m \in 1..q : r[m] = Do("waitpid", x) \/ r[m].op = "created"
      BY DEF AwaitsFor, q
    <3>3. m + k \in 1..Len(t) /\ t[m + k] = r[m] /\ n < m + k
      BY <3>2, <2>1, <1>3
    <3> QED BY <3>1, <3>2, <3>3
  <2>2. CASE n > k
    <3>1. n - k \in 1..q /\ t[n] = r[n - k]
      BY <2>2, <1>3
    <3>2. PICK m \in 1..q : n - k < m /\ (r[m] = Do("waitpid", r[n - k].x) \/ r[m].op = "created")
      BY <3>1 DEF Shape, StartedAwaited, q
    <3>3. m + k \in 1..Len(t) /\ t[m + k] = r[m] /\ n < m + k
      BY <3>2, <2>2, <1>3
    <3> QED BY <3>1, <3>2, <3>3
  <2> QED BY <2>1, <2>2, <1>3
<1>10. HandlerPays(t)
  <2> SUFFICES ASSUME NEW n \in 1..Len(t), t[n].op = "handler"
               PROVE  \E m \in 1..Len(t) : n < m /\ (t[m] = FreeOf(Arg(t[n].x)) \/ t[m].op = "created")
    BY DEF HandlerPays
  <2>1. n > k /\ n - k \in 1..q /\ t[n] = r[n - k]
    BY <1>4
  <2>2. PICK m \in 1..q : n - k < m /\ (r[m] = FreeOf(Arg(r[n - k].x)) \/ r[m].op = "created")
    BY <2>1 DEF Shape, HandlerPays, q
  <2>3. m + k \in 1..Len(t) /\ t[m + k] = r[m] /\ n < m + k
    BY <2>2, <2>1, <1>3
  <2> QED BY <2>1, <2>2, <2>3
<1>11. ArgvBefore(t)
  <2> SUFFICES ASSUME NEW n \in 1..Len(t), NEW m \in 1..Len(t), t[n].op = "handler", t[m] = FreeOf("argv")
               PROVE  m < n
    BY DEF ArgvBefore
  <2>1. n > k
    BY <1>4
  <2>2. m <= k
    BY <1>4 DEF NothingBefore, Has, q
  <2> QED BY <2>1, <2>2, <1>3
<1>12. ArgvOnce(t)
  <2> SUFFICES ASSUME NEW n \in 1..Len(t), NEW m \in 1..Len(t), t[n] = FreeOf("argv"), t[m] = FreeOf("argv")
               PROVE  n = m
    BY DEF ArgvOnce
  <2>1. n \in 1..k /\ t[n] = p[n] /\ m \in 1..k /\ t[m] = p[m]
    BY <1>4 DEF NothingBefore, Has, q
  <2> QED BY <2>1 DEF StartOf, ArgvOnce, k
<1> QED BY <1>0, <1>5, <1>6, <1>7, <1>8, <1>9, <1>10, <1>11, <1>12 DEF Shape, t

\* What follows a handler in the list.
LEMMA HandlerRest ==
  ASSUME NEW t \in Seq(Item), t # << >>, Shape(t), t[1].op = "handler"
  PROVE  /\ t[1].x \in 1..2
         /\ NothingBefore(Tail(t)) /\ AwaitsFor(Tail(t), t[1].x) /\ PaysFor(Tail(t), t[1].x)
<1> DEFINE r == Tail(t)
<1>1. /\ Len(r) = Len(t) - 1 /\ Len(t) \in Nat /\ Len(t) >= 1 /\ t[1] \in Item
      /\ \A n \in 1..Len(r) : n + 1 \in 1..Len(t) /\ r[n] = t[n + 1]
      /\ \A n \in 1..Len(t) : n # 1 => n - 1 \in 1..Len(r) /\ r[n - 1] = t[n]
  BY TailFacts
<1> HIDE DEF r
<1>2. t[1].x \in 1..2
  BY <1>1, ItemFacts DEF Starting
<1>3. ~HasOp(r, "open")
  BY <1>1 DEF HasOp, Shape, OpenFirst
<1>4. ~HasOp(r, "argv")
  BY <1>1 DEF HasOp, Shape, ArgvFirst
<1>5. ~Has(r, FreeOf("argv"))
  BY <1>1 DEF Has, Shape, ArgvBefore
<1>6. AwaitsFor(r, t[1].x)
  <2>1. PICK m \in 1..Len(t) : 1 < m /\ (t[m] = Do("waitpid", t[1].x) \/ t[m].op = "created")
    BY <1>1 DEF Shape, StartedAwaited, Starting
  <2> QED BY <2>1, <1>1 DEF AwaitsFor
<1>7. PaysFor(r, t[1].x)
  <2>1. PICK m \in 1..Len(t) : 1 < m /\ (t[m] = FreeOf(Arg(t[1].x)) \/ t[m].op = "created")
    BY <1>1 DEF Shape, HandlerPays
  <2> QED BY <2>1, <1>1 DEF PaysFor
<1> QED BY <1>2, <1>3, <1>4, <1>5, <1>6, <1>7 DEF r, NothingBefore

\* What is in a list after its first step, and with steps in front of it.
LEMMA HasTail ==
  ASSUME NEW t \in Seq(Item), t # << >>, NEW it, NEW op
  PROVE  /\ Has(t, it) <=> t[1] = it \/ Has(Tail(t), it)
         /\ HasOp(t, op) <=> t[1].op = op \/ HasOp(Tail(t), op)
<1> DEFINE r == Tail(t)
<1>1. /\ 1 \in 1..Len(t)
      /\ \A n \in 1..Len(r) : n + 1 \in 1..Len(t) /\ r[n] = t[n + 1]
      /\ \A n \in 1..Len(t) : n # 1 => n - 1 \in 1..Len(r) /\ r[n - 1] = t[n]
  BY TailFacts
<1> HIDE DEF r
<1>2. Has(t, it) <=> t[1] = it \/ Has(r, it)
  BY <1>1 DEF Has
<1>3. HasOp(t, op) <=> t[1].op = op \/ HasOp(r, op)
  BY <1>1 DEF HasOp
<1> QED BY <1>2, <1>3 DEF r

LEMMA HasPrepend ==
  ASSUME NEW p \in Seq(Item), NEW r \in Seq(Item), NEW it, NEW op
  PROVE  /\ Has(p \o r, it) <=> Has(p, it) \/ Has(r, it)
         /\ HasOp(p \o r, op) <=> HasOp(p, op) \/ HasOp(r, op)
<1> DEFINE t == p \o r
           k == Len(p)
           q == Len(r)
<1>1. /\ k \in Nat /\ q \in Nat /\ Len(t) = k + q
      /\ \A n \in 1..k : t[n] = p[n]
      /\ \A n \in (k + 1)..(k + q) : t[n] = r[n - k]
  OBVIOUS
<1> HIDE DEF t, k, q
<1>2. /\ \A n \in 1..Len(t) : (n \in 1..k /\ t[n] = p[n]) \/ (n - k \in 1..q /\ t[n] = r[n - k])
      /\ \A n \in 1..k : n \in 1..Len(t) /\ t[n] = p[n]
      /\ \A n \in 1..q : n + k \in 1..Len(t) /\ t[n + k] = r[n]
  <2>1. ASSUME NEW n \in 1..Len(t) PROVE (n \in 1..k /\ t[n] = p[n]) \/ (n - k \in 1..q /\ t[n] = r[n - k])
    <3>1. n \in 1..k \/ (n \in (k + 1)..(k + q) /\ n - k \in 1..q)
      BY <1>1
    <3> QED BY <3>1, <1>1
  <2>2. ASSUME NEW n \in 1..k PROVE n \in 1..Len(t) /\ t[n] = p[n]
    BY <1>1
  <2>3. ASSUME NEW n \in 1..q PROVE n + k \in 1..Len(t) /\ t[n + k] = r[n]
    <3>1. n + k \in (k + 1)..(k + q) /\ n + k \in 1..Len(t) /\ (n + k) - k = n
      BY <1>1
    <3> QED BY <3>1, <1>1
  <2> QED BY <2>1, <2>2, <2>3
<1>3. Has(t, it) <=> Has(p, it) \/ Has(r, it)
  BY <1>2 DEF Has, k, q
<1>4. HasOp(t, op) <=> HasOp(p, op) \/ HasOp(r, op)
  <2>1. HasOp(t, op) => HasOp(p, op) \/ HasOp(r, op)
    BY <1>2 DEF HasOp, k, q
  <2>2. HasOp(p, op) => HasOp(t, op)
    BY <1>2 DEF HasOp, k
  <2>3. HasOp(r, op) => HasOp(t, op)
    BY <1>2 DEF HasOp, q
  <2> QED BY <2>1, <2>2, <2>3
<1> QED BY <1>3, <1>4 DEF t

\* Dropping the first step leaves no free twice.
LEMMA OnceTail ==
  ASSUME NEW t \in Seq(Item), t # << >>, FreesOnce(t)
  PROVE  FreesOnce(Tail(t)) /\ (t[1].op = "free" => ~Has(Tail(t), t[1]))
<1> DEFINE r == Tail(t)
<1>1. /\ 1 \in 1..Len(t)
      /\ \A n \in 1..Len(r) : n + 1 \in 1..Len(t) /\ n + 1 # 1 /\ r[n] = t[n + 1]
      /\ \A n, m \in 1..Len(r) : n + 1 = m + 1 => n = m
  BY TailFacts
<1>2. HasOp(r, "created") => HasOp(t, "created")
  BY HasTail
<1> HIDE DEF r
<1>3. \A n, m \in 1..Len(r) : r[n].op = "free" /\ r[m] = r[n] => n = m
  BY <1>1 DEF FreesOnce
<1>4. HasOp(r, "created") => \A n \in 1..Len(r) : r[n].op = "free" => r[n].x = "argv"
  BY <1>1, <1>2 DEF FreesOnce
<1>5. t[1].op = "free" => ~Has(r, t[1])
  BY <1>1 DEF FreesOnce, Has
<1> QED BY <1>3, <1>4, <1>5 DEF FreesOnce, r

LEMMA CleanupList ==
  /\ Cleanup \in Seq(Item) /\ Len(Cleanup) = 3
  /\ Cleanup[1] = FreeOf("arg1")
  /\ Cleanup[2] = FreeOf("arg2")
  /\ Cleanup[3] = FreeOf("pipe_cmd")
  BY DEF Cleanup, Item, Do, FreeOf, Vars, Starting

LEMMA SingleList ==
  /\ Single \in Seq(Item) /\ Len(Single) = 4
  /\ Single[1] = Do("handler", 1)
  /\ Single[2] = Do("waitpid", 1)
  /\ Single[3] = FreeOf("arg1")
  /\ Single[4] = FreeOf("pipe_cmd")
  BY DEF Single, Item, Do, FreeOf, Vars, Starting

LEMMA BuiltInList ==
  /\ BuiltIn \in Seq(Item) /\ Len(BuiltIn) = 3
  /\ BuiltIn[1] = Do("builtin", 1)
  /\ BuiltIn[2] = FreeOf("arg1")
  /\ BuiltIn[3] = FreeOf("pipe_cmd")
  BY DEF BuiltIn, Item, Do, FreeOf, Vars, Starting

LEMMA PipelineList ==
  /\ Pipeline \in Seq(Item) /\ Len(Pipeline) = 4
  /\ Pipeline[1] = Do("open", 0)
  /\ Pipeline[2] = Do("handler", 1)
  /\ Pipeline[3] = Do("handler", 2)
  /\ Pipeline[4] = Do("created", 0)
  BY DEF Pipeline, Item, Do, FreeOf, Vars, Starting

LEMMA AwaitBothList ==
  /\ AwaitBoth \in Seq(Item) /\ Len(AwaitBoth) = 6
  /\ AwaitBoth[1] = Do("waitpid", 1)
  /\ AwaitBoth[2] = FreeOf("arg1")
  /\ AwaitBoth[3] = Do("waitpid", 2)
  /\ AwaitBoth[4] = FreeOf("arg2")
  /\ AwaitBoth[5] = FreeOf("pipe_cmd")
  /\ AwaitBoth[6] = Do("close", 0)
  BY DEF AwaitBoth, Item, Do, FreeOf, Vars, Starting

LEMMA AbandonList ==
  /\ Abandon \in Seq(Item) /\ Len(Abandon) = 4
  /\ Abandon[1] = Do("close", 0)
  /\ Abandon[2] = FreeOf("arg1")
  /\ Abandon[3] = FreeOf("arg2")
  /\ Abandon[4] = FreeOf("pipe_cmd")
  BY DEF Abandon, Cleanup, Item, Do, FreeOf, Vars, Starting

LEMMA CleanupShape ==
  /\ Shape(Cleanup) /\ FreesOnce(Cleanup) /\ Owed(Cleanup) = Kept
  /\ \A op : HasOp(Cleanup, op) <=> op \in {"free"}
<1> DEFINE t == Cleanup
<1>1. \A n \in 1..Len(t) : n = 1 \/ n = 2 \/ n = 3
  BY CleanupList
<1>2. t[1].op = "free" /\ t[2].op = "free" /\ t[3].op = "free"
  BY CleanupList DEF Do, FreeOf
<1>3. \A op : HasOp(t, op) <=> op \in {"free"}
  BY <1>1, <1>2, CleanupList DEF HasOp
<1>4. OpenFirst(t) /\ CreatedLast(t)
  BY <1>1, <1>2, <1>3, CleanupList DEF OpenFirst, CreatedLast
<1>5. CloseLate(t) /\ ArgvFirst(t)
  BY <1>1, <1>2, CleanupList DEF CloseLate, ArgvFirst
<1>6. StartedAwaited(t)
  BY <1>1, <1>2, CleanupList DEF StartedAwaited, Starting, Do
<1>7. HandlerPays(t)
  BY <1>1, <1>2, CleanupList DEF HandlerPays, Do, Arg
<1>8. ArgvBefore(t) /\ ArgvOnce(t)
  BY <1>1, <1>2, CleanupList DEF ArgvBefore, ArgvOnce, FreeOf, Do
<1>9. FreesOnce(t)
  BY <1>1, <1>2, <1>3, CleanupList DEF FreesOnce, FreeOf, Do
<1>10. Owed(t) = Kept
  BY <1>1, <1>3, CleanupList DEF Owed, Kept, Has, FreeOf, Do, Vars
<1> QED BY <1>3, <1>4, <1>5, <1>6, <1>7, <1>8, <1>9, <1>10 DEF Shape

LEMMA SingleShape ==
  /\ Shape(Single) /\ FreesOnce(Single) /\ Owed(Single) = {"arg1", "pipe_cmd"}
  /\ \A op : HasOp(Single, op) <=> op \in {"handler", "waitpid", "free"}
<1> DEFINE t == Single
<1>1. \A n \in 1..Len(t) : n = 1 \/ n = 2 \/ n = 3 \/ n = 4
  BY SingleList
<1>2. t[1].op = "handler" /\ t[2].op = "waitpid" /\ t[3].op = "free" /\ t[4].op = "free"
  BY SingleList DEF Do, FreeOf
<1>3. \A op : HasOp(t, op) <=> op \in {"handler", "waitpid", "free"}
  BY <1>1, <1>2, SingleList DEF HasOp
<1>4. OpenFirst(t) /\ CreatedLast(t)
  BY <1>1, <1>2, <1>3, SingleList DEF OpenFirst, CreatedLast
<1>5. CloseLate(t) /\ ArgvFirst(t)
  BY <1>1, <1>2, SingleList DEF CloseLate, ArgvFirst
<1>6. StartedAwaited(t)
  BY <1>1, <1>2, SingleList DEF StartedAwaited, Starting, Do
<1>7. HandlerPays(t)
  BY <1>1, <1>2, SingleList DEF HandlerPays, Do, Arg
<1>8. ArgvBefore(t) /\ ArgvOnce(t)
  BY <1>1, <1>2, SingleList DEF ArgvBefore, ArgvOnce, FreeOf, Do
<1>9. FreesOnce(t)
  BY <1>1, <1>2, <1>3, SingleList DEF FreesOnce, FreeOf, Do
<1>10. Owed(t) = {"arg1", "pipe_cmd"}
  BY <1>1, <1>3, SingleList DEF Owed, Kept, Has, FreeOf, Do, Vars
<1> QED BY <1>3, <1>4, <1>5, <1>6, <1>7, <1>8, <1>9, <1>10 DEF Shape

LEMMA BuiltInShape ==
  /\ Shape(BuiltIn) /\ FreesOnce(BuiltIn) /\ Owed(BuiltIn) = {"arg1", "pipe_cmd"}
  /\ \A op : HasOp(BuiltIn, op) <=> op \in {"builtin", "free"}
<1> DEFINE t == BuiltIn
<1>1. \A n \in 1..Len(t) : n = 1 \/ n = 2 \/ n = 3
  BY BuiltInList
<1>2. t[1].op = "builtin" /\ t[2].op = "free" /\ t[3].op = "free"
  BY BuiltInList DEF Do, FreeOf
<1>3. \A op : HasOp(t, op) <=> op \in {"builtin", "free"}
  BY <1>1, <1>2, BuiltInList DEF HasOp
<1>4. OpenFirst(t) /\ CreatedLast(t)
  BY <1>1, <1>2, <1>3, BuiltInList DEF OpenFirst, CreatedLast
<1>5. CloseLate(t) /\ ArgvFirst(t)
  BY <1>1, <1>2, BuiltInList DEF CloseLate, ArgvFirst
<1>6. StartedAwaited(t)
  BY <1>1, <1>2, BuiltInList DEF StartedAwaited, Starting, Do
<1>7. HandlerPays(t)
  BY <1>1, <1>2, BuiltInList DEF HandlerPays, Do, Arg
<1>8. ArgvBefore(t) /\ ArgvOnce(t)
  BY <1>1, <1>2, BuiltInList DEF ArgvBefore, ArgvOnce, FreeOf, Do
<1>9. FreesOnce(t)
  BY <1>1, <1>2, <1>3, BuiltInList DEF FreesOnce, FreeOf, Do
<1>10. Owed(t) = {"arg1", "pipe_cmd"}
  BY <1>1, <1>3, BuiltInList DEF Owed, Kept, Has, FreeOf, Do, Vars
<1> QED BY <1>3, <1>4, <1>5, <1>6, <1>7, <1>8, <1>9, <1>10 DEF Shape

LEMMA PipelineShape ==
  /\ Shape(Pipeline) /\ FreesOnce(Pipeline) /\ Owed(Pipeline) = Kept
  /\ \A op : HasOp(Pipeline, op) <=> op \in {"open", "handler", "created"}
<1> DEFINE t == Pipeline
<1>1. \A n \in 1..Len(t) : n = 1 \/ n = 2 \/ n = 3 \/ n = 4
  BY PipelineList
<1>2. t[1].op = "open" /\ t[2].op = "handler" /\ t[3].op = "handler" /\ t[4].op = "created"
  BY PipelineList DEF Do, FreeOf
<1>3. \A op : HasOp(t, op) <=> op \in {"open", "handler", "created"}
  BY <1>1, <1>2, PipelineList DEF HasOp
<1>4. OpenFirst(t) /\ CreatedLast(t)
  BY <1>1, <1>2, <1>3, PipelineList DEF OpenFirst, CreatedLast
<1>5. CloseLate(t) /\ ArgvFirst(t)
  BY <1>1, <1>2, PipelineList DEF CloseLate, ArgvFirst
<1>6. StartedAwaited(t)
  BY <1>1, <1>2, PipelineList DEF StartedAwaited, Starting, Do
<1>7. HandlerPays(t)
  BY <1>1, <1>2, PipelineList DEF HandlerPays, Do, Arg
<1>8. ArgvBefore(t) /\ ArgvOnce(t)
  BY <1>1, <1>2, PipelineList DEF ArgvBefore, ArgvOnce, FreeOf, Do
<1>9. FreesOnce(t)
  BY <1>1, <1>2, <1>3, PipelineList DEF FreesOnce, FreeOf, Do
<1>10. Owed(t) = Kept
  BY <1>1, <1>3, PipelineList DEF Owed, Kept, Has, FreeOf, Do, Vars
<1> QED BY <1>3, <1>4, <1>5, <1>6, <1>7, <1>8, <1>9, <1>10 DEF Shape

LEMMA AwaitBothShape ==
  /\ Shape(AwaitBoth) /\ FreesOnce(AwaitBoth) /\ Owed(AwaitBoth) = Kept
  /\ \A op : HasOp(AwaitBoth, op) <=> op \in {"waitpid", "free", "close"}
<1> DEFINE t == AwaitBoth
<1>1. \A n \in 1..Len(t) : n = 1 \/ n = 2 \/ n = 3 \/ n = 4 \/ n = 5 \/ n = 6
  BY AwaitBothList
<1>2. t[1].op = "waitpid" /\ t[2].op = "free" /\ t[3].op = "waitpid" /\ t[4].op = "free" /\ t[5].op = "free" /\ t[6].op = "close"
  BY AwaitBothList DEF Do, FreeOf
<1>3. \A op : HasOp(t, op) <=> op \in {"waitpid", "free", "close"}
  BY <1>1, <1>2, AwaitBothList DEF HasOp
<1>4. OpenFirst(t) /\ CreatedLast(t)
  BY <1>1, <1>2, <1>3, AwaitBothList DEF OpenFirst, CreatedLast
<1>5. CloseLate(t) /\ ArgvFirst(t)
  BY <1>1, <1>2, AwaitBothList DEF CloseLate, ArgvFirst
<1>6. StartedAwaited(t)
  BY <1>1, <1>2, AwaitBothList DEF StartedAwaited, Starting, Do
<1>7. HandlerPays(t)
  BY <1>1, <1>2, AwaitBothList DEF HandlerPays, Do, Arg
<1>8. ArgvBefore(t) /\ ArgvOnce(t)
  BY <1>1, <1>2, AwaitBothList DEF ArgvBefore, ArgvOnce, FreeOf, Do
<1>9. FreesOnce(t)
  BY <1>1, <1>2, <1>3, AwaitBothList DEF FreesOnce, FreeOf, Do
<1>10. Owed(t) = Kept
  BY <1>1, <1>3, AwaitBothList DEF Owed, Kept, Has, FreeOf, Do, Vars
<1> QED BY <1>3, <1>4, <1>5, <1>6, <1>7, <1>8, <1>9, <1>10 DEF Shape

LEMMA AbandonShape ==
  /\ Shape(Abandon) /\ FreesOnce(Abandon) /\ Owed(Abandon) = Kept
  /\ \A op : HasOp(Abandon, op) <=> op \in {"close", "free"}
<1> DEFINE t == Abandon
<1>1. \A n \in 1..Len(t) : n = 1 \/ n = 2 \/ n = 3 \/ n = 4
  BY AbandonList
<1>2. t[1].op = "close" /\ t[2].op = "free" /\ t[3].op = "free" /\ t[4].op = "free"
  BY AbandonList DEF Do, FreeOf
<1>3. \A op : HasOp(t, op) <=> op \in {"close", "free"}
  BY <1>1, <1>2, AbandonList DEF HasOp
<1>4. OpenFirst(t) /\ CreatedLast(t)
  BY <1>1, <1>2, <1>3, AbandonList DEF OpenFirst, CreatedLast
<1>5. CloseLate(t) /\ ArgvFirst(t)
  BY <1>1, <1>2, AbandonList DEF CloseLate, ArgvFirst
<1>6. StartedAwaited(t)
  BY <1>1, <1>2, AbandonList DEF StartedAwaited, Starting, Do
<1>7. HandlerPays(t)
  BY <1>1, <1>2, AbandonList DEF HandlerPays, Do, Arg
<1>8. ArgvBefore(t) /\ ArgvOnce(t)
  BY <1>1, <1>2, AbandonList DEF ArgvBefore, ArgvOnce, FreeOf, Do
<1>9. FreesOnce(t)
  BY <1>1, <1>2, <1>3, AbandonList DEF FreesOnce, FreeOf, Do
<1>10. Owed(t) = Kept
  BY <1>1, <1>3, AbandonList DEF Owed, Kept, Has, FreeOf, Do, Vars
<1> QED BY <1>3, <1>4, <1>5, <1>6, <1>7, <1>8, <1>9, <1>10 DEF Shape


\* The three ways to start a command.
SelfStart(x) == <<FreeOf(Arg(x)), Do("create", x)>>
LEMMA StartLists ==
  ASSUME NEW x \in 1..2
  PROVE  /\ <<Do("create", x)>> \in Seq(Item) /\ Len(<<Do("create", x)>>) = 1
         /\ <<Do("create", x)>>[1] = Do("create", x)
         /\ WithArgs(x) \in Seq(Item) /\ Len(WithArgs(x)) = 3
         /\ WithArgs(x)[1] = Do("argv", x) /\ WithArgs(x)[2] = Do("create", x)
         /\ WithArgs(x)[3] = FreeOf("argv")
         /\ SelfStart(x) \in Seq(Item) /\ Len(SelfStart(x)) = 2
         /\ SelfStart(x)[1] = FreeOf(Arg(x)) /\ SelfStart(x)[2] = Do("create", x)
<1>1. Do("create", x) \in Item /\ Do("argv", x) \in Item
  BY DEF Item, Do, Starting
<1>2. FreeOf("argv") \in Item /\ FreeOf(Arg(x)) \in Item
  BY DEF Item, Do, FreeOf, Vars, Arg
<1> QED BY <1>1, <1>2 DEF WithArgs, SelfStart

LEMMA StartsOf ==
  ASSUME NEW x \in 1..2
  PROVE  StartOf(<<Do("create", x)>>, x) /\ StartOf(WithArgs(x), x) /\ StartOf(SelfStart(x), x)
<1>1. StartOf(<<Do("create", x)>>, x)
  <2> DEFINE p == <<Do("create", x)>>
  <2>1. Len(p) = 1 /\ p[1] = Do("create", x)
    BY StartLists
  <2> HIDE DEF p
  <2>2. \A n \in 1..Len(p) : n = 1
    BY <2>1
  <2> QED BY <2>1, <2>2 DEF p, StartOf, ArgvFirst, ArgvOnce, Do, FreeOf
<1>2. StartOf(WithArgs(x), x)
  <2> DEFINE p == WithArgs(x)
  <2>1. Len(p) = 3 /\ p[1] = Do("argv", x) /\ p[2] = Do("create", x) /\ p[3] = FreeOf("argv")
    BY StartLists
  <2> HIDE DEF p
  <2>2. \A n \in 1..Len(p) : n = 1 \/ n = 2 \/ n = 3
    BY <2>1
  <2>3. /\ p[1].op = "argv" /\ p[1].x = x /\ p[2].op = "create" /\ p[2].x = x /\ p[3].op = "free"
        /\ p[1] # FreeOf("argv") /\ p[2] # FreeOf("argv")
    BY <2>1 DEF Do, FreeOf
  <2>4. StartOf(p, x)
    BY <2>1, <2>2, <2>3 DEF StartOf, ArgvFirst, ArgvOnce, Starting
  <2> QED BY <2>4 DEF p
<1>3. StartOf(SelfStart(x), x)
  <2> DEFINE p == SelfStart(x)
  <2>1. Len(p) = 2 /\ p[1] = FreeOf(Arg(x)) /\ p[2] = Do("create", x)
    BY StartLists
  <2> HIDE DEF p
  <2>2. \A n \in 1..Len(p) : n = 1 \/ n = 2
    BY <2>1
  <2>3. p[1].op = "free" /\ p[2].op = "create" /\ p[2].x = x /\ p[1] # FreeOf("argv") /\ p[2] # FreeOf("argv")
    BY <2>1 DEF FreeOf, Do, Arg
  <2>4. StartOf(p, x)
    BY <2>1, <2>2, <2>3 DEF StartOf, ArgvFirst, ArgvOnce, Starting
  <2> QED BY <2>4 DEF p
<1> QED BY <1>1, <1>2, <1>3

\* The start of a command that does not free its own argument.
LEMMA OncePrepend ==
  ASSUME NEW r \in Seq(Item), FreesOnce(r), ~Has(r, FreeOf("argv")), NEW x \in 1..2,
         NEW p \in {<<Do("create", x)>>, WithArgs(x)}
  PROVE  FreesOnce(p \o r)
<1>0. /\ p \in Seq(Item)
      /\ \/ Len(p) = 1 /\ p[1] = Do("create", x)
         \/ Len(p) = 3 /\ p[1] = Do("argv", x) /\ p[2] = Do("create", x) /\ p[3] = FreeOf("argv")
  <2>1. CASE p = <<Do("create", x)>>
    BY <2>1, StartLists
  <2>2. CASE p = WithArgs(x)
    BY <2>2, StartLists
  <2> QED BY <2>1, <2>2
<1> DEFINE t == p \o r
           k == Len(p)
           q == Len(r)
<1>1. /\ k \in Nat /\ q \in Nat /\ Len(t) = k + q
      /\ \A n \in 1..k : t[n] = p[n]
      /\ \A n \in (k + 1)..(k + q) : t[n] = r[n - k]
  BY <1>0
<1>2. HasOp(t, "created") => HasOp(r, "created")
  <2>1. HasOp(p, "created") => FALSE
    BY <1>0 DEF HasOp, Do, FreeOf
  <2> QED BY <2>1, <1>0, HasPrepend
<1>3. \A n \in 1..k : p[n].op = "free" => p[n] = FreeOf("argv") /\ n = 3
  BY <1>0 DEF Do, FreeOf
<1> HIDE DEF t, k, q
<1>4. ASSUME NEW n \in 1..Len(t), t[n].op = "free"
      PROVE  \/ n <= k /\ t[n] = FreeOf("argv") /\ n = 3
             \/ n > k /\ n - k \in 1..q /\ t[n] = r[n - k] /\ t[n] # FreeOf("argv")
  <2>1. CASE n <= k
    <3>1. n \in 1..k /\ t[n] = p[n]
      BY <2>1, <1>1
    <3> QED BY <3>1, <2>1, <1>3, <1>4
  <2>2. CASE n > k
    <3>1. n \in (k + 1)..(k + q) /\ n - k \in 1..q
      BY <2>2, <1>1
    <3>2. t[n] = r[n - k]
      BY <3>1, <1>1
    <3> QED BY <3>1, <3>2, <2>2 DEF Has, q
  <2> QED BY <2>1, <2>2, <1>1
<1>5. ASSUME NEW n \in 1..Len(t), NEW m \in 1..Len(t), t[n].op = "free", t[m] = t[n]
      PROVE  n = m
  <2>1. t[m].op = "free"
    BY <1>5
  <2>2. CASE n <= k
    BY <2>2, <2>1, <1>5, <1>4, <1>1
  <2>3. CASE n > k
    <3>1. /\ n - k \in 1..q /\ t[n] = r[n - k] /\ t[n] # FreeOf("argv")
      BY <2>3, <1>5, <1>4, <1>1
    <3>2. m > k /\ m - k \in 1..q /\ t[m] = r[m - k]
      BY <3>1, <2>1, <1>5, <1>4
    <3>3. n - k = m - k
      BY <3>1, <3>2, <1>5 DEF FreesOnce, q
    <3> QED BY <3>3, <1>1
  <2> QED BY <2>2, <2>3, <1>1
<1>6. ASSUME HasOp(t, "created"), NEW n \in 1..Len(t), t[n].op = "free" PROVE t[n].x = "argv"
  <2>1. CASE n <= k
    BY <2>1, <1>6, <1>4, <1>1 DEF FreeOf, Do
  <2>2. CASE n > k
    <3>1. n - k \in 1..q /\ t[n] = r[n - k]
      BY <2>2, <1>6, <1>4, <1>1
    <3> QED BY <3>1, <1>2, <1>6 DEF FreesOnce, q
  <2> QED BY <2>1, <2>2, <1>1
<1> QED BY <1>5, <1>6 DEF FreesOnce, t

-----------------------------------------------------------------------------
(* The steps of the shell.                                                  *)

\* The turn goes on: the new list and the new pointers, pids and pipe.
GoesOn(t, ptr, pids, pipe) ==
  /\ DOMAIN sh' = Fields
  /\ sh'.todo = t
  /\ sh'.at = IF t = << >> THEN "prompt" ELSE "run"
  /\ sh'.ptr = IF t = << >> THEN NoPointers ELSE ptr
  /\ sh'.pids = pids
  /\ sh'.pipe = pipe
  /\ sh'.part = sh.part /\ sh'.line = sh.line /\ sh'.cmd = sh.cmd
  /\ sh'.before = sh.before /\ sh'.starved = sh.starved

LEMMA GoOnFields ==
  ASSUME NEW s, DOMAIN s = Fields, NEW t,
         s.part = sh.part, s.line = sh.line, s.cmd = sh.cmd, s.before = sh.before, s.starved = sh.starved,
         sh' = GoOn(s, t)
  PROVE  GoesOn(t, s.ptr, s.pids, s.pipe)
<1>1. CASE t = << >>
  <2>1. sh' = [s EXCEPT !.todo = t, !.at = "prompt", !.ptr = NoPointers]
    BY <1>1 DEF GoOn
  <2> QED BY <2>1, <1>1 DEF GoesOn, Fields
<1>2. CASE t # << >>
  <2>1. sh' = [s EXCEPT !.todo = t, !.at = "run"]
    BY <1>2 DEF GoOn
  <2> QED BY <2>1, <1>2 DEF GoesOn, Fields
<1> QED BY <1>1, <1>2

\* The first step of the list, when the shell takes it.
LEMMA StepFacts ==
  ASSUME ShellOK, NEW op, Step(op)
  PROVE  /\ sh.todo \in Seq(Item) /\ sh.todo # << >> /\ sh.at = "run"
         /\ sh.todo[1].op = op /\ X = sh.todo[1].x /\ Rest = Tail(sh.todo) /\ Rest \in Seq(Item)
         /\ sh.todo[1] \in Item
         /\ op \in Starting \cup {"builtin", "waitpid"} => X \in 1..2
         /\ op = "free" => X \in Vars /\ sh.todo[1] = FreeOf(X)
         /\ op = "waitpid" => sh.todo[1] = Do("waitpid", X)
<1>1. sh.todo \in Seq(Item) /\ sh.todo # << >> /\ sh.at = "run"
  BY DEF ShellOK, Step
<1>2. Tail(sh.todo) \in Seq(Item) /\ Head(sh.todo) = sh.todo[1] /\ sh.todo[1] \in Item
  BY <1>1, TailFacts
<1>3. sh.todo[1].op = op /\ X = sh.todo[1].x /\ Rest = Tail(sh.todo)
  BY <1>2 DEF Step, X, Rest
<1> QED BY <1>1, <1>2, <1>3, ItemFacts

LEMMA LongTail ==
  ASSUME NEW t \in Seq(Item), Len(t) >= 2, Shape(t)
  PROVE  /\ Tail(t) \in Seq(Item) /\ Len(Tail(t)) = Len(t) - 1
         /\ \A n \in 1..Len(Tail(t)) : Tail(t)[n] = t[n + 1]
         /\ Tail(t) # << >> /\ Shape(Tail(t))
<1>1. t # << >>
  OBVIOUS
<1>2. Tail(t) \in Seq(Item) /\ Len(Tail(t)) = Len(t) - 1 /\ \A n \in 1..Len(Tail(t)) : Tail(t)[n] = t[n + 1]
  BY <1>1, TailFacts
<1>3. Tail(t) # << >>
  <2> DEFINE r == Tail(t)
  <2>1. Len(r) # 0
    BY <1>2
  <2> HIDE DEF r
  <2>2. r # << >>
    BY <2>1
  <2> QED BY <2>2 DEF r
<1>4. Shape(Tail(t))
  BY <1>1, ShapeTail
<1> QED BY <1>2, <1>3, <1>4

\* The list behind argv: a create, a free and the wait.
LEMMA ArgvRest ==
  ASSUME NEW t \in Seq(Item), t # << >>, Shape(t), t[1].op = "argv"
  PROVE  LET u == Tail(Tail(Tail(t)))
         IN  /\ u \in Seq(Item) /\ u # << >> /\ Shape(u)
             /\ Len(t) >= 4 /\ Len(u) = Len(t) - 3 /\ \A n \in 1..Len(u) : u[n] = t[n + 3]
             /\ t[2] = Do("create", t[1].x) /\ t[3] = FreeOf("argv")
<1>1. Len(t) \in Nat /\ Len(t) >= 1 /\ 1 \in 1..Len(t)
  BY TailFacts
<1>2. Len(t) >= 3 /\ t[2] = Do("create", t[1].x) /\ t[3] = FreeOf("argv")
  BY <1>1 DEF Shape, ArgvFirst
<1>3. PICK m \in 1..Len(t) : 1 < m /\ (t[m] = Do("waitpid", t[1].x) \/ t[m].op = "created")
  BY <1>1 DEF Shape, StartedAwaited, Starting
<1>4. m # 2 /\ m # 3
  BY <1>2, <1>3 DEF Do, FreeOf
<1>5. Len(t) >= 4
  BY <1>1, <1>3, <1>4
<1> DEFINE r == Tail(t)
           v == Tail(r)
           u == Tail(v)
<1>6. /\ r \in Seq(Item) /\ Len(r) = Len(t) - 1
      /\ \A n \in 1..Len(r) : r[n] = t[n + 1]
      /\ r # << >> /\ Shape(r)
  BY <1>5, LongTail
<1> HIDE DEF r
<1>7. /\ v \in Seq(Item) /\ Len(v) = Len(r) - 1
      /\ \A n \in 1..Len(v) : v[n] = r[n + 1]
      /\ v # << >> /\ Shape(v)
  <2>1. Len(r) >= 2
    BY <1>5, <1>6
  <2> QED BY <1>6, <2>1, LongTail
<1> HIDE DEF v
<1>8. /\ u \in Seq(Item) /\ Len(u) = Len(v) - 1
      /\ \A n \in 1..Len(u) : u[n] = v[n + 1]
      /\ u # << >> /\ Shape(u)
  <2>1. Len(v) >= 2
    BY <1>5, <1>6, <1>7
  <2> QED BY <1>7, <2>1, LongTail
<1> HIDE DEF u
<1>9. ASSUME NEW n \in 1..Len(u) PROVE u[n] = t[n + 3]
  <2>1. n + 1 \in 1..Len(v) /\ n + 2 \in 1..Len(r) /\ n + 1 + 1 = n + 2 /\ n + 2 + 1 = n + 3
    BY <1>1, <1>6, <1>7, <1>8
  <2>2. u[n] = v[n + 1] /\ v[n + 1] = r[n + 1 + 1] /\ r[n + 2] = t[n + 2 + 1]
    BY <2>1, <1>6, <1>7, <1>8
  <2> QED BY <2>1, <2>2
<1>10. Len(u) = Len(t) - 3
  BY <1>1, <1>6, <1>7, <1>8
<1> QED BY <1>2, <1>5, <1>8, <1>9, <1>10 DEF u, v, r

LEMMA FreeGoes ==
  ASSUME ShellOK, DoFree
  PROVE  GoesOn(Rest, sh.ptr, sh.pids, sh.pipe)
  BY GoOnFields DEF ShellOK, DoFree

LEMMA BuiltInGoes ==
  ASSUME ShellOK, DoBuiltIn
  PROVE  GoesOn(Rest, sh.ptr, sh.pids, sh.pipe)
  BY GoOnFields DEF ShellOK, DoBuiltIn

LEMMA WaitpidGoes ==
  ASSUME ShellOK, DoWaitpid
  PROVE  GoesOn(Rest, sh.ptr, sh.pids, sh.pipe)
  BY GoOnFields DEF ShellOK, DoWaitpid

LEMMA CloseGoes ==
  ASSUME ShellOK, DoClose
  PROVE  GoesOn(Rest, sh.ptr, sh.pids, sh.pipe)
  BY GoOnFields DEF ShellOK, DoClose

LEMMA CreatedGoes ==
  ASSUME ShellOK, DoCreated
  PROVE  \/ (\E j \in 1..2 : sh.pids[j] < 0) /\ GoesOn(Abandon, sh.ptr, sh.pids, sh.pipe)
         \/ ~(\E j \in 1..2 : sh.pids[j] < 0) /\ GoesOn(AwaitBoth, sh.ptr, sh.pids, sh.pipe)
<1>1. CASE \E j \in 1..2 : sh.pids[j] < 0
  <2>1. sh' = GoOn(sh, Abandon)
    BY <1>1 DEF DoCreated
  <2> QED BY <1>1, <2>1, GoOnFields DEF ShellOK
<1>2. CASE ~(\E j \in 1..2 : sh.pids[j] < 0)
  <2>1. sh' = GoOn(sh, AwaitBoth)
    BY <1>2 DEF DoCreated
  <2> QED BY <1>2, <2>1, GoOnFields DEF ShellOK
<1> QED BY <1>1, <1>2

WithPid(v) == [sh.pids EXCEPT ![X] = v]

LEMMA PidFields ==
  ASSUME ShellOK, NEW v, NEW t, sh' = GoOn([sh EXCEPT !.pids[X] = v], t)
  PROVE  GoesOn(t, sh.ptr, WithPid(v), sh.pipe)
<1> DEFINE s == [sh EXCEPT !.pids[X] = v]
<1>1. /\ DOMAIN s = Fields /\ s.pids = WithPid(v) /\ s.ptr = sh.ptr /\ s.pipe = sh.pipe
      /\ s.part = sh.part /\ s.line = sh.line /\ s.cmd = sh.cmd /\ s.before = sh.before
      /\ s.starved = sh.starved
  BY DEF ShellOK, Fields, WithPid
<1> HIDE DEF s
<1>2. sh' = GoOn(s, t)
  BY DEF s
<1> QED BY <1>1, <1>2, GoOnFields

LEMMA HandlerGoes ==
  ASSUME ShellOK, DoHandler
  PROVE  \/ sh.cmd.inst[X] \in SelfFreeing /\ GoesOn(SelfStart(X) \o Rest, sh.ptr, sh.pids, sh.pipe)
         \/ GoesOn(<<Do("create", X)>> \o Rest, sh.ptr, sh.pids, sh.pipe)
         \/ GoesOn(WithArgs(X) \o Rest, sh.ptr, sh.pids, sh.pipe)
         \/ GoesOn(Rest, sh.ptr, WithPid(-1), sh.pipe)
<1>1. \/ sh.cmd.inst[X] \in SelfFreeing /\ sh' = GoOn(sh, SelfStart(X) \o Rest)
      \/ sh' = GoOn(sh, <<Do("create", X)>> \o Rest)
      \/ sh' = GoOn([sh EXCEPT !.pids[X] = -1], Rest)
      \/ sh' = GoOn(sh, WithArgs(X) \o Rest)
  BY DEF DoHandler, SelfStart
<1> QED BY <1>1, GoOnFields, PidFields DEF ShellOK

LEMMA CreateGoes ==
  ASSUME ShellOK, DoCreate
  PROVE  \/ \E p \in NewPid :
              /\ DOMAIN live' = DOMAIN live \cup {p}
              /\ \E v \in {0, p} : GoesOn(Rest, sh.ptr, WithPid(v), sh.pipe)
         \/ live' = live /\ GoesOn(Rest, sh.ptr, WithPid(-1), sh.pipe)
<1>1. ASSUME NEW p \in NewPid,
             live' = [q \in DOMAIN live \cup {p} |-> IF q = p THEN PipesOf(X) ELSE live[q]],
             sh' = GoOn([sh EXCEPT !.pids[X] = IF InBackground(X) THEN 0 ELSE p], Rest)
      PROVE  /\ DOMAIN live' = DOMAIN live \cup {p}
             /\ \E v \in {0, p} : GoesOn(Rest, sh.ptr, WithPid(v), sh.pipe)
  <2>1. DOMAIN live' = DOMAIN live \cup {p}
    BY <1>1
  <2>2. PICK v \in {0, p} : v = IF InBackground(X) THEN 0 ELSE p
    OBVIOUS
  <2>3. GoesOn(Rest, sh.ptr, WithPid(v), sh.pipe)
    BY <1>1, <2>2, PidFields
  <2> QED BY <2>1, <2>3
<1>2. ASSUME sh' = GoOn([sh EXCEPT !.pids[X] = -1], Rest)
      PROVE  GoesOn(Rest, sh.ptr, WithPid(-1), sh.pipe)
  BY <1>2, PidFields
<1> QED BY <1>1, <1>2 DEF DoCreate

LEMMA OpenGoes ==
  ASSUME ShellOK, DoOpen
  PROVE  \/ /\ CreatePipe /\ given' # given
            /\ GoesOn(Rest, sh.ptr, sh.pids, CHOOSE id \in given' : id \notin given)
         \/ /\ (CreatePipe /\ given' = given) \/ UNCHANGED table
            /\ GoesOn(Cleanup, sh.ptr, sh.pids, sh.pipe)
<1>1. CASE /\ CreatePipe
           /\ sh' = IF given' = given THEN GoOn(sh, Cleanup)
                 ELSE GoOn([sh EXCEPT !.pipe = CHOOSE id \in given' : id \notin given], Rest)
  <2>1. CASE given' = given
    BY <1>1, <2>1, GoOnFields DEF ShellOK
  <2>2. CASE given' # given
    <3> DEFINE s == [sh EXCEPT !.pipe = CHOOSE id \in given' : id \notin given]
    <3>1. /\ DOMAIN s = Fields /\ s.pids = sh.pids /\ s.ptr = sh.ptr
          /\ s.pipe = (CHOOSE id \in given' : id \notin given)
          /\ s.part = sh.part /\ s.line = sh.line /\ s.cmd = sh.cmd /\ s.before = sh.before
          /\ s.starved = sh.starved
      BY DEF ShellOK, Fields
    <3>2. sh' = GoOn(s, Rest)
      BY <1>1, <2>2
    <3> HIDE DEF s
    <3>3. GoesOn(Rest, s.ptr, s.pids, s.pipe)
      BY <3>1, <3>2, GoOnFields
    <3> QED BY <3>1, <3>3, <1>1, <2>2
  <2> QED BY <2>1, <2>2
<1>2. CASE sh' = GoOn(sh, Cleanup) /\ UNCHANGED table
  BY <1>2, GoOnFields DEF ShellOK
<1> QED BY <1>1, <1>2 DEF DoOpen

SetPtr(x, b) == [sh.ptr EXCEPT ![x] = b]

LEMMA ArgvGoes ==
  ASSUME ShellOK, Shape(sh.todo), DoArgv
  PROVE  \/ /\ owner' = owner
            /\ GoesOn(Tail(Tail(Rest)), SetPtr("argv", NULL), WithPid(-1), sh.pipe)
         \/ \E b \in Free :
              /\ owner' = [owner EXCEPT ![b] = "shell"]
              /\ GoesOn(Rest, SetPtr("argv", b), sh.pids, sh.pipe)
<1>0. /\ sh.todo \in Seq(Item) /\ sh.todo # << >> /\ sh.todo[1].op = "argv"
      /\ Rest = Tail(sh.todo) /\ Rest \in Seq(Item) /\ X \in 1..2
  BY StepFacts DEF DoArgv, Starting
<1>1. /\ Rest # << >> /\ Tail(Tail(Rest)) # << >>
  <2>1. Len(sh.todo) >= 4 /\ Tail(Tail(Tail(sh.todo))) # << >>
    BY <1>0, ArgvRest
  <2>2. Tail(sh.todo) # << >>
    BY <2>1, <1>0, LongTail
  <2> QED BY <2>1, <2>2, <1>0
<1>2. CASE Free = {}
  <2> DEFINE s == GoOn([sh EXCEPT !.pids[X] = -1], Tail(Tail(Rest)))
  <2>1. sh' = [s EXCEPT !.ptr["argv"] = NULL] /\ owner' = owner
    BY <1>2 DEF DoArgv, Malloc
  <2>2. s = [[sh EXCEPT !.pids[X] = -1] EXCEPT !.todo = Tail(Tail(Rest)), !.at = "run"]
    BY <1>1 DEF GoOn
  <2>3. /\ DOMAIN s = Fields /\ s.pids = WithPid(-1) /\ s.ptr = sh.ptr /\ s.pipe = sh.pipe
        /\ s.part = sh.part /\ s.line = sh.line /\ s.cmd = sh.cmd /\ s.before = sh.before
        /\ s.starved = sh.starved /\ s.todo = Tail(Tail(Rest)) /\ s.at = "run"
    BY <2>2 DEF ShellOK, Fields, WithPid
  <2> HIDE DEF s
  <2>4. GoesOn(Tail(Tail(Rest)), SetPtr("argv", NULL), WithPid(-1), sh.pipe)
    BY <2>1, <2>3, <1>1 DEF GoesOn, Fields, SetPtr
  <2> QED BY <2>1, <2>4
<1>3. CASE Free # {}
  <2> DEFINE s == GoOn(sh, Rest)
  <2>1. PICK b \in Free : sh' = [s EXCEPT !.ptr["argv"] = b] /\ owner' = [owner EXCEPT ![b] = "shell"]
    BY <1>3 DEF DoArgv, Malloc
  <2>2. s = [sh EXCEPT !.todo = Rest, !.at = "run"]
    BY <1>1 DEF GoOn
  <2>3. /\ DOMAIN s = Fields /\ s.pids = sh.pids /\ s.ptr = sh.ptr /\ s.pipe = sh.pipe
        /\ s.part = sh.part /\ s.line = sh.line /\ s.cmd = sh.cmd /\ s.before = sh.before
        /\ s.starved = sh.starved /\ s.todo = Rest /\ s.at = "run"
    BY <2>2 DEF ShellOK, Fields
  <2> HIDE DEF s
  <2>4. GoesOn(Rest, SetPtr("argv", b), sh.pids, sh.pipe)
    BY <2>1, <2>3, <1>1 DEF GoesOn, Fields, SetPtr
  <2> QED BY <2>1, <2>4
<1> QED BY <1>2, <1>3

\* What malloc returns: NULL when there is nothing, else a free block.
Given(b) ==
  \/ b = NULL /\ Free = {} /\ owner' = owner
  \/ b \in Free /\ b \in Block /\ owner' = [owner EXCEPT ![b] = "shell"]

LEMMA MallocFields ==
  ASSUME NEW s, DOMAIN s = Fields, s.ptr \in Pointers, NEW x \in Vars, Malloc(x, s)
  PROVE  \E b \in Block \cup {NULL} :
           /\ Given(b)
           /\ DOMAIN sh' = Fields /\ sh'.ptr = [s.ptr EXCEPT ![x] = b]
           /\ sh'.at = s.at /\ sh'.todo = s.todo /\ sh'.part = s.part /\ sh'.line = s.line
           /\ sh'.pids = s.pids /\ sh'.pipe = s.pipe /\ sh'.before = s.before
           /\ sh'.starved = s.starved /\ sh'.cmd = s.cmd
<1>1. PICK b \in Block \cup {NULL} : Given(b) /\ sh' = [s EXCEPT !.ptr[x] = b]
  <2>1. CASE Free = {} /\ sh' = [s EXCEPT !.ptr[x] = NULL] /\ UNCHANGED owner
    BY <2>1 DEF Given
  <2>2. ASSUME NEW b \in Free, owner' = [owner EXCEPT ![b] = "shell"], sh' = [s EXCEPT !.ptr[x] = b]
        PROVE  \E c \in Block \cup {NULL} : Given(c) /\ sh' = [s EXCEPT !.ptr[x] = c]
    <3>1. b \in Block
      BY DEF Free
    <3>2. Given(b)
      BY <2>2, <3>1 DEF Given
    <3> QED BY <2>2, <3>1, <3>2
  <2> QED BY <2>1, <2>2 DEF Malloc
<1> QED BY <1>1 DEF Fields

\* A step of parsing: the fields it sets.
ParsesTo(at, part, line, ptr, starved) ==
  /\ DOMAIN sh' = Fields
  /\ sh'.at = at /\ sh'.part = part /\ sh'.line = line /\ sh'.ptr = ptr /\ sh'.starved = starved
  /\ sh'.todo = sh.todo /\ sh'.pids = sh.pids /\ sh'.pipe = sh.pipe /\ sh'.before = sh.before

LEMMA NewLineGoes ==
  ASSUME ShellOK, NewLine
  PROVE  \E b \in Block \cup {NULL} :
           /\ Given(b)
           /\ DOMAIN sh' = Fields /\ sh'.ptr = [NoPointers EXCEPT !["pipe_cmd"] = b]
           /\ sh'.at = (IF b = NULL THEN "returned" ELSE "buffer")
           /\ sh'.part = 1 /\ sh'.todo = sh.todo /\ sh'.pids = <<0, 0>> /\ sh'.before = Mine
<1> DEFINE s == [sh EXCEPT !.at = IF Free = {} THEN "returned" ELSE "buffer",
                           !.ptr = NoPointers, !.line = NoLine, !.part = 1,
                           !.cmd = NoCommand, !.pids = <<0, 0>>, !.pipe = 0,
                           !.before = Mine, !.starved = FALSE]
<1>1. /\ DOMAIN s = Fields /\ s.ptr = NoPointers /\ s.at = IF Free = {} THEN "returned" ELSE "buffer"
      /\ s.part = 1 /\ s.todo = sh.todo /\ s.pids = <<0, 0>> /\ s.before = Mine
  BY DEF ShellOK, Fields
<1>2. NoPointers \in Pointers /\ "pipe_cmd" \in Vars
  BY DEF NoPointers, Pointers, Vars
<1>3. Malloc("pipe_cmd", s)
  BY DEF NewLine
<1> HIDE DEF s
<1>4. PICK b \in Block \cup {NULL} :
           /\ Given(b)
           /\ DOMAIN sh' = Fields /\ sh'.ptr = [s.ptr EXCEPT !["pipe_cmd"] = b]
           /\ sh'.at = s.at /\ sh'.todo = s.todo /\ sh'.part = s.part /\ sh'.line = s.line
           /\ sh'.pids = s.pids /\ sh'.pipe = s.pipe /\ sh'.before = s.before
           /\ sh'.starved = s.starved /\ sh'.cmd = s.cmd
  BY <1>1, <1>2, <1>3, MallocFields
<1>5. Free = {} <=> b = NULL
  BY <1>4, ShellAssumption DEF Given
<1> QED BY <1>1, <1>4, <1>5

LEMMA NewBufferGoes ==
  ASSUME ShellOK, NewBuffer
  PROVE  \E b \in Block \cup {NULL} :
           /\ Given(b)
           /\ IF b = NULL THEN ParsesTo("prompt", sh.part, sh.line, SetPtr("shell_buffer", b), TRUE)
                          ELSE ParsesTo("read", sh.part, sh.line, SetPtr("shell_buffer", b), sh.starved)
<1> DEFINE s == IF Free = {} THEN [sh EXCEPT !.at = "prompt", !.starved = TRUE] ELSE [sh EXCEPT !.at = "read"]
<1>1. /\ DOMAIN s = Fields /\ s.ptr = sh.ptr /\ s.at = IF Free = {} THEN "prompt" ELSE "read"
      /\ s.part = sh.part /\ s.todo = sh.todo /\ s.pids = sh.pids /\ s.before = sh.before
      /\ s.line = sh.line /\ s.pipe = sh.pipe /\ s.starved = IF Free = {} THEN TRUE ELSE sh.starved
  BY DEF ShellOK, Fields
<1>2. Malloc("shell_buffer", s) /\ "shell_buffer" \in Vars
  BY DEF NewBuffer, Vars
<1>3. s.ptr \in Pointers
  BY <1>1 DEF ShellOK
<1> HIDE DEF s
<1>4. PICK b \in Block \cup {NULL} :
           /\ Given(b)
           /\ DOMAIN sh' = Fields /\ sh'.ptr = [s.ptr EXCEPT !["shell_buffer"] = b]
           /\ sh'.at = s.at /\ sh'.todo = s.todo /\ sh'.part = s.part /\ sh'.line = s.line
           /\ sh'.pids = s.pids /\ sh'.pipe = s.pipe /\ sh'.before = s.before
           /\ sh'.starved = s.starved /\ sh'.cmd = s.cmd
  BY <1>1, <1>2, <1>3, MallocFields
<1>5. Free = {} <=> b = NULL
  BY <1>4, ShellAssumption DEF Given
<1> QED BY <1>1, <1>4, <1>5 DEF ParsesTo, SetPtr

LEMMA ReadLineGoes ==
  ASSUME ShellOK, ReadLine
  PROVE  \E l \in Lines : ParsesTo("arg", IF Piped(l) THEN 2 ELSE 1, l, sh.ptr, sh.starved)
<1>1. PICK l \in Lines : sh' = [sh EXCEPT !.at = "arg", !.line = l, !.part = IF Piped(l) THEN 2 ELSE 1]
  BY DEF ReadLine
<1>2. ParsesTo("arg", IF Piped(l) THEN 2 ELSE 1, l, sh.ptr, sh.starved)
  BY <1>1 DEF ShellOK, Fields, ParsesTo
<1> QED BY <1>2

LEMMA NewArgGoes ==
  ASSUME ShellOK, NewArg
  PROVE  \E b \in Block \cup {NULL} :
           /\ Given(b)
           /\ ParsesTo("instruction", sh.part, sh.line, SetPtr(Arg(sh.part), b), sh.starved)
<1> DEFINE s == [sh EXCEPT !.at = "instruction"]
<1>1. /\ DOMAIN s = Fields /\ s.ptr = sh.ptr /\ s.at = "instruction"
      /\ s.part = sh.part /\ s.todo = sh.todo /\ s.pids = sh.pids /\ s.before = sh.before
      /\ s.line = sh.line /\ s.pipe = sh.pipe /\ s.starved = sh.starved
  BY DEF ShellOK, Fields
<1>2. Malloc(Arg(sh.part), s) /\ Arg(sh.part) \in Vars
  BY DEF NewArg, Vars, Arg
<1>3. s.ptr \in Pointers
  BY <1>1 DEF ShellOK
<1> HIDE DEF s
<1>4. PICK b \in Block \cup {NULL} :
           /\ Given(b)
           /\ DOMAIN sh' = Fields /\ sh'.ptr = [s.ptr EXCEPT ![Arg(sh.part)] = b]
           /\ sh'.at = s.at /\ sh'.todo = s.todo /\ sh'.part = s.part /\ sh'.line = s.line
           /\ sh'.pids = s.pids /\ sh'.pipe = s.pipe /\ sh'.before = s.before
           /\ sh'.starved = s.starved /\ sh'.cmd = s.cmd
  BY <1>1, <1>2, <1>3, MallocFields
<1> QED BY <1>1, <1>4 DEF ParsesTo, SetPtr

LEMMA NextPartFields ==
  ASSUME NEW s, DOMAIN s = Fields
  PROVE  LET n == NextPart(s)
         IN  /\ DOMAIN n = Fields /\ n.ptr = s.ptr /\ n.todo = s.todo /\ n.pids = s.pids
             /\ n.before = s.before /\ n.line = s.line /\ n.pipe = s.pipe /\ n.starved = s.starved
             /\ n.cmd = s.cmd
             /\ n.at = (IF s.part = 2 THEN "arg" ELSE "control")
             /\ n.part = (IF s.part = 2 THEN 1 ELSE s.part)
  BY DEF NextPart, Fields

LEMMA NewInstructionGoes ==
  ASSUME ShellOK, NewInstruction
  PROVE  \E b \in Block \cup {NULL} :
           /\ Given(b)
           /\ IF b = NULL
              THEN ParsesTo(IF sh.part = 2 THEN "arg" ELSE "control", 1, sh.line, SetPtr("instruction", b), TRUE)
              ELSE ParsesTo("split", sh.part, sh.line, SetPtr("instruction", b), sh.starved)
<1> DEFINE s == IF Free = {} THEN NextPart([sh EXCEPT !.starved = TRUE]) ELSE [sh EXCEPT !.at = "split"]
<1>1. /\ DOMAIN s = Fields /\ s.ptr = sh.ptr
      /\ s.at = IF Free = {} THEN (IF sh.part = 2 THEN "arg" ELSE "control") ELSE "split"
      /\ s.part = IF Free = {} THEN 1 ELSE sh.part
      /\ s.todo = sh.todo /\ s.pids = sh.pids /\ s.before = sh.before
      /\ s.line = sh.line /\ s.pipe = sh.pipe /\ s.starved = IF Free = {} THEN TRUE ELSE sh.starved
  <2>1. CASE Free = {}
    <3> DEFINE u == [sh EXCEPT !.starved = TRUE]
    <3>1. /\ DOMAIN u = Fields /\ u.ptr = sh.ptr /\ u.part = sh.part /\ u.todo = sh.todo /\ u.pids = sh.pids
          /\ u.before = sh.before /\ u.line = sh.line /\ u.pipe = sh.pipe /\ u.starved = TRUE
      BY DEF ShellOK, Fields
    <3>2. s = NextPart(u) /\ sh.part \in 1..2
      BY <2>1 DEF ShellOK
    <3> HIDE DEF u, s
    <3>3. /\ DOMAIN s = Fields /\ s.ptr = u.ptr /\ s.todo = u.todo /\ s.pids = u.pids
          /\ s.before = u.before /\ s.line = u.line /\ s.pipe = u.pipe /\ s.starved = u.starved
          /\ s.at = (IF u.part = 2 THEN "arg" ELSE "control")
          /\ s.part = (IF u.part = 2 THEN 1 ELSE u.part)
      BY <3>1, <3>2, NextPartFields
    <3>4. s.starved = IF Free = {} THEN TRUE ELSE sh.starved
      BY <3>1, <3>3, <2>1, Zenon
    <3>5. s.part = IF Free = {} THEN 1 ELSE sh.part
      BY <3>1, <3>2, <3>3, <2>1
    <3>6. s.at = IF Free = {} THEN (IF sh.part = 2 THEN "arg" ELSE "control") ELSE "split"
      BY <3>1, <3>2, <3>3, <2>1
    <3> QED BY <3>1, <3>3, <3>4, <3>5, <3>6, Zenon
  <2>2. CASE Free # {}
    BY <2>2 DEF ShellOK, Fields
  <2> QED BY <2>1, <2>2
<1>2. Malloc("instruction", s) /\ "instruction" \in Vars
  BY DEF NewInstruction, Vars
<1> HIDE DEF s
<1>3. s.ptr \in Pointers
  BY <1>1 DEF ShellOK
<1>4. PICK b \in Block \cup {NULL} :
           /\ Given(b)
           /\ DOMAIN sh' = Fields /\ sh'.ptr = [s.ptr EXCEPT !["instruction"] = b]
           /\ sh'.at = s.at /\ sh'.todo = s.todo /\ sh'.part = s.part /\ sh'.line = s.line
           /\ sh'.pids = s.pids /\ sh'.pipe = s.pipe /\ sh'.before = s.before
           /\ sh'.starved = s.starved /\ sh'.cmd = s.cmd
  BY <1>1, <1>2, <1>3, MallocFields
<1>5. Free = {} <=> b = NULL
  BY <1>4, ShellAssumption DEF Given
<1> QED BY <1>1, <1>4, <1>5 DEF ParsesTo, SetPtr

LEMMA SplitLineGoes ==
  ASSUME ShellOK, SplitLine
  PROVE  \/ /\ ParsesTo("verify", sh.part, sh.line, sh.ptr, sh.starved)
            /\ IF sh.part = 1 THEN FreeMem("shell_buffer") ELSE UNCHANGED owner
         \/ ParsesTo("fault", sh.part, sh.line, sh.ptr, sh.starved) /\ UNCHANGED owner
<1> DEFINE w == VerifyInstruction(Split(Part(sh.line, sh.part)).word)
           a == Split(Part(sh.line, sh.part)).args
           s == [sh EXCEPT !.at = "verify", !.cmd.inst[sh.part] = w, !.cmd.args[sh.part] = a]
<1>1. /\ DOMAIN s = Fields /\ s.ptr = sh.ptr /\ s.at = "verify"
      /\ s.part = sh.part /\ s.todo = sh.todo /\ s.pids = sh.pids /\ s.before = sh.before
      /\ s.line = sh.line /\ s.pipe = sh.pipe /\ s.starved = sh.starved
  <2> HIDE DEF w, a
  <2> QED BY DEF ShellOK, Fields
<1>2. \/ sh' = s /\ IF sh.part = 1 THEN FreeMem("shell_buffer") ELSE UNCHANGED owner
      \/ sh' = [s EXCEPT !.at = "fault"] /\ UNCHANGED owner
  BY DEF SplitLine
<1> HIDE DEF s
<1> QED BY <1>1, <1>2 DEF ParsesTo, Fields

LEMMA VerifyGoes ==
  ASSUME ShellOK, Verify
  PROVE  /\ FreeMem("instruction")
         /\ ParsesTo(IF sh.part = 2 THEN "arg" ELSE "control", 1, sh.line,
                     [sh.ptr EXCEPT !["instruction"] = NULL,
                                    !["shell_buffer"] = IF sh.part = 1 THEN NULL ELSE @], sh.starved)
<1> DEFINE s == [sh EXCEPT !.ptr["instruction"] = NULL,
                           !.ptr["shell_buffer"] = IF sh.part = 1 THEN NULL ELSE @]
<1>1. /\ DOMAIN s = Fields
      /\ s.ptr = [sh.ptr EXCEPT !["instruction"] = NULL, !["shell_buffer"] = IF sh.part = 1 THEN NULL ELSE @]
      /\ s.part = sh.part /\ s.todo = sh.todo /\ s.pids = sh.pids /\ s.before = sh.before
      /\ s.line = sh.line /\ s.pipe = sh.pipe /\ s.starved = sh.starved
  BY DEF ShellOK, Fields
<1>2. sh' = NextPart(s) /\ FreeMem("instruction") /\ sh.part \in 1..2
  BY DEF Verify, ShellOK
<1> HIDE DEF s
<1> QED BY <1>1, <1>2, NextPartFields DEF ParsesTo

LEMMA ControlGoes ==
  ASSUME ShellOK, Control
  PROVE  \/ GoesOn(Cleanup, sh.ptr, sh.pids, sh.pipe)
         \/ sh.cmd.inst[1] \in BuiltIns /\ GoesOn(BuiltIn, sh.ptr, sh.pids, sh.pipe)
         \/ ParsesTo("fault", sh.part, sh.line, sh.ptr, sh.starved)
         \/ /\ Cardinality({i \in 1..2 : sh.cmd.inst[i] # "none"}) = 1
            /\ GoesOn(Single, sh.ptr, sh.pids, sh.pipe)
         \/ GoesOn(Pipeline, sh.ptr, sh.pids, sh.pipe)
<1>1. \/ sh' = GoOn(sh, Cleanup)
      \/ sh.cmd.inst[1] \in BuiltIns /\ sh' = GoOn(sh, BuiltIn)
      \/ sh' = [sh EXCEPT !.at = "fault"]
      \/ /\ Cardinality({i \in 1..2 : sh.cmd.inst[i] # "none"}) = 1
         /\ sh' = GoOn(sh, Single)
      \/ sh' = GoOn(sh, Pipeline)
  BY DEF Control
<1>2. CASE sh' = [sh EXCEPT !.at = "fault"]
  BY <1>2 DEF ShellOK, Fields, ParsesTo
<1> QED BY <1>1, <1>2, GoOnFields DEF ShellOK

-----------------------------------------------------------------------------
(* Ranges and lists.                                                        *)

World == owner \in [Block -> {"none", "shell", "other"}] /\ DOMAIN live \subseteq 1..MaxProcs

LEMMA GoesOnOK ==
  ASSUME ShellOK, NEW t \in Seq(Item), NEW ptr \in Pointers, NEW pids \in [1..2 -> Int], NEW pipe,
         GoesOn(t, ptr, pids, pipe), World'
  PROVE  ShellOK'
<1>1. NoPointers \in Pointers
  BY DEF NoPointers, Pointers
<1>2. sh'.ptr \in Pointers /\ sh'.at \in Stages /\ sh'.todo \in Seq(Item) /\ (sh'.at = "run" <=> sh'.todo # << >>)
  BY <1>1 DEF GoesOn, Stages
<1> QED BY <1>2 DEF ShellOK, GoesOn, World, Pointers, Item

LEMMA ParsesOK ==
  ASSUME ShellOK, sh.at # "run", NEW at \in Stages \ {"run"}, NEW part \in 1..2, NEW line,
         NEW ptr \in Pointers, NEW starved, ParsesTo(at, part, line, ptr, starved), World'
  PROVE  ShellOK'
  BY DEF ShellOK, ParsesTo, World, Pointers, Item

LEMMA GivenFacts ==
  ASSUME ShellOK, NEW b \in Block \cup {NULL}, Given(b)
  PROVE  owner' \in [Block -> {"none", "shell", "other"}]
  BY DEF ShellOK, Given

LEMMA FreeFacts ==
  ASSUME ShellOK, NEW x \in Vars, FreeMem(x)
  PROVE  /\ owner' \in [Block -> {"none", "shell", "other"}]
         /\ \A b \in Block : owner'[b] = IF b = sh.ptr[x] THEN "none" ELSE owner[b]
<1>1. sh.ptr[x] \in Block \cup {NULL}
  BY DEF ShellOK, Pointers
<1> QED BY <1>1, ShellAssumption DEF ShellOK, FreeMem

LEMMA EmptyList ==
  /\ << >> \in Seq(Item) /\ Shape(<< >>) /\ FreesOnce(<< >>)
  /\ \A it : ~Has(<< >>, it)
  /\ \A op : ~HasOp(<< >>, op)
<1>1. << >> \in Seq(Item) /\ Len(<< >>) = 0
  OBVIOUS
<1>2. 1..0 = {}
  OBVIOUS
<1>3. Shape(<< >>)
  BY <1>1, <1>2 DEF Shape, OpenFirst, CreatedLast, CloseLate, ArgvFirst, StartedAwaited, HandlerPays,
                    ArgvBefore, ArgvOnce
<1>4. FreesOnce(<< >>)
  BY <1>1, <1>2 DEF FreesOnce
<1>5. /\ \A it : ~Has(<< >>, it)
      /\ \A op : ~HasOp(<< >>, op)
  BY <1>1, <1>2 DEF Has, HasOp
<1> QED BY <1>1, <1>3, <1>4, <1>5

\* The lists of a step: the new one has the shape, and no free twice.
ListOK == ShellOK /\ Shape(sh.todo) /\ (NoSelf => FreesOnce(sh.todo))

LEMMA TailStep ==
  ASSUME ListOK, NEW op, Step(op), NEW ptr \in Pointers, NEW pids \in [1..2 -> Int], NEW pipe,
         GoesOn(Rest, ptr, pids, pipe), World'
  PROVE  ListOK'
<1>1. sh.todo \in Seq(Item) /\ sh.todo # << >> /\ Rest = Tail(sh.todo) /\ Rest \in Seq(Item)
  BY StepFacts DEF ListOK
<1>2. ShellOK'
  BY <1>1, GoesOnOK DEF ListOK
<1>3. sh'.todo = Rest /\ sh'.cmd = sh.cmd
  BY DEF GoesOn
<1>4. Shape(Rest)
  BY <1>1, ShapeTail DEF ListOK
<1>5. NoSelf' => FreesOnce(Rest)
  <2>1. NoSelf' => NoSelf
    BY <1>3 DEF NoSelf
  <2>2. FreesOnce(sh.todo) => FreesOnce(Rest)
    BY <1>1, OnceTail
  <2> QED BY <2>1, <2>2 DEF ListOK
<1> QED BY <1>2, <1>3, <1>4, <1>5 DEF ListOK

LEMMA FixedStep ==
  ASSUME ShellOK, NEW t \in {Cleanup, Single, BuiltIn, Pipeline, AwaitBoth, Abandon}, NEW pipe,
         GoesOn(t, sh.ptr, sh.pids, pipe), World'
  PROVE  ListOK'
<1>1. t \in Seq(Item) /\ Shape(t) /\ FreesOnce(t)
  BY CleanupList, SingleList, BuiltInList, PipelineList, AwaitBothList, AbandonList,
     CleanupShape, SingleShape, BuiltInShape, PipelineShape, AwaitBothShape, AbandonShape
<1>2. ShellOK'
  BY <1>1, GoesOnOK DEF ShellOK
<1>3. sh'.todo = t
  BY DEF GoesOn
<1> QED BY <1>1, <1>2, <1>3 DEF ListOK

LEMMA IdleStep ==
  ASSUME ListOK, sh.at # "run", NEW at \in Stages \ {"run"}, NEW part \in 1..2, NEW line,
         NEW ptr \in Pointers, NEW starved, ParsesTo(at, part, line, ptr, starved), World'
  PROVE  ListOK'
<1>1. ShellOK'
  BY ParsesOK DEF ListOK
<1>2. sh'.todo = << >>
  BY DEF ListOK, ShellOK, ParsesTo
<1> QED BY <1>1, <1>2, EmptyList DEF ListOK

LEMMA PidsType ==
  ASSUME ShellOK, X \in 1..2, NEW v \in Int
  PROVE  WithPid(v) \in [1..2 -> Int] /\ WithPid(-1) \in [1..2 -> Int]
  BY DEF ShellOK, WithPid

LEMMA PtrType ==
  ASSUME ShellOK, NEW x \in Vars, NEW b \in Block \cup {NULL}
  PROVE  SetPtr(x, b) \in Pointers
  BY DEF ShellOK, SetPtr, Pointers

LEMMA FewerOK ==
  ASSUME ShellOK, NEW p, live' = Without(p)
  PROVE  DOMAIN live' = DOMAIN live \ {p}
  BY DEF Without

LEMMA NewPidFacts ==
  ASSUME ShellOK, NEW p \in NewPid
  PROVE  p \in 1..MaxProcs /\ p \notin DOMAIN live /\ p # sh.pids[1] /\ p # sh.pids[2]
  BY DEF NewPid, UnusedPid

LEMMA HandlerList ==
  ASSUME ListOK, DoHandler
  PROVE  ListOK'
<1> DEFINE r == Rest
           t == sh.todo
<1>1. /\ t \in Seq(Item) /\ t # << >> /\ t[1].op = "handler" /\ X = t[1].x /\ X \in 1..2
      /\ Step("handler") /\ Rest = Tail(t) /\ Rest \in Seq(Item)
  BY StepFacts DEF ListOK, DoHandler, Starting
<1>2. World'
  BY DEF World, DoHandler, ListOK, ShellOK
<1>3. NothingBefore(Rest) /\ AwaitsFor(Rest, X) /\ Shape(Rest)
  BY <1>1, HandlerRest, ShapeTail DEF ListOK
<1>4. ASSUME NEW p \in {SelfStart(X), <<Do("create", X)>>, WithArgs(X)}
      PROVE  p \o Rest \in Seq(Item) /\ Shape(p \o Rest)
  <2>1. p \in Seq(Item) /\ StartOf(p, X)
    BY <1>1, StartLists, StartsOf
  <2> QED BY <2>1, <1>1, <1>3, ShapePrepend
<1>5. ASSUME NEW p \in {SelfStart(X), <<Do("create", X)>>, WithArgs(X)},
             GoesOn(p \o Rest, sh.ptr, sh.pids, sh.pipe),
             p = SelfStart(X) => sh.cmd.inst[X] \in SelfFreeing
      PROVE  ListOK'
  <2>1. ShellOK'
    BY <1>2, <1>4, <1>5, GoesOnOK DEF ListOK, ShellOK
  <2>2. sh'.todo = p \o Rest /\ sh'.cmd = sh.cmd
    BY <1>5 DEF GoesOn
  <2>3. ASSUME NoSelf' PROVE FreesOnce(p \o Rest)
    <3>1. NoSelf
      BY <2>2, <2>3 DEF NoSelf
    <3>2. p # SelfStart(X)
      BY <3>1, <1>1, <1>5 DEF NoSelf
    <3>3. FreesOnce(Rest)
      BY <3>1, <1>1, OnceTail DEF ListOK
    <3> QED BY <3>2, <3>3, <1>1, <1>3, OncePrepend DEF NothingBefore
  <2> QED BY <2>1, <2>2, <2>3, <1>4 DEF ListOK
<1>6. CASE sh.cmd.inst[X] \in SelfFreeing /\ GoesOn(SelfStart(X) \o Rest, sh.ptr, sh.pids, sh.pipe)
  BY <1>5, <1>6
<1>7. ASSUME NEW p \in {<<Do("create", X)>>, WithArgs(X)}
      PROVE  p # SelfStart(X)
  <2>1. Len(<<Do("create", X)>>) = 1 /\ Len(WithArgs(X)) = 3 /\ Len(SelfStart(X)) = 2
    BY <1>1, StartLists
  <2>2. CASE p = WithArgs(X)
    BY <2>1, <2>2
  <2>3. CASE p = <<Do("create", X)>>
    BY <2>1, <2>3
  <2> QED BY <2>2, <2>3
<1>8. CASE GoesOn(<<Do("create", X)>> \o Rest, sh.ptr, sh.pids, sh.pipe)
  BY <1>5, <1>7, <1>8
<1>9. CASE GoesOn(WithArgs(X) \o Rest, sh.ptr, sh.pids, sh.pipe)
  BY <1>5, <1>7, <1>9
<1>10. CASE GoesOn(Rest, sh.ptr, WithPid(-1), sh.pipe)
  <2>1. sh.ptr \in Pointers
    BY DEF ListOK, ShellOK
  <2>2. WithPid(-1) \in [1..2 -> Int]
    BY <1>1, PidsType DEF ListOK
  <2> QED BY <2>1, <2>2, <1>1, <1>2, <1>10, TailStep
<1> QED BY <1>6, <1>8, <1>9, <1>10, HandlerGoes DEF ListOK

LEMMA ArgvList ==
  ASSUME ListOK, DoArgv
  PROVE  ListOK'
<1>1. /\ sh.todo \in Seq(Item) /\ sh.todo # << >> /\ sh.todo[1].op = "argv" /\ X \in 1..2
      /\ Step("argv") /\ Rest = Tail(sh.todo) /\ Rest \in Seq(Item)
  BY StepFacts DEF ListOK, DoArgv, Starting
<1>2. live' = live
  BY DEF DoArgv
<1>3. CASE owner' = owner /\ GoesOn(Tail(Tail(Rest)), SetPtr("argv", NULL), WithPid(-1), sh.pipe)
  <2> DEFINE u == Tail(Tail(Rest))
  <2>1. u \in Seq(Item) /\ Shape(u) /\ Len(sh.todo) >= 4
    BY <1>1, ArgvRest DEF ListOK
  <2>2. WithPid(-1) \in [1..2 -> Int] /\ SetPtr("argv", NULL) \in Pointers
    <3>1. WithPid(-1) \in [1..2 -> Int]
      BY <1>1, PidsType DEF ListOK
    <3>2. SetPtr("argv", NULL) \in Pointers
      BY PtrType DEF ListOK, Vars
    <3> QED BY <3>1, <3>2
  <2>3. ShellOK'
    BY <2>1, <2>2, <1>2, <1>3, GoesOnOK DEF ListOK, World, ShellOK
  <2>4. sh'.todo = u /\ sh'.cmd = sh.cmd
    BY <1>3 DEF GoesOn
  <2>5. ASSUME FreesOnce(sh.todo) PROVE FreesOnce(u)
    <3>1. FreesOnce(Rest) /\ Rest # << >> /\ Len(Rest) >= 3 /\ Shape(Rest)
      <4>1. Len(sh.todo) >= 2 /\ Shape(sh.todo)
        BY <2>1 DEF ListOK
      <4>2. Len(Rest) = Len(sh.todo) - 1 /\ Rest # << >> /\ Shape(Rest)
        BY <4>1, <1>1, LongTail
      <4> QED BY <4>2, <2>1, <2>5, <1>1, OnceTail
    <3>2. FreesOnce(Tail(Rest))
      BY <3>1, <1>1, OnceTail
    <3>3. Len(Rest) >= 2
      BY <3>1, <1>1
    <3>4. Tail(Rest) # << >> /\ Tail(Rest) \in Seq(Item)
      BY <3>1, <3>3, <1>1, LongTail
    <3> QED BY <3>2, <3>4, OnceTail
  <2>6. NoSelf' => NoSelf
    BY <2>4 DEF NoSelf
  <2> QED BY <2>1, <2>3, <2>4, <2>5, <2>6 DEF ListOK
<1>4. ASSUME NEW b \in Free, owner' = [owner EXCEPT ![b] = "shell"],
             GoesOn(Rest, SetPtr("argv", b), sh.pids, sh.pipe)
      PROVE  ListOK'
  <2>1. b \in Block
    BY DEF Free
  <2>2. SetPtr("argv", b) \in Pointers
    BY <2>1, PtrType DEF ListOK, Vars
  <2>3. World' /\ sh.pids \in [1..2 -> Int]
    BY <1>2, <1>4, <2>1 DEF World, ListOK, ShellOK
  <2> QED BY <2>2, <2>3, <1>1, <1>4, TailStep
<1> QED BY <1>3, <1>4, ArgvGoes DEF ListOK

LEMMA CreateList ==
  ASSUME ListOK, DoCreate
  PROVE  ListOK'
<1>1. Step("create") /\ X \in 1..2 /\ owner' = owner
  BY StepFacts DEF ListOK, DoCreate, Starting
<1>2. sh.ptr \in Pointers
  BY DEF ListOK, ShellOK
<1>3. ASSUME NEW p \in NewPid, DOMAIN live' = DOMAIN live \cup {p},
             NEW v \in {0, p}, GoesOn(Rest, sh.ptr, WithPid(v), sh.pipe)
      PROVE  ListOK'
  <2>1. p \in 1..MaxProcs /\ v \in Int
    BY NewPidFacts, ShellAssumption DEF ListOK
  <2>2. World'
    BY <2>1, <1>1, <1>3 DEF World, ListOK, ShellOK
  <2>3. WithPid(v) \in [1..2 -> Int]
    BY <2>1, <1>1, PidsType DEF ListOK
  <2> QED BY <2>2, <2>3, <1>1, <1>2, <1>3, TailStep
<1>4. CASE live' = live /\ GoesOn(Rest, sh.ptr, WithPid(-1), sh.pipe)
  <2>1. WithPid(-1) \in [1..2 -> Int]
    BY <1>1, PidsType DEF ListOK
  <2>2. World'
    BY <1>1, <1>4 DEF World, ListOK, ShellOK
  <2> QED BY <2>1, <2>2, <1>1, <1>2, <1>4, TailStep
<1> QED BY <1>3, <1>4, CreateGoes DEF ListOK

LEMMA RunList ==
  ASSUME ListOK, DoFree \/ DoBuiltIn \/ DoCreated \/ DoWaitpid \/ DoOpen \/ DoClose
  PROVE  ListOK'
<1>0. sh.ptr \in Pointers /\ sh.pids \in [1..2 -> Int] /\ ShellOK
  BY DEF ListOK, ShellOK
<1>1. CASE DoFree
  <2>1. Step("free") /\ X \in Vars /\ FreeMem(X) /\ live' = live
    BY <1>1, StepFacts DEF DoFree, ListOK
  <2>2. World'
    BY <2>1, FreeFacts DEF World, ListOK, ShellOK
  <2> QED BY <2>1, <2>2, <1>0, <1>1, FreeGoes, TailStep
<1>2. CASE DoBuiltIn
  <2>1. Step("builtin") /\ owner' = owner
    BY <1>2 DEF DoBuiltIn
  <2>2. DOMAIN live' \subseteq DOMAIN live
    BY <1>2, <1>0, FewerOK DEF DoBuiltIn
  <2>3. World'
    BY <2>1, <2>2 DEF World, ListOK, ShellOK
  <2> QED BY <2>1, <2>3, <1>0, <1>2, BuiltInGoes, TailStep
<1>3. CASE DoWaitpid
  <2>1. Step("waitpid") /\ World'
    BY <1>3 DEF DoWaitpid, World, ListOK, ShellOK
  <2> QED BY <2>1, <1>0, <1>3, WaitpidGoes, TailStep
<1>4. CASE DoClose
  <2>1. Step("close") /\ World'
    BY <1>4 DEF DoClose, World, ListOK, ShellOK
  <2> QED BY <2>1, <1>0, <1>4, CloseGoes, TailStep
<1>5. CASE DoCreated
  <2>1. World'
    BY <1>5 DEF DoCreated, World, ListOK, ShellOK
  <2>2. GoesOn(Abandon, sh.ptr, sh.pids, sh.pipe) \/ GoesOn(AwaitBoth, sh.ptr, sh.pids, sh.pipe)
    BY <1>0, <1>5, CreatedGoes
  <2> QED BY <2>1, <2>2, <1>0, FixedStep
<1>6. CASE DoOpen
  <2>1. Step("open") /\ World'
    BY <1>6 DEF DoOpen, World, ListOK, ShellOK
  <2>2. \/ GoesOn(Rest, sh.ptr, sh.pids, CHOOSE id \in given' : id \notin given)
        \/ GoesOn(Cleanup, sh.ptr, sh.pids, sh.pipe)
    BY <1>0, <1>6, OpenGoes
  <2>3. CASE GoesOn(Rest, sh.ptr, sh.pids, CHOOSE id \in given' : id \notin given)
    BY <2>1, <2>3, <1>0, TailStep
  <2>4. CASE GoesOn(Cleanup, sh.ptr, sh.pids, sh.pipe)
    BY <2>1, <2>4, <1>0, FixedStep
  <2> QED BY <2>2, <2>3, <2>4
<1> QED BY <1>1, <1>2, <1>3, <1>4, <1>5, <1>6

LEMMA ParseList ==
  ASSUME ListOK,
         NewLine \/ NewBuffer \/ ReadLine \/ NewArg \/ NewInstruction \/ SplitLine \/ Verify \/ Control
  PROVE  ListOK'
<1>0. ShellOK /\ sh.ptr \in Pointers /\ sh.pids \in [1..2 -> Int] /\ sh.part \in 1..2
  BY DEF ListOK, ShellOK
<1>1. live' = live /\ sh.at # "run"
  BY DEF NewLine, NewBuffer, ReadLine, NewArg, NewInstruction, SplitLine, Verify, Control
<1>2. (owner' \in [Block -> {"none", "shell", "other"}]) => World'
  BY <1>1 DEF World, ListOK, ShellOK
<1>3. owner' = owner => World'
  BY <1>2 DEF ListOK, ShellOK
<1>4. CASE NewLine
  <2>1. PICK b \in Block \cup {NULL} :
           /\ Given(b)
           /\ DOMAIN sh' = Fields /\ sh'.ptr = [NoPointers EXCEPT !["pipe_cmd"] = b]
           /\ sh'.at = (IF b = NULL THEN "returned" ELSE "buffer")
           /\ sh'.part = 1 /\ sh'.todo = sh.todo /\ sh'.pids = <<0, 0>> /\ sh'.before = Mine
    BY <1>0, <1>4, NewLineGoes
  <2>2. World'
    BY <2>1, <1>0, <1>2, GivenFacts
  <2>3. sh'.todo = << >> /\ sh.todo = << >>
    BY <2>1, <1>1 DEF ListOK, ShellOK
  <2>4. sh'.ptr \in Pointers
    BY <2>1 DEF NoPointers, Pointers
  <2>5. sh'.pids \in [1..2 -> Int]
    BY <2>1
  <2>6. sh'.at \in Stages /\ sh'.at # "run"
    BY <2>1 DEF Stages, Parsing
  <2>7. ShellOK'
    BY <2>1, <2>2, <2>3, <2>4, <2>5, <2>6, EmptyList DEF ShellOK, World, Pointers, Item
  <2> QED BY <2>3, <2>7, EmptyList DEF ListOK
<1>5. CASE NewBuffer
  <2>1. PICK b \in Block \cup {NULL} :
           /\ Given(b)
           /\ IF b = NULL THEN ParsesTo("prompt", sh.part, sh.line, SetPtr("shell_buffer", b), TRUE)
                          ELSE ParsesTo("read", sh.part, sh.line, SetPtr("shell_buffer", b), sh.starved)
    BY <1>0, <1>5, NewBufferGoes
  <2>2. World' /\ SetPtr("shell_buffer", b) \in Pointers
    BY <2>1, <1>0, <1>2, GivenFacts, PtrType DEF Vars
  <2>3. "prompt" \in Stages \ {"run"} /\ "read" \in Stages \ {"run"}
    BY DEF Stages, Parsing
  <2> QED BY <2>1, <2>2, <2>3, <1>0, <1>1, IdleStep
<1>6. CASE ReadLine
  <2>1. PICK l \in Lines : ParsesTo("arg", IF Piped(l) THEN 2 ELSE 1, l, sh.ptr, sh.starved)
    BY <1>0, <1>6, ReadLineGoes
  <2>2. World'
    BY <1>3, <1>6 DEF ReadLine
  <2>3. "arg" \in Stages \ {"run"} /\ (IF Piped(l) THEN 2 ELSE 1) \in 1..2
    BY DEF Stages, Parsing
  <2> QED BY <2>1, <2>2, <2>3, <1>0, <1>1, IdleStep
<1>7. CASE NewArg
  <2>1. PICK b \in Block \cup {NULL} :
           /\ Given(b)
           /\ ParsesTo("instruction", sh.part, sh.line, SetPtr(Arg(sh.part), b), sh.starved)
    BY <1>0, <1>7, NewArgGoes
  <2>2. Arg(sh.part) \in Vars
    BY DEF Arg, Vars
  <2>3. World' /\ SetPtr(Arg(sh.part), b) \in Pointers
    BY <2>1, <2>2, <1>0, <1>2, GivenFacts, PtrType
  <2>4. "instruction" \in Stages \ {"run"}
    BY DEF Stages, Parsing
  <2> QED BY <2>1, <2>3, <2>4, <1>0, <1>1, IdleStep
<1>8. CASE NewInstruction
  <2>1. PICK b \in Block \cup {NULL} :
           /\ Given(b)
           /\ IF b = NULL
              THEN ParsesTo(IF sh.part = 2 THEN "arg" ELSE "control", 1, sh.line, SetPtr("instruction", b), TRUE)
              ELSE ParsesTo("split", sh.part, sh.line, SetPtr("instruction", b), sh.starved)
    BY <1>0, <1>8, NewInstructionGoes
  <2>2. World' /\ SetPtr("instruction", b) \in Pointers
    BY <2>1, <1>0, <1>2, GivenFacts, PtrType DEF Vars
  <2>3. (IF sh.part = 2 THEN "arg" ELSE "control") \in Stages \ {"run"} /\ "split" \in Stages \ {"run"} /\ 1 \in 1..2
    BY DEF Stages, Parsing
  <2> QED BY <2>1, <2>2, <2>3, <1>0, <1>1, IdleStep
<1>9. CASE SplitLine
  <2>1. \/ /\ ParsesTo("verify", sh.part, sh.line, sh.ptr, sh.starved)
           /\ IF sh.part = 1 THEN FreeMem("shell_buffer") ELSE UNCHANGED owner
        \/ ParsesTo("fault", sh.part, sh.line, sh.ptr, sh.starved) /\ UNCHANGED owner
    BY <1>0, <1>9, SplitLineGoes
  <2>2. World'
    BY <2>1, <1>0, <1>2, <1>3, FreeFacts DEF Vars
  <2>3. "verify" \in Stages \ {"run"} /\ "fault" \in Stages \ {"run"}
    BY DEF Stages, Parsing
  <2> QED BY <2>1, <2>2, <2>3, <1>0, <1>1, IdleStep
<1>10. CASE Verify
  <2> DEFINE q == [sh.ptr EXCEPT !["instruction"] = NULL,
                                 !["shell_buffer"] = IF sh.part = 1 THEN NULL ELSE @]
  <2>1. /\ FreeMem("instruction")
        /\ ParsesTo(IF sh.part = 2 THEN "arg" ELSE "control", 1, sh.line, q, sh.starved)
    BY <1>0, <1>10, VerifyGoes
  <2>2. World' /\ q \in Pointers
    BY <2>1, <1>0, <1>2, FreeFacts DEF Vars, Pointers
  <2> HIDE DEF q
  <2>3. (IF sh.part = 2 THEN "arg" ELSE "control") \in Stages \ {"run"} /\ 1 \in 1..2
    BY DEF Stages, Parsing
  <2> QED BY <2>1, <2>2, <2>3, <1>0, <1>1, IdleStep
<1>11. CASE Control
  <2>1. World'
    BY <1>3, <1>11 DEF Control
  <2>2. "fault" \in Stages \ {"run"}
    BY DEF Stages, Parsing
  <2>3. CASE ParsesTo("fault", sh.part, sh.line, sh.ptr, sh.starved)
    BY <2>1, <2>2, <2>3, <1>0, <1>1, IdleStep
  <2>4. ASSUME NEW t \in {Cleanup, Single, BuiltIn, Pipeline}, GoesOn(t, sh.ptr, sh.pids, sh.pipe)
        PROVE  ListOK'
    BY <2>1, <2>4, <1>0, FixedStep
  <2> QED BY <2>3, <2>4, <1>0, <1>11, ControlGoes
<1> QED BY <1>4, <1>5, <1>6, <1>7, <1>8, <1>9, <1>10, <1>11

\* The steps of the others do not touch the shell.
LEMMA OthersFacts ==
  ASSUME ShellOK,
         \/ ProcessEnds \/ OthersMalloc \/ OthersFree
         \/ (OthersTake \/ OthersGive) /\ UNCHANGED <<sh, owner, live>>
  PROVE  /\ sh' = sh
         /\ DOMAIN live' \subseteq DOMAIN live
         /\ owner' \in [Block -> {"none", "shell", "other"}]
         /\ \A b \in Block : owner[b] = "shell" <=> owner'[b] = "shell"
<1>1. CASE ProcessEnds
  BY <1>1, FewerOK DEF ProcessEnds, ShellOK
<1>2. CASE OthersMalloc
  BY <1>2 DEF OthersMalloc, ShellOK, Free
<1>3. CASE OthersFree
  BY <1>3 DEF OthersFree, ShellOK
<1>4. CASE (OthersTake \/ OthersGive) /\ UNCHANGED <<sh, owner, live>>
  BY <1>4 DEF ShellOK
<1> QED BY <1>1, <1>2, <1>3, <1>4

Others ==
  \/ ProcessEnds \/ OthersMalloc \/ OthersFree
  \/ (OthersTake \/ OthersGive) /\ UNCHANGED <<sh, owner, live>>

LEMMA ListNext ==
  ASSUME ListOK, [Next]_vars
  PROVE  ListOK'
<1>1. CASE ShellStep
  BY <1>1, ParseList, HandlerList, ArgvList, CreateList, RunList DEF ShellStep
<1>2. CASE Others
  <2>1. sh' = sh /\ World'
    BY <1>2, OthersFacts DEF Others, ListOK, ShellOK, World
  <2> QED BY <2>1 DEF ListOK, ShellOK, NoSelf, World
<1>3. CASE UNCHANGED vars
  BY <1>3 DEF vars, ListOK, ShellOK, NoSelf
<1> QED BY <1>1, <1>2, <1>3 DEF Next, Others

-----------------------------------------------------------------------------
(* The table of pipes.                                                      *)

LEMMA Ids ==
  ASSUME NEW i \in Slot
  PROVE  /\ i \in Nat /\ i < MAX_PIPES /\ ExportedId(i) \in Nat /\ SlotOf(ExportedId(i)) = i
         /\ \A j \in Slot : ExportedId(j) = ExportedId(i) => j = i
  BY TableAssumption DEF Slot, ExportedId, SlotOf

\* The semaphores that a creation initialises are its own, and new.
LEMMA InitialisedFacts ==
  ASSUME NEW r \in Nat
  PROVE  /\ Initialised(r) \subseteq {r, r + 1, r + 2}
         /\ Initialised(r) \cap used = {}
         /\ Cardinality(Initialised(r)) = 3 <=> Initialised(r) = {r, r + 1, r + 2}
<1>1. Initialised(r) \subseteq {r, r + 1, r + 2} /\ Initialised(r) \cap used = {}
  BY DEF Initialised, SemInitWorks
<1>2. Cardinality({}) = 0
  BY FS_EmptySet
<1>3. Cardinality({r}) = 1
  BY FS_Singleton
<1>4. IsFiniteSet({r}) /\ r + 1 \notin {r}
  BY FS_Singleton
<1>5. {r, r + 1} = {r} \cup {r + 1}
  OBVIOUS
<1>6. Cardinality({r, r + 1}) = 2 /\ IsFiniteSet({r, r + 1})
  BY <1>3, <1>4, <1>5, FS_AddElement
<1>7. {r, r + 1, r + 2} = {r, r + 1} \cup {r + 2} /\ r + 2 \notin {r, r + 1}
  OBVIOUS
<1>8. Cardinality({r, r + 1, r + 2}) = 3
  BY <1>6, <1>7, FS_AddElement
<1>9. Initialised(r) \in {{}, {r}, {r, r + 1}, {r, r + 1, r + 2}}
  BY DEF Initialised
<1>10. Cardinality(Initialised(r)) = 3 => Initialised(r) = {r, r + 1, r + 2}
  BY <1>2, <1>3, <1>6, <1>9
<1> QED BY <1>1, <1>8, <1>10

\* createPipe: a good pipe has three new semaphores and a new id.
LEMMA CreateTable ==
  ASSUME TableOK, CreatePipe
  PROVE  /\ TableOK'
         /\ \E i \in Slot :
              \/ /\ ExportedId(i) \notin given /\ given' = given \cup {ExportedId(i)}
                 /\ Good' = Good \cup {i}
              \/ given' = given /\ Good' = Good
<1>1. PICK i \in Slot :
       /\ ~pipes[i].isOpen
       /\ pipes' = [pipes EXCEPT ![i] = [isOpen     |-> TRUE,
                                         semReaders |-> next_sem_id,
                                         semWriters |-> next_sem_id + 1,
                                         mutex      |-> next_sem_id + 2]]
       /\ next_sem_id' = next_sem_id + 3
       /\ used' = used \cup Initialised(next_sem_id)
       /\ IF Cardinality(Initialised(next_sem_id)) = 3
          THEN given' = given \cup {ExportedId(i)} /\ UNCHANGED lost
          ELSE lost' = lost \cup {i} /\ UNCHANGED given
       /\ UNCHANGED others
  BY DEF CreatePipe, FirstClosed
<1> DEFINE r == next_sem_id
<1>2. r \in Nat /\ pipes \in [Slot -> PipeRecord] /\ given = {ExportedId(j) : j \in Good} /\ others \subseteq used
  BY DEF TableOK
<1>3. /\ pipes' \in [Slot -> PipeRecord] /\ pipes'[i].isOpen
      /\ pipes'[i].semReaders = r /\ pipes'[i].semWriters = r + 1 /\ pipes'[i].mutex = r + 2
      /\ \A j \in Slot : j # i => pipes'[j] = pipes[j]
  BY <1>1, <1>2 DEF PipeRecord
<1>4. i \notin Good /\ i \notin lost
  BY <1>1 DEF Good, TableOK
<1>5. ExportedId(i) \notin given
  <2>1. \A j \in Good : j \in Slot
    BY DEF Good
  <2> QED BY <2>1, <1>2, <1>4, Ids
<1>6. \A j \in lost' : j \in Slot /\ pipes'[j].isOpen
  BY <1>1, <1>3 DEF TableOK
<1>7. next_sem_id' \in Nat /\ (others \subseteq used)'
  BY <1>1, <1>2
<1>8. /\ Initialised(r) \subseteq {r, r + 1, r + 2}
      /\ Initialised(r) \cap used = {}
      /\ Cardinality(Initialised(r)) = 3 <=> Initialised(r) = {r, r + 1, r + 2}
  BY <1>2, InitialisedFacts
<1>9. ASSUME NEW j \in Good
      PROVE  /\ j \in Slot /\ j # i /\ pipes'[j] = pipes[j]
             /\ pipes'[j].semReaders \in Nat
             /\ pipes'[j].semWriters = pipes'[j].semReaders + 1
             /\ pipes'[j].mutex = pipes'[j].semReaders + 2
             /\ pipes'[j].semReaders + 3 <= r
             /\ Sems(j)' \subseteq used' \ others'
  <2>1. j \in Slot /\ j # i
    BY <1>4 DEF Good
  <2>2. pipes'[j] = pipes[j] /\ Sems(j)' = Sems(j)
    BY <2>1, <1>3 DEF Sems
  <2>3. Sems(j)' \subseteq used' \ others'
    BY <2>2, <1>1 DEF TableOK
  <2> QED BY <2>1, <2>2, <2>3 DEF TableOK
<1>10. CASE Cardinality(Initialised(r)) = 3
  <2>1. /\ given' = given \cup {ExportedId(i)} /\ lost' = lost
        /\ used' = used \cup {r, r + 1, r + 2} /\ {r, r + 1, r + 2} \cap used = {}
    BY <1>1, <1>8, <1>10
  <2>2. Good' = Good \cup {i}
    <3>1. ASSUME NEW j \in Slot PROVE j \in Good' <=> j \in Good \/ j = i
      BY <2>1, <1>3, <1>4 DEF Good
    <3>2. Good' \subseteq Slot /\ Good \subseteq Slot
      BY DEF Good
    <3> QED BY <3>1, <3>2
  <2>3. given' = {ExportedId(j) : j \in Good'}
    BY <2>1, <2>2, <1>2
  <2>4. Sems(i)' \subseteq used' \ others'
    BY <2>1, <1>1, <1>2, <1>3 DEF Sems
  <2>5. \A j \in Good' : /\ pipes'[j].semReaders \in Nat
                         /\ pipes'[j].semWriters = pipes'[j].semReaders + 1
                         /\ pipes'[j].mutex = pipes'[j].semReaders + 2
                         /\ pipes'[j].semReaders + 3 <= next_sem_id'
                         /\ Sems(j)' \subseteq used' \ others'
    <3>1. ASSUME NEW j \in Good
          PROVE  /\ pipes'[j].semReaders \in Nat
                 /\ pipes'[j].semWriters = pipes'[j].semReaders + 1
                 /\ pipes'[j].mutex = pipes'[j].semReaders + 2
                 /\ pipes'[j].semReaders + 3 <= next_sem_id'
                 /\ Sems(j)' \subseteq used' \ others'
      BY <1>1, <1>2, <1>9
    <3> QED BY <3>1, <2>2, <2>4, <1>1, <1>2, <1>3
  <2>6. \A j, m \in Good' : j # m =>
       \/ pipes'[j].semReaders + 3 <= pipes'[m].semReaders
       \/ pipes'[m].semReaders + 3 <= pipes'[j].semReaders
    <3> SUFFICES ASSUME NEW j \in Good', NEW m \in Good', j # m
                 PROVE  \/ pipes'[j].semReaders + 3 <= pipes'[m].semReaders
                        \/ pipes'[m].semReaders + 3 <= pipes'[j].semReaders
      OBVIOUS
    <3>1. CASE j = i
      BY <3>1, <2>2, <1>3, <1>9
    <3>2. CASE m = i
      BY <3>2, <2>2, <1>3, <1>9
    <3>3. CASE j # i /\ m # i
      <4>1. j \in Good /\ m \in Good /\ pipes'[j] = pipes[j] /\ pipes'[m] = pipes[m]
        BY <3>3, <2>2, <1>9
      <4> QED BY <4>1 DEF TableOK
    <3> QED BY <3>1, <3>2, <3>3
  <2> QED BY <2>1, <2>2, <2>3, <2>5, <2>6, <1>3, <1>5, <1>6, <1>7 DEF TableOK
<1>11. CASE Cardinality(Initialised(r)) # 3
  <2>1. given' = given /\ lost' = lost \cup {i}
    BY <1>1, <1>11
  <2>2. Good' = Good
    <3>1. ASSUME NEW j \in Slot PROVE j \in Good' <=> j \in Good
      BY <2>1, <1>3, <1>4 DEF Good
    <3>2. Good' \subseteq Slot /\ Good \subseteq Slot
      BY DEF Good
    <3> QED BY <3>1, <3>2
  <2>3. given' = {ExportedId(j) : j \in Good'}
    BY <2>1, <2>2, <1>2
  <2>4. \A j \in Good' : /\ pipes'[j].semReaders \in Nat
                         /\ pipes'[j].semWriters = pipes'[j].semReaders + 1
                         /\ pipes'[j].mutex = pipes'[j].semReaders + 2
                         /\ pipes'[j].semReaders + 3 <= next_sem_id'
                         /\ Sems(j)' \subseteq used' \ others'
    BY <2>2, <1>1, <1>2, <1>9
  <2>5. \A j, m \in Good' : j # m =>
       \/ pipes'[j].semReaders + 3 <= pipes'[m].semReaders
       \/ pipes'[m].semReaders + 3 <= pipes'[j].semReaders
    BY <2>2, <1>9 DEF TableOK
  <2> QED BY <2>1, <2>2, <2>3, <2>4, <2>5, <1>3, <1>6, <1>7 DEF TableOK
<1> QED BY <1>10, <1>11

\* The semaphores of two good pipes are apart.
LEMMA TriplesApart ==
  ASSUME TableOK, NEW i \in Good, NEW j \in Good, i # j
  PROVE  Sems(i) \cap Sems(j) = {}
<1>1. /\ Sems(i) = {pipes[i].semReaders, pipes[i].semReaders + 1, pipes[i].semReaders + 2}
      /\ Sems(j) = {pipes[j].semReaders, pipes[j].semReaders + 1, pipes[j].semReaders + 2}
      /\ pipes[i].semReaders \in Nat /\ pipes[j].semReaders \in Nat
  BY DEF TableOK, Sems
<1>2. \/ pipes[i].semReaders + 3 <= pipes[j].semReaders
      \/ pipes[j].semReaders + 3 <= pipes[i].semReaders
  BY DEF TableOK
<1> QED BY <1>1, <1>2

\* pipeClose of an id that was given out closes that pipe and no other.
LEMMA CloseTable ==
  ASSUME TableOK, NEW id \in given, PipeClose(id)
  PROVE  TableOK' /\ id > 2 /\ SlotOf(id) = id - 2 /\ Good' = Good \ {id - 2} /\ given' = given \ {id}
<1>1. PICK i \in Good : id = ExportedId(i)
  BY DEF TableOK
<1>2. i \in Slot /\ i \notin lost
  BY DEF Good
<1>3. SlotOf(id) = i /\ i > 2 /\ id = i + 2 /\ i \in Nat
  BY <1>1, <1>2, Ids DEF PipeClose, CloseWorks, ExportedId
<1>4. /\ pipes' = [pipes EXCEPT ![i] = ClosedPipe] /\ used' = used \ Sems(i)
      /\ given' = given \ {id} /\ next_sem_id' = next_sem_id /\ others' = others /\ lost' = lost
  BY <1>3 DEF PipeClose
<1>5. /\ pipes' \in [Slot -> PipeRecord] /\ ~pipes'[i].isOpen
      /\ \A j \in Slot : j # i => pipes'[j] = pipes[j]
  BY <1>2, <1>4 DEF ClosedPipe, PipeRecord, TableOK
<1>6. Good' = Good \ {i}
  <2>1. ASSUME NEW j \in Slot PROVE j \in Good' <=> j \in Good /\ j # i
    BY <1>4, <1>5 DEF Good
  <2>2. Good' \subseteq Slot /\ Good \subseteq Slot
    BY DEF Good
  <2> QED BY <2>1, <2>2
<1>7. given' = {ExportedId(j) : j \in Good'}
  <2>1. given = {ExportedId(j) : j \in Good}
    BY DEF TableOK
  <2>2. \A j \in Good \ {i} : ExportedId(j) # id
    BY <1>1, <1>2, Ids DEF Good
  <2> QED BY <2>1, <2>2, <1>1, <1>4, <1>6
<1>8. others' \subseteq used'
  BY <1>4 DEF TableOK
<1>9. \A j \in lost' : j \in Slot /\ pipes'[j].isOpen
  BY <1>2, <1>4, <1>5 DEF TableOK
<1>10. ASSUME NEW j \in Good'
       PROVE  /\ j \in Good /\ pipes'[j] = pipes[j] /\ Sems(j)' \subseteq used' \ others'
  <2>1. j \in Good /\ j # i /\ j \in Slot
    BY <1>6 DEF Good
  <2>2. pipes'[j] = pipes[j] /\ Sems(j)' = Sems(j)
    BY <2>1, <1>5 DEF Sems
  <2>3. Sems(j) \cap Sems(i) = {}
    BY <2>1, TriplesApart
  <2>4. Sems(j) \subseteq used \ others
    BY <2>1 DEF TableOK
  <2> QED BY <2>1, <2>2, <2>3, <2>4, <1>4
<1>11. \A j \in Good' : /\ pipes'[j].semReaders \in Nat
                        /\ pipes'[j].semWriters = pipes'[j].semReaders + 1
                        /\ pipes'[j].mutex = pipes'[j].semReaders + 2
                        /\ pipes'[j].semReaders + 3 <= next_sem_id'
                        /\ Sems(j)' \subseteq used' \ others'
  BY <1>4, <1>10 DEF TableOK
<1>12. \A j, m \in Good' : j # m =>
       \/ pipes'[j].semReaders + 3 <= pipes'[m].semReaders
       \/ pipes'[m].semReaders + 3 <= pipes'[j].semReaders
  BY <1>10 DEF TableOK
<1>13. TableOK'
  BY <1>4, <1>5, <1>7, <1>8, <1>9, <1>11, <1>12 DEF TableOK
<1> QED BY <1>13, <1>3, <1>4, <1>6

\* Others take semaphores that are free and give back their own.
LEMMA OthersTable ==
  ASSUME TableOK, OthersTake \/ OthersGive
  PROVE  TableOK' /\ Good' = Good /\ given' = given
<1>1. pipes' = pipes /\ next_sem_id' = next_sem_id /\ given' = given /\ lost' = lost
  BY DEF OthersTake, OthersGive
<1>2. Good' = Good /\ \A i \in Good : Sems(i)' = Sems(i)
  BY <1>1 DEF Good, Sems
<1>3. others' \subseteq used' /\ \A i \in Good : Sems(i) \subseteq used' \ others'
  <2>1. others \subseteq used /\ \A i \in Good : Sems(i) \subseteq used \ others
    BY DEF TableOK
  <2>2. CASE OthersTake
    <3>1. PICK n \in 0..(NUM_SEMS - 1) : n \notin used /\ used' = used \cup {n} /\ others' = others \cup {n}
      BY <2>2 DEF OthersTake
    <3> QED BY <2>1, <3>1
  <2>3. CASE OthersGive
    <3>1. PICK n \in others : used' = used \ {n} /\ others' = others \ {n}
      BY <2>3 DEF OthersGive
    <3> QED BY <2>1, <3>1
  <2> QED BY <2>2, <2>3
<1>4. given' = {ExportedId(i) : i \in Good'}
  BY <1>1, <1>2 DEF TableOK
<1> QED BY <1>1, <1>2, <1>3, <1>4 DEF TableOK

Closes(t) == (HasOp(t, "close") \/ HasOp(t, "created")) /\ ~HasOp(t, "open")

LEMMA PipeKept ==
  ASSUME TableOK, PipeOK, UNCHANGED table, Closes(sh'.todo) <=> Closes(sh.todo),
         Closes(sh.todo) => sh'.pipe = sh.pipe
  PROVE  TableOK' /\ PipeOK'
<1>1. /\ pipes' = pipes /\ next_sem_id' = next_sem_id /\ used' = used /\ others' = others
      /\ given' = given /\ lost' = lost
  BY DEF table
<1>2. Good' = Good /\ \A i : Sems(i)' = Sems(i)
  BY <1>1 DEF Good, Sems
<1>3. WillClose = Closes(sh.todo) /\ WillClose' = Closes(sh'.todo)
  BY DEF WillClose, Closes
<1>4. TableOK'
  BY <1>1, <1>2 DEF TableOK
<1>5. PipeOK'
  BY <1>1, <1>2, <1>3 DEF PipeOK
<1> QED BY <1>4, <1>5

\* The list does not change what it says about the pipe.
LEMMA PlainTail ==
  ASSUME ShellOK, NEW op \in Starting \cup {"free", "builtin", "waitpid"}, Step(op)
  PROVE  Closes(Rest) <=> Closes(sh.todo)
<1>1. sh.todo \in Seq(Item) /\ sh.todo # << >> /\ Rest = Tail(sh.todo) /\ sh.todo[1].op = op
  BY StepFacts
<1>2. \A o : HasOp(sh.todo, o) <=> sh.todo[1].op = o \/ HasOp(Rest, o)
  BY <1>1, HasTail
<1> QED BY <1>1, <1>2 DEF Closes, Starting

LEMMA HandlerPipe ==
  ASSUME ListOK, DoHandler
  PROVE  Closes(sh'.todo) <=> Closes(sh.todo)
<1>1. Step("handler") /\ X \in 1..2 /\ Rest \in Seq(Item) /\ ShellOK
  BY StepFacts DEF ListOK, DoHandler, Starting
<1>2. Closes(Rest) <=> Closes(sh.todo)
  BY <1>1, PlainTail DEF Starting
<1>3. ASSUME NEW p \in {SelfStart(X), <<Do("create", X)>>, WithArgs(X)}
      PROVE  Closes(p \o Rest) <=> Closes(Rest)
  <2>1. p \in Seq(Item) /\ StartOf(p, X)
    BY <1>1, StartLists, StartsOf
  <2>2. ~HasOp(p, "close") /\ ~HasOp(p, "created") /\ ~HasOp(p, "open")
    BY <2>1 DEF StartOf, HasOp
  <2>3. \A o : HasOp(p \o Rest, o) <=> HasOp(p, o) \/ HasOp(Rest, o)
    BY <2>1, <1>1, HasPrepend
  <2> QED BY <2>2, <2>3 DEF Closes
<1>4. \/ sh'.todo = SelfStart(X) \o Rest
      \/ sh'.todo = <<Do("create", X)>> \o Rest
      \/ sh'.todo = WithArgs(X) \o Rest
      \/ sh'.todo = Rest
  BY <1>1, HandlerGoes DEF GoesOn
<1> QED BY <1>2, <1>3, <1>4

\* The two steps that argv skips.
LEMMA SkipTwo ==
  ASSUME NEW t \in Seq(Item), t # << >>, Shape(t), t[1].op = "argv", NEW it, NEW o
  PROVE  LET u == Tail(Tail(Tail(t)))
         IN  /\ Has(t, it) <=> it \in {t[1], Do("create", t[1].x), FreeOf("argv")} \/ Has(u, it)
             /\ HasOp(t, o) <=> o \in {"argv", "create", "free"} \/ HasOp(u, o)
<1> DEFINE u == Tail(Tail(Tail(t)))
<1>1. /\ Len(t) >= 4 /\ Len(u) = Len(t) - 3 /\ Len(t) \in Nat
      /\ \A n \in 1..Len(u) : u[n] = t[n + 3]
      /\ t[2] = Do("create", t[1].x) /\ t[3] = FreeOf("argv")
  BY ArgvRest, SMTT(30)
<1> HIDE DEF u
<1>2. \A n \in 1..Len(t) : n = 1 \/ n = 2 \/ n = 3 \/ (n - 3 \in 1..Len(u) /\ u[n - 3] = t[n])
  <2> SUFFICES ASSUME NEW n \in 1..Len(t), n # 1, n # 2, n # 3
               PROVE  n - 3 \in 1..Len(u) /\ u[n - 3] = t[n]
    OBVIOUS
  <2>1. n - 3 \in 1..Len(u) /\ (n - 3) + 3 = n
    BY <1>1
  <2> QED BY <2>1, <1>1
<1>3. \A n \in 1..Len(u) : n + 3 \in 1..Len(t) /\ t[n + 3] = u[n]
  BY <1>1
<1>4. 1 \in 1..Len(t) /\ 2 \in 1..Len(t) /\ 3 \in 1..Len(t)
  BY <1>1
<1>5. Has(t, it) <=> it \in {t[1], Do("create", t[1].x), FreeOf("argv")} \/ Has(u, it)
  BY <1>1, <1>2, <1>3, <1>4, SMTT(30) DEF Has
<1>6. t[2].op = "create" /\ t[3].op = "free"
  BY <1>1 DEF Do, FreeOf
<1>7. HasOp(t, o) <=> o \in {"argv", "create", "free"} \/ HasOp(u, o)
  <2>1. ASSUME HasOp(t, o) PROVE o \in {"argv", "create", "free"} \/ HasOp(u, o)
    <3>1. PICK n \in 1..Len(t) : t[n].op = o
      BY <2>1 DEF HasOp
    <3> QED BY <3>1, <1>2, <1>6 DEF HasOp
  <2>2. o \in {"argv", "create", "free"} => HasOp(t, o)
    BY <1>4, <1>6 DEF HasOp
  <2>3. HasOp(u, o) => HasOp(t, o)
    BY <1>3 DEF HasOp
  <2> QED BY <2>1, <2>2, <2>3
<1> QED BY <1>5, <1>7 DEF u

LEMMA ArgvPipe ==
  ASSUME ListOK, DoArgv
  PROVE  Closes(sh'.todo) <=> Closes(sh.todo)
<1>1. /\ Step("argv") /\ ShellOK /\ sh.todo \in Seq(Item) /\ sh.todo # << >> /\ sh.todo[1].op = "argv"
      /\ Rest = Tail(sh.todo)
  BY StepFacts DEF ListOK, DoArgv
<1>2. Closes(Rest) <=> Closes(sh.todo)
  BY <1>1, PlainTail DEF Starting
<1>3. \A o : HasOp(sh.todo, o) <=> o \in {"argv", "create", "free"} \/ HasOp(Tail(Tail(Rest)), o)
  BY <1>1, SkipTwo DEF ListOK
<1>4. Closes(Tail(Tail(Rest))) <=> Closes(sh.todo)
  BY <1>3 DEF Closes
<1>5. sh'.todo = Tail(Tail(Rest)) \/ sh'.todo = Rest
  BY <1>1, ArgvGoes DEF GoesOn, ListOK
<1> QED BY <1>2, <1>4, <1>5

LEMMA OpenPipe ==
  ASSUME ListOK, TableOK, PipeOK, DoOpen
  PROVE  TableOK' /\ PipeOK'
<1>1. /\ Step("open") /\ ShellOK /\ sh.todo \in Seq(Item) /\ sh.todo # << >> /\ sh.todo[1].op = "open"
      /\ Rest = Tail(sh.todo)
  BY StepFacts DEF ListOK, DoOpen
<1>2. 1 \in 1..Len(sh.todo)
  BY <1>1
<1>3. HasOp(sh.todo, "open") /\ HasOp(sh.todo, "created")
  BY <1>1, <1>2 DEF ListOK, Shape, OpenFirst, HasOp
<1>4. ~WillClose
  BY <1>3 DEF WillClose
<1>5. \A i \in Good : ~(i > 2 /\ i + 2 < MAX_PIPES)
  BY <1>4 DEF PipeOK
<1>6. CASE CreatePipe /\ given' # given /\ GoesOn(Rest, sh.ptr, sh.pids, CHOOSE id \in given' : id \notin given)
  <2>1. TableOK'
    BY <1>6, CreateTable
  <2>2. PICK i \in Slot :
              \/ /\ ExportedId(i) \notin given /\ given' = given \cup {ExportedId(i)}
                 /\ Good' = Good \cup {i}
              \/ given' = given /\ Good' = Good
    BY <1>6, CreateTable
  <2>3. ExportedId(i) \notin given /\ given' = given \cup {ExportedId(i)} /\ Good' = Good \cup {i}
    BY <2>2, <1>6
  <2>4. (CHOOSE id \in given' : id \notin given) = ExportedId(i)
    BY <2>3
  <2>5. sh'.pipe = ExportedId(i) /\ sh'.todo = Rest
    BY <2>4, <1>6 DEF GoesOn
  <2>6. HasOp(Rest, "created") /\ ~HasOp(Rest, "open")
    <3>1. HasOp(Rest, "created")
      BY <1>1, <1>3, HasTail
    <3>2. ~HasOp(Rest, "open")
      <4>1. /\ Len(Rest) = Len(sh.todo) - 1 /\ Len(sh.todo) \in Nat
            /\ \A n \in 1..(Len(sh.todo) - 1) : Rest[n] = sh.todo[n + 1]
        BY <1>1, TailFacts
      <4> QED BY <4>1 DEF HasOp, ListOK, Shape, OpenFirst
    <3> QED BY <3>1, <3>2
  <2>7. WillClose'
    BY <2>5, <2>6 DEF WillClose
  <2>8. i > 2 => ExportedId(i) = i + 2
    BY TableAssumption DEF ExportedId, Slot
  <2>9. sh'.pipe \in given'
    BY <2>3, <2>5
  <2>10. \A j \in Good' : (j > 2 /\ j + 2 < MAX_PIPES) => sh'.pipe = j + 2 /\ WillClose'
    BY <2>3, <2>5, <2>7, <2>8, <1>5
  <2> QED BY <2>1, <2>9, <2>10 DEF PipeOK
<1>7. CASE ((CreatePipe /\ given' = given) \/ UNCHANGED table) /\ GoesOn(Cleanup, sh.ptr, sh.pids, sh.pipe)
  <2>1. ~WillClose'
    <3>1. sh'.todo = Cleanup
      BY <1>7 DEF GoesOn
    <3> QED BY <3>1, CleanupShape DEF WillClose
  <2>2. CASE CreatePipe /\ given' = given
    <3>1. TableOK' /\ Good' = Good
      BY <2>2, CreateTable
    <3> QED BY <3>1, <2>1, <1>5 DEF PipeOK
  <2>3. CASE UNCHANGED table
    <3>1. ~Closes(sh.todo) /\ ~Closes(sh'.todo)
      BY <2>1, <1>4 DEF WillClose, Closes
    <3> QED BY <3>1, <2>3, PipeKept
  <2> QED BY <2>2, <2>3, <1>7
<1> QED BY <1>1, <1>6, <1>7, OpenGoes

\* Closing the pipe of the line leaves none that could be closed.
LEMMA ClosePipe ==
  ASSUME ListOK, TableOK, PipeOK, DoClose
  PROVE  TableOK' /\ PipeOK'
<1>1. /\ Step("close") /\ ShellOK /\ sh.todo \in Seq(Item) /\ sh.todo # << >> /\ sh.todo[1].op = "close"
      /\ Rest = Tail(sh.todo)
  BY StepFacts DEF ListOK, DoClose
<1>2. /\ Len(Rest) = Len(sh.todo) - 1 /\ Len(sh.todo) \in Nat /\ Len(sh.todo) >= 1
      /\ \A n \in 1..(Len(sh.todo) - 1) : Rest[n] = sh.todo[n + 1]
  BY <1>1, TailFacts
<1>3. ~HasOp(sh.todo, "open")
  BY <1>1, <1>2 DEF HasOp, ListOK, Shape, OpenFirst
<1>4. HasOp(sh.todo, "close")
  BY <1>1, <1>2 DEF HasOp
<1>5. WillClose /\ sh.pipe \in given
  BY <1>3, <1>4 DEF WillClose, PipeOK
<1>6. \A n \in 1..Len(Rest) : Rest[n].op = "free"
  <2> SUFFICES ASSUME NEW n \in 1..Len(Rest) PROVE Rest[n].op = "free"
    OBVIOUS
  <2>1. n + 1 \in 1..Len(sh.todo) /\ 1 \in 1..Len(sh.todo) /\ 1 < n + 1 /\ Rest[n] = sh.todo[n + 1]
    BY <1>2
  <2> QED BY <2>1, <1>1 DEF ListOK, Shape, CloseLate
<1>7. sh'.todo = Rest /\ sh'.pipe = sh.pipe
  BY <1>1, CloseGoes DEF GoesOn
<1>8. ~WillClose'
  BY <1>6, <1>7 DEF WillClose, HasOp
<1>9. CASE CloseWorks(sh.pipe)
  <2>1. PipeClose(sh.pipe)
    BY <1>9 DEF DoClose
  <2>2. TableOK' /\ Good' = Good \ {sh.pipe - 2} /\ sh.pipe > 2
    BY <2>1, <1>5, CloseTable
  <2>3. ASSUME NEW i \in Good', i > 2, i + 2 < MAX_PIPES PROVE FALSE
    <3>1. i \in Good /\ i # sh.pipe - 2
      BY <2>2
    <3>2. sh.pipe = i + 2 /\ i \in Int
      BY <3>1, <2>3, TableAssumption DEF PipeOK, Good, Slot
    <3> QED BY <3>1, <3>2
  <2> QED BY <2>2, <2>3, <1>8 DEF PipeOK
<1>10. CASE ~CloseWorks(sh.pipe)
  <2>1. UNCHANGED table
    BY <1>10 DEF DoClose
  <2>2. ASSUME NEW i \in Good, i > 2, i + 2 < MAX_PIPES PROVE FALSE
    <3>1. sh.pipe = i + 2 /\ i \in Slot /\ i \in Int /\ pipes[i].isOpen
      BY <2>2, TableAssumption DEF PipeOK, Good, Slot
    <3>2. SlotOf(sh.pipe) = i /\ sh.pipe >= 0 /\ sh.pipe < MAX_PIPES
      BY <3>1, <2>2 DEF SlotOf
    <3> QED BY <3>1, <3>2, <2>2, <1>10 DEF CloseWorks, PipeIdCheck
  <2>3. Good' = Good /\ TableOK'
    <3>1. /\ pipes' = pipes /\ next_sem_id' = next_sem_id /\ used' = used /\ others' = others
          /\ given' = given /\ lost' = lost
      BY <2>1 DEF table
    <3>2. Good' = Good /\ \A i : Sems(i)' = Sems(i)
      BY <3>1 DEF Good, Sems
    <3> QED BY <3>1, <3>2 DEF TableOK
  <2> QED BY <2>2, <2>3, <1>8 DEF PipeOK
<1> QED BY <1>9, <1>10

LEMMA TableNext ==
  ASSUME ListOK, TableOK, PipeOK, [Next]_vars
  PROVE  TableOK' /\ PipeOK'
<1>0. ShellOK
  BY DEF ListOK
<1>1. CASE NewLine \/ NewBuffer \/ ReadLine \/ NewArg \/ NewInstruction \/ SplitLine \/ Verify
  <2>1. sh.todo = << >> /\ UNCHANGED table
    BY <1>1, <1>0 DEF NewLine, NewBuffer, ReadLine, NewArg, NewInstruction, SplitLine, Verify, ShellOK
  <2>2. sh'.todo = sh.todo
    BY <1>0, <1>1, NewLineGoes, NewBufferGoes, ReadLineGoes, NewArgGoes, NewInstructionGoes, SplitLineGoes,
       VerifyGoes DEF ParsesTo
  <2>3. ~Closes(sh.todo)
    BY <2>1, EmptyList DEF Closes
  <2> QED BY <2>1, <2>2, <2>3, PipeKept
<1>2. CASE Control
  <2>1. sh.todo = << >> /\ UNCHANGED table
    BY <1>2, <1>0 DEF Control, ShellOK
  <2>2. sh'.todo \in {Cleanup, BuiltIn, Single, Pipeline, << >>}
    BY <2>1, <1>0, <1>2, ControlGoes DEF GoesOn, ParsesTo
  <2>3. ~Closes(sh'.todo)
    BY <2>2, CleanupShape, BuiltInShape, SingleShape, PipelineShape, EmptyList DEF Closes
  <2>4. ~Closes(sh.todo)
    BY <2>1, EmptyList DEF Closes
  <2> QED BY <2>1, <2>3, <2>4, PipeKept
<1>3. CASE DoFree \/ DoBuiltIn \/ DoWaitpid \/ DoCreate
  <2>1. UNCHANGED table /\ \E op \in Starting \cup {"free", "builtin", "waitpid"} : Step(op)
    BY <1>3 DEF DoFree, DoBuiltIn, DoWaitpid, DoCreate, Starting
  <2>2. sh'.todo = Rest /\ sh'.pipe = sh.pipe
    BY <1>0, <1>3, FreeGoes, BuiltInGoes, WaitpidGoes, CreateGoes DEF GoesOn
  <2>3. Closes(Rest) <=> Closes(sh.todo)
    BY <2>1, <1>0, PlainTail
  <2> QED BY <2>1, <2>2, <2>3, PipeKept
<1>4. CASE DoHandler
  <2>1. UNCHANGED table
    BY <1>4 DEF DoHandler
  <2>2. sh'.pipe = sh.pipe
    BY <1>0, <1>4, HandlerGoes DEF GoesOn
  <2> QED BY <2>1, <2>2, <1>4, HandlerPipe, PipeKept
<1>5. CASE DoArgv
  <2>1. UNCHANGED table
    BY <1>5 DEF DoArgv
  <2>2. sh'.pipe = sh.pipe
    BY <1>0, <1>5, ArgvGoes DEF GoesOn, ListOK
  <2> QED BY <2>1, <2>2, <1>5, ArgvPipe, PipeKept
<1>6. CASE DoCreated
  <2>1. /\ sh.todo \in Seq(Item) /\ sh.todo # << >> /\ sh.todo[1].op = "created" /\ 1 \in 1..Len(sh.todo)
    BY <1>0, <1>6, StepFacts DEF DoCreated
  <2>2. UNCHANGED table
    BY <1>6 DEF DoCreated
  <2>3. Closes(sh.todo)
    BY <2>1 DEF ListOK, Shape, OpenFirst, HasOp, Closes
  <2>4. sh'.todo \in {Abandon, AwaitBoth} /\ sh'.pipe = sh.pipe
    BY <1>0, <1>6, CreatedGoes DEF GoesOn
  <2>5. Closes(sh'.todo)
    BY <2>4, AbandonShape, AwaitBothShape DEF Closes
  <2> QED BY <2>2, <2>3, <2>4, <2>5, PipeKept
<1>7. CASE DoOpen
  BY <1>7, OpenPipe
<1>8. CASE DoClose
  BY <1>8, ClosePipe
<1>9. CASE (OthersTake \/ OthersGive) /\ UNCHANGED <<sh, owner, live>>
  <2>1. TableOK' /\ Good' = Good /\ given' = given /\ sh' = sh
    BY <1>9, OthersTable
  <2> QED BY <2>1 DEF PipeOK, WillClose
<1>10. CASE UNCHANGED table /\ sh' = sh
  BY <1>10, PipeKept
<1>11. ProcessEnds \/ OthersMalloc \/ OthersFree \/ UNCHANGED vars => UNCHANGED table /\ sh' = sh
  BY DEF ProcessEnds, OthersMalloc, OthersFree, vars
<1> QED BY <1>1, <1>2, <1>3, <1>4, <1>5, <1>6, <1>7, <1>8, <1>9, <1>10, <1>11 DEF Next, ShellStep

-----------------------------------------------------------------------------
(* The processes of the line.                                               *)

NotStarting(t) == \A n \in 1..Len(t) : t[n].op \notin Starting

\* A live process of the line is waited for, or the line is given up.
Minded(t, pids, alive, i) ==
  pids[i] \in alive => Awaited(t, i) \/ ((\E j \in 1..2 : pids[j] < 0) /\ NotStarting(t))

LEMMA PidsParts ==
  /\ PidsOK <=> /\ sh.at \in Parsing \/ HasOp(sh.todo, "open") => sh.pids[1] = 0 /\ sh.pids[2] = 0
                /\ \A i \in 1..2 : Minded(sh.todo, sh.pids, DOMAIN live, i)
  /\ PidsOK' <=> /\ sh'.at \in Parsing \/ HasOp(sh'.todo, "open") => sh'.pids[1] = 0 /\ sh'.pids[2] = 0
                 /\ \A i \in 1..2 : Minded(sh'.todo, sh'.pids, DOMAIN live', i)
  BY DEF PidsOK, Minded, NotStarting

\* 0 is no process of the shell.
LEMMA ZeroPids ==
  ASSUME ShellOK', sh'.pids[1] = 0, sh'.pids[2] = 0
  PROVE  PidsOK'
<1>1. 0 \notin DOMAIN live'
  BY DEF ShellOK
<1>2. \A i \in 1..2 : Minded(sh'.todo, sh'.pids, DOMAIN live', i)
  BY <1>1 DEF Minded
<1> QED BY <1>2, PidsParts

LEMMA NoOpenLater ==
  ASSUME ListOK, NEW op, op # "open", Step(op)
  PROVE  ~HasOp(sh.todo, "open") /\ ~HasOp(Rest, "open")
<1>1. sh.todo \in Seq(Item) /\ sh.todo # << >> /\ Rest = Tail(sh.todo) /\ sh.todo[1].op = op
  BY StepFacts DEF ListOK
<1>2. ~HasOp(sh.todo, "open")
  BY <1>1 DEF ListOK, Shape, OpenFirst, HasOp
<1> QED BY <1>1, <1>2, HasTail

\* What waits for a process stays when another step is done.
LEMMA AwaitedTail ==
  ASSUME ShellOK, NEW op, op # "created", Step(op), NEW i, sh.todo[1] # Do("waitpid", i)
  PROVE  /\ Awaited(sh.todo, i) <=> Awaited(Rest, i)
         /\ NotStarting(sh.todo) => NotStarting(Rest)
<1>1. sh.todo \in Seq(Item) /\ sh.todo # << >> /\ Rest = Tail(sh.todo) /\ sh.todo[1].op = op
  BY StepFacts
<1>2. Awaited(sh.todo, i) <=> Awaited(Rest, i)
  BY <1>1, HasTail DEF Awaited
<1>3. /\ Len(Rest) = Len(sh.todo) - 1 /\ Len(sh.todo) \in Nat
      /\ \A n \in 1..(Len(sh.todo) - 1) : Rest[n] = sh.todo[n + 1]
  BY <1>1, TailFacts
<1>4. NotStarting(sh.todo) => NotStarting(Rest)
  BY <1>3 DEF NotStarting
<1> QED BY <1>2, <1>4

LEMMA PlainPids ==
  ASSUME ListOK, PidsOK, NEW op \in {"free", "builtin", "close", "waitpid"}, Step(op),
         sh'.at \notin Parsing, sh'.todo = Rest, sh'.pids = sh.pids, DOMAIN live' \subseteq DOMAIN live,
         op = "waitpid" => sh.pids[X] \notin DOMAIN live
  PROVE  PidsOK'
<1>1. ~HasOp(sh'.todo, "open")
  BY NoOpenLater
<1>2. ASSUME NEW i \in 1..2 PROVE Minded(sh'.todo, sh'.pids, DOMAIN live', i)
  <2>1. CASE sh.todo[1] = Do("waitpid", i)
    <3>1. op = "waitpid" /\ X = i
      BY <2>1, StepFacts DEF ListOK, Do
    <3> QED BY <3>1 DEF Minded
  <2>2. CASE sh.todo[1] # Do("waitpid", i)
    <3>1. /\ Awaited(sh.todo, i) <=> Awaited(Rest, i)
          /\ NotStarting(sh.todo) => NotStarting(Rest)
      BY <2>2, AwaitedTail DEF ListOK
    <3>2. Minded(sh.todo, sh.pids, DOMAIN live, i)
      BY PidsParts
    <3> QED BY <3>1, <3>2 DEF Minded
  <2> QED BY <2>1, <2>2
<1> QED BY <1>1, <1>2, PidsParts

\* While a command is being started everybody alive is waited for.
LEMMA StartingPids ==
  ASSUME ListOK, PidsOK, NEW op \in Starting, Step(op), NEW i \in 1..2, sh.pids[i] \in DOMAIN live
  PROVE  Awaited(sh.todo, i) /\ Awaited(Rest, i)
<1>1. sh.todo \in Seq(Item) /\ sh.todo # << >> /\ sh.todo[1].op = op
  BY StepFacts DEF ListOK
<1>2. ~NotStarting(sh.todo)
  BY <1>1 DEF NotStarting
<1>3. Awaited(sh.todo, i)
  <2>1. Minded(sh.todo, sh.pids, DOMAIN live, i)
    BY PidsParts
  <2> QED BY <2>1, <1>2 DEF Minded
<1>4. sh.todo[1] # Do("waitpid", i)
  BY <1>1 DEF Do, Starting
<1> QED BY <1>1, <1>3, <1>4, AwaitedTail DEF ListOK, Starting

LEMMA HandlerPids ==
  ASSUME ListOK, PidsOK, DoHandler
  PROVE  PidsOK'
<1>1. Step("handler") /\ X \in 1..2 /\ Rest \in Seq(Item) /\ ShellOK /\ live' = live
  BY StepFacts DEF ListOK, DoHandler, Starting
<1>2. ~HasOp(Rest, "open")
  BY <1>1, NoOpenLater
<1>3. \A i \in 1..2 : sh.pids[i] \in DOMAIN live => Awaited(Rest, i)
  BY <1>1, StartingPids DEF Starting
<1>4. ASSUME NEW p \in {SelfStart(X), <<Do("create", X)>>, WithArgs(X)}
      PROVE  ~HasOp(p \o Rest, "open") /\ \A i \in 1..2 : Awaited(Rest, i) => Awaited(p \o Rest, i)
  <2>1. p \in Seq(Item) /\ StartOf(p, X)
    BY <1>1, StartLists, StartsOf
  <2>2. ~HasOp(p, "open")
    BY <2>1 DEF StartOf, HasOp
  <2>3. ~HasOp(p \o Rest, "open")
    BY <2>1, <2>2, <1>1, <1>2, HasPrepend
  <2>4. \A i \in 1..2 : Awaited(Rest, i) => Awaited(p \o Rest, i)
    BY <2>1, <1>1, HasPrepend DEF Awaited
  <2> QED BY <2>3, <2>4
<1>5. sh'.at \notin Parsing
  BY <1>1, HandlerGoes DEF GoesOn, Parsing
<1>6. ASSUME NEW p \in {SelfStart(X), <<Do("create", X)>>, WithArgs(X)},
             sh'.todo = p \o Rest, sh'.pids = sh.pids
      PROVE  PidsOK'
  BY <1>1, <1>3, <1>4, <1>5, <1>6, PidsParts DEF Minded
<1>7. ASSUME sh'.todo = Rest, sh'.pids = WithPid(-1)
      PROVE  PidsOK'
  <2>1. \A i \in 1..2 : sh'.pids[i] = IF i = X THEN -1 ELSE sh.pids[i]
    BY <1>1, <1>7 DEF WithPid, ListOK, ShellOK
  <2>2. -1 \notin DOMAIN live
    BY DEF ListOK, ShellOK
  <2> QED BY <2>1, <2>2, <1>1, <1>2, <1>3, <1>5, <1>7, PidsParts DEF Minded
<1>8. \/ sh'.todo = SelfStart(X) \o Rest /\ sh'.pids = sh.pids
      \/ sh'.todo = <<Do("create", X)>> \o Rest /\ sh'.pids = sh.pids
      \/ sh'.todo = WithArgs(X) \o Rest /\ sh'.pids = sh.pids
      \/ sh'.todo = Rest /\ sh'.pids = WithPid(-1)
  BY <1>1, HandlerGoes DEF GoesOn
<1> QED BY <1>6, <1>7, <1>8

LEMMA ArgvPids ==
  ASSUME ListOK, PidsOK, DoArgv
  PROVE  PidsOK'
<1>1. /\ Step("argv") /\ X \in 1..2 /\ ShellOK /\ live' = live /\ Rest = Tail(sh.todo)
      /\ sh.todo \in Seq(Item) /\ sh.todo # << >> /\ sh.todo[1].op = "argv"
  BY StepFacts DEF ListOK, DoArgv, Starting
<1>2. ~HasOp(Rest, "open") /\ ~HasOp(sh.todo, "open")
  BY <1>1, NoOpenLater
<1>3. \A i \in 1..2 : sh.pids[i] \in DOMAIN live => Awaited(Rest, i) /\ Awaited(sh.todo, i)
  BY <1>1, StartingPids DEF Starting
<1>4. sh'.at \notin Parsing
  BY <1>1, ArgvGoes DEF GoesOn, Parsing, ListOK
<1>5. CASE sh'.todo = Rest /\ sh'.pids = sh.pids
  BY <1>1, <1>2, <1>3, <1>4, <1>5, PidsParts DEF Minded
<1>6. CASE sh'.todo = Tail(Tail(Rest)) /\ sh'.pids = WithPid(-1)
  <2>1. \A i \in 1..2 : sh'.pids[i] = IF i = X THEN -1 ELSE sh.pids[i]
    BY <1>1, <1>6 DEF WithPid, ListOK, ShellOK
  <2>2. -1 \notin DOMAIN live
    BY DEF ListOK, ShellOK
  <2> DEFINE u == Tail(Tail(Rest))
  <2>3. /\ \A it : Has(sh.todo, it) <=> it \in {sh.todo[1], Do("create", sh.todo[1].x), FreeOf("argv")} \/ Has(u, it)
        /\ \A o : HasOp(sh.todo, o) <=> o \in {"argv", "create", "free"} \/ HasOp(u, o)
    BY <1>1, SkipTwo DEF ListOK
  <2> HIDE DEF u
  <2>4. \A i : Do("waitpid", i) \notin {sh.todo[1], Do("create", sh.todo[1].x), FreeOf("argv")}
    BY <1>1 DEF Do, FreeOf
  <2>5. \A i \in 1..2 : Awaited(sh.todo, i) => Awaited(u, i)
    BY <2>3, <2>4 DEF Awaited
  <2>6. ~HasOp(u, "open") /\ sh'.todo = u
    BY <2>3, <1>2, <1>6 DEF u
  <2> QED BY <2>1, <2>2, <2>5, <2>6, <1>1, <1>3, <1>4, <1>6, PidsParts DEF Minded
<1> QED BY <1>1, <1>5, <1>6, ArgvGoes DEF GoesOn, ListOK

LEMMA CreatePids ==
  ASSUME ListOK, PidsOK, DoCreate
  PROVE  PidsOK'
<1>1. /\ Step("create") /\ X \in 1..2 /\ ShellOK /\ Rest = Tail(sh.todo) /\ X = sh.todo[1].x
      /\ sh.todo \in Seq(Item) /\ sh.todo # << >> /\ sh.todo[1].op = "create"
  BY StepFacts DEF ListOK, DoCreate, Starting
<1>2. ~HasOp(Rest, "open")
  BY <1>1, NoOpenLater
<1>3. \A i \in 1..2 : sh.pids[i] \in DOMAIN live => Awaited(Rest, i)
  BY <1>1, StartingPids DEF Starting
<1>4. Awaited(Rest, X)
  <2>1. PICK m \in 1..Len(sh.todo) : 1 < m /\ (sh.todo[m] = Do("waitpid", X) \/ sh.todo[m].op = "created")
    BY <1>1 DEF ListOK, Shape, StartedAwaited, Starting
  <2>2. Awaited(sh.todo, X)
    BY <2>1 DEF Awaited, Has, HasOp
  <2>3. sh.todo[1] # Do("waitpid", X)
    BY <1>1 DEF Do
  <2> QED BY <2>2, <2>3, <1>1, AwaitedTail
<1>5. sh'.at \notin Parsing /\ sh'.todo = Rest
  BY <1>1, CreateGoes DEF GoesOn, Parsing
<1>6. ASSUME NEW v, sh'.pids = WithPid(v),
             \A i \in 1..2 : i # X => (sh.pids[i] \in DOMAIN live' => sh.pids[i] \in DOMAIN live)
      PROVE  PidsOK'
  <2>1. \A i \in 1..2 : i # X => sh'.pids[i] = sh.pids[i]
    BY <1>1, <1>6 DEF WithPid, ListOK, ShellOK
  <2>2. \A i \in 1..2 : sh'.pids[i] \in DOMAIN live' => Awaited(Rest, i)
    BY <2>1, <1>3, <1>4, <1>6
  <2> QED BY <2>2, <1>2, <1>5, PidsParts DEF Minded
<1>7. ASSUME NEW p \in NewPid, DOMAIN live' = DOMAIN live \cup {p},
             NEW v \in {0, p}, GoesOn(Rest, sh.ptr, WithPid(v), sh.pipe)
      PROVE  PidsOK'
  <2>1. sh'.pids = WithPid(v)
    BY <1>7 DEF GoesOn
  <2>2. \A i \in 1..2 : sh.pids[i] \in DOMAIN live' => sh.pids[i] \in DOMAIN live
    BY <1>1, <1>7, NewPidFacts
  <2> QED BY <2>1, <2>2, <1>6
<1>8. CASE live' = live /\ GoesOn(Rest, sh.ptr, WithPid(-1), sh.pipe)
  <2>1. sh'.pids = WithPid(-1)
    BY <1>8 DEF GoesOn
  <2> QED BY <2>1, <1>6, <1>8
<1> QED BY <1>1, <1>7, <1>8, CreateGoes

LEMMA PidsNext ==
  ASSUME ListOK, ListOK', PidsOK, [Next]_vars
  PROVE  PidsOK'
<1>0. ShellOK /\ ShellOK'
  BY DEF ListOK
<1>1. CASE NewLine
  <2>1. sh'.pids = <<0, 0>>
    BY <1>0, <1>1, NewLineGoes
  <2> QED BY <2>1, <1>0, ZeroPids
<1>2. CASE NewBuffer \/ ReadLine \/ NewArg \/ NewInstruction \/ SplitLine \/ Verify \/ Control
  <2>1. sh.at \in Parsing
    BY <1>2 DEF NewBuffer, ReadLine, NewArg, NewInstruction, SplitLine, Verify, Control, Parsing
  <2>2. sh.pids[1] = 0 /\ sh.pids[2] = 0
    BY <2>1 DEF PidsOK
  <2>3. sh'.pids = sh.pids
    BY <1>0, <1>2, NewBufferGoes, ReadLineGoes, NewArgGoes, NewInstructionGoes, SplitLineGoes,
       VerifyGoes, ControlGoes DEF ParsesTo, GoesOn
  <2> QED BY <2>2, <2>3, <1>0, ZeroPids
<1>3. CASE DoFree
  <2>1. Step("free") /\ live' = live
    BY <1>3 DEF DoFree
  <2>2. sh'.todo = Rest /\ sh'.pids = sh.pids /\ sh'.at \notin Parsing
    BY <1>0, <1>3, FreeGoes DEF GoesOn, Parsing
  <2> QED BY <2>1, <2>2, PlainPids
<1>4. CASE DoBuiltIn
  <2>1. Step("builtin") /\ DOMAIN live' \subseteq DOMAIN live
    BY <1>0, <1>4, FewerOK DEF DoBuiltIn
  <2>2. sh'.todo = Rest /\ sh'.pids = sh.pids /\ sh'.at \notin Parsing
    BY <1>0, <1>4, BuiltInGoes DEF GoesOn, Parsing
  <2> QED BY <2>1, <2>2, PlainPids
<1>5. CASE DoWaitpid
  <2>1. Step("waitpid") /\ live' = live /\ sh.pids[X] \notin DOMAIN live
    BY <1>5 DEF DoWaitpid
  <2>2. sh'.todo = Rest /\ sh'.pids = sh.pids /\ sh'.at \notin Parsing
    BY <1>0, <1>5, WaitpidGoes DEF GoesOn, Parsing
  <2> QED BY <2>1, <2>2, PlainPids
<1>6. CASE DoClose
  <2>1. Step("close") /\ live' = live
    BY <1>6 DEF DoClose
  <2>2. sh'.todo = Rest /\ sh'.pids = sh.pids /\ sh'.at \notin Parsing
    BY <1>0, <1>6, CloseGoes DEF GoesOn, Parsing
  <2> QED BY <2>1, <2>2, PlainPids
<1>7. CASE DoOpen
  <2>1. sh.todo[1].op = "open" /\ sh.todo \in Seq(Item) /\ sh.todo # << >>
    BY <1>0, <1>7, StepFacts DEF DoOpen
  <2>2. HasOp(sh.todo, "open")
    BY <2>1 DEF HasOp
  <2>3. sh'.pids = sh.pids
    BY <1>0, <1>7, OpenGoes DEF GoesOn
  <2> QED BY <2>2, <2>3, <1>0, ZeroPids DEF PidsOK
<1>8. CASE DoCreated
  <2>1. live' = live
    BY <1>8 DEF DoCreated
  <2>2. \/ (\E j \in 1..2 : sh.pids[j] < 0) /\ GoesOn(Abandon, sh.ptr, sh.pids, sh.pipe)
        \/ ~(\E j \in 1..2 : sh.pids[j] < 0) /\ GoesOn(AwaitBoth, sh.ptr, sh.pids, sh.pipe)
    BY <1>0, <1>8, CreatedGoes
  <2>3. CASE (\E j \in 1..2 : sh.pids[j] < 0) /\ GoesOn(Abandon, sh.ptr, sh.pids, sh.pipe)
    <3>1. sh'.todo = Abandon /\ sh'.pids = sh.pids /\ sh'.at \notin Parsing
      BY <2>3 DEF GoesOn, Parsing
    <3>2. \A op : HasOp(Abandon, op) <=> op \in {"close", "free"}
      BY AbandonShape
    <3>3. ~HasOp(Abandon, "open") /\ NotStarting(Abandon)
      BY <3>2 DEF HasOp, NotStarting, Starting
    <3> QED BY <3>1, <3>3, <2>3, PidsParts DEF Minded
  <2>4. CASE GoesOn(AwaitBoth, sh.ptr, sh.pids, sh.pipe)
    <3>1. sh'.todo = AwaitBoth /\ sh'.at \notin Parsing
      BY <2>4 DEF GoesOn, Parsing
    <3>2. ~HasOp(AwaitBoth, "open")
      BY AwaitBothShape
    <3>3. Awaited(AwaitBoth, 1) /\ Awaited(AwaitBoth, 2)
      BY AwaitBothList DEF Awaited, Has
    <3>4. \A i \in 1..2 : Awaited(AwaitBoth, i)
      BY <3>3
    <3> QED BY <3>1, <3>2, <3>4, PidsParts DEF Minded
  <2> QED BY <2>2, <2>3, <2>4
<1>9. CASE Others \/ UNCHANGED vars
  <2>1. sh' = sh /\ DOMAIN live' \subseteq DOMAIN live
    BY <1>0, <1>9, OthersFacts DEF Others, vars
  <2> QED BY <2>1, PidsParts DEF Minded
<1> QED BY <1>1, <1>2, <1>3, <1>4, <1>5, <1>6, <1>7, <1>8, <1>9, HandlerPids, ArgvPids, CreatePids
        DEF Next, ShellStep, Others

-----------------------------------------------------------------------------
(* The heap.                                                                *)

\* x is set to a new block or to NULL.
LEMMA MallocOwns ==
  ASSUME ShellOK, NEW b \in Block \cup {NULL}, Given(b), NEW x \in Vars, NEW H \in SUBSET Vars,
         NEW G \in SUBSET Vars, G \subseteq H \cup {x},
         Owns(H, sh.ptr, owner), sh'.ptr = SetPtr(x, b)
  PROVE  Owns(G, sh'.ptr, owner')
<1>1. sh'.ptr[x] = b /\ \A y \in Vars : y # x => sh'.ptr[y] = sh.ptr[y]
  BY DEF SetPtr, ShellOK, Pointers
<1>2. \A y \in Vars : sh.ptr[y] \in Block \cup {NULL}
  BY DEF ShellOK, Pointers
<1>3. b # NULL => b \in Block /\ owner[b] = "none" /\ owner'[b] = "shell"
  BY DEF Given, Free, ShellOK
<1>4. \A c \in Block : owner[c] = "shell" => owner'[c] = "shell" /\ c # b
  BY ShellAssumption DEF Given, Free, ShellOK
<1> SUFFICES ASSUME NEW y \in G, sh'.ptr[y] # NULL
             PROVE  owner'[sh'.ptr[y]] = "shell" /\ \A z \in G \ {y} : sh'.ptr[z] # sh'.ptr[y]
  BY DEF Owns
<1>5. CASE y = x
  <2>1. sh'.ptr[y] = b /\ b # NULL
    BY <1>1, <1>5
  <2>2. ASSUME NEW z \in G \ {y} PROVE sh'.ptr[z] # b
    <3>1. z \in H /\ sh'.ptr[z] = sh.ptr[z]
      BY <1>1, <1>5
    <3>2. sh.ptr[z] # NULL => owner[sh.ptr[z]] = "shell"
      BY <3>1 DEF Owns
    <3> QED BY <3>1, <3>2, <2>1, <1>3
  <2> QED BY <2>1, <2>2, <1>3
<1>6. CASE y # x
  <2>1. y \in H /\ sh'.ptr[y] = sh.ptr[y] /\ sh.ptr[y] \in Block
    BY <1>1, <1>2, <1>6
  <2>2. owner[sh.ptr[y]] = "shell" /\ \A z \in H \ {y} : sh.ptr[z] # sh.ptr[y]
    BY <2>1 DEF Owns
  <2>3. owner'[sh.ptr[y]] = "shell" /\ sh.ptr[y] # b
    BY <2>1, <2>2, <1>4
  <2>4. ASSUME NEW z \in G \ {y} PROVE sh'.ptr[z] # sh.ptr[y]
    BY <2>2, <2>3, <1>1
  <2> QED BY <2>1, <2>3, <2>4
<1> QED BY <1>5, <1>6

LEMMA MallocExact ==
  ASSUME ShellOK, NEW b \in Block \cup {NULL}, Given(b), NEW x \in Vars, NEW H \in SUBSET Vars,
         NEW G \in SUBSET Vars, G = H \cup {x}, x \in H => sh.ptr[x] = NULL,
         NEW Old \in SUBSET Block, Exact(Old, H, sh.ptr, owner), sh'.ptr = SetPtr(x, b)
  PROVE  Exact(Old, G, sh'.ptr, owner')
<1>1. sh'.ptr[x] = b /\ \A y \in Vars : y # x => sh'.ptr[y] = sh.ptr[y]
  BY DEF SetPtr, ShellOK, Pointers
<1>2. \A c \in Block : owner'[c] = "shell" <=> owner[c] = "shell" \/ c = b
  BY ShellAssumption DEF Given, ShellOK
<1>3. b \notin Old
  BY ShellAssumption DEF Given, Free, Exact
<1>4. \A c \in Old : owner'[c] = "shell"
  BY <1>2 DEF Exact
<1>5. \A y \in G : sh'.ptr[y] \notin Old
  BY <1>1, <1>3 DEF Exact
<1>6. ASSUME NEW c \in Block, owner'[c] = "shell" PROVE c \in Old \/ \E y \in G : sh'.ptr[y] = c
  <2>1. CASE c = b
    BY <2>1, <1>1
  <2>2. CASE c # b
    <3>1. c \in Old \/ \E y \in H : sh.ptr[y] = c
      BY <2>2, <1>2, <1>6 DEF Exact
    <3>2. ASSUME NEW y \in H, sh.ptr[y] = c PROVE y \in G /\ sh'.ptr[y] = c
      BY <3>2, <1>1, ShellAssumption
    <3> QED BY <3>1, <3>2
  <2> QED BY <2>1, <2>2
<1> QED BY <1>4, <1>5, <1>6 DEF Exact

\* The block of x is freed: the pointers G that are held then are others of H,
\* or NULL.
LEMMA FreeOwns ==
  ASSUME ShellOK, NEW x \in Vars, FreeMem(x), NEW H \in SUBSET Vars, x \in H, NEW G \in SUBSET Vars,
         Owns(H, sh.ptr, owner),
         \A y \in G : sh'.ptr[y] = NULL \/ (y \in H \ {x} /\ sh'.ptr[y] = sh.ptr[y])
  PROVE  Owns(G, sh'.ptr, owner')
<1>1. \A c \in Block : owner'[c] = IF c = sh.ptr[x] THEN "none" ELSE owner[c]
  BY FreeFacts
<1> SUFFICES ASSUME NEW y \in G, sh'.ptr[y] # NULL
             PROVE  owner'[sh'.ptr[y]] = "shell" /\ \A z \in G \ {y} : sh'.ptr[z] # sh'.ptr[y]
  BY DEF Owns
<1>2. y \in H \ {x} /\ sh'.ptr[y] = sh.ptr[y] /\ sh.ptr[y] \in Block
  BY DEF ShellOK, Pointers
<1>3. owner[sh.ptr[y]] = "shell" /\ \A z \in H \ {y} : sh.ptr[z] # sh.ptr[y]
  BY <1>2 DEF Owns
<1>4. owner'[sh.ptr[y]] = "shell"
  BY <1>1, <1>2, <1>3
<1>5. \A z \in G \ {y} : sh'.ptr[z] # sh.ptr[y]
  BY <1>2, <1>3
<1> QED BY <1>2, <1>4, <1>5

LEMMA FreeExact ==
  ASSUME ShellOK, NEW x \in Vars, FreeMem(x), NEW H \in SUBSET Vars, x \in H, NEW G \in SUBSET Vars,
         NEW Old \in SUBSET Block, Exact(Old, H, sh.ptr, owner),
         \A y \in G : sh'.ptr[y] = NULL \/ (y \in H /\ sh'.ptr[y] = sh.ptr[y]),
         \A y \in H \ {x} : y \in G /\ sh'.ptr[y] = sh.ptr[y]
  PROVE  Exact(Old, G, sh'.ptr, owner')
<1>1. \A c \in Block : owner'[c] = IF c = sh.ptr[x] THEN "none" ELSE owner[c]
  BY FreeFacts
<1>2. sh.ptr[x] \notin Old
  BY DEF Exact
<1>3. \A c \in Old : owner'[c] = "shell"
  BY <1>1, <1>2 DEF Exact
<1>4. \A y \in G : sh'.ptr[y] \notin Old
  BY ShellAssumption DEF Exact
<1>5. ASSUME NEW c \in Block, owner'[c] = "shell" PROVE c \in Old \/ \E y \in G : sh'.ptr[y] = c
  <2>1. c # sh.ptr[x] /\ owner[c] = "shell"
    BY <1>1, <1>5
  <2>2. c \in Old \/ \E y \in H : sh.ptr[y] = c
    BY <2>1 DEF Exact
  <2>3. ASSUME NEW y \in H, sh.ptr[y] = c PROVE y \in G /\ sh'.ptr[y] = c
    BY <2>1, <2>3
  <2> QED BY <2>2, <2>3
<1> QED BY <1>3, <1>4, <1>5 DEF Exact

\* Nothing of the shell is allocated or freed; what is not held any more is NULL.
LEMMA KeptHeap ==
  ASSUME ShellOK, \A b \in Block : owner[b] = "shell" <=> owner'[b] = "shell",
         NEW H \in SUBSET Vars, NEW G \in SUBSET Vars, G \subseteq H,
         \A y \in G : sh'.ptr[y] = sh.ptr[y]
  PROVE  /\ Owns(H, sh.ptr, owner) => Owns(G, sh'.ptr, owner')
         /\ (\A y \in H \ G : sh.ptr[y] = NULL) =>
               \A Old \in SUBSET Block : Exact(Old, H, sh.ptr, owner) => Exact(Old, G, sh'.ptr, owner')
<1>1. \A y \in Vars : sh.ptr[y] # NULL => sh.ptr[y] \in Block
  BY DEF ShellOK, Pointers
<1>2. Owns(H, sh.ptr, owner) => Owns(G, sh'.ptr, owner')
  BY <1>1 DEF Owns
<1>3. ASSUME \A y \in H \ G : sh.ptr[y] = NULL, NEW Old \in SUBSET Block, Exact(Old, H, sh.ptr, owner)
      PROVE  Exact(Old, G, sh'.ptr, owner')
  <2>1. \A b \in Old : owner'[b] = "shell"
    BY <1>3 DEF Exact
  <2>2. \A y \in G : sh'.ptr[y] \notin Old
    BY <1>3 DEF Exact
  <2>3. ASSUME NEW b \in Block, owner'[b] = "shell" PROVE b \in Old \/ \E y \in G : sh'.ptr[y] = b
    <3>1. b \in Old \/ \E y \in H : sh.ptr[y] = b
      BY <2>3, <1>3 DEF Exact
    <3> QED BY <3>1, <1>3, ShellAssumption
  <2> QED BY <2>1, <2>2, <2>3 DEF Exact
<1> QED BY <1>2, <1>3

-----------------------------------------------------------------------------
(* What the list still gives back.                                          *)

LEMMA OwedFacts ==
  ASSUME NEW t
  PROVE  /\ Owed(t) \in SUBSET Vars
         /\ \A x \in Vars : x \in Owed(t) <=>
              \/ Has(t, FreeOf(x)) /\ (x = "argv" => ~HasOp(t, "argv"))
              \/ x \in Kept /\ HasOp(t, "created")
  BY DEF Owed, Kept, Vars

LEMMA HeldGoes ==
  ASSUME NEW t, NEW ptr, NEW pids, NEW pipe, GoesOn(t, ptr, pids, pipe)
  PROVE  Held(sh') = Owed(t) /\ \A x \in Owed(t) : sh'.ptr[x] = ptr[x]
<1>1. CASE t = << >>
  <2>1. Owed(t) = {}
    BY <1>1, EmptyList DEF Owed
  <2>2. sh'.at = "prompt"
    BY <1>1 DEF GoesOn
  <2>3. Held(sh') = {}
    BY <2>2 DEF Held
  <2> QED BY <2>1, <2>3
<1>2. CASE t # << >>
  <2>1. sh'.at = "run" /\ sh'.todo = t /\ sh'.ptr = ptr
    BY <1>2 DEF GoesOn
  <2>2. Held(sh') = Owed(sh'.todo)
    BY <2>1 DEF Held
  <2> QED BY <2>1, <2>2
<1> QED BY <1>1, <1>2

LEMMA HeldRun ==
  ASSUME sh.at = "run"
  PROVE  Held(sh) = Owed(sh.todo)
  BY DEF Held

\* A step that neither frees nor allocates.
LEMMA OwedTail ==
  ASSUME NEW t \in Seq(Item), t # << >>, t[1].op \notin {"free", "created", "argv"}
  PROVE  Owed(Tail(t)) = Owed(t)
<1>1. \A it : Has(t, it) <=> t[1] = it \/ Has(Tail(t), it)
  BY HasTail
<1>2. \A op : HasOp(t, op) <=> t[1].op = op \/ HasOp(Tail(t), op)
  BY HasTail
<1>3. \A x : t[1] # FreeOf(x)
  BY DEF FreeOf, Do
<1>4. \A x : Has(t, FreeOf(x)) <=> Has(Tail(t), FreeOf(x))
  BY <1>1, <1>3
<1> QED BY <1>2, <1>4 DEF Owed

LEMMA OwedFree ==
  ASSUME NEW t \in Seq(Item), t # << >>, Shape(t), NEW x \in Vars, t[1] = FreeOf(x)
  PROVE  /\ x \in Owed(t) /\ Owed(t) \ {x} \subseteq Owed(Tail(t)) /\ Owed(Tail(t)) \subseteq Owed(t)
         /\ FreesOnce(t) => x \notin Owed(Tail(t))
<1> DEFINE r == Tail(t)
<1>1. \A it : Has(t, it) <=> t[1] = it \/ Has(r, it)
  BY HasTail
<1>2. \A op : HasOp(t, op) <=> t[1].op = op \/ HasOp(r, op)
  BY HasTail
<1>3. t[1].op = "free" /\ t[1].x = x /\ \A y : FreeOf(y) = FreeOf(x) => y = x
  BY DEF FreeOf, Do
<1>4. ~HasOp(t, "argv")
  BY <1>3 DEF Shape, ArgvFirst, HasOp
<1>5. 1 \in 1..Len(t)
  BY TailFacts
<1>6. ASSUME FreesOnce(t) PROVE ~Has(r, FreeOf(x)) /\ (HasOp(r, "created") => x = "argv")
  <2>1. ~Has(r, FreeOf(x))
    BY <1>6, <1>3, OnceTail
  <2>2. HasOp(r, "created") => x = "argv"
    BY <1>2, <1>3, <1>5, <1>6 DEF FreesOnce
  <2> QED BY <2>1, <2>2
<1> HIDE DEF r
<1>7. /\ Owed(t) \in SUBSET Vars /\ Owed(r) \in SUBSET Vars
      /\ \A y \in Vars : y \in Owed(t) <=>
              \/ Has(t, FreeOf(y)) /\ (y = "argv" => ~HasOp(t, "argv"))
              \/ y \in Kept /\ HasOp(t, "created")
      /\ \A y \in Vars : y \in Owed(r) <=>
              \/ Has(r, FreeOf(y)) /\ (y = "argv" => ~HasOp(r, "argv"))
              \/ y \in Kept /\ HasOp(r, "created")
  BY OwedFacts
<1>8. x \in Owed(t)
  BY <1>1, <1>4, <1>7
<1>9. HasOp(t, "created") <=> HasOp(r, "created")
  BY <1>2, <1>3
<1>10. ~HasOp(r, "argv")
  BY <1>2, <1>4
<1>11. \A y \in Vars : y # x => (Has(t, FreeOf(y)) <=> Has(r, FreeOf(y)))
  BY <1>1, <1>3
<1>12. \A y \in Vars : Has(r, FreeOf(y)) => Has(t, FreeOf(y))
  BY <1>1
<1>13. Owed(t) \ {x} \subseteq Owed(r) /\ Owed(r) \subseteq Owed(t)
  BY <1>7, <1>9, <1>10, <1>11, <1>12, <1>4
<1>14. "argv" \notin Kept
  BY DEF Kept
<1>15. FreesOnce(t) => x \notin Owed(r)
  BY <1>6, <1>7, <1>14
<1> QED BY <1>8, <1>13, <1>15 DEF r

LEMMA OwedStart ==
  ASSUME NEW t \in Seq(Item), t # << >>, Shape(t), t[1].op = "handler", NEW x, x = t[1].x,
         NEW p \in {SelfStart(x), <<Do("create", x)>>, WithArgs(x)}
  PROVE  Owed(p \o Tail(t)) = Owed(t)
<1> DEFINE r == Tail(t)
<1>1. r \in Seq(Item) /\ x \in 1..2 /\ NothingBefore(r) /\ PaysFor(r, x)
  BY TailFacts, HandlerRest
<1>2. Owed(r) = Owed(t)
  BY OwedTail
<1>3. p \in Seq(Item)
  BY <1>1, StartLists
<1> HIDE DEF r
<1>4. \A it : Has(p \o r, it) <=> Has(p, it) \/ Has(r, it)
  BY <1>1, <1>3, HasPrepend
<1>5. \A op : HasOp(p \o r, op) <=> HasOp(p, op) \/ HasOp(r, op)
  BY <1>1, <1>3, HasPrepend
<1>6. ~Has(r, FreeOf("argv")) /\ ~HasOp(r, "argv")
  BY <1>1 DEF NothingBefore
<1>7. ~HasOp(p, "created")
  BY <1>1, StartsOf DEF StartOf, HasOp
<1>8. \A y : FreeOf(y).op = "free" /\ (\A z : FreeOf(y) = FreeOf(z) => y = z) /\ FreeOf(y) # Do("create", x)
             /\ FreeOf(y) # Do("argv", x)
  BY DEF FreeOf, Do
<1>9. CASE p = <<Do("create", x)>>
  <2>1. Len(p) = 1 /\ p[1] = Do("create", x)
    BY <1>1, <1>9, StartLists
  <2>2. \A n \in 1..Len(p) : n = 1
    BY <2>1
  <2>3. \A y : ~Has(p, FreeOf(y))
    BY <2>1, <2>2, <1>8 DEF Has
  <2>4. ~HasOp(p, "argv")
    BY <2>1, <2>2 DEF HasOp, Do
  <2>5. /\ \A y : Has(p \o r, FreeOf(y)) <=> Has(r, FreeOf(y))
        /\ HasOp(p \o r, "argv") <=> HasOp(r, "argv")
        /\ HasOp(p \o r, "created") <=> HasOp(r, "created")
    BY <2>3, <2>4, <1>4, <1>5, <1>7
  <2> QED BY <2>5, <1>2 DEF Owed, r
<1>10. CASE p = WithArgs(x)
  <2>1. Len(p) = 3 /\ p[1] = Do("argv", x) /\ p[2] = Do("create", x) /\ p[3] = FreeOf("argv")
    BY <1>1, <1>10, StartLists
  <2>2. \A n \in 1..Len(p) : n = 1 \/ n = 2 \/ n = 3
    BY <2>1
  <2>3. \A y : Has(p, FreeOf(y)) => y = "argv"
    BY <2>1, <2>2, <1>8 DEF Has
  <2>4. 1 \in 1..Len(p) /\ p[1].op = "argv"
    BY <2>1 DEF Do
  <2>5. HasOp(p \o r, "argv")
    BY <2>4, <1>5 DEF HasOp
  <2>6. /\ \A y : y # "argv" => (Has(p \o r, FreeOf(y)) <=> Has(r, FreeOf(y)))
        /\ HasOp(p \o r, "created") <=> HasOp(r, "created")
    BY <2>3, <1>4, <1>5, <1>7
  <2>7. Owed(p \o r) = Owed(r)
    BY <2>5, <2>6, <1>6 DEF Owed
  <2> QED BY <2>7, <1>2 DEF r
<1>11. CASE p = SelfStart(x)
  <2>1. Len(p) = 2 /\ p[1] = FreeOf(Arg(x)) /\ p[2] = Do("create", x)
    BY <1>1, <1>11, StartLists
  <2>2. \A n \in 1..Len(p) : n = 1 \/ n = 2
    BY <2>1
  <2>3. \A y : Has(p, FreeOf(y)) => y = Arg(x)
    BY <2>1, <2>2, <1>8 DEF Has
  <2>4. ~HasOp(p, "argv")
    BY <2>1, <2>2 DEF HasOp, Do, FreeOf
  <2>5. Arg(x) \in Kept /\ Arg(x) \in Vars /\ Arg(x) # "argv"
    BY DEF Arg, Kept, Vars
  <2>6. Has(r, FreeOf(Arg(x))) \/ HasOp(r, "created")
    BY <1>1 DEF PaysFor, Has, HasOp
  <2>7. /\ \A y : y # Arg(x) => (Has(p \o r, FreeOf(y)) <=> Has(r, FreeOf(y)))
        /\ HasOp(p \o r, "created") <=> HasOp(r, "created")
        /\ HasOp(p \o r, "argv") <=> HasOp(r, "argv")
        /\ Has(r, FreeOf(Arg(x))) => Has(p \o r, FreeOf(Arg(x)))
    BY <2>3, <2>4, <1>4, <1>5, <1>7
  <2>8. Owed(p \o r) = Owed(r)
    <3>1. Arg(x) \in Owed(r) /\ Arg(x) \in Owed(p \o r)
      BY <2>5, <2>6, <2>7, <1>6 DEF Owed
    <3>2. \A y : y # Arg(x) => (y \in Owed(p \o r) <=> y \in Owed(r))
      BY <2>7 DEF Owed
    <3> QED BY <3>1, <3>2
  <2> QED BY <2>8, <1>2 DEF r
<1> QED BY <1>9, <1>10, <1>11

LEMMA OwedArgv ==
  ASSUME NEW t \in Seq(Item), t # << >>, Shape(t), t[1].op = "argv"
  PROVE  /\ Owed(Tail(t)) = Owed(t) \cup {"argv"} /\ "argv" \notin Owed(t)
         /\ Owed(Tail(Tail(Tail(t)))) = Owed(t)
<1> DEFINE r == Tail(t)
           u == Tail(Tail(Tail(t)))
<1>1. /\ Len(t) >= 4 /\ Len(u) = Len(t) - 3 /\ Len(t) \in Nat
      /\ \A n \in 1..Len(u) : u[n] = t[n + 3]
      /\ t[2] = Do("create", t[1].x) /\ t[3] = FreeOf("argv")
  BY ArgvRest, SMTT(30)
<1>2. \A it : Has(t, it) <=> t[1] = it \/ Has(r, it)
  BY HasTail
<1>3. \A op : HasOp(t, op) <=> t[1].op = op \/ HasOp(r, op)
  BY HasTail
<1>4. \A it : Has(t, it) <=> it \in {t[1], Do("create", t[1].x), FreeOf("argv")} \/ Has(u, it)
  BY SkipTwo
<1>5. \A o : HasOp(t, o) <=> o \in {"argv", "create", "free"} \/ HasOp(u, o)
  BY SkipTwo
<1>6. /\ Len(r) = Len(t) - 1 /\ \A n \in 1..Len(r) : r[n] = t[n + 1]
  BY TailFacts
<1> HIDE DEF r, u
<1>7. \A n \in 1..Len(t) : n # 1 => t[n].op # "argv"
  BY DEF Shape, ArgvFirst
<1>8. ~HasOp(r, "argv")
  BY <1>1, <1>6, <1>7 DEF HasOp
<1>9. ~HasOp(u, "argv")
  <2> SUFFICES ASSUME NEW n \in 1..Len(u), u[n].op = "argv" PROVE FALSE
    BY DEF HasOp
  <2>1. n + 3 \in 1..Len(t) /\ n + 3 # 1
    BY <1>1
  <2> QED BY <2>1, <1>1, <1>7
<1>10. ~Has(u, FreeOf("argv"))
  <2> SUFFICES ASSUME NEW n \in 1..Len(u), u[n] = FreeOf("argv") PROVE FALSE
    BY DEF Has
  <2>1. n + 3 \in 1..Len(t) /\ 3 \in 1..Len(t) /\ n + 3 # 3
    BY <1>1
  <2> QED BY <2>1, <1>1 DEF Shape, ArgvOnce
<1>11. \A y : t[1] # FreeOf(y) /\ Do("create", t[1].x) # FreeOf(y) /\ (FreeOf(y) = FreeOf("argv") => y = "argv")
  BY DEF FreeOf, Do
<1>12. HasOp(t, "argv") /\ Has(t, FreeOf("argv")) /\ Has(r, FreeOf("argv"))
  BY <1>2, <1>3, <1>4, <1>11
<1>13. /\ HasOp(t, "created") <=> HasOp(r, "created")
       /\ HasOp(t, "created") <=> HasOp(u, "created")
       /\ \A y : Has(t, FreeOf(y)) <=> Has(r, FreeOf(y))
       /\ \A y : y # "argv" => (Has(t, FreeOf(y)) <=> Has(u, FreeOf(y)))
  BY <1>2, <1>3, <1>4, <1>5, <1>11
<1>14. "argv" \notin Kept /\ "argv" \in Vars
  BY DEF Kept, Vars
<1>15. "argv" \notin Owed(t) /\ "argv" \in Owed(r) /\ "argv" \notin Owed(u)
  BY <1>8, <1>10, <1>12, <1>14 DEF Owed
<1>16. \A y : y # "argv" => (y \in Owed(t) <=> y \in Owed(r)) /\ (y \in Owed(t) <=> y \in Owed(u))
  BY <1>13 DEF Owed
<1>17. Owed(r) = Owed(t) \cup {"argv"} /\ Owed(u) = Owed(t)
  BY <1>15, <1>16
<1> QED BY <1>15, <1>17 DEF r, u

\* Before the pipe is open, and when both handlers have run, the list has no free.
LEMMA OwedKept ==
  ASSUME NEW t \in Seq(Item), t # << >>, Shape(t), t[1].op \in {"open", "created"}
  PROVE  Owed(t) = Kept
<1>1. 1 \in 1..Len(t) /\ Len(t) \in Nat
  BY TailFacts
<1>2. HasOp(t, "created") /\ ~HasOp(t, "free")
  <2>1. CASE t[1].op = "open"
    BY <2>1, <1>1 DEF Shape, OpenFirst
  <2>2. CASE t[1].op = "created"
    <3>1. Len(t) = 1
      BY <2>2, <1>1 DEF Shape, CreatedLast
    <3>2. \A n \in 1..Len(t) : n = 1
      BY <3>1
    <3> QED BY <2>2, <3>2, <1>1 DEF HasOp
  <2> QED BY <2>1, <2>2
<1>3. \A x : ~Has(t, FreeOf(x))
  BY <1>2 DEF Has, HasOp, FreeOf, Do
<1> QED BY <1>2, <1>3 DEF Owed

-----------------------------------------------------------------------------
(* Blocks through the steps of a line.                                      *)

HeapOK == ParseOK /\ OwnBlocks /\ AccountsOK

LEMMA HeldType ==
  ASSUME ShellOK
  PROVE  Held(sh) \in SUBSET Vars
<1>1. Owed(sh.todo) \in SUBSET Vars
  BY OwedFacts
<1> QED BY <1>1 DEF Held, Kept, Vars, ShellOK, Stages

\* A step that goes on with the list keeps the books when its heap does.
LEMMA GoesHeap ==
  ASSUME ShellOK, HeapOK, sh.at \in {"run", "control"},
         NEW t, NEW ptr, NEW pids, NEW pipe, GoesOn(t, ptr, pids, pipe),
         NoSelf /\ Owns(Held(sh), sh.ptr, owner) => Owns(Owed(t), sh'.ptr, owner'),
         \A Old \in SUBSET Block :
           ~Leaks /\ Exact(Old, Held(sh), sh.ptr, owner) => Exact(Old, Owed(t), sh'.ptr, owner')
  PROVE  HeapOK'
<1>1. Held(sh') = Owed(t)
  BY HeldGoes
<1>2. /\ sh'.at \in {"run", "prompt"} /\ sh'.line = sh.line /\ sh'.cmd = sh.cmd
      /\ sh'.before = sh.before
  BY DEF GoesOn
<1>3. sh'.starved = sh.starved
  BY DEF GoesOn
<1>4. ParseOK'
  <2>1. Unset(sh') = {}
    BY <1>2 DEF Unset
  <2> QED BY <2>1, <1>2 DEF ParseOK, Parsing
<1>5. OwnBlocks'
  <2>1. CASE sh'.at = "prompt"
    <3>1. Held(sh') = {}
      BY <2>1 DEF Held
    <3> QED BY <3>1 DEF OwnBlocks, Owns
  <2>2. CASE sh'.at = "run"
    <3> SUFFICES ASSUME NoSelf' PROVE Owns(Held(sh'), sh'.ptr, owner')
      BY <2>2 DEF OwnBlocks
    <3>1. NoSelf
      BY <1>2 DEF NoSelf
    <3> QED BY <3>1, <1>1 DEF HeapOK, OwnBlocks
  <2> QED BY <2>1, <2>2, <1>2
<1>6. AccountsOK'
  <2> SUFFICES ASSUME Accountable'
               PROVE  \E Old \in SUBSET Block :
                        Cardinality(Old) = sh'.before /\ Exact(Old, Held(sh'), sh'.ptr, owner')
    BY DEF AccountsOK
  <2>1. ~sh'.starved /\ ~Leaks'
    BY <1>2 DEF Accountable
  <2>2. ~Leaks
    BY <2>1, <1>2 DEF Leaks
  <2>3. ~sh.starved
    BY <2>1, <1>3, Zenon
  <2>4. Accountable
    BY <2>2, <2>3 DEF Accountable
  <2>5. PICK Old \in SUBSET Block : Cardinality(Old) = sh.before /\ Exact(Old, Held(sh), sh.ptr, owner)
    BY <2>4 DEF HeapOK, AccountsOK
  <2> QED BY <2>2, <2>5, <1>1, <1>2
<1> QED BY <1>4, <1>5, <1>6 DEF HeapOK

\* The same when nothing is allocated or freed and as much is held.
LEMMA SameHeap ==
  ASSUME ShellOK, HeapOK, sh.at \in {"run", "control"}, owner' = owner,
         NEW t, NEW ptr, NEW pids, NEW pipe, GoesOn(t, ptr, pids, pipe),
         Owed(t) \subseteq Held(sh), \A y \in Owed(t) : ptr[y] = sh.ptr[y],
         ~Leaks => \A y \in Held(sh) \ Owed(t) : sh.ptr[y] = NULL
  PROVE  HeapOK'
<1>1. Held(sh) \in SUBSET Vars /\ Owed(t) \in SUBSET Vars
  BY HeldType, OwedFacts
<1>2. \A y \in Owed(t) : sh'.ptr[y] = sh.ptr[y]
  BY HeldGoes
<1>3. /\ Owns(Held(sh), sh.ptr, owner) => Owns(Owed(t), sh'.ptr, owner')
      /\ (\A y \in Held(sh) \ Owed(t) : sh.ptr[y] = NULL) =>
            \A Old \in SUBSET Block : Exact(Old, Held(sh), sh.ptr, owner) => Exact(Old, Owed(t), sh'.ptr, owner')
  BY <1>1, <1>2, KeptHeap
<1> QED BY <1>3, GoesHeap

LEMMA PlainHeap ==
  ASSUME ListOK, HeapOK, owner' = owner, NEW op, Step(op), op \notin {"free", "created", "argv"},
         NEW pids, NEW pipe, GoesOn(Rest, sh.ptr, pids, pipe)
  PROVE  HeapOK'
<1>1. /\ sh.todo \in Seq(Item) /\ sh.todo # << >> /\ sh.at = "run" /\ sh.todo[1].op = op
      /\ Rest = Tail(sh.todo) /\ ShellOK
  BY StepFacts DEF ListOK
<1>2. Owed(Rest) = Held(sh)
  BY <1>1, OwedTail, HeldRun
<1> QED BY <1>1, <1>2, SameHeap

LEMMA FreeHeap ==
  ASSUME ListOK, HeapOK, DoFree
  PROVE  HeapOK'
<1>1. /\ sh.todo \in Seq(Item) /\ sh.todo # << >> /\ sh.at = "run" /\ sh.todo[1] = FreeOf(X)
      /\ Rest = Tail(sh.todo) /\ ShellOK /\ X \in Vars /\ Shape(sh.todo)
  BY StepFacts DEF ListOK, DoFree
<1>2. FreeMem(X) /\ GoesOn(Rest, sh.ptr, sh.pids, sh.pipe)
  BY <1>1, FreeGoes DEF DoFree
<1>3. Held(sh) = Owed(sh.todo) /\ Held(sh) \in SUBSET Vars /\ Owed(Rest) \in SUBSET Vars
  BY <1>1, HeldRun, HeldType, OwedFacts
<1>4. /\ X \in Held(sh) /\ Held(sh) \ {X} \subseteq Owed(Rest) /\ Owed(Rest) \subseteq Held(sh)
      /\ FreesOnce(sh.todo) => X \notin Owed(Rest)
  BY <1>1, <1>3, OwedFree
<1>5. \A y \in Owed(Rest) : sh'.ptr[y] = sh.ptr[y]
  BY <1>2, HeldGoes
<1>6. NoSelf /\ Owns(Held(sh), sh.ptr, owner) => Owns(Owed(Rest), sh'.ptr, owner')
  <2> SUFFICES ASSUME NoSelf, Owns(Held(sh), sh.ptr, owner) PROVE Owns(Owed(Rest), sh'.ptr, owner')
    OBVIOUS
  <2>1. X \notin Owed(Rest)
    BY <1>4 DEF ListOK
  <2>2. \A y \in Owed(Rest) : y \in Held(sh) \ {X} /\ sh'.ptr[y] = sh.ptr[y]
    BY <2>1, <1>4, <1>5
  <2> QED BY <2>2, <1>1, <1>2, <1>3, <1>4, FreeOwns
<1>7. ASSUME NEW Old \in SUBSET Block, Exact(Old, Held(sh), sh.ptr, owner)
      PROVE  Exact(Old, Owed(Rest), sh'.ptr, owner')
  <2>1. \A y \in Owed(Rest) : y \in Held(sh) /\ sh'.ptr[y] = sh.ptr[y]
    BY <1>4, <1>5
  <2>2. \A y \in Held(sh) \ {X} : y \in Owed(Rest) /\ sh'.ptr[y] = sh.ptr[y]
    BY <1>4, <1>5
  <2> QED BY <2>1, <2>2, <1>1, <1>2, <1>3, <1>4, <1>7, FreeExact
<1> QED BY <1>1, <1>2, <1>6, <1>7, GoesHeap

LEMMA HandlerHeap ==
  ASSUME ListOK, HeapOK, DoHandler
  PROVE  HeapOK'
<1>1. /\ Step("handler") /\ sh.todo \in Seq(Item) /\ sh.todo # << >> /\ sh.at = "run"
      /\ sh.todo[1].op = "handler" /\ X = sh.todo[1].x /\ Rest = Tail(sh.todo) /\ ShellOK
      /\ Shape(sh.todo) /\ owner' = owner
  BY StepFacts DEF ListOK, DoHandler
<1>2. ASSUME NEW p \in {SelfStart(X), <<Do("create", X)>>, WithArgs(X)},
             GoesOn(p \o Rest, sh.ptr, sh.pids, sh.pipe)
      PROVE  HeapOK'
  <2>1. Owed(p \o Rest) = Held(sh)
    BY <1>1, HeldRun, OwedStart
  <2> QED BY <2>1, <1>1, <1>2, SameHeap
<1>3. CASE GoesOn(Rest, sh.ptr, WithPid(-1), sh.pipe)
  BY <1>1, <1>3, PlainHeap
<1> QED BY <1>1, <1>2, <1>3, HandlerGoes

LEMMA ArgvHeap ==
  ASSUME ListOK, HeapOK, DoArgv
  PROVE  HeapOK'
<1>1. /\ sh.todo \in Seq(Item) /\ sh.todo # << >> /\ sh.at = "run" /\ sh.todo[1].op = "argv"
      /\ Rest = Tail(sh.todo) /\ ShellOK /\ Shape(sh.todo)
  BY StepFacts DEF ListOK, DoArgv
<1>2. /\ Held(sh) = Owed(sh.todo) /\ Held(sh) \in SUBSET Vars
      /\ Owed(Rest) = Held(sh) \cup {"argv"} /\ "argv" \notin Held(sh)
      /\ Owed(Tail(Tail(Rest))) = Held(sh)
  BY <1>1, HeldRun, HeldType, OwedArgv
<1>3. CASE owner' = owner /\ GoesOn(Tail(Tail(Rest)), SetPtr("argv", NULL), WithPid(-1), sh.pipe)
  <2>1. \A y \in Held(sh) : SetPtr("argv", NULL)[y] = sh.ptr[y]
    BY <1>1, <1>2 DEF SetPtr, ShellOK, Pointers
  <2> QED BY <2>1, <1>1, <1>2, <1>3, SameHeap
<1>4. ASSUME NEW b \in Free, owner' = [owner EXCEPT ![b] = "shell"],
             GoesOn(Rest, SetPtr("argv", b), sh.pids, sh.pipe)
      PROVE  HeapOK'
  <2>1. b \in Block \cup {NULL} /\ Given(b) /\ "argv" \in Vars /\ Owed(Rest) \in SUBSET Vars
    BY <1>4, OwedFacts DEF Free, Given, Vars
  <2>2. sh'.ptr = SetPtr("argv", b)
    <3>1. Rest # << >>
      <4>1. Owed(Rest) # {}
        BY <1>2
      <4> QED BY <4>1, EmptyList DEF Owed
    <3> QED BY <3>1, <1>4 DEF GoesOn
  <2>3. Owns(Held(sh), sh.ptr, owner) => Owns(Owed(Rest), sh'.ptr, owner')
    BY <2>1, <2>2, <1>1, <1>2, MallocOwns
  <2>4. \A Old \in SUBSET Block :
          Exact(Old, Held(sh), sh.ptr, owner) => Exact(Old, Owed(Rest), sh'.ptr, owner')
    BY <2>1, <2>2, <1>1, <1>2, MallocExact
  <2> QED BY <2>3, <2>4, <1>1, <1>4, GoesHeap
<1> QED BY <1>1, <1>3, <1>4, ArgvGoes

LEMMA RunHeap ==
  ASSUME ListOK, HeapOK, DoBuiltIn \/ DoCreate \/ DoCreated \/ DoWaitpid \/ DoOpen \/ DoClose
  PROVE  HeapOK'
<1>0. ShellOK /\ owner' = owner
  BY DEF ListOK, DoBuiltIn, DoCreate, DoCreated, DoWaitpid, DoOpen, DoClose
<1>1. CASE DoBuiltIn \/ DoWaitpid \/ DoClose
  <2>1. GoesOn(Rest, sh.ptr, sh.pids, sh.pipe)
    BY <1>0, <1>1, BuiltInGoes, WaitpidGoes, CloseGoes
  <2>2. Step("builtin") \/ Step("waitpid") \/ Step("close")
    BY <1>1 DEF DoBuiltIn, DoWaitpid, DoClose
  <2> QED BY <2>1, <2>2, <1>0, PlainHeap
<1>2. CASE DoCreate
  <2>1. Step("create")
    BY <1>2 DEF DoCreate
  <2>2. PICK v : GoesOn(Rest, sh.ptr, WithPid(v), sh.pipe)
    BY <1>0, <1>2, CreateGoes
  <2> QED BY <2>1, <2>2, <1>0, PlainHeap
<1>3. ASSUME NEW op \in {"open", "created"}, Step(op), NEW t \in {Cleanup, Abandon, AwaitBoth}, NEW pipe,
             GoesOn(t, sh.ptr, sh.pids, pipe)
      PROVE  HeapOK'
  <2>1. /\ sh.todo \in Seq(Item) /\ sh.todo # << >> /\ sh.at = "run" /\ sh.todo[1].op = op
        /\ Shape(sh.todo)
    BY <1>3, StepFacts DEF ListOK
  <2>2. Held(sh) = Kept /\ Owed(t) = Kept
    BY <2>1, HeldRun, OwedKept, CleanupShape, AbandonShape, AwaitBothShape
  <2> QED BY <2>1, <2>2, <1>0, <1>3, SameHeap
<1>4. CASE DoCreated
  BY <1>0, <1>3, <1>4, CreatedGoes DEF DoCreated
<1>5. CASE DoOpen
  <2>1. Step("open")
    BY <1>5 DEF DoOpen
  <2>2. CASE GoesOn(Cleanup, sh.ptr, sh.pids, sh.pipe)
    BY <2>1, <2>2, <1>3
  <2>3. CASE GoesOn(Rest, sh.ptr, sh.pids, CHOOSE id \in given' : id \notin given)
    BY <2>1, <2>3, <1>0, PlainHeap
  <2> QED BY <2>2, <2>3, <1>0, <1>5, OpenGoes
<1> QED BY <1>1, <1>2, <1>4, <1>5

\* The same for the steps that parse the line.
All == Kept \cup {"instruction", "shell_buffer"}

LEMMA HeldParsing ==
  /\ sh.at \in {"buffer", "read", "arg", "instruction", "split"} => Held(sh) = All
  /\ sh.at = "verify" => Held(sh) = IF sh.part = 1 THEN Kept \cup {"instruction"} ELSE All
  /\ sh.at = "control" => Held(sh) = Kept
  /\ sh.at \in {"prompt", "returned", "fault"} => Held(sh) = {}
  /\ sh'.at \in {"buffer", "read", "arg", "instruction", "split"} => Held(sh') = All
  /\ sh'.at = "verify" => Held(sh') = IF sh'.part = 1 THEN Kept \cup {"instruction"} ELSE All
  /\ sh'.at = "control" => Held(sh') = Kept
  /\ sh'.at \in {"prompt", "returned", "fault"} => Held(sh') = {}
  BY DEF Held, All

LEMMA ParsesHeap ==
  ASSUME ShellOK, HeapOK, sh.at \in Parsing,
         NEW at \in Parsing \cup {"prompt", "fault"}, NEW part, NEW line, NEW ptr, NEW starved,
         ParsesTo(at, part, line, ptr, starved), at = "prompt" => starved,
         Owns(Held(sh), sh.ptr, owner) => Owns(Held(sh'), sh'.ptr, owner'),
         at \in Parsing /\ ~starved =>
           /\ ~sh.starved
           /\ \A Old \in SUBSET Block :
                Exact(Old, Held(sh), sh.ptr, owner) => Exact(Old, Held(sh'), sh'.ptr, owner')
  PROVE  OwnBlocks' /\ AccountsOK'
<1>1. sh'.at = at /\ sh'.before = sh.before
  BY DEF ParsesTo
<1>2. sh'.starved = starved
  BY DEF ParsesTo
<1>3. Owns(Held(sh), sh.ptr, owner)
  BY DEF HeapOK, OwnBlocks, Parsing
<1>4. OwnBlocks'
  BY <1>3 DEF OwnBlocks
<1>5. AccountsOK'
  <2> SUFFICES ASSUME Accountable'
               PROVE  \E Old \in SUBSET Block :
                        Cardinality(Old) = sh'.before /\ Exact(Old, Held(sh'), sh'.ptr, owner')
    BY DEF AccountsOK
  <2>1. ~sh'.starved /\ sh'.at # "fault"
    BY DEF Accountable
  <2>2. ~starved
    BY <2>1, <1>2, Zenon
  <2>3. at \in Parsing
    BY <2>1, <2>2, <1>1, Zenon
  <2>4. ~sh.starved
    BY <2>2, <2>3
  <2>5. Accountable
    BY <2>4 DEF Accountable, Parsing
  <2>6. PICK Old \in SUBSET Block : Cardinality(Old) = sh.before /\ Exact(Old, Held(sh), sh.ptr, owner)
    BY <2>5 DEF HeapOK, AccountsOK
  <2> QED BY <2>2, <2>3, <2>6, <1>1
<1> QED BY <1>4, <1>5

\* While nothing is allocated or freed.
LEMMA ParsesSame ==
  ASSUME ShellOK, HeapOK, sh.at \in Parsing, owner' = owner, Held(sh') = Held(sh),
         NEW at \in Parsing, NEW part, NEW line, ParsesTo(at, part, line, sh.ptr, sh.starved)
  PROVE  OwnBlocks' /\ AccountsOK'
<1>1. Held(sh) \in SUBSET Vars /\ Held(sh') \in SUBSET Vars
  BY HeldType
<1>2. sh'.ptr = sh.ptr
  BY DEF ParsesTo
<1>3. /\ Owns(Held(sh), sh.ptr, owner) => Owns(Held(sh'), sh'.ptr, owner')
      /\ \A Old \in SUBSET Block :
           Exact(Old, Held(sh), sh.ptr, owner) => Exact(Old, Held(sh'), sh'.ptr, owner')
  BY <1>2, Zenon
<1>4. at # "prompt"
  BY DEF Parsing
<1> QED BY <1>3, <1>4, ParsesHeap

LEMMA NewLineHeap ==
  ASSUME ShellOK, NewLine
  PROVE  HeapOK'
<1>1. PICK b \in Block \cup {NULL} :
           /\ Given(b)
           /\ DOMAIN sh' = Fields /\ sh'.ptr = [NoPointers EXCEPT !["pipe_cmd"] = b]
           /\ sh'.at = (IF b = NULL THEN "returned" ELSE "buffer")
           /\ sh'.part = 1 /\ sh'.todo = sh.todo /\ sh'.pids = <<0, 0>> /\ sh'.before = Mine
  BY NewLineGoes
<1>2. CASE b = NULL
  <2>1. sh'.at = "returned"
    BY <1>1, <1>2
  <2>2. Held(sh') = {}
    BY <2>1, HeldParsing
  <2>3. ParseOK'
    BY <2>1 DEF ParseOK, Unset, Parsing
  <2>4. OwnBlocks'
    BY <2>2 DEF OwnBlocks, Owns
  <2>5. AccountsOK'
    BY <2>1 DEF AccountsOK, Accountable
  <2> QED BY <2>3, <2>4, <2>5 DEF HeapOK
<1>3. CASE b # NULL
  <2>1. sh'.at = "buffer" /\ b \in Block /\ owner[b] = "none" /\ owner' = [owner EXCEPT ![b] = "shell"]
    BY <1>1, <1>3 DEF Given, Free
  <2>2. Held(sh') = All /\ "pipe_cmd" \in All
    BY <2>1, HeldParsing DEF All, Kept
  <2>3. \A x \in Vars : sh'.ptr[x] = IF x = "pipe_cmd" THEN b ELSE NULL
    BY <1>1 DEF NoPointers
  <2>4. All \subseteq Vars
    BY DEF All, Kept, Vars
  <2>5. ParseOK'
    <3>1. Unset(sh') = {"shell_buffer", "arg1", "arg2", "instruction"}
      BY <2>1 DEF Unset
    <3> QED BY <3>1, <2>1, <2>3 DEF ParseOK, Parsing, Vars
  <2>6. \A c \in Block : owner'[c] = IF c = b THEN "shell" ELSE owner[c]
    BY <2>1 DEF ShellOK
  <2>7. Owns(All, sh'.ptr, owner')
    BY <2>1, <2>3, <2>4, <2>6 DEF Owns
  <2>8. OwnBlocks'
    BY <2>2, <2>7 DEF OwnBlocks
  <2> DEFINE Old == {c \in Block : owner[c] = "shell"}
  <2>9. Old \in SUBSET Block /\ Cardinality(Old) = sh'.before
    BY <1>1 DEF Mine
  <2>10. Exact(Old, All, sh'.ptr, owner')
    <3>1. \A c \in Old : owner'[c] = "shell"
      BY <2>6
    <3>2. \A x \in All : sh'.ptr[x] \notin Old
      BY <2>1, <2>3, <2>4, ShellAssumption
    <3>3. \A c \in Block : owner'[c] = "shell" => c \in Old \/ \E x \in All : sh'.ptr[x] = c
      BY <2>2, <2>3, <2>4, <2>6
    <3> QED BY <3>1, <3>2, <3>3 DEF Exact
  <2> HIDE DEF Old
  <2>11. AccountsOK'
    BY <2>2, <2>9, <2>10 DEF AccountsOK
  <2> QED BY <2>5, <2>8, <2>11 DEF HeapOK
<1> QED BY <1>2, <1>3

LEMMA ReadLineHeap ==
  ASSUME ShellOK, HeapOK, ReadLine
  PROVE  HeapOK'
<1>1. sh.at = "read" /\ owner' = owner
  BY DEF ReadLine
<1>2. PICK l \in Lines : ParsesTo("arg", IF Piped(l) THEN 2 ELSE 1, l, sh.ptr, sh.starved)
  BY ReadLineGoes
<1>3. sh'.at = "arg" /\ sh'.line = l /\ sh'.ptr = sh.ptr /\ sh'.part = IF Piped(l) THEN 2 ELSE 1
  BY <1>2 DEF ParsesTo
<1>4. Held(sh') = Held(sh)
  BY <1>1, <1>3, HeldParsing
<1>5. OwnBlocks' /\ AccountsOK'
  BY <1>1, <1>2, <1>4, ParsesSame DEF Parsing
<1>6. sh.ptr["arg1"] = NULL /\ sh.ptr["arg2"] = NULL /\ sh.ptr["instruction"] = NULL
  <2>1. Unset(sh) = {"arg1", "arg2", "instruction"}
    BY <1>1 DEF Unset
  <2> QED BY <2>1 DEF HeapOK, ParseOK
<1>7. ParseOK'
  <2>1. Unset(sh') \subseteq {"arg1", "arg2", "instruction"}
    BY <1>3 DEF Unset
  <2> QED BY <2>1, <1>3, <1>6 DEF ParseOK, Parsing
<1> QED BY <1>5, <1>7 DEF HeapOK

\* What is known of the pointers while a line is parsed.
LEMMA ParseFacts ==
  ASSUME ShellOK, HeapOK
  PROVE  /\ sh.at = "buffer" => /\ sh.ptr["shell_buffer"] = NULL /\ sh.ptr["arg1"] = NULL
                                /\ sh.ptr["arg2"] = NULL /\ sh.ptr["instruction"] = NULL
         /\ sh.at = "arg" => /\ sh.ptr["arg1"] = NULL /\ sh.ptr["instruction"] = NULL
                             /\ sh.ptr[Arg(sh.part)] = NULL
         /\ sh.at = "instruction" => sh.ptr["instruction"] = NULL
         /\ sh.at \in {"instruction", "split", "verify"} /\ sh.part = 2 => sh.ptr["arg1"] = NULL
         /\ sh.at \in {"arg", "instruction", "split", "verify", "control"} /\ ~Piped(sh.line) =>
              sh.part = 1 /\ sh.ptr["arg2"] = NULL
<1>1. CASE sh.at = "buffer"
  <2>1. Unset(sh) = {"shell_buffer", "arg1", "arg2", "instruction"}
    BY <1>1 DEF Unset
  <2> QED BY <2>1, <1>1 DEF HeapOK, ParseOK
<1>2. CASE sh.at = "arg"
  <2>1. Unset(sh) = {"arg1", "instruction"} \cup {x \in {"arg2"} : sh.part = 2}
    BY <1>2 DEF Unset
  <2>2. sh.part = 1 \/ sh.part = 2
    BY DEF ShellOK
  <2> QED BY <2>1, <2>2, <1>2 DEF HeapOK, ParseOK, Arg, Parsing
<1>3. CASE sh.at = "instruction"
  <2>1. Unset(sh) = {"instruction"} \cup {x \in {"arg1"} : sh.part = 2}
    BY <1>3 DEF Unset
  <2> QED BY <2>1, <1>3 DEF HeapOK, ParseOK, Parsing
<1>4. CASE sh.at \in {"split", "verify"}
  <2>1. Unset(sh) = {x \in {"arg1"} : sh.part = 2}
    BY <1>4 DEF Unset
  <2> QED BY <2>1, <1>4 DEF HeapOK, ParseOK, Parsing
<1>5. CASE sh.at = "control"
  BY <1>5 DEF HeapOK, ParseOK, Parsing
<1> QED BY <1>1, <1>2, <1>3, <1>4, <1>5

\* A malloc of a step of parsing.
LEMMA MallocHeap ==
  ASSUME ShellOK, HeapOK, sh.at \in {"buffer", "arg", "instruction"}, NEW b \in Block \cup {NULL}, Given(b),
         NEW x \in All, sh.ptr[x] = NULL,
         NEW at \in Parsing \cup {"prompt", "fault"}, NEW part, NEW line, NEW starved,
         ParsesTo(at, part, line, SetPtr(x, b), starved), at = "prompt" => starved,
         Held(sh') \subseteq All, at \in Parsing /\ ~starved => ~sh.starved /\ Held(sh') = All
  PROVE  OwnBlocks' /\ AccountsOK'
<1>1. Held(sh) = All /\ All \in SUBSET Vars /\ sh.at \in Parsing
  BY HeldParsing DEF All, Kept, Vars, Parsing
<1>2. sh'.ptr = SetPtr(x, b) /\ x \in Vars /\ Held(sh') \in SUBSET Vars
  BY <1>1 DEF ParsesTo
<1>3. Owns(Held(sh), sh.ptr, owner) => Owns(Held(sh'), sh'.ptr, owner')
  BY <1>1, <1>2, MallocOwns
<1>4. ASSUME at \in Parsing /\ ~starved
      PROVE  /\ ~sh.starved
             /\ \A Old \in SUBSET Block :
                  Exact(Old, Held(sh), sh.ptr, owner) => Exact(Old, Held(sh'), sh'.ptr, owner')
  <2>1. ~sh.starved
    BY <1>4
  <2>2. Held(sh') = All \cup {x}
    BY <1>4
  <2>3. \A Old \in SUBSET Block :
          Exact(Old, Held(sh), sh.ptr, owner) => Exact(Old, Held(sh'), sh'.ptr, owner')
    BY <2>2, <1>1, <1>2, MallocExact
  <2> QED BY <2>1, <2>3
<1> QED BY <1>1, <1>3, <1>4, ParsesHeap

LEMMA NewBufferHeap ==
  ASSUME ShellOK, HeapOK, NewBuffer
  PROVE  HeapOK'
<1>1. sh.at = "buffer"
  BY DEF NewBuffer
<1>2. PICK b \in Block \cup {NULL} :
           /\ Given(b)
           /\ IF b = NULL THEN ParsesTo("prompt", sh.part, sh.line, SetPtr("shell_buffer", b), TRUE)
                          ELSE ParsesTo("read", sh.part, sh.line, SetPtr("shell_buffer", b), sh.starved)
  BY NewBufferGoes
<1>3. /\ sh.ptr["shell_buffer"] = NULL /\ sh.ptr["arg1"] = NULL
      /\ sh.ptr["arg2"] = NULL /\ sh.ptr["instruction"] = NULL
  BY <1>1, ParseFacts
<1>4. "shell_buffer" \in All /\ {"prompt", "read"} \subseteq Parsing \cup {"prompt", "fault"}
  BY DEF All, Parsing
<1>5. CASE b = NULL
  <2>1. ParsesTo("prompt", sh.part, sh.line, SetPtr("shell_buffer", b), TRUE)
    BY <1>2, <1>5
  <2>2. sh'.at = "prompt"
    BY <2>1 DEF ParsesTo
  <2>3. Held(sh') = {} /\ "prompt" \notin Parsing
    BY <2>2, HeldParsing DEF Parsing
  <2>4. OwnBlocks' /\ AccountsOK'
    BY <2>1, <2>3, <1>1, <1>2, <1>3, <1>4, MallocHeap
  <2>5. ParseOK'
    BY <2>2 DEF ParseOK, Unset, Parsing
  <2> QED BY <2>4, <2>5 DEF HeapOK
<1>6. CASE b # NULL
  <2>1. ParsesTo("read", sh.part, sh.line, SetPtr("shell_buffer", b), sh.starved)
    BY <1>2, <1>6
  <2>2. sh'.at = "read" /\ sh'.ptr = SetPtr("shell_buffer", b)
    BY <2>1 DEF ParsesTo
  <2>3. Held(sh') = All
    BY <2>2, HeldParsing
  <2>4. OwnBlocks' /\ AccountsOK'
    BY <2>1, <2>3, <1>1, <1>2, <1>3, <1>4, MallocHeap
  <2>5. ParseOK'
    <3>1. Unset(sh') = {"arg1", "arg2", "instruction"}
      BY <2>2 DEF Unset
    <3>2. \A y \in {"arg1", "arg2", "instruction"} : sh'.ptr[y] = NULL
      BY <2>2, <1>3 DEF SetPtr, ShellOK, Pointers, Vars
    <3> QED BY <3>1, <3>2, <2>2 DEF ParseOK
  <2> QED BY <2>4, <2>5 DEF HeapOK
<1> QED BY <1>5, <1>6

LEMMA NewArgHeap ==
  ASSUME ShellOK, HeapOK, NewArg
  PROVE  HeapOK'
<1>1. sh.at = "arg" /\ (sh.part = 1 \/ sh.part = 2)
  BY DEF NewArg, ShellOK
<1>2. PICK b \in Block \cup {NULL} :
           /\ Given(b)
           /\ ParsesTo("instruction", sh.part, sh.line, SetPtr(Arg(sh.part), b), sh.starved)
  BY NewArgGoes
<1>3. /\ sh.ptr["arg1"] = NULL /\ sh.ptr["instruction"] = NULL /\ sh.ptr[Arg(sh.part)] = NULL
      /\ ~Piped(sh.line) => sh.part = 1 /\ sh.ptr["arg2"] = NULL
  BY <1>1, ParseFacts
<1>4. Arg(sh.part) \in All /\ "instruction" \in Parsing
  BY DEF All, Kept, Arg, Parsing
<1>5. /\ sh'.at = "instruction" /\ sh'.part = sh.part /\ sh'.line = sh.line
      /\ sh'.ptr = SetPtr(Arg(sh.part), b)
  BY <1>2 DEF ParsesTo
<1>6. Held(sh') = All
  BY <1>5, HeldParsing
<1>7. OwnBlocks' /\ AccountsOK'
  BY <1>1, <1>2, <1>3, <1>4, <1>6, MallocHeap
<1>8. ParseOK'
  <2>1. Unset(sh') = {"instruction"} \cup {x \in {"arg1"} : sh.part = 2}
    BY <1>5 DEF Unset
  <2>2. \A y \in Vars : sh'.ptr[y] = IF y = Arg(sh.part) THEN b ELSE sh.ptr[y]
    BY <1>5 DEF SetPtr, ShellOK, Pointers
  <2>3. sh'.ptr["instruction"] = NULL /\ (sh.part = 2 => sh'.ptr["arg1"] = NULL)
        /\ (~Piped(sh.line) => sh.part = 1 /\ sh'.ptr["arg2"] = NULL)
    BY <2>2, <1>3 DEF Arg, Vars
  <2> QED BY <2>1, <2>3, <1>5 DEF ParseOK
<1> QED BY <1>7, <1>8 DEF HeapOK

LEMMA NewInstructionHeap ==
  ASSUME ShellOK, HeapOK, NewInstruction
  PROVE  HeapOK'
<1>1. sh.at = "instruction" /\ (sh.part = 1 \/ sh.part = 2)
  BY DEF NewInstruction, ShellOK
<1>2. PICK b \in Block \cup {NULL} :
           /\ Given(b)
           /\ IF b = NULL
              THEN ParsesTo(IF sh.part = 2 THEN "arg" ELSE "control", 1, sh.line, SetPtr("instruction", b), TRUE)
              ELSE ParsesTo("split", sh.part, sh.line, SetPtr("instruction", b), sh.starved)
  BY NewInstructionGoes
<1>3. /\ sh.ptr["instruction"] = NULL /\ (sh.part = 2 => sh.ptr["arg1"] = NULL)
      /\ ~Piped(sh.line) => sh.part = 1 /\ sh.ptr["arg2"] = NULL
  BY <1>1, ParseFacts
<1>4. "instruction" \in All /\ {"arg", "control", "split"} \subseteq Parsing
  BY DEF All, Parsing
<1>5. sh'.ptr = SetPtr("instruction", b) /\ sh'.line = sh.line
  BY <1>2 DEF ParsesTo
<1>6. \A y \in Vars : sh'.ptr[y] = IF y = "instruction" THEN b ELSE sh.ptr[y]
  BY <1>5 DEF SetPtr, ShellOK, Pointers
<1>7. CASE b = NULL
  <2> DEFINE at == IF sh.part = 2 THEN "arg" ELSE "control"
  <2>1. ParsesTo(at, 1, sh.line, SetPtr("instruction", b), TRUE)
    BY <1>2, <1>7
  <2>2. sh'.at = at /\ sh'.part = 1
    BY <2>1 DEF ParsesTo
  <2>3. Held(sh') \subseteq All /\ at \in Parsing /\ at # "prompt"
    BY <2>2, <1>4, HeldParsing DEF All
  <2> HIDE DEF at
  <2>4. OwnBlocks' /\ AccountsOK'
    BY <2>1, <2>3, <1>1, <1>2, <1>3, <1>4, MallocHeap
  <2>5. ParseOK'
    <3>1. Unset(sh') = IF sh.part = 2 THEN {"arg1", "instruction"} ELSE {}
      BY <2>2 DEF Unset, at
    <3>2. sh'.ptr["instruction"] = NULL /\ (sh.part = 2 => sh'.ptr["arg1"] = NULL)
          /\ (~Piped(sh.line) => sh'.ptr["arg2"] = NULL)
      BY <1>3, <1>6, <1>7 DEF Vars
    <3> QED BY <3>1, <3>2, <2>2, <1>5 DEF ParseOK
  <2> QED BY <2>4, <2>5 DEF HeapOK
<1>8. CASE b # NULL
  <2>1. ParsesTo("split", sh.part, sh.line, SetPtr("instruction", b), sh.starved)
    BY <1>2, <1>8
  <2>2. sh'.at = "split" /\ sh'.part = sh.part
    BY <2>1 DEF ParsesTo
  <2>3. Held(sh') = All
    BY <2>2, HeldParsing
  <2>4. OwnBlocks' /\ AccountsOK'
    BY <2>1, <2>3, <1>1, <1>2, <1>3, <1>4, MallocHeap
  <2>5. ParseOK'
    <3>1. Unset(sh') = {x \in {"arg1"} : sh.part = 2}
      BY <2>2 DEF Unset
    <3>2. (sh.part = 2 => sh'.ptr["arg1"] = NULL) /\ (~Piped(sh.line) => sh.part = 1 /\ sh'.ptr["arg2"] = NULL)
      BY <1>3, <1>6 DEF Vars
    <3> QED BY <3>1, <3>2, <2>2, <1>5 DEF ParseOK
  <2> QED BY <2>4, <2>5 DEF HeapOK
<1> QED BY <1>7, <1>8

LEMMA SplitLineHeap ==
  ASSUME ShellOK, HeapOK, SplitLine
  PROVE  HeapOK'
<1>1. sh.at = "split" /\ Held(sh) = All /\ (sh.part = 1 \/ sh.part = 2) /\ sh.at \in Parsing
  BY HeldParsing DEF SplitLine, ShellOK, Parsing
<1>2. \/ /\ ParsesTo("verify", sh.part, sh.line, sh.ptr, sh.starved)
         /\ IF sh.part = 1 THEN FreeMem("shell_buffer") ELSE UNCHANGED owner
      \/ ParsesTo("fault", sh.part, sh.line, sh.ptr, sh.starved) /\ UNCHANGED owner
  BY SplitLineGoes
<1>3. CASE ParsesTo("fault", sh.part, sh.line, sh.ptr, sh.starved)
  <2>1. sh'.at = "fault"
    BY <1>3 DEF ParsesTo
  <2>2. Held(sh') = {}
    BY <2>1, HeldParsing
  <2>3. ParseOK'
    BY <2>1 DEF ParseOK, Unset, Parsing
  <2>4. OwnBlocks'
    BY <2>2 DEF OwnBlocks, Owns
  <2>5. AccountsOK'
    BY <2>1 DEF AccountsOK, Accountable
  <2> QED BY <2>3, <2>4, <2>5 DEF HeapOK
<1>4. CASE /\ ParsesTo("verify", sh.part, sh.line, sh.ptr, sh.starved)
           /\ IF sh.part = 1 THEN FreeMem("shell_buffer") ELSE UNCHANGED owner
  <2>1. sh'.at = "verify" /\ sh'.part = sh.part /\ sh'.ptr = sh.ptr /\ sh'.line = sh.line
    BY <1>4 DEF ParsesTo
  <2>2. Held(sh') = IF sh.part = 1 THEN Kept \cup {"instruction"} ELSE All
    BY <2>1, HeldParsing
  <2>3. "verify" \in Parsing /\ "verify" # "prompt"
    BY DEF Parsing
  <2>4. ASSUME sh.part = 1 PROVE OwnBlocks' /\ AccountsOK'
    <3> DEFINE G == Kept \cup {"instruction"}
    <3>1. /\ FreeMem("shell_buffer") /\ "shell_buffer" \in Vars /\ All \in SUBSET Vars /\ "shell_buffer" \in All
          /\ G \in SUBSET Vars /\ G = All \ {"shell_buffer"}
      BY <1>4, <2>4 DEF All, Kept, Vars
    <3>2. Held(sh') = G
      BY <2>2, <2>4
    <3> HIDE DEF G
    <3>3. Owns(Held(sh), sh.ptr, owner) => Owns(Held(sh'), sh'.ptr, owner')
      BY <3>1, <3>2, <2>1, <1>1, FreeOwns
    <3>4. \A Old \in SUBSET Block : Exact(Old, Held(sh), sh.ptr, owner) => Exact(Old, Held(sh'), sh'.ptr, owner')
      BY <3>1, <3>2, <2>1, <1>1, FreeExact
    <3> QED BY <3>3, <3>4, <2>3, <1>1, <1>4, ParsesHeap
  <2>5. ASSUME sh.part = 2 PROVE OwnBlocks' /\ AccountsOK'
    <3>1. owner' = owner /\ Held(sh') = Held(sh)
      BY <2>2, <2>5, <1>1, <1>4
    <3> QED BY <3>1, <2>3, <1>1, <1>4, ParsesSame
  <2>6. ParseOK'
    <3>1. Unset(sh') = {x \in {"arg1"} : sh.part = 2}
      BY <2>1 DEF Unset
    <3>2. (sh.part = 2 => sh.ptr["arg1"] = NULL) /\ (~Piped(sh.line) => sh.part = 1 /\ sh.ptr["arg2"] = NULL)
      BY <1>1, ParseFacts
    <3> QED BY <3>1, <3>2, <2>1 DEF ParseOK
  <2> QED BY <2>4, <2>5, <2>6, <1>1 DEF HeapOK
<1> QED BY <1>2, <1>3, <1>4

LEMMA VerifyHeap ==
  ASSUME ShellOK, HeapOK, Verify
  PROVE  HeapOK'
<1>1. /\ sh.at = "verify" /\ (sh.part = 1 \/ sh.part = 2) /\ sh.at \in Parsing
      /\ Held(sh) = IF sh.part = 1 THEN Kept \cup {"instruction"} ELSE All
  BY HeldParsing DEF Verify, ShellOK, Parsing
<1> DEFINE at == IF sh.part = 2 THEN "arg" ELSE "control"
           q == [sh.ptr EXCEPT !["instruction"] = NULL, !["shell_buffer"] = IF sh.part = 1 THEN NULL ELSE @]
<1>2. FreeMem("instruction") /\ ParsesTo(at, 1, sh.line, q, sh.starved)
  BY VerifyGoes
<1>3. \A y \in Vars : q[y] = IF y = "instruction" \/ (y = "shell_buffer" /\ sh.part = 1) THEN NULL ELSE sh.ptr[y]
  BY DEF ShellOK, Pointers, Vars
<1>4. at \in Parsing /\ at # "prompt"
  BY DEF Parsing
<1> HIDE DEF q
<1>5. sh'.at = at /\ sh'.part = 1 /\ sh'.ptr = q /\ sh'.line = sh.line
  BY <1>2 DEF ParsesTo
<1>6. Held(sh') = IF sh.part = 1 THEN Kept ELSE All
  BY <1>1, <1>5, HeldParsing
<1> HIDE DEF at
<1>7. /\ "instruction" \in Vars /\ Held(sh) \in SUBSET Vars /\ "instruction" \in Held(sh)
      /\ Held(sh') \in SUBSET Vars
  BY <1>1, <1>6 DEF All, Kept, Vars
<1>8. \A y \in Held(sh') : q[y] = NULL \/ (y \in Held(sh) \ {"instruction"} /\ q[y] = sh.ptr[y])
  BY <1>1, <1>3, <1>6 DEF All, Kept, Vars
<1>9. \A y \in Held(sh) \ {"instruction"} : y \in Held(sh') /\ q[y] = sh.ptr[y]
  BY <1>1, <1>3, <1>6 DEF All, Kept, Vars
<1>10. Owns(Held(sh), sh.ptr, owner) => Owns(Held(sh'), sh'.ptr, owner')
  BY <1>2, <1>5, <1>7, <1>8, FreeOwns
<1>11. \A Old \in SUBSET Block : Exact(Old, Held(sh), sh.ptr, owner) => Exact(Old, Held(sh'), sh'.ptr, owner')
  BY <1>2, <1>5, <1>7, <1>8, <1>9, FreeExact
<1>12. OwnBlocks' /\ AccountsOK'
  BY <1>1, <1>2, <1>4, <1>10, <1>11, ParsesHeap
<1>13. ParseOK'
  <2>1. Unset(sh') = IF sh.part = 2 THEN {"arg1", "instruction"} ELSE {}
    BY <1>1, <1>5 DEF Unset, at
  <2>2. (sh.part = 2 => sh.ptr["arg1"] = NULL) /\ (~Piped(sh.line) => sh.part = 1 /\ sh.ptr["arg2"] = NULL)
    BY <1>1, ParseFacts
  <2>3. q["instruction"] = NULL /\ q["arg1"] = sh.ptr["arg1"] /\ q["arg2"] = sh.ptr["arg2"]
    BY <1>3 DEF Vars
  <2> QED BY <2>1, <2>2, <2>3, <1>1, <1>5 DEF ParseOK
<1> QED BY <1>12, <1>13 DEF HeapOK

LEMMA ControlHeap ==
  ASSUME ShellOK, HeapOK, Control
  PROVE  HeapOK'
<1>1. sh.at = "control" /\ Held(sh) = Kept /\ owner' = owner
  BY HeldParsing DEF Control
<1>2. ~Piped(sh.line) => sh.ptr["arg2"] = NULL
  BY <1>1, ParseFacts
<1>3. ASSUME NEW t \in {Cleanup, Pipeline}, GoesOn(t, sh.ptr, sh.pids, sh.pipe)
      PROVE  HeapOK'
  <2>1. Owed(t) = Kept
    BY CleanupShape, PipelineShape
  <2> QED BY <2>1, <1>1, <1>3, SameHeap
<1>4. ASSUME NEW t \in {Single, BuiltIn}, GoesOn(t, sh.ptr, sh.pids, sh.pipe), ~Leaks => ~Piped(sh.line)
      PROVE  HeapOK'
  <2>1. Owed(t) = {"arg1", "pipe_cmd"}
    BY SingleShape, BuiltInShape
  <2>2. Owed(t) \subseteq Held(sh) /\ (~Leaks => \A y \in Held(sh) \ Owed(t) : sh.ptr[y] = NULL)
    BY <2>1, <1>1, <1>2, <1>4 DEF Kept
  <2> QED BY <2>2, <1>1, <1>4, SameHeap
<1>5. CASE ParsesTo("fault", sh.part, sh.line, sh.ptr, sh.starved)
  <2>1. sh'.at = "fault"
    BY <1>5 DEF ParsesTo
  <2>2. Held(sh') = {}
    BY <2>1, HeldParsing
  <2>3. ParseOK'
    BY <2>1 DEF ParseOK, Unset, Parsing
  <2>4. OwnBlocks'
    BY <2>2 DEF OwnBlocks, Owns
  <2>5. AccountsOK'
    BY <2>1 DEF AccountsOK, Accountable
  <2> QED BY <2>3, <2>4, <2>5 DEF HeapOK
<1>6. CASE sh.cmd.inst[1] \in BuiltIns /\ GoesOn(BuiltIn, sh.ptr, sh.pids, sh.pipe)
  <2>1. ~Leaks => ~Piped(sh.line)
    BY <1>6 DEF Leaks
  <2> QED BY <2>1, <1>4, <1>6
<1>7. CASE /\ Cardinality({i \in 1..2 : sh.cmd.inst[i] # "none"}) = 1
           /\ GoesOn(Single, sh.ptr, sh.pids, sh.pipe)
  <2>1. ~Leaks => ~Piped(sh.line)
    <3> SUFFICES ASSUME sh.cmd.inst[1] # "none", sh.cmd.inst[2] # "none" PROVE FALSE
      BY DEF Leaks
    <3>1. {i \in 1..2 : sh.cmd.inst[i] # "none"} = {1, 2}
      OBVIOUS
    <3>2. Cardinality({1, 2}) = 2
      <4>1. Cardinality({1}) = 1 /\ IsFiniteSet({1}) /\ 2 \notin {1}
        <5>1. IsFiniteSet({1}) /\ Cardinality({1}) = 1
          BY FS_Singleton, Zenon
        <5> QED BY <5>1
      <4>2. Cardinality({1} \cup {2}) = Cardinality({1}) + 1
        BY <4>1, FS_AddElement
      <4>3. {1} \cup {2} = {1, 2}
        OBVIOUS
      <4> QED BY <4>1, <4>2, <4>3
    <3> QED BY <3>1, <3>2, <1>7
  <2> QED BY <2>1, <1>4, <1>7
<1> QED BY <1>3, <1>5, <1>6, <1>7, ControlGoes

LEMMA OthersHeap ==
  ASSUME ShellOK, HeapOK, sh' = sh, \A b \in Block : owner[b] = "shell" <=> owner'[b] = "shell"
  PROVE  HeapOK'
<1>1. Held(sh) \in SUBSET Vars /\ Held(sh') = Held(sh)
  BY HeldType
<1>2. /\ Owns(Held(sh), sh.ptr, owner) => Owns(Held(sh'), sh'.ptr, owner')
      /\ \A Old \in SUBSET Block :
           Exact(Old, Held(sh), sh.ptr, owner) => Exact(Old, Held(sh'), sh'.ptr, owner')
  BY <1>1, KeptHeap
<1>3. OwnBlocks'
  BY <1>2 DEF HeapOK, OwnBlocks, NoSelf
<1>4. Accountable' => Accountable
  BY Zenon DEF Accountable, Leaks
<1>5. AccountsOK'
  BY <1>2, <1>4 DEF HeapOK, AccountsOK
<1>6. ParseOK'
  BY DEF HeapOK, ParseOK
<1> QED BY <1>3, <1>5, <1>6 DEF HeapOK

LEMMA HeapNext ==
  ASSUME ListOK, HeapOK, [Next]_vars
  PROVE  HeapOK'
<1>0. ShellOK
  BY DEF ListOK
<1>1. CASE ShellStep
  BY <1>0, <1>1, NewLineHeap, NewBufferHeap, ReadLineHeap, NewArgHeap, NewInstructionHeap, SplitLineHeap,
     VerifyHeap, ControlHeap, FreeHeap, HandlerHeap, ArgvHeap, RunHeap DEF ShellStep
<1>2. CASE Others \/ UNCHANGED vars
  <2>1. sh' = sh /\ \A b \in Block : owner[b] = "shell" <=> owner'[b] = "shell"
    BY <1>0, <1>2, OthersFacts DEF Others, vars
  <2> QED BY <2>1, <1>0, OthersHeap
<1> QED BY <1>1, <1>2 DEF Next, Others

-----------------------------------------------------------------------------
(* The invariant and what follows from it.                                  *)

LEMMA ShInvParts == ShInv <=> ListOK /\ HeapOK /\ PidsOK /\ PipeOK /\ TableOK
  BY DEF ShInv, ListOK, HeapOK

LEMMA ShInvInit ==
  ASSUME InitShell
  PROVE  ShInv
<1>1. /\ DOMAIN sh = Fields /\ sh.at = "prompt" /\ sh.todo = << >> /\ sh.part = 1 /\ sh.ptr = NoPointers
      /\ sh.pids = <<0, 0>> /\ sh.pipe = 0 /\ sh.before = 0
  BY DEF InitShell, Fields
<1>2. owner = [b \in Block |-> "none"] /\ live = << >>
  BY DEF InitShell
<1>3. ListOK
  <2>1. NoPointers \in Pointers /\ "prompt" \in Stages
    BY DEF NoPointers, Pointers, Stages
  <2>2. <<0, 0>> \in [1..2 -> Int] /\ DOMAIN live = {}
    BY <1>2
  <2>3. ShellOK
    BY <1>1, <1>2, <2>1, <2>2, EmptyList DEF ShellOK
  <2> QED BY <2>3, <1>1, EmptyList DEF ListOK
<1>4. HeapOK
  <2>1. Held(sh) = {}
    BY <1>1, HeldParsing
  <2>2. OwnBlocks
    BY <2>1 DEF OwnBlocks, Owns
  <2>3. ParseOK
    BY <1>1 DEF ParseOK, Unset, Parsing
  <2>4. Cardinality({}) = 0
    BY FS_EmptySet, Zenon
  <2>5. Exact({}, {}, sh.ptr, owner)
    BY <1>2 DEF Exact
  <2>6. AccountsOK
    BY <1>1, <2>1, <2>4, <2>5 DEF AccountsOK
  <2> QED BY <2>2, <2>3, <2>6 DEF HeapOK
<1>5. PidsOK
  BY <1>1, <1>2, EmptyList DEF PidsOK
<1>6. /\ pipes = [i \in Slot |-> IF i # 0 THEN ClosedPipe
                             ELSE [isOpen |-> TRUE, semReaders |-> 0, semWriters |-> 1, mutex |-> 2]]
      /\ next_sem_id = 3 /\ used = 0..2 /\ others = {} /\ given = {0} /\ lost = {}
  BY DEF InitShell, Init
<1>7. 0 \in Slot /\ Slot \subseteq Int
  BY TableAssumption DEF Slot
<1>8. /\ \A i \in Slot : pipes[i].isOpen <=> i = 0
      /\ pipes[0].semReaders = 0 /\ pipes[0].semWriters = 1 /\ pipes[0].mutex = 2
  BY <1>6, <1>7 DEF ClosedPipe
<1>9. Good = {0}
  BY <1>6, <1>7, <1>8 DEF Good
<1>10. PipeOK
  <2>1. ~WillClose
    BY <1>1, EmptyList DEF WillClose
  <2> QED BY <2>1, <1>9 DEF PipeOK
<1>11. TableOK
  <2>1. pipes \in [Slot -> PipeRecord]
    <3>1. -1 \in Int
      OBVIOUS
    <3>2. ClosedPipe \in PipeRecord
      BY <3>1 DEF ClosedPipe, PipeRecord
    <3>3. [isOpen |-> TRUE, semReaders |-> 0, semWriters |-> 1, mutex |-> 2] \in PipeRecord
      BY DEF PipeRecord
    <3> QED BY <3>2, <3>3, <1>6
  <2>2. given = {ExportedId(i) : i \in Good}
    BY <1>6, <1>9 DEF ExportedId
  <2>3. \A i \in Good :
       /\ pipes[i].semReaders \in Nat
       /\ pipes[i].semWriters = pipes[i].semReaders + 1
       /\ pipes[i].mutex = pipes[i].semReaders + 2
       /\ pipes[i].semReaders + 3 <= next_sem_id
       /\ Sems(i) \subseteq used \ others
    BY <1>6, <1>8, <1>9 DEF Sems
  <2> QED BY <2>1, <2>2, <2>3, <1>6, <1>9 DEF TableOK
<1> QED BY <1>3, <1>4, <1>5, <1>10, <1>11, ShInvParts

\* What the shell still has to do with a line says what it holds: the ranges of
\* its fields, the order of the steps in its list, its blocks, processes and pipe,
\* and the table of pipes, in every state of shell.c and pipe.c.
THEOREM ShellInvariance == Spec => []ShInv
<1>1. InitShell => ShInv
  BY ShInvInit
<1>2. ShInv /\ [Next]_vars => ShInv'
  <2> SUFFICES ASSUME ShInv, [Next]_vars PROVE ShInv'
    OBVIOUS
  <2>1. ListOK /\ HeapOK /\ PidsOK /\ PipeOK /\ TableOK
    BY ShInvParts
  <2>2. ListOK'
    BY <2>1, ListNext
  <2>3. HeapOK'
    BY <2>1, HeapNext
  <2>4. PidsOK'
    BY <2>1, <2>2, PidsNext
  <2>5. TableOK' /\ PipeOK'
    BY <2>1, TableNext
  <2> QED BY <2>2, <2>3, <2>4, <2>5 DEF ShInv, ListOK, HeapOK
<1> QED BY <1>1, <1>2, PTL DEF Spec

\* The pipes that createPipe reported as good keep apart, in every table: their
\* semaphores are initialised and shared with nobody, and the ids that pass
\* PIPE_ID_CHECK name different ones, however the shell's lines and the others
\* interleave.
THEOREM PipesApart == Spec => []PipesKeepApart
<1>1. TableOK => PipesKeepApart
  <2> SUFFICES ASSUME TableOK PROVE PipesKeepApart
    OBVIOUS
  <2>1. Good \subseteq Slot /\ Slot \subseteq Nat
    BY TableAssumption DEF Good, Slot
  <2>2. ASSUME NEW i \in Good
        PROVE  Sems(i) \subseteq used \ others /\ \A j \in Good \ {i} : Sems(i) \cap Sems(j) = {}
    <3>1. Sems(i) \subseteq used \ others
      BY DEF TableOK
    <3>2. ASSUME NEW j \in Good \ {i} PROVE Sems(i) \cap Sems(j) = {}
      BY TriplesApart
    <3> QED BY <3>1, <3>2
  <2>3. ASSUME NEW id \in given
        PROVE  \E i \in Good : id = ExportedId(i) /\ SlotOf(id) = i
    <3>1. PICK i \in Good : id = ExportedId(i)
      BY DEF TableOK
    <3>2. i \in Nat
      BY <2>1
    <3>3. SlotOf(id) = i
      BY <3>1, <3>2 DEF ExportedId, SlotOf
    <3> QED BY <3>1, <3>3
  <2>4. ASSUME NEW id \in given
        PROVE  SlotOf(id) \in Good /\ \A other \in given \ {id} : SlotOf(other) # SlotOf(id)
    BY <2>3
  <2> QED BY <2>2, <2>4 DEF PipesKeepApart
<1>2. ShInv => PipesKeepApart
  BY <1>1 DEF ShInv
<1> QED BY <1>2, ShellInvariance, PTL

\* When the shell is back at its prompt, after any line and any failure, its
\* foreground processes are gone or one could not be started, and every pipe
\* that pipeClose would close is closed.
THEOREM NothingLeft == Spec => []NothingLeftOver
<1>1. ShInv => NothingLeftOver
  <2> SUFFICES ASSUME ShInv, sh.at = "prompt" PROVE NothingLeftOver
    BY DEF NothingLeftOver
  <2>1. sh.todo = << >> /\ sh.pids \in [1..2 -> Int]
    BY DEF ShInv, ShellOK
  <2>2. \A i : ~Awaited(sh.todo, i)
    BY <2>1, EmptyList DEF Awaited
  <2>3. ASSUME \A i \in 1..2 : sh.pids[i] >= 0, NEW i \in 1..2 PROVE sh.pids[i] \notin DOMAIN live
    <3> SUFFICES ASSUME sh.pids[i] \in DOMAIN live PROVE FALSE
      OBVIOUS
    <3>1. PICK j \in 1..2 : sh.pids[j] < 0
      BY <2>2 DEF ShInv, PidsOK
    <3>2. sh.pids[j] \in Int /\ sh.pids[j] >= 0
      BY <2>1, <2>3
    <3> QED BY <3>1, <3>2
  <2>4. ~WillClose
    BY <2>1, EmptyList DEF WillClose
  <2>5. ASSUME NEW i \in Slot, pipes[i].isOpen
        PROVE  i \in 0..2 \cup lost \/ ExportedId(i) >= MAX_PIPES
    <3>1. i \in Nat /\ MAX_PIPES \in Nat
      BY TableAssumption DEF Slot
    <3>2. i \notin lost => i \in Good
      BY <2>5 DEF Good
    <3>3. i \notin lost => ~(i > 2 /\ i + 2 < MAX_PIPES)
      BY <3>2, <2>4 DEF ShInv, PipeOK
    <3> QED BY <3>1, <3>3 DEF ExportedId
  <2> QED BY <2>3, <2>5 DEF NothingLeftOver
<1> QED BY <1>1, ShellInvariance, PTL

\* At the prompt the shell holds as many blocks as at the prompt before, with any
\* heap and any line, whatever failed on the way, but on the paths of shell.c
\* that the property names.
THEOREM HeapBalanced == Spec => []HeapGivenBack
<1>1. ShInv => HeapGivenBack
  <2> SUFFICES ASSUME ShInv, sh.at = "prompt", ~sh.starved, ~Leaks
               PROVE  Mine = sh.before
    BY DEF HeapGivenBack, Leaks
  <2>1. Accountable
    BY DEF Accountable
  <2>2. PICK Old \in SUBSET Block : Cardinality(Old) = sh.before /\ Exact(Old, Held(sh), sh.ptr, owner)
    BY <2>1 DEF ShInv, AccountsOK
  <2>3. Held(sh) = {}
    BY HeldParsing
  <2>4. {b \in Block : owner[b] = "shell"} = Old
    BY <2>2, <2>3 DEF Exact
  <2> QED BY <2>2, <2>4 DEF Mine
<1> QED BY <1>1, ShellInvariance, PTL

\* malloc gives the shell free blocks only.
LEMMA GivenKeeps ==
  ASSUME ShellOK, NEW b \in Block \cup {NULL}, Given(b), NEW c \in Block, owner[c] = "other"
  PROVE  owner'[c] = "other"
  BY DEF Given, Free, ShellOK

\* And free takes a block from nobody when the pointer is held.
LEMMA HeldKeeps ==
  ASSUME ShellOK, NEW x \in Vars, FreeMem(x), Owns(Held(sh), sh.ptr, owner), x \in Held(sh),
         NEW c \in Block, owner[c] = "other"
  PROVE  owner'[c] = "other"
<1>1. owner'[c] = IF c = sh.ptr[x] THEN "none" ELSE owner[c]
  BY FreeFacts
<1>2. c # sh.ptr[x]
  BY ShellAssumption DEF Owns
<1> QED BY <1>1, <1>2

\* No step of the shell takes a block from its owner, however its frees
\* interleave with the allocations of others, unless the line has help, clear or
\* test_malloc_free, whose handlers free their argument.
THEOREM OwnFreed == Spec => OnlyOwnFreed
<1> DEFINE Keeps == ShellStep => \/ \A b \in Block : owner[b] = "other" => owner'[b] = "other"
                                 \/ {sh.cmd.inst[1], sh.cmd.inst[2]} \cap SelfFreeing # {}
<1>1. ShInv /\ [Next]_vars => [Keeps]_vars
  <2> SUFFICES ASSUME ShInv, ShellStep, NoSelf, NEW c \in Block, owner[c] = "other" PROVE owner'[c] = "other"
    BY DEF NoSelf
  <2>0. ShellOK /\ Shape(sh.todo) /\ Owns(Held(sh), sh.ptr, owner)
    BY DEF ShInv, OwnBlocks
  <2>1. CASE ReadLine \/ Control \/ DoBuiltIn \/ DoHandler \/ DoCreate \/ DoCreated \/ DoWaitpid \/ DoOpen \/ DoClose
    <3>1. owner' = owner
      BY <2>1 DEF ReadLine, Control, DoBuiltIn, DoHandler, DoCreate, DoCreated, DoWaitpid, DoOpen, DoClose
    <3> QED BY <3>1
  <2>2. CASE NewLine \/ NewBuffer \/ NewArg \/ NewInstruction
    <3>1. \E b \in Block \cup {NULL} : Given(b)
      BY <2>0, <2>2, NewLineGoes, NewBufferGoes, NewArgGoes, NewInstructionGoes
    <3> QED BY <3>1, <2>0, GivenKeeps
  <2>3. CASE DoArgv
    <3>1. owner' = owner \/ \E b \in Free : owner' = [owner EXCEPT ![b] = "shell"]
      BY <2>0, <2>3, ArgvGoes
    <3> QED BY <3>1, <2>0 DEF Free, ShellOK
  <2>4. CASE SplitLine
    <3>1. FreeMem("shell_buffer") \/ owner' = owner
      BY <2>0, <2>4, SplitLineGoes
    <3>2. "shell_buffer" \in Held(sh) /\ "shell_buffer" \in Vars
      BY <2>4, HeldParsing DEF SplitLine, All, Vars
    <3> QED BY <3>1, <3>2, <2>0, HeldKeeps
  <2>5. CASE Verify
    <3>1. FreeMem("instruction") /\ "instruction" \in Held(sh) /\ "instruction" \in Vars
      BY <2>5, HeldParsing DEF Verify, All, Vars
    <3> QED BY <3>1, <2>0, HeldKeeps
  <2>6. CASE DoFree
    <3>1. /\ sh.todo \in Seq(Item) /\ sh.todo # << >> /\ sh.at = "run" /\ sh.todo[1] = FreeOf(X)
          /\ X \in Vars /\ FreeMem(X)
      BY <2>0, <2>6, StepFacts DEF DoFree
    <3>2. X \in Held(sh)
      BY <3>1, <2>0, OwedFree, HeldRun
    <3> QED BY <3>1, <3>2, <2>0, HeldKeeps
  <2> QED BY <2>1, <2>2, <2>3, <2>4, <2>5, <2>6 DEF ShellStep
<1> QED BY <1>1, ShellInvariance, PTL DEF Spec, OnlyOwnFreed

\* The shell closes the pipe of a line behind the last use of it: the processes
\* of the line have ended, unless one could not be started or is in the
\* background.
THEOREM ClosedInTime == Spec => ClosedAfterUse
<1> DEFINE Late == \A i \in Slot : (pipes[i].isOpen /\ ~pipes'[i].isOpen) =>
       \/ \A j \in 1..2 : sh.pids[j] \in DOMAIN live =>
                            \A id \in live[sh.pids[j]] : SlotOf(id) # i
       \/ \E j \in 1..2 : sh.pids[j] < 1
<1>1. ShInv /\ [Next]_vars => [Late]_vars
  <2> SUFFICES ASSUME ShInv, Next, NEW i \in Slot, pipes[i].isOpen, ~pipes'[i].isOpen,
                      NEW j \in 1..2, sh.pids[j] \in DOMAIN live
               PROVE  \E k \in 1..2 : sh.pids[k] < 1
    OBVIOUS
  <2>0. ShellOK /\ Shape(sh.todo) /\ pipes \in [Slot -> PipeRecord]
    BY DEF ShInv, TableOK
  <2>1. pipes' # pipes
    OBVIOUS
  <2>2. ~CreatePipe
    <3> SUFFICES ASSUME CreatePipe PROVE FALSE
      OBVIOUS
    <3>1. PICK m \in Slot : pipes' = [pipes EXCEPT ![m] = [isOpen     |-> TRUE,
                                                            semReaders |-> next_sem_id,
                                                            semWriters |-> next_sem_id + 1,
                                                            mutex      |-> next_sem_id + 2]]
      BY DEF CreatePipe
    <3> QED BY <3>1, <2>0
  <2>3. DoClose
    <3>1. ~DoOpen
      BY <2>1, <2>2 DEF DoOpen, table
    <3> QED BY <3>1, <2>1 DEF Next, ShellStep, NewLine, NewBuffer, ReadLine, NewArg, NewInstruction, SplitLine,
              Verify, Control, DoFree, DoBuiltIn, DoHandler, DoArgv, DoCreate, DoCreated, DoWaitpid,
              ProcessEnds, OthersMalloc, OthersFree, OthersTake, OthersGive, table
  <2>4. /\ sh.todo \in Seq(Item) /\ sh.todo # << >> /\ sh.todo[1].op = "close"
    BY <2>0, <2>3, StepFacts DEF DoClose
  <2>5. 1 \in 1..Len(sh.todo) /\ Len(sh.todo) \in Nat
    BY <2>4, TailFacts
  <2>6. \A n \in 1..Len(sh.todo) : sh.todo[n].op \in {"close", "free"}
    <3> SUFFICES ASSUME NEW n \in 1..Len(sh.todo), n # 1 PROVE sh.todo[n].op = "free"
      BY <2>4
    <3>1. 1 < n
      OBVIOUS
    <3> QED BY <3>1, <2>0, <2>4, <2>5 DEF Shape, CloseLate
  <2>7. ~Awaited(sh.todo, j)
    BY <2>6 DEF Awaited, Has, HasOp, Do
  <2>8. PICK k \in 1..2 : sh.pids[k] < 0
    BY <2>7 DEF ShInv, PidsOK
  <2>9. sh.pids[k] \in Int
    BY <2>0 DEF ShellOK
  <2> QED BY <2>8, <2>9
<1> QED BY <1>1, ShellInvariance, PTL DEF Spec, ClosedAfterUse
=============================================================================
