----------------------------- MODULE TasksProofs -----------------------------
(***************************************************************************)
(* Proofs about Tasks, for every number of task IDs and every stack depth. *)
(*                                                                         *)
(* Everything is argued about Ring, the running thread followed by the     *)
(* queue: each switch rotates it, lengthens it or drops its head.          *)
(***************************************************************************)
EXTENDS Tasks, FiniteSetTheorems, SequenceTheorems, TLAPS

Stack == Threads \X (0..MaxDepth)

LEMMA StackFields ==
  ASSUME NEW p \in Stack
  PROVE  p[1] \in Threads /\ p[2] \in 0..MaxDepth /\ p = <<p[1], p[2]>>
  BY DEF Stack

LEMMA TaskFields ==
  ASSUME NEW t \in Task
  PROVE  /\ t.id \in Ids /\ t.ip \in Threads /\ t.sp \in Stack
         /\ t = [id |-> t.id, ip |-> t.ip, sp |-> t.sp]
  BY DEF Task, Stack

-----------------------------------------------------------------------------
(* The shape of Ring, and what each switch makes of it. *)

(* What the running thread is stored as. *)
LEMMA SuspendedIsTask == ASSUME TypeOK PROVE Suspended \in Task
<1>1. current.id \in Ids
  BY TaskFields DEF TypeOK
<1> QED BY <1>1 DEF TypeOK, Suspended, Task

LEMMA ConsShape ==
  ASSUME NEW S, NEW x \in S, NEW q \in Seq(S)
  PROVE  /\ <<x>> \o q \in Seq(S)
         /\ Len(<<x>> \o q) = Len(q) + 1
         /\ (<<x>> \o q)[1] = x
         /\ \A i \in 1..Len(q) : (<<x>> \o q)[i + 1] = q[i]
<1>1. <<x>> \in Seq(S) /\ Len(<<x>>) = 1 /\ <<x>>[1] = x
  OBVIOUS
<1>2. Len(q) \in Nat
  OBVIOUS
<1> QED BY <1>1, <1>2, ConcatProperties

LEMMA RingShape ==
  ASSUME TypeOK, ~panicked
  PROVE  /\ Ring \in Seq(Task)
         /\ Len(Ring) = Len(queue) + 1
         /\ Ring[1] = Suspended
         /\ \A i \in 1..Len(queue) : Ring[i + 1] = queue[i]
<1>1. Suspended \in Task /\ queue \in Seq(Task)
  BY SuspendedIsTask DEF TypeOK
<1> QED BY <1>1, ConsShape DEF Ring

(* After a switch the ring is what the queue was when its head was taken.  *)
LEMMA SwitchShape ==
  ASSUME NEW q \in Seq(Task), q # <<>>, SwitchTo(q), ~panicked'
  PROVE  /\ queue' \in Seq(Task) /\ Len(queue') = Len(q) - 1
         /\ current' \in Task /\ run' \in Threads /\ sp' \in Stack
         /\ Ring' \in Seq(Task)
         /\ Len(Ring') = Len(q)
         /\ \A i \in 1..Len(q) : Ring'[i] = q[i]
<1>1. /\ Head(q) \in Task
      /\ Tail(q) \in Seq(Task)
      /\ Len(Tail(q)) = Len(q) - 1
      /\ \A i \in 1..Len(q) - 1 : Tail(q)[i] = q[i + 1]
      /\ Head(q) = q[1]
      /\ Len(q) \in Nat \ {0}
  BY HeadTailProperties
<1>2. Suspended' = Head(q)
  BY <1>1, TaskFields DEF SwitchTo, Suspended
<1>3. Ring' = <<Head(q)>> \o Tail(q)
  BY <1>2 DEF Ring, SwitchTo
<1>4. /\ Ring' \in Seq(Task)
      /\ Len(Ring') = Len(Tail(q)) + 1
      /\ Ring'[1] = Head(q)
      /\ \A i \in 1..Len(Tail(q)) : Ring'[i + 1] = Tail(q)[i]
  BY <1>1, <1>3, ConsShape
<1>5. ASSUME NEW i \in 1..Len(q) PROVE Ring'[i] = q[i]
  <2>1. CASE i = 1
    BY <1>1, <1>4, <2>1
  <2>2. CASE i # 1
    <3>1. i - 1 \in 1..Len(q) - 1 /\ (i - 1) + 1 = i
      BY <1>1, <2>2
    <3>2. Ring'[(i - 1) + 1] = Tail(q)[i - 1] /\ Tail(q)[i - 1] = q[(i - 1) + 1]
      BY <1>1, <1>4, <3>1
    <3> QED BY <3>1, <3>2
  <2> QED BY <2>1, <2>2
<1>6. Len(Ring') = Len(q)
  BY <1>1, <1>4
<1> QED BY <1>1, <1>4, <1>5, <1>6, TaskFields DEF SwitchTo

LEMMA YieldShape ==
  ASSUME TypeOK, YieldTask
  PROVE  /\ queue' \in Seq(Task) /\ current' \in Task
         /\ run' \in Threads /\ sp' \in Stack
         /\ Ring' \in Seq(Task)
         /\ Len(Ring') = Len(Ring)
         /\ \A i \in 1..Len(Ring) :
              Ring'[i] = IF i < Len(Ring) THEN Ring[i + 1] ELSE Ring[1]
         /\ Len(queue') = Len(queue)
<1> DEFINE q == Append(queue, Suspended)
<1>1. ~panicked /\ ~panicked' /\ SwitchTo(q)
  BY DEF YieldTask, MayLeave, Running
<1>2. Suspended \in Task /\ queue \in Seq(Task) /\ Len(queue) \in Nat
  BY SuspendedIsTask DEF TypeOK
<1>3. /\ q \in Seq(Task) /\ q # <<>> /\ Len(q) = Len(queue) + 1
      /\ \A i \in 1..Len(queue) : q[i] = queue[i]
      /\ q[Len(queue) + 1] = Suspended
  BY <1>2, AppendProperties
<1> HIDE DEF q
<1>4. /\ Len(Ring) = Len(queue) + 1
      /\ Ring[1] = Suspended
      /\ \A i \in 1..Len(queue) : Ring[i + 1] = queue[i]
  BY <1>1, RingShape
<1>5. /\ queue' \in Seq(Task) /\ Len(queue') = Len(q) - 1
      /\ current' \in Task /\ run' \in Threads /\ sp' \in Stack
      /\ Ring' \in Seq(Task)
      /\ Len(Ring') = Len(q)
      /\ \A i \in 1..Len(q) : Ring'[i] = q[i]
  BY <1>1, <1>3, SwitchShape
<1>6. \A i \in 1..Len(Ring) :
         Ring'[i] = IF i < Len(Ring) THEN Ring[i + 1] ELSE Ring[1]
  <2> SUFFICES ASSUME NEW i \in 1..Len(Ring)
               PROVE  Ring'[i] = IF i < Len(Ring) THEN Ring[i + 1] ELSE Ring[1]
    OBVIOUS
  <2>1. CASE i < Len(Ring)
    <3>1. i \in 1..Len(queue)
      BY <1>2, <1>4, <2>1
    <3> QED BY <1>3, <1>4, <1>5, <2>1, <3>1
  <2>2. CASE ~(i < Len(Ring))
    <3>1. i = Len(queue) + 1
      BY <1>2, <1>4, <2>2
    <3> QED BY <1>3, <1>4, <1>5, <2>2, <3>1
  <2> QED BY <2>1, <2>2
<1> QED BY <1>2, <1>3, <1>4, <1>5, <1>6

Created(id) == [id |-> id, ip |-> id, sp |-> <<AreaOf(id), 0>>]

LEMMA CreatedIsTask == ASSUME NEW id \in Ids PROVE Created(id) \in Task
  BY TasksAssumption DEF Created, Task, AreaOf, Threads, Ids

LEMMA NewTaskShape ==
  ASSUME TypeOK, ~panicked, NEW id \in Ids, NewTask(id)
  PROVE  /\ queue' \in Seq(Task) /\ current' \in Task
         /\ run' \in Threads /\ sp' \in Stack
         /\ Ring' \in Seq(Task)
         /\ Len(Ring') = Len(Ring) + 1
         /\ \A i \in 1..Len(Ring') :
              Ring'[i] = IF i < Len(Ring) THEN Ring[i + 1]
                         ELSE IF i = Len(Ring) THEN Created(id) ELSE Ring[1]
         /\ Len(queue') = Len(queue) + 1
<1> DEFINE two == <<Created(id), Suspended>>
           q == queue \o two
<1>1. ~panicked' /\ SwitchTo(q)
  BY DEF NewTask, Created
<1>2. Suspended \in Task /\ Created(id) \in Task /\ queue \in Seq(Task) /\ Len(queue) \in Nat
  BY SuspendedIsTask, CreatedIsTask DEF TypeOK
<1>3. two \in Seq(Task) /\ Len(two) = 2 /\ two[1] = Created(id) /\ two[2] = Suspended
  BY <1>2
<1> HIDE DEF two
<1>31. q \in Seq(Task) /\ Len(q) = Len(queue) + Len(two)
       /\ \A i \in 1..Len(queue) + Len(two) :
            q[i] = IF i <= Len(queue) THEN queue[i] ELSE two[i - Len(queue)]
  BY <1>2, <1>3, ConcatProperties, Zenon
<1>4. /\ q \in Seq(Task) /\ Len(q) = Len(queue) + 2
      /\ \A i \in 1..Len(queue) + 2 :
           q[i] = IF i <= Len(queue) THEN queue[i] ELSE two[i - Len(queue)]
  BY <1>3, <1>31, Zenon
<1> HIDE DEF q
<1>5. q # <<>>
  BY <1>2, <1>4
<1>6. /\ Len(Ring) = Len(queue) + 1
      /\ Ring[1] = Suspended
      /\ \A i \in 1..Len(queue) : Ring[i + 1] = queue[i]
  BY RingShape
<1>7. /\ queue' \in Seq(Task) /\ Len(queue') = Len(q) - 1
      /\ current' \in Task /\ run' \in Threads /\ sp' \in Stack
      /\ Ring' \in Seq(Task)
      /\ Len(Ring') = Len(q)
      /\ \A i \in 1..Len(q) : Ring'[i] = q[i]
  BY <1>1, <1>4, <1>5, SwitchShape
<1>8. ASSUME NEW i \in 1..Len(Ring')
      PROVE  Ring'[i] = IF i < Len(Ring) THEN Ring[i + 1]
                        ELSE IF i = Len(Ring) THEN Created(id) ELSE Ring[1]
  <2>1. i \in 1..Len(queue) + 2 /\ Ring'[i] = q[i]
    BY <1>4, <1>7
  <2>2. CASE i <= Len(queue)
    BY <1>2, <1>4, <1>6, <2>1, <2>2
  <2>3. CASE i = Len(queue) + 1
    <3>1. ~(i <= Len(queue)) /\ i - Len(queue) = 1 /\ i = Len(Ring)
      BY <1>2, <1>6, <2>3
    <3> QED BY <1>3, <1>4, <1>6, <2>1, <3>1
  <2>4. CASE i = Len(queue) + 2
    <3>1. /\ ~(i <= Len(queue)) /\ i - Len(queue) = 2
          /\ ~(i < Len(Ring)) /\ i # Len(Ring)
      BY <1>2, <1>6, <2>4
    <3> QED BY <1>3, <1>4, <1>6, <2>1, <3>1
  <2>5. i <= Len(queue) \/ i = Len(queue) + 1 \/ i = Len(queue) + 2
    BY <1>2, <2>1
  <2> QED BY <2>2, <2>3, <2>4, <2>5
<1>9. Len(Ring') = Len(Ring) + 1 /\ Len(queue') = Len(queue) + 1
  BY <1>2, <1>4, <1>6, <1>7
<1> QED BY <1>7, <1>8, <1>9

LEMMA LeavingShape ==
  ASSUME TypeOK, ~panicked, EndNoMark
  PROVE  /\ queue' \in Seq(Task) /\ current' \in Task
         /\ run' \in Threads /\ sp' \in Stack
         /\ panicked' \in BOOLEAN /\ (panicked' => queue' = <<>>)
         /\ Ring' \in Seq(Task)
         /\ Len(Ring') = Len(Ring) - 1
         /\ \A i \in 1..Len(Ring') : Ring'[i] = Ring[i + 1]
<1>1. /\ Len(Ring) = Len(queue) + 1
      /\ \A i \in 1..Len(queue) : Ring[i + 1] = queue[i]
      /\ queue \in Seq(Task) /\ Len(queue) \in Nat
  BY RingShape DEF TypeOK
<1>2. CASE queue = <<>>
  <2>1. panicked' = TRUE /\ UNCHANGED <<current, queue, run, sp>>
    BY <1>2 DEF EndNoMark
  <2>2. Ring' = <<>> /\ Len(queue) = 0
    BY <1>2, <2>1 DEF Ring
  <2> QED BY <1>1, <1>2, <2>1, <2>2 DEF TypeOK, Stack
<1>3. CASE queue # <<>>
  <2>1. SwitchTo(queue) /\ panicked' = panicked
    BY <1>3 DEF EndNoMark
  <2>2. /\ queue' \in Seq(Task) /\ Len(queue') = Len(queue) - 1
        /\ current' \in Task /\ run' \in Threads /\ sp' \in Stack
        /\ Ring' \in Seq(Task)
        /\ Len(Ring') = Len(queue)
        /\ \A i \in 1..Len(queue) : Ring'[i] = queue[i]
    BY <1>1, <1>3, <2>1, SwitchShape
  <2> QED BY <1>1, <2>1, <2>2 DEF TypeOK
<1> QED BY <1>2, <1>3

(* A step that leaves the threads where they are. *)
LEMMA StayShape ==
  ASSUME TypeOK, Push \/ Pop
  PROVE  /\ sp' \in Stack /\ sp'[1] = sp[1]
         /\ Ring' \in Seq(Task)
         /\ Len(Ring') = Len(Ring)
         /\ \A i \in 2..Len(Ring) : Ring'[i] = Ring[i]
         /\ Ring'[1] = [Ring[1] EXCEPT !.sp = sp']
<1>1. sp \in Stack /\ MaxDepth \in Nat
  BY TasksAssumption DEF TypeOK, Stack
<1>2. sp' \in Stack /\ sp'[1] = sp[1]
  BY <1>1, StackFields DEF Push, Pop, Stack
<1>3. ~panicked /\ ~panicked' /\ UNCHANGED <<current, queue, run>>
  BY DEF Push, Pop, Running
<1>4. Suspended' = [Suspended EXCEPT !.sp = sp']
  BY <1>3 DEF Suspended
<1>5. Suspended' \in Task
  BY <1>2, <1>4, SuspendedIsTask DEF Task, Stack
<1>6. Ring' = <<Suspended'>> \o queue /\ queue \in Seq(Task)
  BY <1>3 DEF Ring, TypeOK
<1>7. /\ Ring' \in Seq(Task)
      /\ Len(Ring') = Len(queue) + 1
      /\ Ring'[1] = Suspended'
      /\ \A i \in 1..Len(queue) : Ring'[i + 1] = queue[i]
  BY <1>5, <1>6, ConsShape
<1>8. /\ Len(Ring) = Len(queue) + 1
      /\ Ring[1] = Suspended
      /\ \A i \in 1..Len(queue) : Ring[i + 1] = queue[i]
  BY <1>3, RingShape
<1>9. ASSUME NEW i \in 2..Len(Ring) PROVE Ring'[i] = Ring[i]
  <2>1. i - 1 \in 1..Len(queue) /\ (i - 1) + 1 = i
    BY <1>6, <1>8
  <2> QED BY <1>7, <1>8, <2>1
<1> QED BY <1>2, <1>4, <1>7, <1>8, <1>9
-----------------------------------------------------------------------------
(* The invariant.  BootPhase says what shares the ring with Boot: nothing  *)
(* before the startup task exists, only the startup task while Boot waits. *)
(* Counted ties the length of the ring to the IDs in use, of which there   *)
(* are no more than structs in the table.                                  *)

HasBoot == Boot \in Alive

BootPhase ==
  /\ ~started => ~panicked /\ run = Boot /\ Len(Ring) = 1
  /\ \A i \in 2..Len(Ring) : Ring[i].ip = Boot => Len(Ring) = 2 /\ Ring[1].ip = 0

Counted == Len(Ring) = IF HasBoot THEN Cardinality(bitmap) + 1 ELSE Cardinality(bitmap)

TaskInv ==
  /\ TypeOK
  /\ panicked => queue = <<>>
  /\ OnePlace
  /\ IdsNameThreads
  /\ BitmapExact
  /\ BootPhase
  /\ Counted
  /\ QueueFits

LEMMA IdsFinite ==
  /\ IsFiniteSet(Ids)
  /\ Cardinality(Ids) = MaxId + 1
<1>1. MaxId \in Nat /\ 0 \in Int /\ MaxId \in Int
  BY TasksAssumption
<1> QED BY <1>1, FS_Interval DEF Ids

LEMMA BitmapCount ==
  ASSUME NEW b \in SUBSET Ids
  PROVE  /\ IsFiniteSet(b)
         /\ Cardinality(b) \in Nat
         /\ Cardinality(b) <= MaxId + 1
         /\ \A x : x \notin b => Cardinality(b \cup {x}) = Cardinality(b) + 1
         /\ \A x \in b : Cardinality(b \ {x}) = Cardinality(b) - 1
<1>1. IsFiniteSet(b) /\ Cardinality(b) <= MaxId + 1
  BY IdsFinite, FS_Subset
<1>2. Cardinality(b) \in Nat
  BY <1>1, FS_CardinalityType
<1>3. \A x : x \notin b => Cardinality(b \cup {x}) = Cardinality(b) + 1
  BY <1>1, FS_AddElement
<1>4. \A x \in b : Cardinality(b \ {x}) = Cardinality(b) - 1
  BY <1>1, FS_RemoveElement
<1> QED BY <1>1, <1>2, <1>3, <1>4

LEMMA RingLen == ASSUME TypeOK PROVE Len(Ring) \in Nat /\ Ring \in Seq(Task)
<1>1. CASE panicked
  BY <1>1 DEF Ring
<1>2. CASE ~panicked
  BY <1>2, RingShape
<1> QED BY <1>1, <1>2

(* The head of the ring is the running thread. *)
LEMMA RingHead ==
  ASSUME TypeOK, ~panicked
  PROVE  Ring[1].ip = run /\ Ring[1].id = current.id /\ Ring[1].sp = sp
         /\ Len(Ring) = Len(queue) + 1 /\ 1 \in 1..Len(Ring)
<1>1. Len(queue) \in Nat
  BY DEF TypeOK
<1> QED BY <1>1, RingShape DEF Suspended

(* Room for one struct more than waits, unless the startup code waits too. *)
LEMMA RingFits ==
  ASSUME TaskInv
  PROVE  /\ Len(Ring) <= MaxId + 2
         /\ (~panicked /\ run # Boot) => Len(Ring) <= MaxId + 1
<1>0. MaxId \in Nat /\ MaxId >= 2 /\ Len(Ring) \in Nat
  BY TasksAssumption, RingLen DEF TaskInv
<1>1. Cardinality(bitmap) \in Nat /\ Cardinality(bitmap) <= MaxId + 1
  BY BitmapCount DEF TaskInv, TypeOK
<1>2. Len(Ring) <= MaxId + 2
  BY <1>0, <1>1 DEF TaskInv, Counted
<1>3. ASSUME ~panicked, run # Boot PROVE Len(Ring) <= MaxId + 1
  <2>1. CASE HasBoot
    <3>1. PICK i \in 1..Len(Ring) : Ring[i].ip = Boot
      BY <2>1 DEF HasBoot, Alive
    <3>2. i # 1
      BY <1>3, <3>1, RingHead DEF TaskInv
    <3>3. i \in 2..Len(Ring)
      BY <1>0, <3>1, <3>2
    <3>4. BootPhase
      BY DEF TaskInv
    <3>5. Len(Ring) = 2
      BY <3>1, <3>3, <3>4 DEF BootPhase
    <3> QED BY <1>0, <3>5
  <2>2. CASE ~HasBoot
    BY <1>1, <2>2 DEF TaskInv, Counted
  <2> QED BY <2>1, <2>2
<1> QED BY <1>2, <1>3

LEMMA HighStep ==
  ASSUME TypeOK, QueueFits, NEW q \in Seq(Task), SwitchTo(q), Len(q) <= MaxId + 1
  PROVE  QueueFits' /\ high' \in Nat
<1>1. Len(q) \in Nat /\ high \in Nat
  BY DEF TypeOK
<1> QED BY <1>1, TasksAssumption DEF QueueFits, SwitchTo

LEMMA CalledTyped ==
  ASSUME TypeOK PROVE Called \in [Threads -> [1 .. MaxDepth + 1 -> Threads]]
<1>1. mem[sp[1]] \in [1 .. MaxDepth + 1 -> Threads] /\ run \in Threads
  BY StackFields DEF TypeOK, Stack
<1>2. [mem[sp[1]] EXCEPT ![sp[2] + 1] = run] \in [1 .. MaxDepth + 1 -> Threads]
  BY <1>1
<1> QED BY <1>2 DEF Called, TypeOK

LEMMA InitTaskInv == Init => TaskInv
<1> SUFFICES ASSUME Init PROVE TaskInv
  OBVIOUS
<1>0. 0 \in Ids /\ Boot \in Threads /\ 0 \in 0..MaxDepth /\ MaxDepth \in Nat /\ MaxId \in Nat
  BY TasksAssumption DEF Ids, Threads
<1>1. <<Boot, 0>> \in Threads \X (0..MaxDepth)
  BY <1>0
<1>2. current \in Task /\ queue \in Seq(Task)
  BY <1>0, <1>1 DEF Init, Task
<1>3. mem \in [Threads -> [1 .. MaxDepth + 1 -> Threads]]
  BY DEF Init
<1>4. TypeOK
  BY <1>0, <1>1, <1>2, <1>3 DEF Init, TypeOK
<1>5. Len(Ring) = 1 /\ Ring[1].ip = Boot /\ ~panicked /\ run = Boot
  BY <1>4, RingHead DEF Init
<1>6. Alive = {Boot}
  BY <1>5 DEF Alive
<1>7. OnePlace /\ IdsNameThreads /\ BootPhase
  BY <1>5 DEF OnePlace, IdsNameThreads, BootPhase
<1>8. BitmapExact
  BY <1>6 DEF Init, BitmapExact
<1>9. Counted
  BY <1>5, <1>6, FS_EmptySet DEF Counted, HasBoot, Init
<1>10. QueueFits
  BY TasksAssumption DEF Init, QueueFits
<1> QED BY <1>4, <1>7, <1>8, <1>9, <1>10 DEF TaskInv, Init

(* A rotation keeps who is alive. *)
LEMMA YieldInv == ASSUME TaskInv, YieldTask PROVE TaskInv'
<1>0. TypeOK /\ ~panicked /\ ~panicked' /\ run # Boot /\ UNCHANGED <<bitmap, started, panicked>>
  BY DEF TaskInv, YieldTask, MayLeave, Running
<1> DEFINE n == Len(Ring)
<1>1. /\ queue' \in Seq(Task) /\ current' \in Task
      /\ run' \in Threads /\ sp' \in Stack
      /\ Len(Ring') = n
      /\ \A i \in 1..n : Ring'[i] = IF i < n THEN Ring[i + 1] ELSE Ring[1]
  BY <1>0, YieldShape
<1>2. /\ n \in Nat /\ n >= 1 /\ Ring[1].ip = run /\ n = Len(queue) + 1
  BY <1>0, RingHead, RingLen
<1> HIDE DEF n
<1>3. TypeOK' /\ QueueFits'
  <2>1. Append(queue, Suspended) \in Seq(Task) /\ Len(Append(queue, Suspended)) = n
    BY <1>0, <1>2, SuspendedIsTask, AppendProperties DEF TypeOK
  <2>2. n <= MaxId + 1
    BY <1>0, RingFits DEF n
  <2>3. QueueFits' /\ high' \in Nat
    BY <1>0, <2>1, <2>2, HighStep DEF YieldTask, TaskInv
  <2>4. mem' \in [Threads -> [1 .. MaxDepth + 1 -> Threads]]
    BY <1>0, CalledTyped DEF YieldTask
  <2> QED BY <1>0, <1>1, <2>3, <2>4 DEF TypeOK, Stack
<1>4. OnePlace'
  <2> SUFFICES ASSUME NEW i \in 1..n, NEW j \in 1..n, i # j
               PROVE  Ring'[i].ip # Ring'[j].ip
    BY <1>1 DEF OnePlace
  <2> DEFINE f(k) == IF k < n THEN k + 1 ELSE 1
  <2>1. f(i) \in 1..n /\ f(j) \in 1..n /\ f(i) # f(j)
    BY <1>2
  <2>2. Ring'[i] = Ring[f(i)] /\ Ring'[j] = Ring[f(j)]
    BY <1>1
  <2> QED BY <2>1, <2>2 DEF TaskInv, OnePlace, n
<1>5. IdsNameThreads'
  BY <1>1, <1>2 DEF TaskInv, IdsNameThreads, n
<1>6. Alive' = Alive
  <2>1. ASSUME NEW i \in 1..n PROVE Ring'[i].ip \in Alive
    BY <1>1, <1>2 DEF Alive, n
  <2>2. ASSUME NEW i \in 1..n PROVE Ring[i].ip \in Alive'
    <3> DEFINE k == IF i = 1 THEN n ELSE i - 1
    <3>1. k \in 1..n /\ Ring'[k] = Ring[i]
      BY <1>1, <1>2
    <3> QED BY <1>1, <3>1 DEF Alive
  <2> QED BY <1>1, <2>1, <2>2 DEF Alive, n
<1>7. BitmapExact' /\ Counted'
  BY <1>0, <1>1, <1>6 DEF TaskInv, BitmapExact, Counted, HasBoot, n
<1>8. BootPhase'
  <2>1. started'
    BY <1>0 DEF TaskInv, BootPhase
  <2>2. ASSUME NEW i \in 2..n, Ring'[i].ip = Boot PROVE FALSE
    <3>1. CASE i < n
      <4>1. i + 1 \in 2..n /\ Ring[i + 1].ip = Boot /\ n # 2
        BY <1>1, <1>2, <2>2, <3>1
      <4> QED BY <4>1 DEF TaskInv, BootPhase, n
    <3>2. CASE ~(i < n)
      BY <1>0, <1>1, <1>2, <2>2, <3>2
    <3> QED BY <3>1, <3>2
  <2> QED BY <1>1, <2>1, <2>2 DEF BootPhase
<1> QED BY <1>0, <1>3, <1>4, <1>5, <1>7, <1>8 DEF TaskInv

(* A new task joins those alive, right before the task that created it. *)
LEMMA NewTaskInv ==
  ASSUME TaskInv, ~panicked, NEW id \in Ids, id \notin bitmap, NewTask(id),
         Len(Ring) + 1 <= MaxId + 1,
         started' = TRUE,
         Ring[1].ip = Boot => Len(Ring) = 1 /\ id = 0
  PROVE  TaskInv'
<1>0. TypeOK /\ ~panicked' /\ UNCHANGED panicked /\ bitmap' = bitmap \cup {id}
  BY DEF TaskInv, NewTask
<1> DEFINE n == Len(Ring)
<1>1. /\ queue' \in Seq(Task) /\ current' \in Task
      /\ run' \in Threads /\ sp' \in Stack
      /\ Len(Ring') = n + 1
      /\ \A i \in 1 .. n + 1 :
           Ring'[i] = IF i < n THEN Ring[i + 1]
                      ELSE IF i = n THEN Created(id) ELSE Ring[1]
  BY <1>0, NewTaskShape
<1>2. n \in Nat /\ n >= 1 /\ Ring[1].ip = run /\ n = Len(queue) + 1 /\ Len(queue) \in Nat
  BY <1>0, RingHead, RingLen DEF TypeOK
<1>3. id # Boot /\ Created(id).ip = id /\ Created(id).id = id
  BY TasksAssumption DEF Created
<1>4. \A i \in 1..n : Ring[i].ip # id
  BY <1>3 DEF TaskInv, BitmapExact, Alive, n
<1> HIDE DEF n
<1>5. TypeOK' /\ QueueFits'
  <2> DEFINE q == queue \o <<[id |-> id, ip |-> id, sp |-> <<AreaOf(id), 0>>], Suspended>>
  <2>1. q \in Seq(Task) /\ Len(q) = n + 1
    <3>1. Created(id) \in Task /\ Suspended \in Task /\ queue \in Seq(Task)
      BY <1>0, SuspendedIsTask, CreatedIsTask DEF TypeOK
    <3>2. <<Created(id), Suspended>> \in Seq(Task) /\ Len(<<Created(id), Suspended>>) = 2
      BY <3>1
    <3>3. q = queue \o <<Created(id), Suspended>>
      BY DEF Created
    <3> DEFINE two == <<Created(id), Suspended>>
    <3>4. q = queue \o two /\ two \in Seq(Task) /\ Len(two) = 2
      BY <3>2, <3>3
    <3> HIDE DEF q, two
    <3>5. q \in Seq(Task) /\ Len(q) = Len(queue) + Len(two)
      BY <3>1, <3>4, ConcatProperties
    <3> QED BY <1>2, <3>4, <3>5
  <2>2. SwitchTo(q)
    BY DEF NewTask
  <2> HIDE DEF q
  <2>3. QueueFits' /\ high' \in Nat
    BY <1>0, <2>1, <2>2, HighStep DEF TaskInv, n
  <2>4. mem' \in [Threads -> [1 .. MaxDepth + 1 -> Threads]]
    BY <1>0, CalledTyped DEF NewTask
  <2>5. bitmap' \in SUBSET Ids
    BY <1>0 DEF TypeOK
  <2>6. started' \in BOOLEAN /\ panicked' \in BOOLEAN
    BY <1>0 DEF TypeOK
  <2> QED BY <1>1, <2>3, <2>4, <2>5, <2>6 DEF TypeOK, Stack
<1>6. OnePlace'
  <2> SUFFICES ASSUME NEW i \in 1 .. n + 1, NEW j \in 1 .. n + 1, i < j
               PROVE  Ring'[i].ip # Ring'[j].ip
    BY <1>1, <1>2 DEF OnePlace
  <2>1. CASE j < n
    <3>1. i + 1 \in 1..n /\ j + 1 \in 1..n /\ i + 1 # j + 1
          /\ Ring'[i] = Ring[i + 1] /\ Ring'[j] = Ring[j + 1]
      BY <1>1, <1>2, <2>1
    <3> QED BY <3>1 DEF TaskInv, OnePlace, n
  <2>2. CASE j = n
    BY <1>1, <1>2, <1>3, <1>4, <2>2
  <2>3. CASE j = n + 1
    <3>1. Ring'[j] = Ring[1] /\ 1 \in 1..n
      BY <1>1, <1>2, <2>3
    <3>2. CASE i = n
      BY <1>1, <1>2, <1>3, <1>4, <3>1, <3>2
    <3>3. CASE i < n
      <4>1. i + 1 \in 1..n /\ i + 1 # 1 /\ Ring'[i] = Ring[i + 1]
        BY <1>1, <1>2, <3>3
      <4> QED BY <3>1, <4>1 DEF TaskInv, OnePlace, n
    <3>4. i = n \/ i < n
      BY <1>2, <2>3
    <3> QED BY <3>2, <3>3, <3>4
  <2> QED BY <1>2, <2>1, <2>2, <2>3
<1>7. IdsNameThreads'
  <2> SUFFICES ASSUME NEW i \in 1 .. n + 1, Ring'[i].ip # Boot
               PROVE  Ring'[i].id = Ring'[i].ip
    BY <1>1 DEF IdsNameThreads
  <2> QED BY <1>1, <1>2, <1>3 DEF TaskInv, IdsNameThreads, n
<1>8. Alive' = Alive \cup {id}
  <2>1. ASSUME NEW i \in 1 .. n + 1 PROVE Ring'[i].ip \in Alive \cup {id}
    BY <1>1, <1>2, <1>3 DEF Alive, n
  <2>2. ASSUME NEW i \in 1..n PROVE Ring[i].ip \in Alive'
    <3> DEFINE k == IF i = 1 THEN n + 1 ELSE i - 1
    <3>1. k \in 1 .. n + 1 /\ Ring'[k] = Ring[i]
      BY <1>1, <1>2
    <3> QED BY <1>1, <3>1 DEF Alive
  <2>3. id \in Alive'
    <3>1. n \in 1 .. n + 1 /\ Ring'[n].ip = id
      BY <1>1, <1>2, <1>3
    <3> QED BY <1>1, <3>1 DEF Alive
  <2> QED BY <1>1, <2>1, <2>2, <2>3 DEF Alive, n
<1>9. BitmapExact'
  BY <1>0, <1>3, <1>8 DEF TaskInv, BitmapExact
<1>10. Counted'
  <2>1. Cardinality(bitmap') = Cardinality(bitmap) + 1 /\ Cardinality(bitmap) \in Nat
    BY <1>0, BitmapCount DEF TypeOK
  <2>2. HasBoot' <=> HasBoot
    BY <1>3, <1>8 DEF HasBoot
  <2> QED BY <1>1, <1>2, <2>1, <2>2 DEF TaskInv, Counted, n
<1>11. BootPhase'
  <2>1. ASSUME NEW i \in 2 .. n + 1, Ring'[i].ip = Boot
        PROVE  n + 1 = 2 /\ Ring'[1].ip = 0
    <3>1. ~(i < n)
      <4> SUFFICES ASSUME i < n PROVE FALSE
        OBVIOUS
      <4>1. i + 1 \in 2..n /\ Ring[i + 1].ip = Boot /\ n # 2
        BY <1>1, <1>2, <2>1
      <4> QED BY <4>1 DEF TaskInv, BootPhase, n
    <3>2. i = n + 1
      BY <1>1, <1>2, <1>3, <2>1, <3>1
    <3>3. n = 1 /\ id = 0
      BY <1>1, <1>2, <2>1, <3>2 DEF n
    <3> QED BY <1>1, <1>3, <3>3
  <2> QED BY <1>1, <2>1 DEF BootPhase
<1> QED BY <1>0, <1>5, <1>6, <1>7, <1>9, <1>10, <1>11 DEF TaskInv

LEMMA BootStartInv == ASSUME TaskInv, BootStart PROVE TaskInv'
<1>1. ~started /\ started' /\ NewTask(0) /\ ~panicked /\ run = Boot /\ Len(Ring) = 1
  BY DEF BootStart, TaskInv, BootPhase
<1>2. Ring[1].ip = Boot
  BY <1>1, RingHead DEF TaskInv
<1>3. Alive = {Boot}
  BY <1>1, <1>2 DEF Alive
<1>4. bitmap = {}
  BY <1>3 DEF TaskInv, BitmapExact
<1>5. 0 \in Ids /\ MaxId >= 2 /\ MaxId \in Nat
  BY TasksAssumption DEF Ids
<1> QED BY <1>1, <1>2, <1>4, <1>5, NewTaskInv

LEMMA SpawnInv == ASSUME TaskInv, Spawn PROVE TaskInv'
<1>1. PICK id \in Ids : id \notin bitmap /\ NewTask(id)
  BY DEF Spawn, UnusedTaskId
<1>2. ~panicked /\ run # Boot /\ UNCHANGED started
  BY DEF Spawn, MayLeave, Running
<1>3. started' = TRUE
  BY <1>2 DEF TaskInv, TypeOK, BootPhase
<1>4. Ring[1].ip # Boot
  BY <1>2, RingHead DEF TaskInv
<1>5. Len(Ring) + 1 <= MaxId + 1
  <2>0. MaxId \in Nat /\ MaxId >= 2 /\ Len(Ring) \in Nat
    BY TasksAssumption, RingLen DEF TaskInv
  <2>1. CASE HasBoot
    <3>1. PICK i \in 1..Len(Ring) : Ring[i].ip = Boot
      BY <2>1 DEF HasBoot, Alive
    <3>2. i \in 2..Len(Ring) /\ BootPhase
      BY <1>4, <2>0, <3>1 DEF TaskInv
    <3>3. Len(Ring) = 2
      BY <3>1, <3>2 DEF BootPhase
    <3> QED BY <2>0, <3>3
  <2>2. CASE ~HasBoot
    <3>1. /\ Cardinality(bitmap \cup {id}) = Cardinality(bitmap) + 1
          /\ Cardinality(bitmap) \in Nat
      BY <1>1, BitmapCount DEF TaskInv, TypeOK
    <3>2. Cardinality(bitmap \cup {id}) <= MaxId + 1
      <4>1. bitmap \cup {id} \in SUBSET Ids
        BY <1>1 DEF TaskInv, TypeOK
      <4> QED BY <4>1, BitmapCount
    <3> QED BY <2>0, <2>2, <3>1, <3>2 DEF TaskInv, Counted
  <2> QED BY <2>1, <2>2
<1> QED BY <1>1, <1>2, <1>3, <1>4, <1>5, NewTaskInv

(* The head leaves: its bit is cleared, unless it is Boot and has none.    *)
LEMMA EndInv ==
  ASSUME TaskInv, ~panicked, EndNoMark, UNCHANGED started, started,
         bitmap' = bitmap \ {run}
  PROVE  TaskInv'
<1>0. TypeOK
  BY DEF TaskInv
<1> DEFINE n == Len(Ring)
<1>1. /\ queue' \in Seq(Task) /\ current' \in Task
      /\ run' \in Threads /\ sp' \in Stack
      /\ panicked' \in BOOLEAN /\ (panicked' => queue' = <<>>)
      /\ Len(Ring') = n - 1
      /\ \A i \in 1 .. n - 1 : Ring'[i] = Ring[i + 1]
  BY <1>0, LeavingShape
<1>2. n \in Nat /\ n >= 1 /\ Ring[1].ip = run /\ n = Len(queue) + 1 /\ Len(queue) \in Nat
  BY <1>0, RingHead, RingLen DEF TypeOK
<1> HIDE DEF n
<1>3. TypeOK' /\ QueueFits'
  <2>1. QueueFits' /\ high' \in Nat
    <3>1. CASE queue = <<>>
      BY <3>1 DEF EndNoMark, TaskInv, QueueFits, TypeOK
    <3>2. CASE queue # <<>>
      <4>1. Len(queue) <= MaxId + 1
        BY <1>2, RingFits, TasksAssumption DEF n
      <4>2. SwitchTo(queue) /\ queue \in Seq(Task) /\ QueueFits
        BY <1>0, <3>2 DEF EndNoMark, TypeOK, TaskInv
      <4> QED BY <1>0, <4>1, <4>2, HighStep
    <3> QED BY <3>1, <3>2
  <2>2. mem' \in [Threads -> [1 .. MaxDepth + 1 -> Threads]]
    BY <1>0, CalledTyped DEF EndNoMark
  <2> QED BY <1>0, <1>1, <2>1, <2>2 DEF TypeOK, Stack
<1>4. OnePlace' /\ IdsNameThreads'
  <2>1. OnePlace /\ IdsNameThreads
    BY DEF TaskInv
  <2>2. \A i \in 1 .. Len(Ring') :
           i + 1 \in 1 .. Len(Ring) /\ Ring'[i] = Ring[i + 1]
    BY <1>1, <1>2 DEF n
  <2>3. OnePlace'
    <3>1. ASSUME NEW i \in 1 .. Len(Ring'), NEW j \in 1 .. Len(Ring'), i # j
          PROVE  Ring'[i].ip # Ring'[j].ip
      <4>1. i + 1 # j + 1
        BY <3>1
      <4> QED BY <2>1, <2>2, <4>1 DEF OnePlace
    <3> QED BY <3>1 DEF OnePlace
  <2>4. IdsNameThreads'
    BY <2>1, <2>2 DEF IdsNameThreads
  <2> QED BY <2>3, <2>4
<1>5. Alive' = Alive \ {run}
  <2>1. ASSUME NEW i \in 1 .. n - 1 PROVE Ring'[i].ip \in Alive \ {run}
    <3>1. i + 1 \in 1..n /\ i + 1 # 1 /\ Ring'[i] = Ring[i + 1] /\ 1 \in 1..n
      BY <1>1, <1>2
    <3> QED BY <1>2, <3>1 DEF Alive, TaskInv, OnePlace, n
  <2>2. ASSUME NEW i \in 1..n, Ring[i].ip # run PROVE Ring[i].ip \in Alive'
    <3>1. i - 1 \in 1 .. n - 1 /\ Ring'[i - 1] = Ring[i]
      BY <1>1, <1>2, <2>2
    <3> QED BY <1>1, <3>1 DEF Alive
  <2> QED BY <1>1, <2>1, <2>2 DEF Alive, n
<1>6. BitmapExact'
  BY <1>5 DEF TaskInv, BitmapExact
<1>7. Counted'
  <2>1. Cardinality(bitmap) \in Nat
    BY <1>0, BitmapCount DEF TypeOK
  <2>2. run \in Alive
    BY <1>2 DEF Alive, n
  <2>3. CASE run = Boot
    <3>1. HasBoot /\ ~HasBoot'
      BY <1>5, <2>2, <2>3 DEF HasBoot
    <3>2. bitmap' = bitmap
      BY <2>3 DEF TaskInv, BitmapExact
    <3>3. Len(Ring) = Cardinality(bitmap) + 1
      BY <3>1 DEF TaskInv, Counted
    <3>4. Len(Ring') = Cardinality(bitmap')
      <4>1. n = Cardinality(bitmap) + 1 /\ Len(Ring') = n - 1
        BY <1>1, <3>3 DEF n
      <4>2. Len(Ring') = Cardinality(bitmap)
        BY <2>1, <4>1
      <4> QED BY <3>2, <4>2
    <3>5. Counted' <=> Len(Ring') = IF HasBoot' THEN Cardinality(bitmap') + 1
                                              ELSE Cardinality(bitmap')
      BY Zenon DEF Counted
    <3> QED BY <3>1, <3>4, <3>5, Zenon
  <2>4. CASE run # Boot
    <3>1. run \in bitmap
      BY <2>2, <2>4 DEF TaskInv, BitmapExact
    <3>2. Cardinality(bitmap') = Cardinality(bitmap) - 1
      BY <1>0, <3>1, BitmapCount DEF TypeOK
    <3>3. HasBoot' <=> HasBoot
      BY <1>5, <2>4 DEF HasBoot
    <3> QED BY <1>1, <1>2, <2>1, <3>2, <3>3 DEF TaskInv, Counted, n
  <2> QED BY <2>3, <2>4
<1>8. BootPhase'
  <2>1. ASSUME NEW i \in 2 .. n - 1, Ring'[i].ip = Boot PROVE FALSE
    <3>1. i + 1 \in 2..n /\ Ring[i + 1].ip = Boot /\ n # 2
      BY <1>1, <1>2, <2>1
    <3> QED BY <3>1 DEF TaskInv, BootPhase, n
  <2> QED BY <1>1, <2>1 DEF BootPhase
<1> QED BY <1>1, <1>3, <1>4, <1>6, <1>7, <1>8 DEF TaskInv

LEMMA BootEndInv == ASSUME TaskInv, BootEnd PROVE TaskInv'
<1>1. ~panicked /\ EndNoMark /\ UNCHANGED started /\ started /\ run = Boot /\ bitmap' = bitmap
  BY DEF BootEnd
<1>2. bitmap' = bitmap \ {run}
  BY <1>1, TasksAssumption DEF TaskInv, TypeOK
<1> QED BY <1>1, <1>2, EndInv

LEMMA EndCurrentTaskInv == ASSUME TaskInv, EndCurrentTask PROVE TaskInv'
<1>1. ~panicked /\ EndNoMark /\ UNCHANGED started /\ run # Boot /\ bitmap' = bitmap \ {current.id}
  BY DEF EndCurrentTask, MayLeave, Running
<1>2. current.id = run
  BY <1>1, RingHead DEF TaskInv, IdsNameThreads
<1>3. started
  BY <1>1 DEF TaskInv, BootPhase
<1> QED BY <1>1, <1>2, <1>3, EndInv

LEMMA StackInv == ASSUME TaskInv, Push \/ Pop PROVE TaskInv'
<1>1. /\ ~panicked /\ ~panicked'
      /\ UNCHANGED <<bitmap, current, queue, run, started, panicked, high>>
  BY DEF Push, Pop, Running
<1>2. /\ sp' \in Stack
      /\ Len(Ring') = Len(Ring)
      /\ \A i \in 2..Len(Ring) : Ring'[i] = Ring[i]
      /\ Ring'[1] = [Ring[1] EXCEPT !.sp = sp']
  BY StayShape DEF TaskInv
<1>3. Len(Ring) \in Nat /\ Len(Ring) >= 1 /\ Ring \in Seq(Task)
  BY <1>1, RingHead, RingLen DEF TaskInv
<1>4. ASSUME NEW i \in 1..Len(Ring)
      PROVE  Ring'[i].ip = Ring[i].ip /\ Ring'[i].id = Ring[i].id
  <2>1. CASE i = 1
    <3>1. Ring[1] \in Task
      BY <1>3, <2>1
    <3> QED BY <1>2, <2>1, <3>1 DEF Task
  <2>2. CASE i # 1
    BY <1>2, <1>3, <2>2
  <2> QED BY <2>1, <2>2
<1>5. mem' \in [Threads -> [1 .. MaxDepth + 1 -> Threads]]
  BY CalledTyped DEF Push, Pop, TaskInv, TypeOK
<1>6. TypeOK'
  BY <1>1, <1>2, <1>5 DEF TaskInv, TypeOK, Stack
<1>7. Alive' = Alive
  BY <1>2, <1>4 DEF Alive
<1>8. OnePlace' /\ IdsNameThreads'
  BY <1>2, <1>4 DEF TaskInv, OnePlace, IdsNameThreads
<1>9. BitmapExact' /\ Counted' /\ QueueFits'
  BY <1>1, <1>2, <1>7 DEF TaskInv, BitmapExact, Counted, HasBoot, QueueFits
<1>10. BootPhase'
  BY <1>1, <1>2, <1>3, <1>4 DEF TaskInv, BootPhase
<1> QED BY <1>1, <1>6, <1>8, <1>9, <1>10 DEF TaskInv

LEMMA StepTaskInv == TaskInv /\ [Next]_vars => TaskInv'
<1> SUFFICES ASSUME TaskInv, [Next]_vars PROVE TaskInv'
  OBVIOUS
<1>1. CASE UNCHANGED vars
  BY <1>1 DEF vars, TaskInv, TypeOK, Ring, Suspended, OnePlace, IdsNameThreads,
              Alive, BitmapExact, HasBoot, BootPhase, Counted, QueueFits
<1> QED
  BY <1>1, BootStartInv, BootEndInv, SpawnInv, YieldInv, EndCurrentTaskInv,
     StackInv DEF Next, Switch

LEMMA Safe == Spec => []TaskInv
BY InitTaskInv, StepTaskInv, PTL DEF Spec

(* The scheduler's table of 32 structs is never overrun, although new_task *)
(* and yield_task append before they take, for every number of task IDs.   *)
THEOREM TableNeverOverrun == Spec => [](TypeOK /\ QueueFits)
<1>1. TaskInv => TypeOK /\ QueueFits
  BY DEF TaskInv
<1> QED BY <1>1, Safe, PTL

(* The bitmap has exactly the IDs of the tasks that live, so that the      *)
(* panic "Task queue empty" comes only when every task has ended.          *)
THEOREM BitmapIsExact == Spec => [](BitmapExact /\ PanicsOnlyWhenDone)
<1>1. TaskInv => BitmapExact /\ PanicsOnlyWhenDone
  <2> SUFFICES ASSUME TaskInv, panicked PROVE bitmap = {}
    BY DEF TaskInv, PanicsOnlyWhenDone
  <2>1. Alive = {}
    BY DEF Alive, Ring
  <2> QED BY <2>1 DEF TaskInv, BitmapExact
<1> QED BY <1>1, Safe, PTL

(* No thread is queued twice, or queued while it runs: new_task,           *)
(* yield_task and the two ends put each of them in one place.              *)
THEOREM ThreadsInOnePlace == Spec => []OnePlace
<1>1. TaskInv => OnePlace
  BY DEF TaskInv
<1> QED BY <1>1, Safe, PTL

(* The ID that end_current_task clears is the one of the task that ends,   *)
(* although current_task is also written for a thread that has no ID.      *)
THEOREM IdsAreTheirs == Spec => []IdsNameThreads
<1>1. TaskInv => IdsNameThreads
  BY DEF TaskInv
<1> QED BY <1>1, Safe, PTL
-----------------------------------------------------------------------------
(* The refinement.  Order is what TaskRing sees of the ring. *)

IpsOf(r) == [i \in 1..Len(r) |-> r[i].ip]

Order == IpsOf(Ring)

LEMMA IpsShape ==
  ASSUME NEW r \in Seq(Task)
  PROVE  /\ IpsOf(r) \in Seq(Threads)
         /\ Len(IpsOf(r)) = Len(r)
         /\ \A i \in 1..Len(r) : IpsOf(r)[i] = r[i].ip
<1>1. Len(r) \in Nat
  OBVIOUS
<1>2. ASSUME NEW i \in 1..Len(r) PROVE r[i].ip \in Threads
  <2>1. r[i] \in Task
    OBVIOUS
  <2> QED BY <2>1, TaskFields
<1>3. IpsOf(r) \in [1..Len(r) -> Threads]
  BY <1>2 DEF IpsOf
<1>4. \A i \in 1..Len(r) : IpsOf(r)[i] = r[i].ip
  BY DEF IpsOf
<1> QED BY <1>1, <1>3, <1>4

LEMMA OrderShape ==
  ASSUME TypeOK
  PROVE  /\ Order \in Seq(Threads)
         /\ Len(Order) = Len(Ring)
         /\ \A i \in 1..Len(Ring) : Order[i] = Ring[i].ip
  BY RingLen, IpsShape DEF Order

LEMMA OrderNotEmpty ==
  ASSUME TypeOK, ~panicked
  PROVE  /\ Order # <<>>
         /\ Head(Order) = Ring[1].ip
         /\ Tail(Order) \in Seq(Threads)
         /\ Len(Tail(Order)) = Len(Ring) - 1
         /\ \A i \in 1 .. Len(Ring) - 1 : Tail(Order)[i] = Ring[i + 1].ip
<1>1. /\ Order \in Seq(Threads) /\ Len(Order) = Len(Ring)
      /\ \A i \in 1..Len(Ring) : Order[i] = Ring[i].ip
      /\ 1 \in 1..Len(Ring) /\ Len(Ring) \in Nat
  BY OrderShape, RingHead, RingLen
<1>2. Order # <<>>
  BY <1>1
<1>3. /\ Head(Order) = Order[1] /\ Tail(Order) \in Seq(Threads)
      /\ Len(Tail(Order)) = Len(Order) - 1
      /\ \A i \in 1 .. Len(Order) - 1 : Tail(Order)[i] = Order[i + 1]
  BY <1>1, <1>2, HeadTailProperties
<1>4. \A i \in 1 .. Len(Ring) - 1 : i + 1 \in 1..Len(Ring)
  BY <1>1
<1> QED BY <1>1, <1>2, <1>3, <1>4

LEMMA YieldRotates == ASSUME TaskInv, YieldTask PROVE RoundRobin!Rotate
<1>0. TypeOK /\ ~panicked
  BY DEF TaskInv, YieldTask, MayLeave, Running
<1> DEFINE n == Len(Ring)
           new == Append(Tail(Order), Head(Order))
<1>1. /\ Ring' \in Seq(Task) /\ Len(Ring') = n
      /\ \A i \in 1..n : Ring'[i] = IF i < n THEN Ring[i + 1] ELSE Ring[1]
  BY <1>0, YieldShape
<1>2. n \in Nat /\ n >= 1
  BY <1>0, RingHead, RingLen
<1>3. /\ Order # <<>> /\ Head(Order) = Ring[1].ip /\ Tail(Order) \in Seq(Threads)
      /\ Len(Tail(Order)) = n - 1
      /\ \A i \in 1 .. n - 1 : Tail(Order)[i] = Ring[i + 1].ip
      /\ Head(Order) \in Threads
  <2>1. Ring[1].ip \in Threads
    BY <1>0, RingHead DEF TypeOK
  <2> QED BY <1>0, <2>1, OrderNotEmpty
<1>4. /\ Order' \in Seq(Threads) /\ Len(Order') = n
      /\ \A i \in 1..n : Order'[i] = Ring'[i].ip
  <2>1. /\ Order' \in Seq(Threads) /\ Len(Order') = Len(Ring')
        /\ \A i \in 1..Len(Ring') : Order'[i] = Ring'[i].ip
    BY <1>1, IpsShape DEF Order
  <2> QED BY <1>1, <2>1
<1> HIDE DEF n
<1>5. /\ new \in Seq(Threads) /\ Len(new) = n
      /\ \A i \in 1..n : new[i] = IF i < n THEN Ring[i + 1].ip ELSE Ring[1].ip
  BY <1>2, <1>3, AppendProperties
<1> HIDE DEF new
<1>6. \A i \in 1..n : Order'[i] = new[i]
  BY <1>1, <1>2, <1>4, <1>5
<1>7. Order' = new
  BY <1>4, <1>5, <1>6, SeqEqual
<1> QED BY <1>3, <1>7 DEF RoundRobin!Rotate, Order, IpsOf, new

LEMMA NewTaskCreates ==
  ASSUME TaskInv, ~panicked, NEW id \in Ids, id \notin bitmap, NewTask(id)
  PROVE  RoundRobin!Create(id)
<1>0. TypeOK 
  BY DEF TaskInv
<1> DEFINE n == Len(Ring)
           two == <<id, Head(Order)>>
           new == Tail(Order) \o two
<1>1. /\ Ring' \in Seq(Task) /\ Len(Ring') = n + 1
      /\ \A i \in 1 .. n + 1 :
           Ring'[i] = IF i < n THEN Ring[i + 1]
                      ELSE IF i = n THEN Created(id) ELSE Ring[1]
  BY <1>0, NewTaskShape
<1>2. n \in Nat /\ n >= 1
  BY <1>0, RingHead, RingLen
<1>3. /\ Order # <<>> /\ Head(Order) = Ring[1].ip /\ Tail(Order) \in Seq(Threads)
      /\ Len(Tail(Order)) = n - 1
      /\ \A i \in 1 .. n - 1 : Tail(Order)[i] = Ring[i + 1].ip
      /\ Head(Order) \in Threads
  <2>1. Ring[1].ip \in Threads
    BY <1>0, RingHead DEF TypeOK
  <2> QED BY <1>0, <2>1, OrderNotEmpty
<1>4. /\ Order' \in Seq(Threads) /\ Len(Order') = n + 1
      /\ \A i \in 1 .. n + 1 : Order'[i] = Ring'[i].ip
  <2>1. /\ Order' \in Seq(Threads) /\ Len(Order') = Len(Ring')
        /\ \A i \in 1..Len(Ring') : Order'[i] = Ring'[i].ip
    BY <1>1, IpsShape DEF Order
  <2> QED BY <1>1, <2>1
<1>5. id # Boot /\ Created(id).ip = id /\ id \in Threads
  BY TasksAssumption DEF Created, Threads
<1>6. \A i \in 1..Len(Order) : Order[i] # id
  <2>1. \A i \in 1..n : Ring[i].ip # id
    BY <1>5 DEF TaskInv, BitmapExact, Alive
  <2> QED BY <1>0, <2>1, OrderShape
<1> HIDE DEF n
<1>7. two \in Seq(Threads) /\ Len(two) = 2 /\ two[1] = id /\ two[2] = Ring[1].ip
  BY <1>3, <1>5
<1> HIDE DEF two
<1>8. /\ new \in Seq(Threads) /\ Len(new) = n + 1
      /\ \A i \in 1 .. n + 1 :
           new[i] = IF i < n THEN Ring[i + 1].ip ELSE IF i = n THEN id ELSE Ring[1].ip
  <2>1. /\ new \in Seq(Threads) /\ Len(new) = Len(Tail(Order)) + Len(two)
        /\ \A i \in 1 .. Len(Tail(Order)) + Len(two) :
             new[i] = IF i <= Len(Tail(Order)) THEN Tail(Order)[i]
                      ELSE two[i - Len(Tail(Order))]
    BY <1>3, <1>7, ConcatProperties
  <2>2. Len(Tail(Order)) + Len(two) = n + 1
    BY <1>2, <1>3, <1>7
  <2> HIDE DEF new
  <2>3. ASSUME NEW i \in 1 .. n + 1
        PROVE  new[i] = IF i < n THEN Ring[i + 1].ip ELSE IF i = n THEN id ELSE Ring[1].ip
    <3>1. new[i] = IF i <= n - 1 THEN Tail(Order)[i] ELSE two[i - (n - 1)]
      BY <1>3, <2>1, <2>2
    <3>2. CASE i < n
      <4>1. i \in 1 .. n - 1 /\ i <= n - 1
        BY <1>2, <3>2
      <4> QED BY <1>3, <3>1, <3>2, <4>1
    <3>3. CASE i = n
      <4>1. ~(i <= n - 1) /\ i - (n - 1) = 1
        BY <1>2, <3>3
      <4> QED BY <1>7, <3>1, <3>3, <4>1
    <3>4. CASE i = n + 1
      <4>1. ~(i <= n - 1) /\ i - (n - 1) = 2 /\ ~(i < n) /\ i # n
        BY <1>2, <3>4
      <4> QED BY <1>7, <3>1, <4>1
    <3> QED BY <1>2, <3>2, <3>3, <3>4
  <2> QED BY <2>1, <2>2, <2>3
<1> HIDE DEF new
<1>9. \A i \in 1 .. n + 1 : Order'[i] = new[i]
  BY <1>1, <1>2, <1>4, <1>5, <1>8
<1>10. Order' = new
  BY <1>4, <1>8, <1>9, SeqEqual
<1> QED BY <1>3, <1>6, <1>10 DEF RoundRobin!Create, Order, IpsOf, new, two

LEMMA EndLeaves ==
  ASSUME TaskInv, ~panicked, EndNoMark PROVE RoundRobin!Leave
<1>0. TypeOK 
  BY DEF TaskInv
<1> DEFINE n == Len(Ring)
<1>1. Ring' \in Seq(Task) /\ Len(Ring') = n - 1 /\ \A i \in 1 .. n - 1 : Ring'[i] = Ring[i + 1]
  BY <1>0, LeavingShape
<1>2. /\ Order # <<>> /\ Tail(Order) \in Seq(Threads) /\ Len(Tail(Order)) = n - 1
      /\ \A i \in 1 .. n - 1 : Tail(Order)[i] = Ring[i + 1].ip
  BY <1>0, OrderNotEmpty
<1>3. /\ Order' \in Seq(Threads) /\ Len(Order') = Len(Ring')
      /\ \A i \in 1..Len(Ring') : Order'[i] = Ring'[i].ip
  BY <1>1, IpsShape DEF Order
<1> HIDE DEF n
<1>4. \A i \in 1 .. n - 1 : Order'[i] = Tail(Order)[i]
  BY <1>1, <1>2, <1>3
<1>5. Order' = Tail(Order)
  BY <1>1, <1>2, <1>3, <1>4, SeqEqual
<1> QED BY <1>2, <1>5 DEF RoundRobin!Leave, Order, IpsOf

LEMMA InitRing == Init => RoundRobin!Init
<1> SUFFICES ASSUME Init PROVE RoundRobin!Init
  OBVIOUS
<1>1. TypeOK /\ ~panicked /\ queue = <<>> /\ run = Boot
  BY InitTaskInv DEF TaskInv, Init
<1>2. Len(Ring) = 1 /\ Ring[1].ip = Boot
  BY <1>1, RingHead
<1>3. /\ Order \in Seq(Threads) /\ Len(Order) = 1 /\ Order[1] = Boot
  BY <1>1, <1>2, OrderShape
<1>4. Order = <<Boot>>
  BY <1>3
<1> QED BY <1>4 DEF RoundRobin!Init, Order, IpsOf

(* Calls and returns inside a task do not move a thread. *)
LEMMA StackStutters == ASSUME TaskInv, Push \/ Pop PROVE Order' = Order
<1>1. /\ Ring' \in Seq(Task)
      /\ Len(Ring') = Len(Ring)
      /\ \A i \in 2..Len(Ring) : Ring'[i] = Ring[i]
      /\ Ring'[1] = [Ring[1] EXCEPT !.sp = sp']
  BY StayShape DEF TaskInv
<1>2. Len(Ring) \in Nat /\ Ring \in Seq(Task)
  BY RingLen DEF TaskInv
<1>3. ASSUME NEW i \in 1..Len(Ring) PROVE Ring'[i].ip = Ring[i].ip
  <2>1. CASE i = 1
    <3>1. Ring[1] \in Task
      BY <1>2, <2>1
    <3> QED BY <1>1, <2>1, <3>1 DEF Task
  <2>2. CASE i # 1
    <3>1. i \in 2..Len(Ring)
      BY <1>2, <2>2
    <3> QED BY <1>1, <3>1
  <2> QED BY <2>1, <2>2
<1>4. Order' = [i \in 1..Len(Ring') |-> Ring'[i].ip]
  BY DEF Order, IpsOf
<1>5. Order = [i \in 1..Len(Ring) |-> Ring[i].ip]
  BY DEF Order, IpsOf
<1> QED BY <1>1, <1>3, <1>4, <1>5

LEMMA StepRing ==
  TaskInv /\ [Next]_vars => [RoundRobin!Next]_([i \in 1..Len(Ring) |-> Ring[i].ip])
<1> SUFFICES ASSUME TaskInv, [Next]_vars
             PROVE  RoundRobin!Next \/ UNCHANGED Order
  BY DEF Order, IpsOf
<1>1. CASE BootStart
  <2>1. ~started /\ NewTask(0)
    BY <1>1 DEF BootStart
  <2>2. ~panicked /\ run = Boot /\ Len(Ring) = 1
    BY <2>1 DEF TaskInv, BootPhase
  <2>3. Ring[1].ip = Boot
    BY <2>2, RingHead DEF TaskInv
  <2>4. bitmap = {}
    BY <2>2, <2>3 DEF TaskInv, BitmapExact, Alive
  <2>5. 0 \in Ids /\ 0 \in Threads
    BY TasksAssumption DEF Ids, Threads
  <2>6. RoundRobin!Create(0)
    BY <1>1, <2>1, <2>2, <2>4, <2>5, NewTaskCreates
  <2> QED BY <2>5, <2>6 DEF RoundRobin!Next
<1>2. CASE BootEnd
  <2>1. RoundRobin!Leave
    BY <1>2, EndLeaves DEF BootEnd
  <2> QED BY <2>1 DEF RoundRobin!Next
<1>3. CASE Spawn
  <2>1. PICK id \in Ids : id \notin bitmap /\ NewTask(id)
    BY <1>3 DEF Spawn, UnusedTaskId
  <2>2. RoundRobin!Create(id)
    BY <1>3, <2>1, NewTaskCreates DEF Spawn, MayLeave, Running
  <2>3. id \in Threads
    BY DEF Threads
  <2> QED BY <2>2, <2>3 DEF RoundRobin!Next
<1>4. CASE YieldTask
  BY <1>4, YieldRotates DEF RoundRobin!Next
<1>5. CASE EndCurrentTask
  <2>1. RoundRobin!Leave
    BY <1>5, EndLeaves DEF EndCurrentTask, MayLeave, Running
  <2> QED BY <2>1 DEF RoundRobin!Next
<1>6. CASE Push \/ Pop
  BY <1>6, StackStutters
<1>7. CASE UNCHANGED vars
  BY <1>7 DEF vars, Order, IpsOf, Ring, Suspended
<1> QED BY <1>1, <1>2, <1>3, <1>4, <1>5, <1>6, <1>7 DEF Next, Switch
-----------------------------------------------------------------------------
(* The stacks.  Every thread points into its own area; the start-up code   *)
(* and the startup task share one, and whichever of them waits keeps       *)
(* nothing there.                                                          *)

Areas == \A i \in 1..Len(Ring) : Ring[i].sp[1] = AreaOf(Ring[i].ip)

Shallow ==
  /\ \A i \in 1..Len(Ring) : Ring[i].ip = Boot => Ring[i].sp[2] = 0
  /\ \A i \in 1..Len(Ring) : Ring[1].ip = Boot /\ Ring[i].ip = 0 => Ring[i].sp[2] = 0

StacksInv == TaskInv /\ Areas /\ Shallow /\ StackIntact

(* A call of the running thread writes above its own words, which are the  *)
(* only words of its area.                                                 *)
LEMMA CallKeeps ==
  ASSUME StacksInv, ~panicked,
         NEW i \in 1..Len(Ring), NEW d \in 1..Ring[i].sp[2]
  PROVE  Called[Ring[i].sp[1]][d] = Ring[i].ip
<1>0. /\ TypeOK
      /\ mem[Ring[i].sp[1]][d] = Ring[i].ip
      /\ Ring[i] \in Task /\ Ring[i].ip \in Threads
      /\ Ring[i].sp[1] \in Threads /\ Ring[i].sp[2] \in 0..MaxDepth
      /\ MaxDepth \in Nat
  <2>1. TypeOK /\ Ring[i] \in Task
    BY RingLen DEF StacksInv, TaskInv
  <2>2. Ring[i].sp \in Stack /\ Ring[i].ip \in Threads
    BY <2>1, TaskFields
  <2> QED BY <2>1, <2>2, StackFields, TasksAssumption DEF StacksInv, StackIntact
<1>1. /\ Ring[1].ip = run /\ Ring[1].sp = sp /\ 1 \in 1..Len(Ring)
      /\ run \in Threads
      /\ sp[1] \in Threads /\ sp[2] \in 0..MaxDepth
  BY <1>0, RingHead, StackFields DEF TypeOK, Stack
<1>2. ~(Ring[i].sp[1] = sp[1] /\ d = sp[2] + 1)
  <2> SUFFICES ASSUME Ring[i].sp[1] = sp[1], d = sp[2] + 1 PROVE FALSE
    OBVIOUS
  <2>1. CASE i = 1
    BY <1>0, <1>1, <2>1
  <2>2. CASE i # 1
    <3>1. Ring[i].ip # run
      BY <1>1, <2>2 DEF StacksInv, TaskInv, OnePlace
    <3>2. AreaOf(Ring[i].ip) = AreaOf(run)
      BY <1>1 DEF StacksInv, Areas
    <3>3. Ring[i].ip = Boot \/ (run = Boot /\ Ring[i].ip = 0)
      BY <3>1, <3>2 DEF AreaOf
    <3>4. Ring[i].sp[2] = 0
      BY <1>1, <3>3 DEF StacksInv, Shallow
    <3> QED BY <3>4
  <2> QED BY <2>1, <2>2
<1>3. /\ mem \in [Threads -> [1 .. MaxDepth + 1 -> Threads]]
      /\ d \in 1 .. MaxDepth + 1
  <2>1. d \in 1 .. MaxDepth + 1
    BY <1>0
  <2> QED BY <1>0, <2>1 DEF TypeOK
<1>4. Called[Ring[i].sp[1]]
        = IF Ring[i].sp[1] = sp[1] THEN [mem[sp[1]] EXCEPT ![sp[2] + 1] = run]
                                   ELSE mem[Ring[i].sp[1]]
  BY <1>0, <1>1, <1>3 DEF Called
<1>5. mem[sp[1]] \in [1 .. MaxDepth + 1 -> Threads]
  BY <1>1, <1>3
<1> QED BY <1>0, <1>2, <1>3, <1>4, <1>5

(* A switch moves waiting threads, with their stacks, and may add one      *)
(* whose stack is empty.  It disturbs nobody as long as neither of the two *)
(* that share an area leaves words behind.                                 *)
LEMMA SwitchStacks ==
  ASSUME StacksInv, TaskInv', ~panicked, mem' = Called,
         \A j \in 1..Len(Ring') :
           \/ \E i \in 1..Len(Ring) : Ring'[j] = Ring[i]
           \/ \E id \in Ids : Ring'[j] = Created(id),
         \A j \in 1..Len(Ring') :
           Ring'[1].ip = Boot /\ Ring'[j].ip = 0 => Ring'[j].sp[2] = 0
  PROVE  StacksInv'
<1>1. ASSUME NEW id \in Ids
      PROVE  Created(id).ip = id /\ id # Boot
             /\ Created(id).sp[1] = AreaOf(id) /\ Created(id).sp[2] = 0
  BY TasksAssumption DEF Created
<1>2. Areas'
  <2> SUFFICES ASSUME NEW j \in 1..Len(Ring') PROVE Ring'[j].sp[1] = AreaOf(Ring'[j].ip)
    BY DEF Areas, AreaOf
  <2> QED BY <1>1 DEF StacksInv, Areas
<1>3. \A j \in 1..Len(Ring') : Ring'[j].ip = Boot => Ring'[j].sp[2] = 0
  BY <1>1 DEF StacksInv, Shallow
<1>4. StackIntact'
  <2> SUFFICES ASSUME NEW j \in 1..Len(Ring'), NEW d \in 1..Ring'[j].sp[2]
               PROVE  mem'[Ring'[j].sp[1]][d] = Ring'[j].ip
    BY DEF StackIntact
  <2>1. CASE \E i \in 1..Len(Ring) : Ring'[j] = Ring[i]
    BY <2>1, CallKeeps
  <2>2. CASE \E id \in Ids : Ring'[j] = Created(id)
    BY <1>1, <2>2
  <2> QED BY <2>1, <2>2
<1> QED BY <1>2, <1>3, <1>4 DEF StacksInv, Shallow

LEMMA InitStacks == Init => StacksInv
<1> SUFFICES ASSUME Init PROVE StacksInv
  OBVIOUS
<1>1. TaskInv /\ ~panicked
  BY InitTaskInv DEF Init
<1>2. Len(Ring) = 1 /\ Ring[1].ip = Boot /\ Ring[1].sp = <<Boot, 0>>
  BY <1>1, RingHead DEF Init, TaskInv
<1>3. Boot # 0
  BY TasksAssumption DEF Ids
<1> QED BY <1>1, <1>2, <1>3 DEF StacksInv, Areas, Shallow, StackIntact, AreaOf

(* While Boot waits, the running thread is the startup task, and it gives  *)
(* up the CPU with an empty stack.                                         *)
LEMMA BootWaits ==
  ASSUME TaskInv, ShallowStart, MayLeave,
         NEW i \in 1..Len(Ring), Ring[i].ip = Boot
  PROVE  Len(Ring) = 2 /\ i = 2 /\ run = 0 /\ sp[2] = 0
<1>1. ~panicked /\ run # Boot /\ TypeOK
  BY DEF MayLeave, Running, TaskInv
<1>2. Ring[1].ip = run /\ Len(Ring) = Len(queue) + 1 /\ Len(queue) \in Nat
  BY <1>1, RingHead DEF TypeOK
<1>3. i \in 2..Len(Ring)
  BY <1>1, <1>2
<1>4. Len(Ring) = 2 /\ run = 0
  BY <1>2, <1>3 DEF TaskInv, BootPhase
<1>5. i - 1 \in 1..Len(queue) /\ (i - 1) + 1 = i
  BY <1>2, <1>3
<1>6. queue[i - 1].ip = Boot
  BY <1>1, <1>5, RingShape
<1>7. BootQueued
  BY <1>5, <1>6 DEF BootQueued
<1>8. sp[2] = 0
  BY <1>7 DEF MayLeave
<1>9. i = 2
  BY <1>3, <1>4
<1> QED BY <1>4, <1>8, <1>9

LEMMA YieldStacks == ASSUME ShallowStart, StacksInv, YieldTask PROVE StacksInv'
<1>0. TaskInv /\ TypeOK /\ TaskInv' /\ ~panicked /\ run # Boot /\ MayLeave /\ mem' = Called
  BY YieldInv DEF StacksInv, TaskInv, YieldTask, MayLeave, Running
<1> DEFINE n == Len(Ring)
<1>1. /\ Len(Ring') = n
      /\ \A j \in 1..n : Ring'[j] = IF j < n THEN Ring[j + 1] ELSE Ring[1]
  BY <1>0, YieldShape
<1>2. n \in Nat /\ 1 \in 1..n /\ Ring[1].ip = run /\ Ring[1].sp = sp
  BY <1>0, RingHead, RingLen
<1> HIDE DEF n
<1>3. \A j \in 1..n : \E i \in 1..n : Ring'[j] = Ring[i]
  <2> SUFFICES ASSUME NEW j \in 1..n PROVE \E i \in 1..n : Ring'[j] = Ring[i]
    OBVIOUS
  <2>1. CASE j < n
    <3>1. j + 1 \in 1..n
      BY <1>2, <2>1
    <3> QED BY <1>1, <2>1, <3>1
  <2>2. CASE ~(j < n)
    BY <1>1, <1>2, <2>2
  <2> QED BY <2>1, <2>2
<1>4. ASSUME NEW j \in 1..n, Ring'[1].ip = Boot, Ring'[j].ip = 0
      PROVE  Ring'[j].sp[2] = 0
  <2>1. 1 < n /\ Ring[2].ip = Boot /\ 2 \in 1..n
    BY <1>0, <1>1, <1>2, <1>4
  <2>2. n = 2 /\ sp[2] = 0
    BY <1>0, <2>1, BootWaits DEF n
  <2>3. j # 1
    BY <1>4, TasksAssumption DEF Ids
  <2>4. Ring'[j] = Ring[1]
    BY <1>1, <2>2, <2>3
  <2> QED BY <1>2, <2>2, <2>4
<1> QED BY <1>0, <1>1, <1>3, <1>4, SwitchStacks DEF n

(* A new task starts with an empty stack. *)
LEMMA NewTaskStacks ==
  ASSUME StacksInv, TaskInv', ~panicked, NEW id \in Ids, NewTask(id),
         \/ Len(Ring) = 1
         \/ \A i \in 1..Len(Ring) : Ring[i].ip = Boot => sp[2] = 0
  PROVE  StacksInv'
<1>0. TaskInv /\ TypeOK /\ mem' = Called
  BY DEF StacksInv, TaskInv, NewTask
<1> DEFINE n == Len(Ring)
<1>1. /\ Len(Ring') = n + 1
      /\ \A j \in 1 .. n + 1 :
           Ring'[j] = IF j < n THEN Ring[j + 1]
                      ELSE IF j = n THEN Created(id) ELSE Ring[1]
  BY <1>0, NewTaskShape
<1>2. n \in Nat /\ 1 \in 1..n /\ Ring[1].sp = sp
  BY <1>0, RingHead, RingLen
<1>3. Created(id).ip # Boot /\ Created(id).sp[2] = 0
  BY TasksAssumption DEF Created
<1>4. n = 1 \/ \A i \in 1..n : Ring[i].ip = Boot => sp[2] = 0
  BY DEF n
<1> HIDE DEF n
<1>5. ASSUME NEW j \in 1 .. n + 1
      PROVE  Ring'[j] = Created(id) \/ \E i \in 1..n : Ring'[j] = Ring[i]
  <2>1. CASE j < n
    <3>1. j + 1 \in 1..n
      BY <1>2, <2>1
    <3> QED BY <1>1, <2>1, <3>1
  <2>2. CASE ~(j < n)
    BY <1>1, <1>2, <2>2
  <2> QED BY <2>1, <2>2
<1>6. ASSUME NEW j \in 1 .. n + 1, Ring'[1].ip = Boot, Ring'[j].ip = 0
      PROVE  Ring'[j].sp[2] = 0
  <2>1. 1 < n /\ Ring'[1] = Ring[2] /\ 2 \in 1..n
    BY <1>1, <1>2, <1>3, <1>6
  <2>2. sp[2] = 0 /\ n # 1
    BY <1>4, <1>6, <2>1
  <2>3. CASE j < n
    <3>1. BootPhase /\ Ring[2].ip = Boot /\ 2 \in 2..n
      BY <1>0, <1>2, <1>6, <2>1 DEF TaskInv
    <3>2. n = 2
      BY <3>1 DEF BootPhase, n
    <3>3. j = 1
      BY <2>3, <3>2
    <3> QED BY <1>6, <3>3, TasksAssumption DEF Ids
  <2>4. CASE j = n
    <3>1. Ring'[j] = Created(id)
      BY <1>1, <1>2, <2>4
    <3> QED BY <1>3, <3>1
  <2>5. CASE j = n + 1
    <3>1. Ring'[j] = Ring[1]
      BY <1>1, <1>2, <2>5
    <3> QED BY <1>2, <2>2, <3>1
  <2> QED BY <1>2, <2>3, <2>4, <2>5
<1> QED BY <1>0, <1>1, <1>5, <1>6, SwitchStacks DEF n

LEMMA EndStacks ==
  ASSUME StacksInv, TaskInv', ~panicked, EndNoMark PROVE StacksInv'
<1>0. TaskInv /\ TypeOK /\ mem' = Called
  BY DEF StacksInv, TaskInv, EndNoMark
<1> DEFINE n == Len(Ring)
<1>1. Len(Ring') = n - 1 /\ \A j \in 1 .. n - 1 : Ring'[j] = Ring[j + 1]
  BY <1>0, LeavingShape
<1>2. n \in Nat /\ 1 \in 1..n
  BY <1>0, RingHead, RingLen
<1> HIDE DEF n
<1>3. \A j \in 1 .. n - 1 : \E i \in 1..n : Ring'[j] = Ring[i]
  <2> SUFFICES ASSUME NEW j \in 1 .. n - 1 PROVE \E i \in 1..n : Ring'[j] = Ring[i]
    OBVIOUS
  <2>1. j + 1 \in 1..n
    BY <1>2
  <2> QED BY <1>1, <2>1
<1>4. ASSUME NEW j \in 1 .. n - 1, Ring'[1].ip = Boot, Ring'[j].ip = 0 PROVE FALSE
  <2>1. 1 \in 1 .. n - 1 /\ 2 \in 2..n /\ Ring[2].ip = Boot
    BY <1>1, <1>2, <1>4
  <2>2. n = 2
    BY <1>0, <2>1 DEF TaskInv, BootPhase, n
  <2>3. j = 1
    BY <2>2
  <2> QED BY <1>4, <2>3, TasksAssumption DEF Ids
<1> QED BY <1>0, <1>1, <1>3, <1>4, SwitchStacks DEF n

(* Inside a task: the word pushed last is its own. *)
LEMMA CallStacks == ASSUME StacksInv, Push \/ Pop PROVE StacksInv'
<1>0. TaskInv /\ TypeOK /\ TaskInv' /\ ~panicked /\ run # Boot
  BY StackInv DEF StacksInv, TaskInv, Push, Pop, Running
<1> DEFINE n == Len(Ring)
<1>1. /\ sp'[1] = sp[1]
      /\ Len(Ring') = n
      /\ \A i \in 2..n : Ring'[i] = Ring[i]
      /\ Ring'[1] = [Ring[1] EXCEPT !.sp = sp']
  BY <1>0, StayShape
<1>2. /\ n \in Nat /\ 1 \in 1..n /\ Ring[1] \in Task
      /\ Ring[1].ip = run /\ Ring[1].sp = sp
      /\ run \in Threads /\ sp[1] \in Threads /\ sp[2] \in 0..MaxDepth
      /\ MaxDepth \in Nat
  BY <1>0, RingHead, RingLen, StackFields, TasksAssumption DEF TypeOK, Stack
<1>3. Ring'[1].ip = run /\ Ring'[1].sp = sp'
  BY <1>1, <1>2 DEF Task
<1>4. \A i \in 1..n : i # 1 => i \in 2..n
  BY <1>2
<1> HIDE DEF n
<1>5. Areas'
  <2> SUFFICES ASSUME NEW i \in 1..n PROVE Ring'[i].sp[1] = AreaOf(Ring'[i].ip)
    BY <1>1 DEF Areas, AreaOf
  <2>1. Ring[i].sp[1] = AreaOf(Ring[i].ip)
    BY DEF StacksInv, Areas, n
  <2> QED BY <1>1, <1>2, <1>3, <1>4, <2>1
<1>6. Shallow'
  <2>1. \A i \in 1..n : Ring'[i].ip = Boot => Ring'[i].sp[2] = 0
    BY <1>0, <1>1, <1>3, <1>4 DEF StacksInv, Shallow, n
  <2>2. Ring'[1].ip # Boot
    BY <1>0, <1>3
  <2> QED BY <1>1, <2>1, <2>2 DEF Shallow
<1>7. ASSUME NEW i \in 1..n, NEW d \in 1..Ring[i].sp[2]
      PROVE  mem'[Ring[i].sp[1]][d] = Ring[i].ip
  <2>1. CASE mem' = Called
    BY <1>0, <2>1, CallKeeps DEF n
  <2>2. CASE mem' = mem
    BY <2>2 DEF StacksInv, StackIntact, n
  <2> QED BY <2>1, <2>2 DEF Push, Pop
<1>8. ASSUME NEW d \in 1..sp'[2] PROVE mem'[sp[1]][d] = run
  <2>1. CASE d \in 1..sp[2]
    BY <1>2, <1>7, <2>1
  <2>2. CASE d \notin 1..sp[2]
    <3>1. Push /\ d = sp[2] + 1
      <4>1. CASE Pop
        BY <1>2, <1>8, <2>2, <4>1 DEF Pop
      <4>2. CASE Push
        BY <1>2, <1>8, <2>2, <4>2 DEF Push
      <4> QED BY <4>1, <4>2
    <3>2. mem' = Called /\ mem \in [Threads -> [1 .. MaxDepth + 1 -> Threads]]
      BY <1>0, <3>1 DEF Push, TypeOK
    <3>3. mem'[sp[1]] = [mem[sp[1]] EXCEPT ![sp[2] + 1] = run]
      BY <1>2, <3>2 DEF Called
    <3>4. mem[sp[1]] \in [1 .. MaxDepth + 1 -> Threads] /\ sp[2] + 1 \in 1 .. MaxDepth + 1
      BY <1>2, <3>2
    <3> QED BY <3>1, <3>3, <3>4
  <2> QED BY <2>1, <2>2
<1>9. StackIntact'
  <2> SUFFICES ASSUME NEW i \in 1..n, NEW d \in 1..Ring'[i].sp[2]
               PROVE  mem'[Ring'[i].sp[1]][d] = Ring'[i].ip
    BY <1>1 DEF StackIntact
  <2>1. CASE i = 1
    BY <1>1, <1>3, <1>8, <2>1
  <2>2. CASE i # 1
    <3>1. Ring'[i] = Ring[i]
      BY <1>1, <1>4, <2>2
    <3> QED BY <1>7, <3>1
  <2> QED BY <2>1, <2>2
<1> QED BY <1>0, <1>5, <1>6, <1>9 DEF StacksInv

LEMMA StepStacks == ShallowStart /\ StacksInv /\ [Next]_vars => StacksInv'
<1> SUFFICES ASSUME ShallowStart, StacksInv, [Next]_vars PROVE StacksInv'
  OBVIOUS
<1>0. TaskInv /\ TaskInv'
  BY StepTaskInv DEF StacksInv
<1>1. CASE BootStart
  <2>1. NewTask(0) /\ ~panicked /\ Len(Ring) = 1 /\ 0 \in Ids
    BY <1>0, <1>1, TasksAssumption DEF BootStart, TaskInv, BootPhase, Ids
  <2> QED BY <1>0, <2>1, NewTaskStacks
<1>2. CASE BootEnd
  BY <1>0, <1>2, EndStacks DEF BootEnd
<1>3. CASE Spawn
  <2>1. PICK id \in Ids : NewTask(id)
    BY <1>3 DEF Spawn
  <2>2. MayLeave /\ ~panicked
    BY <1>3 DEF Spawn, MayLeave, Running
  <2>3. \A i \in 1..Len(Ring) : Ring[i].ip = Boot => sp[2] = 0
    BY <1>0, <2>2, BootWaits
  <2> QED BY <1>0, <2>1, <2>2, <2>3, NewTaskStacks
<1>4. CASE YieldTask
  BY <1>4, YieldStacks
<1>5. CASE EndCurrentTask
  BY <1>0, <1>5, EndStacks DEF EndCurrentTask, MayLeave, Running
<1>6. CASE Push \/ Pop
  BY <1>6, CallStacks
<1>7. CASE UNCHANGED vars
  <2>1. UNCHANGED <<Ring, mem>>
    BY <1>7 DEF vars, Ring, Suspended
  <2> QED BY <1>0, <2>1 DEF StacksInv, Areas, Shallow, StackIntact, AreaOf
<1> QED BY <1>1, <1>2, <1>3, <1>4, <1>5, <1>6, <1>7 DEF Next, Switch
-----------------------------------------------------------------------------
(* The table of structs that yield_task copies down at every switch is a   *)
(* ring of threads: a task that yields goes behind all others, one that is *)
(* created before its creator, nobody is skipped and nobody runs twice,    *)
(* whatever the number of task IDs.                                        *)
THEOREM SchedulerIsRing == Spec => RingSpec
BY Safe, InitRing, StepRing, PTL DEF Spec, RingSpec, RoundRobin!Spec

(* If the startup task first gives up the CPU with an empty stack, then    *)
(* every word that a thread finds on its stack is the one it left there,   *)
(* although kernel/main.asm gives it the stack of the start-up code.       *)
THEOREM StacksKept == ShallowStart => (Spec => []StackIntact)
<1> SUFFICES ASSUME ShallowStart PROVE Spec => []StackIntact
  OBVIOUS
<1>1. StacksInv /\ [Next]_vars => StacksInv'
  BY StepStacks
<1>2. StacksInv => StackIntact
  BY DEF StacksInv
<1> QED BY <1>1, <1>2, InitStacks, PTL DEF Spec
=============================================================================
