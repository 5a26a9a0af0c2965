-------------------------------- MODULE Tasks --------------------------------
(***************************************************************************)
(* The cooperative scheduler of fox32os: kernel/task.asm, started by       *)
(* kernel/main.asm.  A task gives the CPU up only inside new_task,         *)
(* yield_task or end_current_task, and the vsync handler that may          *)
(* interrupt these touches none of their words, so each is one action.     *)
(*                                                                         *)
(* A code address is abstracted to the thread it belongs to: the task with *)
(* that ID, or Boot, the kernel's own start-up code, which yield_task puts *)
(* into the queue once as if it were a task.  A stack pointer is the area  *)
(* it points into and the number of words on it; mem says which thread     *)
(* wrote a word last.                                                      *)
(***************************************************************************)
EXTENDS Naturals, Sequences, FiniteSets

CONSTANTS
  MaxId,        \* the highest task ID: 31 in the code, one bit of a word each
  QueueSize,    \* TASK_SIZE structs reserved at task_queue_bottom: 32
  MaxDepth,     \* BOUND: words a task keeps on its stack; the code has no limit
  Boot,         \* the start-up code, as a thread
  ShallowStart  \* TRUE: the startup task gives up the CPU the first time
                \* with nothing on its stack

Ids == 0..MaxId
Threads == Ids \cup {Boot}

ASSUME TasksAssumption ==
  /\ MaxId \in Nat
  /\ MaxId >= 2
  /\ QueueSize = MaxId + 1
  /\ MaxDepth \in Nat
  /\ Boot \notin Ids
  /\ ShallowStart \in BOOLEAN

VARIABLES
  bitmap,    \* task_id_bitmap, as the set of IDs whose bit is set
  current,   \* current_task
  queue,     \* the structs from task_queue_bottom to task_queue_ptr
  run,       \* the thread the CPU executes
  sp,        \* rsp
  mem,       \* the thread that wrote each stack word last
  started,   \* TRUE once kernel/main.asm has created the startup task
  panicked,  \* TRUE in task_empty
  high       \* the most structs that were ever stored in the queue

vars == <<bitmap, current, queue, run, sp, mem, started, panicked, high>>

Task == [id : Ids, ip : Threads, sp : Threads \X (0..MaxDepth)]

(* Mutant: the creator of any task passes the rsp of the start-up code. *)
AreaShared(t) == Boot

(* kernel/main.asm passes its own rsp as the stack of the startup task. *)
AreaOf(t) == IF t = 0 THEN Boot ELSE t

Init ==
  /\ bitmap = {}
  /\ current = [id |-> 0, ip |-> Boot, sp |-> <<Boot, 0>>]
  /\ queue = <<>>
  /\ run = Boot
  /\ sp = <<Boot, 0>>
  /\ mem = [a \in Threads |-> [d \in 1 .. MaxDepth + 1 |-> a]]
  /\ started = FALSE
  /\ panicked = FALSE
  /\ high = 0
-----------------------------------------------------------------------------
(* The call instruction leaves its return address one word above the top.  *)
Called == [mem EXCEPT ![sp[1]] = [@ EXCEPT ![sp[2] + 1] = run]]

(* The running thread as yield_task stores it: the ID of current_task, the *)
(* popped return address and the stack pointer after the pop.              *)
Suspended == [id |-> current.id, ip |-> run, sp |-> sp]

(* Mutant: current_task is not stored. *)
SwitchToStale(q) ==
  /\ queue' = Tail(q)
  /\ run' = Head(q).ip
  /\ sp' = Head(q).sp
  /\ high' = IF Len(q) > high THEN Len(q) ELSE high
  /\ UNCHANGED current

(* Mutant: the structs are not moved down. *)
SwitchToNoShift(q) ==
  /\ current' = Head(q)
  /\ queue' = q
  /\ run' = Head(q).ip
  /\ sp' = Head(q).sp
  /\ high' = IF Len(q) > high THEN Len(q) ELSE high

(* yield_task_0: the head of the queue becomes the current task, the rest  *)
(* moves down by one struct, and the CPU jumps into it.                    *)
SwitchTo(q) ==
  /\ current' = Head(q)
  /\ queue' = Tail(q)
  /\ run' = Head(q).ip
  /\ sp' = Head(q).sp
  /\ high' = IF Len(q) > high THEN Len(q) ELSE high

(* Mutant: the table of IDs is full, and the search answers the last one. *)
UnusedOrLastTaskId(id) ==
  /\ id \in 1..MaxId
  /\ id \notin bitmap \/ id = MaxId
  /\ \A j \in 1 .. id - 1 : j \in bitmap

(* get_unused_task_id answers id; it answers 0 when there is no such id.   *)
UnusedTaskId(id) ==
  /\ id \in 1..MaxId
  /\ id \notin bitmap
  /\ \A j \in 1 .. id - 1 : j \in bitmap

(* Mutant: the creator goes into the queue before the task it created. *)
NewTaskLast(id) ==
  /\ bitmap' = bitmap \cup {id}
  /\ mem' = Called
  /\ SwitchTo(queue \o <<Suspended, [id |-> id, ip |-> id, sp |-> <<AreaOf(id), 0>>]>>)
  /\ UNCHANGED panicked

(* new_task: mark the ID, append the task, and fall through to yield_task. *)
NewTask(id) ==
  /\ bitmap' = bitmap \cup {id}
  /\ mem' = Called
  /\ SwitchTo(queue \o <<[id |-> id, ip |-> id, sp |-> <<AreaOf(id), 0>>], Suspended>>)
  /\ UNCHANGED panicked

(* end_current_task_no_mark, where end_current_task continues: the running *)
(* thread is not stored again, and an empty queue is task_empty, a panic.  *)
EndNoMark ==
  /\ mem' = Called
  /\ IF queue = <<>> THEN panicked' = TRUE /\ UNCHANGED <<current, queue, run, sp, high>>
                     ELSE SwitchTo(queue) /\ UNCHANGED panicked

(* kernel/main.asm: the startup file becomes task 0. *)
BootStart ==
  /\ ~started
  /\ started' = TRUE
  /\ NewTask(0)

(* kernel/main.asm, resumed when the startup task first gives up the CPU.  *)
BootEnd ==
  /\ started
  /\ run = Boot
  /\ ~panicked
  /\ EndNoMark
  /\ UNCHANGED <<bitmap, started>>
-----------------------------------------------------------------------------
(* A task.  MayLeave is the contract of ShallowStart: as long as Boot      *)
(* waits in the queue, only the startup task has run.                      *)

BootQueued == \E i \in 1..Len(queue) : queue[i].ip = Boot

Running == run # Boot /\ ~panicked
MayLeave == Running /\ (ShallowStart /\ BootQueued => sp[2] = 0)

Push ==
  /\ Running
  /\ sp[2] < MaxDepth
  /\ mem' = Called
  /\ sp' = <<sp[1], sp[2] + 1>>
  /\ UNCHANGED <<bitmap, current, queue, run, started, panicked, high>>

Pop ==
  /\ Running
  /\ sp[2] > 0
  /\ sp' = <<sp[1], sp[2] - 1>>
  /\ UNCHANGED <<bitmap, current, queue, run, mem, started, panicked, high>>

(* The caller of new_task: it picks an unused ID (get_unused_task_id) and  *)
(* passes ID, entry point and stack.                                       *)
Spawn ==
  /\ MayLeave
  /\ \E id \in Ids : UnusedTaskId(id) /\ NewTask(id)
  /\ UNCHANGED started

(* Mutant: the yielding task is put at the head of the queue. *)
YieldTaskFirst ==
  /\ MayLeave
  /\ mem' = Called
  /\ SwitchTo(<<Suspended>> \o queue)
  /\ UNCHANGED <<bitmap, started, panicked>>

YieldTask ==
  /\ MayLeave
  /\ mem' = Called
  /\ SwitchTo(Append(queue, Suspended))
  /\ UNCHANGED <<bitmap, started, panicked>>

(* Mutant: a task that ends keeps its ID. *)
EndCurrentTaskMarked ==
  /\ MayLeave
  /\ EndNoMark
  /\ UNCHANGED <<bitmap, started>>

EndCurrentTask ==
  /\ MayLeave
  /\ bitmap' = bitmap \ {current.id}
  /\ EndNoMark
  /\ UNCHANGED started
-----------------------------------------------------------------------------
Switch == BootStart \/ BootEnd \/ Spawn \/ YieldTask \/ EndCurrentTask

Next == Switch \/ Push \/ Pop

Spec == Init /\ [][Next]_vars

(* Cooperative multitasking rests on every thread giving up the CPU sooner *)
(* or later; a task unwinds its stack to do so where it has to.            *)
FairSpec == Spec /\ SF_vars(Switch)
-----------------------------------------------------------------------------
(* Properties. *)

(* The threads that have not ended, in the order in which they will run:   *)
(* the running one, as it would be stored, and those in the queue.         *)
Ring == IF panicked THEN <<>> ELSE <<Suspended>> \o queue

Queued == {queue[i].ip : i \in 1..Len(queue)}
Alive == {Ring[i].ip : i \in 1..Len(Ring)}

(* Every variable is typed; the highest struct ever stored lies inside the *)
(* table, so that the words that follow it in the kernel are never         *)
(* overwritten.                                                            *)
TypeOK ==
  /\ bitmap \in SUBSET Ids
  /\ current \in Task
  /\ queue \in Seq(Task)
  /\ run \in Threads
  /\ sp \in Threads \X (0..MaxDepth)
  /\ mem \in [Threads -> [1 .. MaxDepth + 1 -> Threads]]
  /\ started \in BOOLEAN
  /\ panicked \in BOOLEAN
  /\ high \in Nat

(* The reserved table is exactly large enough: yield_task and new_task     *)
(* append before they take, so they need room for one struct more than     *)
(* waits afterwards.                                                       *)
QueueFits == high <= QueueSize

(* A bit of task_id_bitmap is set exactly while its task lives. *)
BitmapExact == bitmap = Alive \ {Boot}

(* No thread is in two places, queued twice or queued and running. *)
OnePlace == \A i, j \in 1..Len(Ring) : i # j => Ring[i].ip # Ring[j].ip

(* current_task.id names the running thread, and the IDs in the queue      *)
(* name the threads there: end_current_task frees the right bit.           *)
IdsNameThreads ==
  \A i \in 1..Len(Ring) : Ring[i].ip # Boot => Ring[i].id = Ring[i].ip

(* "Task queue empty! Hanging here" is reached only after every task has   *)
(* ended.                                                                  *)
PanicsOnlyWhenDone == panicked => bitmap = {}

(* What a thread keeps on its stack is what it put there, although the     *)
(* start-up code and the startup task share one.                           *)
StackIntact ==
  \A i \in 1..Len(Ring) : \A d \in 1..Ring[i].sp[2] :
    mem[Ring[i].sp[1]][d] = Ring[i].ip

(* The table of structs, copied down at each switch, behaves as a ring of  *)
(* threads: round robin, nobody lost, nobody twice.                        *)
RoundRobin == INSTANCE TaskRing WITH
  Thread <- Threads,
  First <- Boot,
  ring <- [i \in 1..Len(Ring) |-> Ring[i].ip]

RingSpec == RoundRobin!Spec

(* task.asm says of new_task "add a new task to the queue and jump to it   *)
(* immediately": the thread that runs after it is the one created.  It is  *)
(* so only when nobody waits; the code jumps to the head of the queue.     *)
JumpsAtOnce == [][\A id \in Ids : id \in bitmap' \ bitmap => run' = id]_vars

(* A task that waits runs again, however many tasks are created meanwhile. *)
EveryTaskRuns == \A t \in Ids : (t \in Queued) ~> (run = t)
=============================================================================
