---------------------------- MODULE EventsProofs ----------------------------
(***************************************************************************)
(* Proofs about Events, for every number of entries, words and events.     *)
(***************************************************************************)
EXTENDS Events, SequenceTheorems, TLAPS

-----------------------------------------------------------------------------
(* Typing.  TypeOK alone is not inductive: event_new must be known to have *)
(* room for the entry it writes, and the pointer to have been initialised  *)
(* by then.                                                                *)

PostPcs == {"new_load", "new_store", "new_mov"}

Initialised ==
  /\ (pc = "init_mov" /\ ~zero) => ptr >= BOTTOM
  /\ pc \notin {"run", "init_cmp", "init_mov"} => ptr >= BOTTOM

Room ==
  /\ (op = "new" /\ pc # "run") => ptr <= Slots
  /\ pc \in {"new_store", "new_mov"} => r8 \in 1..Slots
  /\ pc \in PostPcs => op = "new"
  /\ (op = "new" /\ pc # "run") => pc \in PostPcs \cup {"init_cmp", "init_mov"}

IInv == TypeOK /\ Initialised /\ Room

(* A burst is a sequence of events. *)
LEMMA BurstTyped ==
  ASSUME NEW es \in Bursts
  PROVE  /\ Len(es) \in 0..Burst
         /\ es \in [1..Len(es) -> HandlerEvents]
         /\ (es = <<>>) <=> (Len(es) = 0)
<1>1. PICK n \in 0..Burst : es \in [1..n -> HandlerEvents]
  BY DEF Bursts
<1>2. Len(es) = n
  BY <1>1, EventsAssumption
<1>3. n = 0 => es = <<>>
  BY <1>1, EventsAssumption
<1> QED
  BY <1>1, <1>2, <1>3, EventsAssumption

(* What the two copying routines leave in memory are events. *)
LEMMA ShiftedTyped ==
  ASSUME NEW s \in [1..Slots -> Event], NEW p \in 0 .. Slots + 1
  PROVE  Shifted(s, p) \in [1..Slots -> Event]
<1> SUFFICES ASSUME NEW i \in 1..Slots, i + 1 < p PROVE i + 1 \in 1..Slots
  BY DEF Shifted
<1> QED BY EventsAssumption

LEMMA StoredTyped ==
  ASSUME NEW s \in [1..Slots -> Event], NEW es \in Bursts, NEW b \in Nat
  PROVE  Stored(s, b, es) \in [1..Slots -> Event]
<1> SUFFICES ASSUME NEW i \in 1..Slots, i \in b .. b + Len(es) - 1
             PROVE es[i - b + 1] \in Event
  BY DEF Stored
<1> QED BY BurstTyped, EventsAssumption

LEMMA InitIInv == Init => IInv
<1> SUFFICES ASSUME Init PROVE IInv
  OBVIOUS
<1>1. slots \in [1..Slots -> Event] /\ arg \in Event
  BY EventsAssumption DEF Init
<1>2. /\ iflag \in BOOLEAN /\ zero \in BOOLEAN /\ mon \in BOOLEAN
      /\ masked \in BOOLEAN /\ alone \in BOOLEAN
  BY DEF Init
<1> QED
  BY <1>1, <1>2, EventsAssumption
     DEF Init, IInv, TypeOK, Pcs, Initialised, Room, PostPcs, BOTTOM

(* The contracts, once broken, stay broken; their values are truth values. *)
LEMMA HistoryStep ==
  ASSUME masked \in BOOLEAN, alone \in BOOLEAN, [Next]_vars
  PROVE  /\ masked' \in BOOLEAN /\ alone' \in BOOLEAN
         /\ masked' => masked
         /\ alone' => alone
<1>1. ASSUME NEW e \in ProgramEvents, CallNew(e)
      PROVE  masked' \in BOOLEAN /\ (masked' => masked) /\ alone' = alone
  BY <1>1, Zenon DEF CallNew
<1>2. ASSUME NEW es \in Bursts, VSync(es)
      PROVE  masked' \in BOOLEAN /\ (masked' => masked) /\ alone' = alone
  BY <1>2, Zenon DEF VSync
<1>3. CASE F12
  <2>1. masked' = masked /\ alone' = FALSE
    BY <1>3, Zenon DEF F12
  <2> QED BY <2>1, Zenon
<1>4. CASE UNCHANGED <<masked, alone>>
  <2>1. masked' = masked /\ alone' = alone
    BY <1>4, Zenon
  <2> QED BY <2>1, Zenon
<1>5. CASE CallNext \/ CallWait \/ (\E b \in BOOLEAN : SetFlag(b))
  BY <1>4, <1>5, Zenon DEF CallNext, CallWait, SetFlag
<1>6. CASE Routine
  <2>1. CASE InitCmp \/ InitMov \/ WaitIse \/ WaitHalt \/ WaitCmp \/ WaitJmp
    BY <1>4, <2>1, Zenon DEF InitCmp, InitMov, WaitIse, WaitHalt, WaitCmp, WaitJmp
  <2>2. CASE NextCmp \/ NextEmpty \/ NextSome \/ NextTake \/ NextRunaway
    BY <1>4, <2>2, Zenon DEF NextCmp, NextEmpty, NextSome, NextTake, NextRunaway
  <2>3. CASE NewLoad \/ NewStore \/ NewMov
    BY <1>4, <2>3, Zenon DEF NewLoad, NewStore, NewMov
  <2> QED BY <1>6, <2>1, <2>2, <2>3 DEF Routine
<1>7. CASE MonitorTake \/ MonitorExit
  BY <1>4, <1>7, Zenon DEF MonitorTake, MonitorExit
<1>8. CASE UNCHANGED vars
  BY <1>4, <1>8, Zenon DEF vars
<1>9. ASSUME NEW e \in ProgramEvents, CallNew(e) \/ (\E es \in Bursts : VSync(es))
      PROVE  /\ masked' \in BOOLEAN /\ (masked' => masked)
             /\ alone' \in BOOLEAN /\ (alone' => alone)
  <2>1. alone' = alone /\ masked' \in BOOLEAN /\ (masked' => masked)
    BY <1>1, <1>2, <1>9
  <2> QED BY <2>1, Zenon
<1>10. CASE Interrupt
  <2>1. alone' = alone /\ masked' \in BOOLEAN /\ (masked' => masked)
    BY <1>2, <1>10 DEF Interrupt
  <2> QED BY <2>1, Zenon
<1>11. CASE Client
  BY <1>5, <1>9, <1>11 DEF Client
<1> QED BY <1>3, <1>6, <1>7, <1>8, <1>10, <1>11 DEF Next

LEMMA StepIInv == IInv /\ [Next]_vars => IInv'
<1> SUFFICES ASSUME IInv, [Next]_vars PROVE IInv'
  OBVIOUS
<1>0. masked' \in BOOLEAN /\ alone' \in BOOLEAN
  BY HistoryStep DEF IInv, TypeOK
<1> USE <1>0, EventsAssumption DEF IInv, TypeOK, Pcs, Initialised, Room, PostPcs, BOTTOM
<1>1. CASE CallNext
  BY <1>1 DEF CallNext
<1>2. CASE CallWait
  BY <1>2 DEF CallWait
<1>3. ASSUME NEW e \in ProgramEvents, CallNew(e) PROVE IInv'
  BY <1>3 DEF CallNew
<1>4. ASSUME NEW b \in BOOLEAN, SetFlag(b) PROVE IInv'
  BY <1>4 DEF SetFlag
<1>5. CASE InitCmp
  <2>1. zero' \in BOOLEAN /\ (zero' <=> ptr = 0)
    BY <1>5, Zenon DEF InitCmp
  <2> QED BY <1>5, <2>1 DEF InitCmp
<1>6. CASE InitMov
  BY <1>6 DEF InitMov, AfterInit
<1>7. CASE WaitIse
  BY <1>7 DEF WaitIse
<1>8. CASE WaitHalt
  BY <1>8 DEF WaitHalt
<1>9. CASE WaitCmp
  BY <1>9 DEF WaitCmp
<1>10. CASE WaitJmp
  BY <1>10 DEF WaitJmp
<1>11. CASE NextCmp
  BY <1>11 DEF NextCmp
<1>12. CASE NextEmpty
  BY <1>12 DEF NextEmpty
<1>13. CASE NextSome
  BY <1>13 DEF NextSome
<1>14. CASE NextTake
  <2>1. slots' \in [1..Slots -> Event]
    BY <1>14, ShiftedTyped DEF NextTake
  <2> QED BY <1>14, <2>1 DEF NextTake
<1>15. CASE NextRunaway
  BY <1>15 DEF NextRunaway
<1>16. CASE NewLoad
  BY <1>16 DEF NewLoad
<1>17. CASE NewStore
  <2>1. arg[w] \in Word /\ slots[r8] \in Event
    BY <1>17 DEF NewStore, Event
  <2>2. [slots[r8] EXCEPT ![w] = arg[w]] \in Event
    BY <2>1 DEF Event
  <2>3. slots' \in [1..Slots -> Event]
    BY <1>17, <2>2 DEF NewStore
  <2> QED BY <1>17, <2>3 DEF NewStore
<1>18. CASE NewMov
  BY <1>18 DEF NewMov
<1>19. ASSUME NEW es \in Bursts, VSync(es) PROVE IInv'
  <2>1. slots' \in [1..Slots -> Event]
    BY <1>19, StoredTyped DEF VSync, Base
  <2>2. Len(es) \in Nat /\ (es = <<>> <=> Len(es) = 0)
    BY BurstTyped
  <2> QED BY <1>19, <2>1, <2>2 DEF VSync, Base, Woken
<1>20. CASE F12
  BY <1>20 DEF F12, Base, Woken
<1>21. CASE MonitorTake
  <2>1. slots' \in [1..Slots -> Event]
    BY <1>21, ShiftedTyped DEF MonitorTake
  <2> QED BY <1>21, <2>1 DEF MonitorTake
<1>22. CASE MonitorExit
  BY <1>22 DEF MonitorExit
<1>23. CASE UNCHANGED vars
  BY <1>23 DEF vars
<1> QED
  BY <1>1, <1>2, <1>3, <1>4, <1>5, <1>6, <1>7, <1>8, <1>9, <1>10, <1>11,
     <1>12, <1>13, <1>14, <1>15, <1>16, <1>17, <1>18, <1>19, <1>20, <1>21,
     <1>22, <1>23 DEF Next, Client, Routine, Interrupt

(* Every reachable state is typed: no routine moves the queue pointer      *)
(* below the queue or past the entry it was given room for.                *)
THEOREM Typing == Spec => []TypeOK
<1>1. Spec => []IInv
  BY InitIInv, StepIInv, PTL DEF Spec
<1>2. IInv => TypeOK
  BY DEF IInv
<1> QED BY <1>1, <1>2, PTL
-----------------------------------------------------------------------------
(* The copying loop of event_next ends.  Between the compare that saw an   *)
(* event and the icl only the handler runs, and it only adds, until the    *)
(* monitor, which takes, is opened.                                        *)

SawOne == (pc \in {"next_jmp", "wait_jmp"} /\ ~zero) \/ pc = "next_icl"

TakeInv ==
  /\ mon = FALSE
  /\ SawOne => ptr > BOTTOM
  /\ pc # "runaway"

LEMMA AloneTakeInv ==
  ASSUME IInv, TakeInv, [Next]_vars, ~F12
  PROVE  TakeInv'
<1> USE EventsAssumption DEF IInv, TypeOK, Initialised, TakeInv, SawOne, BOTTOM
<1>1. CASE Client
  BY <1>1 DEF Client, CallNext, CallWait, CallNew, SetFlag
<1>2. CASE InitCmp \/ InitMov
  BY <1>2 DEF InitCmp, InitMov, AfterInit
<1>3. CASE WaitIse \/ WaitHalt \/ WaitJmp
  BY <1>3 DEF WaitIse, WaitHalt, WaitJmp
<1>4. CASE WaitCmp \/ NextCmp
  <2>1. zero' <=> ptr = BOTTOM
    BY <1>4, Zenon DEF WaitCmp, NextCmp
  <2> QED BY <1>4, <2>1 DEF WaitCmp, NextCmp
<1>5. CASE NextEmpty \/ NextSome \/ NextTake \/ NextRunaway
  BY <1>5 DEF NextEmpty, NextSome, NextTake, NextRunaway
<1>6. CASE NewLoad \/ NewStore \/ NewMov
  BY <1>6 DEF NewLoad, NewStore, NewMov, PostPcs, Room
<1>7. ASSUME NEW es \in Bursts, VSync(es) PROVE TakeInv'
  <2>1. Len(es) \in Nat
    BY BurstTyped
  <2>2. ptr' >= ptr
    BY <1>7, <2>1 DEF VSync, Base
  <2> QED BY <1>7, <2>2 DEF VSync, Woken
<1>8. CASE F12 \/ MonitorTake \/ MonitorExit
  BY <1>8 DEF MonitorTake, MonitorExit
<1>9. CASE UNCHANGED vars
  BY <1>9 DEF vars
<1> QED
  BY <1>1, <1>2, <1>3, <1>4, <1>5, <1>6, <1>7, <1>8, <1>9
     DEF Next, Routine, Interrupt

LEMMA StepTakeInv == IInv /\ (alone => TakeInv) /\ [Next]_vars => (alone => TakeInv)'
<1> SUFFICES ASSUME IInv, alone => TakeInv, [Next]_vars, alone' PROVE TakeInv'
  OBVIOUS
<1>1. TakeInv
  BY HistoryStep DEF IInv, TypeOK
<1>2. ~F12
  BY Zenon DEF F12
<1> QED BY <1>1, <1>2, AloneTakeInv

(* Whatever the program posts itself and however it is interrupted,        *)
(* event_next never finds the queue empty with interrupts off, as long as  *)
(* nobody opens the monitor.                                               *)
THEOREM TakeTerminates == Spec => []NeverRunsAway
<1>1. Init => (alone => TakeInv)
  BY DEF Init, TakeInv, SawOne
<1>2. Spec => []IInv
  BY InitIInv, StepIInv, PTL DEF Spec
<1>3. IInv /\ (alone => TakeInv) /\ [Next]_vars => (alone => TakeInv)'
  BY StepTakeInv
<1>4. (alone => TakeInv) => NeverRunsAway
  BY DEF TakeInv, NeverRunsAway
<1> QED BY <1>1, <1>2, <1>3, <1>4, PTL DEF Spec
-----------------------------------------------------------------------------
(* Events stay whole under masked posting: from the call of event_new to   *)
(* its ret no handler runs, so r8 is still the queue pointer and the words *)
(* stored so far are still there.                                          *)

Posting == op = "new" /\ pc # "run"

WholeInv ==
  /\ WholeQueue
  /\ mon => iflag
  /\ Posting => ~iflag /\ arg \in ProgramEvents
  /\ pc \in {"new_store", "new_mov"} => r8 = ptr
  /\ pc = "new_store" => \A j \in 1..Words : j < w => slots[r8][j] = arg[j]
  /\ pc = "new_mov" => slots[r8] = arg

LEMMA SameEvent ==
  ASSUME NEW e \in Event, NEW f \in Event, \A j \in 1..Words : e[j] = f[j]
  PROVE  e = f
<1>2. e = [j \in 1..Words |-> e[j]] /\ f = [j \in 1..Words |-> f[j]]
  BY Zenon DEF Event
<1>3. [j \in 1..Words |-> e[j]] = [j \in 1..Words |-> f[j]]
  BY Zenon
<1> QED BY <1>2, <1>3, Zenon

LEMMA StoredWhole ==
  ASSUME NEW e \in Event, NEW f \in Event, \A j \in 1..Words : j <= Words => e[j] = f[j]
  PROVE  e = f
<1>1. \A j \in 1..Words : e[j] = f[j]
  BY EventsAssumption
<1> QED BY <1>1, SameEvent

LEMMA MaskedWholeInv ==
  ASSUME IInv, WholeInv, [Next]_vars, \A e \in ProgramEvents : CallNew(e) => ~iflag
  PROVE  WholeInv'
<1> USE EventsAssumption
    DEF IInv, TypeOK, Initialised, Room, PostPcs, WholeInv, WholeQueue, Posting, BOTTOM
<1>1. CASE ~mon /\ Client
  BY <1>1 DEF Client, CallNext, CallWait, CallNew, SetFlag
<1>2. CASE InitCmp \/ InitMov
  BY <1>2 DEF InitCmp, InitMov, AfterInit
<1>3. CASE WaitIse \/ WaitHalt \/ WaitCmp \/ WaitJmp
  BY <1>3 DEF WaitIse, WaitHalt, WaitCmp, WaitJmp
<1>4. CASE ~mon /\ (NextCmp \/ NextEmpty \/ NextSome \/ NextRunaway)
  BY <1>4 DEF NextCmp, NextEmpty, NextSome, NextRunaway
<1>5. CASE NextTake
  <2>1. \A i \in 1..Slots : i < ptr' => slots'[i] = slots[i + 1]
    BY <1>5 DEF NextTake, Shifted
  <2> QED BY <1>5, <2>1 DEF NextTake
<1>6. CASE NewLoad
  BY <1>6 DEF NewLoad
<1>7. CASE NewStore
  <2> USE DEF NewStore
  <2>1. \A i \in 1..Slots : i # r8 => slots'[i] = slots[i]
    BY <1>7
  <2>2. slots'[r8] = [slots[r8] EXCEPT ![w] = arg[w]]
    BY <1>7
  <2>3. slots[r8] \in Event /\ arg \in Event
    BY <1>7
  <2>4. \A j \in 1..Words : j <= w => slots'[r8][j] = arg[j]
    BY <1>7, <2>2, <2>3 DEF Event
  <2>5. w = Words => slots'[r8] = arg
    <3> DEFINE e == slots'[r8]
    <3>1. e \in Event /\ arg \in Event
      BY <1>7, <2>3, StepIInv
    <3>2. ASSUME w = Words PROVE \A j \in 1..Words : j <= Words => e[j] = arg[j]
      BY <2>4, <3>2, Zenon
    <3> HIDE DEF e, NewStore, IInv, WholeInv
    <3>3. ASSUME w = Words PROVE e = arg
      BY <3>1, <3>2, <3>3, StoredWhole
    <3> QED BY <3>3, Zenon DEF e
  <2>6. WholeQueue'
    <3>1. ptr' = ptr /\ r8 = ptr
      BY <1>7
    <3>2. ptr \in Nat /\ Slots \in Nat
      BY <1>7
    <3>3. WholeQueue
      BY <1>7
    <3> HIDE DEF NewStore, IInv, WholeInv
    <3> QED BY <2>1, <3>1, <3>2, <3>3 DEF WholeQueue
  <2>7. pc' = "new_store" => \A j \in 1..Words : j < w' => slots'[r8][j] = arg[j]
    BY <1>7, <2>4
  <2>8. pc' = "new_mov" => slots'[r8] = arg
    BY <1>7, <2>5
  <2>9. /\ mon' => iflag'
        /\ Posting' => ~iflag' /\ arg' \in ProgramEvents
        /\ r8' = r8 /\ arg' = arg /\ r8' = ptr'
    BY <1>7
  <2> HIDE DEF NewStore, IInv, WholeQueue, Posting
  <2> QED BY <2>6, <2>7, <2>8, <2>9
<1>8. CASE NewMov
  BY <1>8 DEF NewMov
<1>9. ASSUME NEW es \in Bursts, VSync(es) PROVE WholeInv'
  <2> USE DEF VSync, Woken
  <2>1. /\ Len(es) \in Nat
        /\ es \in [1..Len(es) -> HandlerEvents]
        /\ (es = <<>>) <=> (Len(es) = 0)
    BY BurstTyped
  <2>2. ASSUME NEW i \in 1..Slots, i < ptr'
        PROVE  slots'[i] \in HandlerEvents \cup ProgramEvents
    <3>1. slots'[i] = IF i \in Base .. Base + Len(es) - 1
                        THEN es[i - Base + 1] ELSE slots[i]
      BY <1>9 DEF Stored
    <3>2. CASE i \in Base .. Base + Len(es) - 1
      <4>1. i - Base + 1 \in 1..Len(es)
        BY <2>1, <3>2 DEF Base
      <4>2. es[i - Base + 1] \in HandlerEvents
        BY <2>1, <4>1
      <4> QED BY <3>1, <3>2, <4>2, Zenon
    <3>3. CASE i \notin Base .. Base + Len(es) - 1
      <4>1. i < ptr
        BY <1>9, <2>1, <2>2, <3>3 DEF Base
      <4> QED BY <3>1, <3>3, <4>1
    <3> QED BY <3>2, <3>3
  <2>3. ~Posting /\ pc \notin {"new_store", "new_mov"}
    BY <1>9
  <2> QED BY <1>9, <2>2, <2>3
<1>10. CASE F12
  BY <1>10 DEF F12, Base, Woken
<1>11. CASE MonitorTake
  <2>1. \A i \in 1..Slots : i < ptr' => slots'[i] = slots[i + 1]
    BY <1>11 DEF MonitorTake, Shifted
  <2>2. ~Posting /\ pc \notin {"new_store", "new_mov"}
    BY <1>11 DEF MonitorTake
  <2> QED BY <1>11, <2>1, <2>2 DEF MonitorTake
<1>12. CASE MonitorExit
  BY <1>12 DEF MonitorExit
<1>13. CASE UNCHANGED vars
  BY <1>13 DEF vars
<1> QED
  BY <1>1, <1>2, <1>3, <1>4, <1>5, <1>6, <1>7, <1>8, <1>9, <1>10, <1>11,
     <1>12, <1>13 DEF Next, Routine, Interrupt

LEMMA StepWholeInv == IInv /\ (masked => WholeInv) /\ [Next]_vars => (masked => WholeInv)'
<1> SUFFICES ASSUME IInv, masked => WholeInv, [Next]_vars, masked' PROVE WholeInv'
  OBVIOUS
<1>1. WholeInv
  BY HistoryStep DEF IInv, TypeOK
<1>2. \A e \in ProgramEvents : CallNew(e) => ~iflag
  BY Zenon DEF CallNew
<1> QED BY <1>1, <1>2, MaskedWholeInv

(* If the program posts with interrupts off, no entry of the queue is ever *)
(* torn or unwritten, whether or not the queue had been initialised and    *)
(* whether or not the user opens the monitor.                              *)
THEOREM MaskedPostsStayWhole == Spec => []EventsWhole
<1>1. Init => (masked => WholeInv)
  BY EventsAssumption DEF Init, WholeInv, WholeQueue, Posting, BOTTOM
<1>2. Spec => []IInv
  BY InitIInv, StepIInv, PTL DEF Spec
<1>3. IInv /\ (masked => WholeInv) /\ [Next]_vars => (masked => WholeInv)'
  BY StepWholeInv
<1>4. (masked => WholeInv) => EventsWhole
  BY DEF WholeInv, EventsWhole
<1> QED BY <1>1, <1>2, <1>3, <1>4, PTL DEF Spec
-----------------------------------------------------------------------------
(* Refinement of EventFifo.  Before event__init has moved the pointer the  *)
(* queue is empty, and Base is where it will begin: the routine that is    *)
(* about to move the pointer there finds nothing in the queue.             *)

WarmInv == InWindow => Base = BOTTOM

LEMMA BaseType == IInv => Base \in 1 .. Slots + 1 /\ (ptr # 0 => Base = ptr)
BY EventsAssumption DEF IInv, TypeOK, Base, BOTTOM

LEMMA MaskedWarmInv ==
  ASSUME IInv, WarmInv, [Next]_vars,
         \A es \in Bursts : VSync(es) /\ es # <<>> => ~InWindow
  PROVE  WarmInv'
<1> USE EventsAssumption DEF IInv, TypeOK, Room, WarmInv, InWindow, Base, BOTTOM
<1>1. CASE Client
  BY <1>1 DEF Client, CallNext, CallWait, CallNew, SetFlag
<1>2. CASE InitCmp
  <2>1. zero' <=> ptr = 0
    BY <1>2, Zenon DEF InitCmp
  <2> QED BY <1>2, <2>1 DEF InitCmp
<1>3. CASE InitMov
  BY <1>3 DEF InitMov, AfterInit
<1>4. CASE WaitIse \/ WaitHalt \/ WaitCmp \/ WaitJmp
  BY <1>4 DEF WaitIse, WaitHalt, WaitCmp, WaitJmp
<1>5. CASE NextCmp \/ NextEmpty \/ NextSome \/ NextTake \/ NextRunaway
  BY <1>5 DEF NextCmp, NextEmpty, NextSome, NextTake, NextRunaway
<1>6. CASE NewLoad \/ NewStore \/ NewMov
  BY <1>6 DEF NewLoad, NewStore, NewMov
<1>7. ASSUME NEW es \in Bursts, VSync(es) PROVE WarmInv'
  <2>1. CASE es = <<>>
    BY <1>7, <2>1 DEF VSync, Woken
  <2>2. CASE es # <<>>
    <3>1. ~InWindow
      BY <1>7, <2>2
    <3> QED BY <1>7, <3>1 DEF VSync, Woken
  <2> QED BY <2>1, <2>2
<1>8. CASE F12 \/ MonitorTake \/ MonitorExit
  <2>1. CASE F12
    BY <2>1 DEF F12, Woken
  <2>2. CASE MonitorTake
    BY <2>2 DEF MonitorTake
  <2>3. CASE MonitorExit
    BY <2>3 DEF MonitorExit
  <2> QED BY <1>8, <2>1, <2>2, <2>3
<1>9. CASE UNCHANGED vars
  BY <1>9 DEF vars
<1> QED
  BY <1>1, <1>2, <1>3, <1>4, <1>5, <1>6, <1>7, <1>8, <1>9
     DEF Next, Routine, Interrupt

LEMMA StepWarmInv == IInv /\ (masked => WarmInv) /\ [Next]_vars => (masked => WarmInv)'
<1> SUFFICES ASSUME IInv, masked => WarmInv, [Next]_vars, masked' PROVE WarmInv'
  OBVIOUS
<1>1. WarmInv
  BY HistoryStep DEF IInv, TypeOK
<1>2. \A es \in Bursts : VSync(es) /\ es # <<>> => ~InWindow
  BY Zenon DEF VSync
<1> QED BY <1>1, <1>2, MaskedWarmInv

-----------------------------------------------------------------------------
(* What moves the pointer down.  Only the conditional move of event__init  *)
(* and the last step of event_new put a pointer there that was read some   *)
(* steps before; WarmInv says of the first and WholeInv of the second that *)
(* nothing was posted in between.                                          *)

DropInv == IInv /\ (masked => WholeInv) /\ (masked => WarmInv)

LEMMA StepNoneDropped ==
  DropInv /\ [Next]_vars => [masked' /\ ptr' < ptr => pc = "next_icl" \/ mon]_vars
<1> SUFFICES ASSUME DropInv, [Next]_vars, masked', pc # "next_icl", ~mon
             PROVE  ~(ptr' < ptr)
  BY Zenon
<1>0. IInv /\ WholeInv /\ WarmInv
  BY HistoryStep DEF DropInv, IInv, TypeOK
<1>a. ptr \in Nat /\ (ptr' = ptr => ~(ptr' < ptr))
  BY <1>0, EventsAssumption DEF IInv, TypeOK
<1>1. CASE Client
  BY <1>1, <1>a DEF Client, CallNext, CallWait, CallNew, SetFlag
<1>2. CASE InitMov
  BY <1>0, <1>2, EventsAssumption DEF InitMov, WarmInv, InWindow, Base, BOTTOM, IInv, TypeOK
<1>3. CASE InitCmp \/ WaitIse \/ WaitHalt \/ WaitCmp \/ WaitJmp
  BY <1>3, <1>a DEF InitCmp, WaitIse, WaitHalt, WaitCmp, WaitJmp
<1>4. CASE NextCmp \/ NextEmpty \/ NextSome \/ NextTake \/ NextRunaway
  BY <1>4, <1>a DEF NextCmp, NextEmpty, NextSome, NextTake, NextRunaway
<1>5. CASE NewLoad \/ NewStore
  BY <1>5, <1>a DEF NewLoad, NewStore
<1>6. CASE NewMov
  <2>1. r8 = ptr
    BY <1>0, <1>6 DEF NewMov, WholeInv
  <2> QED BY <1>6, <1>a, <2>1 DEF NewMov
<1>7. ASSUME NEW es \in Bursts, VSync(es) PROVE ~(ptr' < ptr)
  <2>1. Base \in Nat /\ Base >= ptr /\ Len(es) \in Nat
    BY BurstTyped, <1>0, EventsAssumption DEF Base, BOTTOM, IInv, TypeOK
  <2> QED BY <1>7, <1>a, <2>1 DEF VSync
<1>8. CASE F12
  BY <1>8, <1>a DEF F12, Base, BOTTOM
<1>9. CASE MonitorTake \/ MonitorExit
  BY <1>9, <1>a DEF MonitorTake, MonitorExit
<1>10. CASE UNCHANGED vars
  BY <1>10, <1>a DEF vars
<1> QED
  BY <1>1, <1>2, <1>3, <1>4, <1>5, <1>6, <1>7, <1>8, <1>9, <1>10
     DEF Next, Routine, Interrupt

(* As long as the program posts with interrupts off, an event leaves the   *)
(* queue only by being taken: no pointer read before an interrupt is       *)
(* written back over what the interrupt posted.                            *)
THEOREM NothingForgotten == Spec => NoneDropped
<1>1. Init => DropInv
  <2>1. Init => (masked => WarmInv)
    BY DEF Init, WarmInv, InWindow
  <2>2. Init => (masked => WholeInv)
    BY EventsAssumption DEF Init, WholeInv, WholeQueue, Posting, BOTTOM
  <2> QED BY <2>1, <2>2, InitIInv DEF DropInv
<1>2. DropInv /\ [Next]_vars => DropInv'
  BY StepIInv, StepWarmInv, StepWholeInv DEF DropInv
<1> QED BY <1>1, <1>2, StepNoneDropped, PTL DEF Spec, NoneDropped
-----------------------------------------------------------------------------
(* The queue is the first Base - 1 entries. *)
LEMMA QueueShape ==
  ASSUME NEW s \in [1..Slots -> Event], NEW p \in 1 .. Slots + 1
  PROVE  LET q == [i \in 1 .. p - 1 |-> s[i]]
         IN  /\ q \in Seq(Event)
             /\ Len(q) = p - 1
             /\ \A i \in 1 .. p - 1 : q[i] = s[i]
             /\ (q = <<>>) <=> (p = 1)
<1> DEFINE q == [i \in 1 .. p - 1 |-> s[i]]
<1>1. p - 1 \in Nat /\ \A i \in 1 .. p - 1 : i \in 1..Slots
  BY EventsAssumption
<1>2. q \in [1 .. p - 1 -> Event]
  BY <1>1
<1>3. q \in Seq(Event)
  BY <1>1, <1>2
<1>4. Len(q) = p - 1
  BY <1>1, <1>3
<1>5. (q = <<>>) <=> (p = 1)
  BY <1>1, <1>3, <1>4
<1> QED BY <1>3, <1>4, <1>5

(* Two sequences of the same length and elements are the same. *)
LEMMA SameSeq ==
  ASSUME NEW S, NEW a \in Seq(S), NEW b \in Seq(S), Len(a) = Len(b),
         \A i \in 1..Len(a) : a[i] = b[i]
  PROVE  a = b
  OBVIOUS

LEMMA QueueBase ==
  ASSUME IInv
  PROVE  /\ Queue = [i \in 1 .. Base - 1 |-> slots[i]]
         /\ Queue \in Seq(Event)
         /\ Len(Queue) = Base - 1
         /\ \A i \in 1 .. Base - 1 : Queue[i] = slots[i]
         /\ (Queue = <<>>) <=> (Base = BOTTOM)
<1>1. Base \in 1 .. Slots + 1 /\ slots \in [1..Slots -> Event]
  BY BaseType DEF IInv, TypeOK
<1>2. Queue = [i \in 1 .. Base - 1 |-> slots[i]]
  BY EventsAssumption DEF Queue, Base, BOTTOM, IInv, TypeOK
<1> QED BY <1>1, <1>2, QueueShape DEF BOTTOM

LEMMA QueueBasePrime ==
  ASSUME IInv'
  PROVE  /\ Base' \in 1 .. Slots + 1
         /\ Queue' \in Seq(Event)
         /\ Len(Queue') = Base' - 1
         /\ \A i \in 1 .. Base' - 1 : Queue'[i] = slots'[i]
<1>1. Base' \in 1 .. Slots + 1 /\ slots' \in [1..Slots -> Event]
  BY EventsAssumption DEF IInv, TypeOK, Base, BOTTOM
<1>2. Queue' = [i \in 1 .. Base' - 1 |-> slots'[i]]
  BY EventsAssumption DEF Queue, Base, BOTTOM, IInv, TypeOK
<1> QED BY <1>1, <1>2, QueueShape

(* A step that posts es appends it to the queue. *)
LEMMA PostAppends ==
  ASSUME IInv, IInv',
         NEW n \in Nat, NEW es \in [1..n -> Event],
         Base' = Base + n,
         \A i \in 1 .. Base - 1 : slots'[i] = slots[i],
         \A i \in 1..n : slots'[Base - 1 + i] = es[i]
  PROVE  Queue' = Queue \o es
<1>0. Base \in Nat /\ Base >= 1
  BY BaseType, EventsAssumption
<1>1. /\ Queue \in Seq(Event)
      /\ Len(Queue) = Base - 1
      /\ \A i \in 1 .. Base - 1 : Queue[i] = slots[i]
  BY QueueBase
<1>2. /\ Queue' \in Seq(Event)
      /\ Len(Queue') = Base' - 1
      /\ \A i \in 1 .. Base' - 1 : Queue'[i] = slots'[i]
  BY QueueBasePrime
<1>3. es \in Seq(Event) /\ Len(es) = n
  OBVIOUS
<1>4. /\ Queue \o es \in Seq(Event)
      /\ Len(Queue \o es) = Base - 1 + n
      /\ \A i \in 1 .. Base - 1 + n :
           (Queue \o es)[i] = IF i <= Base - 1 THEN Queue[i] ELSE es[i - (Base - 1)]
  <2>1. /\ Queue \o es \in Seq(Event)
        /\ Len(Queue \o es) = Len(Queue) + Len(es)
        /\ \A i \in 1 .. Len(Queue) + Len(es) :
             (Queue \o es)[i] = IF i <= Len(Queue) THEN Queue[i]
                                                  ELSE es[i - Len(Queue)]
    BY <1>1, <1>3, ConcatProperties
  <2> QED BY <1>1, <1>3, <2>1, Zenon
<1>5. ASSUME NEW i \in 1 .. Len(Queue') PROVE Queue'[i] = (Queue \o es)[i]
  <2>1. i \in 1 .. Base - 1 + n /\ Queue'[i] = slots'[i]
    BY <1>0, <1>2, <1>5
  <2>2. CASE i <= Base - 1
    <3>1. i \in 1 .. Base - 1
      BY <1>0, <2>1, <2>2
    <3> QED BY <1>1, <1>4, <2>1, <2>2, <3>1
  <2>3. CASE i > Base - 1
    <3>1. i - (Base - 1) \in 1..n /\ i = Base - 1 + (i - (Base - 1))
      BY <1>0, <2>1, <2>3
    <3>2. slots'[i] = es[i - (Base - 1)]
      BY <3>1
    <3>3. ~(i <= Base - 1)
      BY <1>0, <2>1, <2>3
    <3> QED BY <1>4, <2>1, <3>2, <3>3
  <2>4. i <= Base - 1 \/ i > Base - 1
    BY <1>0, <2>1
  <2> QED BY <2>2, <2>3, <2>4
<1>6. Len(Queue') = Len(Queue \o es)
  BY <1>0, <1>2, <1>4
<1> QED BY <1>2, <1>4, <1>5, <1>6, SameSeq

(* A step that takes leaves the rest of the queue. *)
LEMMA TakeIsTail ==
  ASSUME IInv, IInv', NextTake
  PROVE  Queue # <<>> /\ got' = Head(Queue) /\ Queue' = Tail(Queue)
<1>0. ptr \in 2 .. Slots + 1 /\ ptr' = ptr - 1 /\ Base = ptr /\ Base' = ptr'
  BY DEF NextTake, IInv, TypeOK, Base, BOTTOM
<1>1. /\ Queue \in Seq(Event)
      /\ Len(Queue) = ptr - 1
      /\ \A i \in 1 .. ptr - 1 : Queue[i] = slots[i]
      /\ (Queue = <<>>) <=> (ptr = BOTTOM)
  BY <1>0, QueueBase
<1>2. ptr \in 2 .. Slots + 1 /\ ptr' = ptr - 1
  BY <1>0
<1>3. Queue # <<>> /\ Head(Queue) = slots[1]
  BY <1>1, <1>2 DEF BOTTOM
<1>4. /\ Queue' \in Seq(Event)
      /\ Len(Queue') = ptr' - 1
      /\ \A i \in 1 .. ptr' - 1 : Queue'[i] = slots'[i]
  BY <1>0, QueueBasePrime
<1>5. /\ Tail(Queue) \in Seq(Event)
      /\ Len(Tail(Queue)) = ptr - 2
      /\ \A i \in 1 .. ptr - 2 : Tail(Queue)[i] = Queue[i + 1]
  BY <1>1, <1>2, <1>3
<1>6. \A i \in 1 .. ptr - 2 : slots'[i] = slots[i + 1]
  BY <1>2, EventsAssumption DEF NextTake, Shifted
<1>7. Queue' = Tail(Queue)
  <2>1. Len(Queue') = Len(Tail(Queue))
    BY <1>2, <1>4, <1>5
  <2>2. ASSUME NEW i \in 1 .. Len(Queue') PROVE Queue'[i] = Tail(Queue)[i]
    <3>1. i \in 1 .. ptr - 2 /\ i \in 1 .. ptr' - 1 /\ i + 1 \in 1 .. ptr - 1
      BY <1>2, <1>4, <2>2
    <3> QED BY <1>1, <1>4, <1>5, <1>6, <3>1
  <2> QED BY <1>4, <1>5, <2>1, <2>2, SameSeq
<1> QED BY <1>3, <1>7 DEF NextTake

LEMMA InitFifo == Init => Fifo!Init
<1> SUFFICES ASSUME Init PROVE Queue = <<>> /\ Answer = Empty
  BY DEF Fifo!Init
<1>1. Base = BOTTOM
  BY DEF Init, Base, BOTTOM
<1>2. Queue = <<>>
  BY <1>1, InitIInv, QueueBase
<1> QED BY <1>2 DEF Init, Answer

FifoInv ==
  /\ IInv
  /\ alone => TakeInv
  /\ masked => WholeInv
  /\ masked => WarmInv

LEMMA StepFifo ==
  FifoInv /\ FifoInv' /\ [Next]_vars
    => [masked' /\ alone' => Fifo!Next]_<<Queue, Answer>>
<1> SUFFICES ASSUME FifoInv, FifoInv', [Next]_vars, masked', alone'
             PROVE  [Fifo!Next]_<<Queue, Answer>>
  OBVIOUS
<1>0. IInv /\ IInv' /\ TakeInv /\ WholeInv /\ WarmInv
  <2>1. masked /\ alone
    BY HistoryStep DEF FifoInv, IInv, TypeOK
  <2> QED BY <2>1 DEF FifoInv
<1>a. ASSUME UNCHANGED <<ptr, slots>> PROVE Queue' = Queue
  BY <1>a DEF Queue
<1>b. ASSUME UNCHANGED <<ptr, slots>>, Answer' = Answer
      PROVE  [Fifo!Next]_<<Queue, Answer>>
  BY <1>a, <1>b
<1>1. CASE Client
  BY <1>1, <1>b DEF Client, CallNext, CallWait, CallNew, SetFlag, Answer
<1>2. CASE InitCmp
  BY <1>2, <1>b DEF InitCmp, Answer
<1>3. CASE InitMov
  <2>1. Base' = Base /\ slots' = slots
    BY <1>0, <1>3, BaseType, EventsAssumption
       DEF InitMov, WarmInv, InWindow, Base, BOTTOM, IInv, TypeOK
  <2>2. Queue = [i \in 1 .. Base - 1 |-> slots[i]]
    BY <1>0, QueueBase
  <2>3. Queue' = [i \in 1 .. Base' - 1 |-> slots'[i]]
    BY <1>0, EventsAssumption DEF Queue, Base, BOTTOM, IInv, TypeOK
  <2>4. pc' # "next_jmp" /\ pc # "next_jmp"
    BY <1>3, <1>0 DEF InitMov, AfterInit, IInv, TypeOK
  <2>5. Answer' = Answer
    BY <1>3, <2>4 DEF InitMov, Answer
  <2> QED BY <2>1, <2>2, <2>3, <2>5
<1>4. CASE WaitIse \/ WaitHalt \/ WaitCmp \/ WaitJmp
  BY <1>4, <1>b DEF WaitIse, WaitHalt, WaitCmp, WaitJmp, Answer
<1>5. CASE NextCmp
  <2>1. zero' <=> ptr = BOTTOM
    BY <1>5, Zenon DEF NextCmp
  <2>2. CASE ptr = BOTTOM
    <3>1. Base = BOTTOM
      BY <2>2 DEF Base, BOTTOM
    <3>2. Queue = <<>> /\ Queue' = Queue
      BY <1>0, <1>5, <1>a, <3>1, QueueBase DEF NextCmp
    <3>3. Answer' = Empty
      BY <1>5, <2>1, <2>2 DEF NextCmp, Answer
    <3> QED BY <3>2, <3>3 DEF Fifo!Next, Fifo!TakeNothing
  <2>3. CASE ptr # BOTTOM
    BY <1>5, <1>b, <2>1, <2>3 DEF NextCmp, Answer
  <2> QED BY <2>2, <2>3
<1>6. CASE NextEmpty \/ NextSome \/ NextRunaway
  BY <1>6, <1>b DEF NextEmpty, NextSome, NextRunaway, Answer
<1>7. CASE NextTake
  <2>1. Queue # <<>> /\ got' = Head(Queue) /\ Queue' = Tail(Queue)
    BY <1>0, <1>7, TakeIsTail
  <2>2. Answer' = got'
    BY <1>7 DEF NextTake, Answer
  <2> QED BY <2>1, <2>2 DEF Fifo!Next, Fifo!Take
<1>8. CASE NewLoad
  BY <1>8, <1>b DEF NewLoad, Answer
<1>9. CASE NewStore
  <2>1. ptr' = ptr /\ ptr >= BOTTOM /\ Base = ptr /\ Base' = ptr
    BY <1>0, <1>9 DEF NewStore, IInv, Initialised, Base, BOTTOM
  <2>2. \A i \in 1 .. ptr - 1 : slots'[i] = slots[i]
    BY <1>0, <1>9, EventsAssumption DEF NewStore, WholeInv, IInv, TypeOK, BOTTOM
  <2>3. Queue = [i \in 1 .. ptr - 1 |-> slots[i]] /\ Queue' = [i \in 1 .. ptr - 1 |-> slots'[i]]
    BY <2>1 DEF Queue, BOTTOM
  <2>4. Queue' = Queue
    BY <2>2, <2>3
  <2>5. Answer' = Answer
    BY <1>9 DEF NewStore, Answer
  <2> QED BY <2>4, <2>5
<1>10. CASE NewMov
  <2>1. r8 = ptr /\ slots[ptr] = arg /\ arg \in ProgramEvents
    BY <1>10, <1>0 DEF NewMov, WholeInv, Posting, IInv, Room, PostPcs
  <2>2. <<arg>> \in [1..1 -> Event] /\ <<arg>>[1] = arg
    BY <2>1, EventsAssumption
  <2>3. ptr \in Nat /\ Base = ptr /\ Base' = ptr + 1 /\ slots' = slots
    BY <1>0, <1>10, <2>1 DEF NewMov, IInv, TypeOK, Initialised, Base, BOTTOM
  <2>4. Queue' = Queue \o <<arg>>
    <3>1. \A i \in 1..1 : slots'[Base - 1 + i] = <<arg>>[i]
      BY <2>1, <2>2, <2>3
    <3>2. \A i \in 1 .. Base - 1 : slots'[i] = slots[i]
      BY <2>3
    <3> QED BY <1>0, <2>2, <2>3, <3>1, <3>2, PostAppends
  <2>5. Answer' = Answer
    BY <1>10 DEF NewMov, Answer
  <2>6. Fifo!Post(<<arg>>)
    BY <2>4, <2>5 DEF Fifo!Post
  <2> QED BY <2>1, <2>6 DEF Fifo!Next
<1>11. ASSUME NEW es \in Bursts, VSync(es) PROVE [Fifo!Next]_<<Queue, Answer>>
  <2>1. /\ Len(es) \in Nat
        /\ es \in [1..Len(es) -> HandlerEvents]
        /\ (es = <<>>) <=> (Len(es) = 0)
    BY BurstTyped
  <2>2. Base \in Nat /\ Base >= 1 /\ Base' = Base + Len(es)
    <3>1. Base \in Nat /\ Base >= 1
      BY <1>0, BaseType, EventsAssumption
    <3>2. CASE es = <<>>
      BY <1>11, <2>1, <3>1, <3>2 DEF VSync, Base
    <3>3. CASE es # <<>>
      <4>1. ptr' = Base + Len(es) /\ ptr' # 0
        BY <1>11, <2>1, <3>1, <3>3 DEF VSync
      <4>2. Base' = ptr'
        BY <4>1 DEF Base
      <4> QED BY <3>1, <4>1, <4>2
    <3> QED BY <3>2, <3>3
  <2>3. es \in [1..Len(es) -> Event]
    BY <2>1, EventsAssumption
  <2>4. Base' \in 1 .. Slots + 1
    BY <1>0, QueueBasePrime
  <2>5. \A i \in 1..Slots :
          slots'[i] = IF i \in Base .. Base + Len(es) - 1
                        THEN es[i - Base + 1] ELSE slots[i]
    BY <1>11, Zenon DEF VSync, Stored
  <2>6. \A i \in 1 .. Base - 1 : slots'[i] = slots[i]
    BY <2>1, <2>2, <2>4, <2>5, EventsAssumption
  <2>7. \A i \in 1..Len(es) : slots'[Base - 1 + i] = es[i]
    <3> SUFFICES ASSUME NEW i \in 1..Len(es) PROVE slots'[Base - 1 + i] = es[i]
      OBVIOUS
    <3>1. /\ Base - 1 + i \in 1..Slots
          /\ Base - 1 + i \in Base .. Base + Len(es) - 1
          /\ (Base - 1 + i) - Base + 1 = i
      BY <2>1, <2>2, <2>4, EventsAssumption
    <3> QED BY <2>5, <3>1
  <2>8. Queue' = Queue \o es
    BY <1>0, <2>1, <2>2, <2>3, <2>6, <2>7, PostAppends
  <2>9. Answer' = Answer
    BY <1>11 DEF VSync, Woken, Answer
  <2>10. Fifo!Post(es)
    BY <2>8, <2>9 DEF Fifo!Post
  <2> QED BY <2>10 DEF Fifo!Next
<1>12. CASE F12 \/ MonitorTake \/ MonitorExit
  BY <1>0, <1>12 DEF F12, MonitorTake, MonitorExit, TakeInv
<1>13. CASE UNCHANGED vars
  BY <1>13, <1>b DEF vars, Answer
<1> QED
  BY <1>1, <1>2, <1>3, <1>4, <1>5, <1>6, <1>7, <1>8, <1>9, <1>10, <1>11,
     <1>12, <1>13 DEF Next, Routine, Interrupt

(* As long as the program posts with interrupts off and nobody opens the   *)
(* monitor: every event posted is taken exactly once, whole and in order,  *)
(* and the answer "empty" is only given to a program that looked at an     *)
(* empty queue.  The routines implement EventFifo.                         *)
THEOREM QueueIsFifo == Spec => FifoSpec
<1>1. Init => FifoInv
  <2>1. Init => (masked => WarmInv)
    BY DEF Init, WarmInv, InWindow
  <2>2. Init => (alone => TakeInv)
    BY DEF Init, TakeInv, SawOne
  <2>3. Init => (masked => WholeInv)
    BY EventsAssumption DEF Init, WholeInv, WholeQueue, Posting, BOTTOM
  <2> QED BY <2>1, <2>2, <2>3, InitIInv DEF FifoInv
<1>2. FifoInv /\ [Next]_vars => FifoInv'
  <2> SUFFICES ASSUME FifoInv, [Next]_vars PROVE FifoInv'
    OBVIOUS
  <2>1. IInv' /\ (alone => TakeInv)' /\ (masked => WholeInv)' /\ (masked => WarmInv)'
    BY StepIInv, StepWarmInv, StepTakeInv, StepWholeInv DEF FifoInv
  <2> QED BY <2>1 DEF FifoInv
<1>3. FifoInv /\ FifoInv' /\ [Next]_vars
        => [masked' /\ alone' => Fifo!Next]_<<Queue, Answer>>
  BY StepFifo
<1>4. Spec => []FifoInv
  BY <1>1, <1>2, PTL DEF Spec
<1> QED BY <1>1, <1>3, <1>4, InitFifo, PTL DEF Spec, FifoSpec
=============================================================================
