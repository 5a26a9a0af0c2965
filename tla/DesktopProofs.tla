---------------------------- MODULE DesktopProofs ----------------------------
(***************************************************************************)
(* However mouse_update and the window thread interleave, a release event  *)
(* stands for a press of its own.  The desktop keeps what Mouse.tla        *)
(* promises, its monitor gives back what it took over, and a menu is       *)
(* served and chosen from as it is drawn, for any menus and any number of  *)
(* inputs.                                                                 *)
(***************************************************************************)
EXTENDS Desktop, TLAPS

(* The mouse. *)
One(b) == IF b THEN 1 ELSE 0

(* The release events that may still be given without another press: one   *)
(* for a release already recorded and one for a button that is down or     *)
(* recorded as held.  Once mouse_update has read the bits it is its copy   *)
(* that counts, for it will overwrite whatever the window thread records.  *)
Owed ==
  IF pc = "idle"
    THEN One("released" \in bits) + One("held" \in bits \/ down)
    ELSE One("released" \in r3) + One("held" \in r3 \/ down)

Inv == TypeOK /\ releases + Owed <= presses

LEMMA OneType == \A b : One(b) \in {0, 1}
BY DEF One

LEMMA CountType ==
  ASSUME NEW n \in 0 .. MaxPresses + 1
  PROVE  Count(n) \in 0 .. MaxPresses + 1 /\ (n <= MaxPresses => Count(n) = n + 1)
BY MouseAssumption DEF Count

LEMMA InvInit == Init => Inv
<1> SUFFICES ASSUME Init PROVE Inv
  OBVIOUS
<1>1. TypeOK
  <2>1. down \in BOOLEAN /\ pressed \in BOOLEAN /\ patient \in BOOLEAN
    BY Zenon DEF Init
  <2>2. 0 \in 0..MaxPresses /\ 0 \in 0 .. MaxPresses + 1
    BY MouseAssumption
  <2>3. presses \in 0..MaxPresses /\ clicks \in 0 .. MaxPresses + 1
        /\ releases \in 0 .. MaxPresses + 1
    BY <2>2, Zenon DEF Init
  <2>4. bits \subseteq Bits /\ r3 \subseteq Bits
    BY Zenon DEF Init
  <2>5. pc = "idle"
    BY Zenon DEF Init
  <2> QED BY <2>1, <2>3, <2>4, <2>5 DEF TypeOK
<1>2. Owed = 0
  BY DEF Init, Owed, One
<1> QED BY <1>1, <1>2 DEF Init, Inv

LEMMA PatienceType == (patient /\ Settled) \in BOOLEAN
BY Zenon

LEMMA TypeStep == TypeOK /\ [Next]_vars => TypeOK'
<1> SUFFICES ASSUME TypeOK, [Next]_vars PROVE TypeOK'
  OBVIOUS
<1> USE DEF TypeOK
<1>1. CASE Press
  <2>1. presses' \in 0..MaxPresses
    BY <1>1, MouseAssumption DEF Press
  <2>2. down' \in BOOLEAN /\ pressed' \in BOOLEAN
    BY <1>1, Zenon DEF Press
  <2>3. patient' \in BOOLEAN
    BY <1>1, PatienceType DEF Press
  <2> QED BY <1>1, <2>1, <2>2, <2>3 DEF Press
<1>2. CASE LetGo
  <2>1. down' \in BOOLEAN
    BY <1>2, Zenon DEF LetGo
  <2>2. patient' \in BOOLEAN
    BY <1>2, PatienceType DEF LetGo
  <2> QED BY <1>2, <2>1, <2>2 DEF LetGo
<1>3. CASE Look
  <2>1. bits' \subseteq Bits
    BY <1>3 DEF Look, Seen, Mark, Bits
  <2>2. pressed' \in BOOLEAN
    BY <1>3, Zenon DEF Look
  <2> QED BY <1>3, <2>1, <2>2 DEF Look
<1>4. CASE Read
  <2>1. r3' \subseteq Bits /\ (pc' # "idle" => r3' = bits)
    BY <1>4 DEF Read, Keep
  <2>2. /\ pc' \in {"idle", "click", "release"}
        /\ pc' = "click" => "clicked" \in bits
        /\ pc' = "release" => "released" \in bits
    BY <1>4 DEF Read
  <2> QED BY <1>4, <2>1, <2>2 DEF Read
<1>5. CASE Click
  <2>1. bits' \subseteq Bits
    BY <1>5 DEF Click, ClearClick
  <2>2. /\ pc' \in {"idle", "release"}
        /\ pc' = "release" => "released" \in r3'
        /\ r3' \subseteq Bits
    BY <1>5 DEF Click, Keep
  <2>3. clicks' \in 0 .. MaxPresses + 1
    BY <1>5, CountType DEF Click
  <2> QED BY <1>5, <2>1, <2>2, <2>3 DEF Click
<1>6. CASE Release
  <2>1. releases' \in 0 .. MaxPresses + 1
    BY <1>6, CountType DEF Release
  <2>2. r3' \subseteq Bits
    BY <1>6 DEF Release, Keep
  <2>3. bits' \subseteq Bits
    BY <1>6 DEF Release
  <2> QED BY <1>6, <2>1, <2>2, <2>3 DEF Release
<1>7. CASE UNCHANGED vars
  BY <1>7 DEF vars
<1> QED BY <1>1, <1>2, <1>3, <1>4, <1>5, <1>6, <1>7 DEF Next, MouseUpdate

(* Only a press raises what is owed, and only by one; a release pays one.  *)
LEMMA OwedStep == Inv /\ [Next]_vars => (releases + Owed <= presses)'
<1> SUFFICES ASSUME Inv, [Next]_vars PROVE (releases + Owed <= presses)'
  OBVIOUS
<1>0. TypeOK /\ releases + Owed <= presses
  BY DEF Inv
<1> USE <1>0 DEF Owed, One
<1>1. CASE Press
  BY <1>1 DEF Press, TypeOK
<1>2. CASE LetGo
  BY <1>2 DEF LetGo, TypeOK
<1>3. CASE Look
  <2>1. ("released" \in bits') <=> ("released" \in bits \/ ("held" \in bits /\ ~down))
    BY <1>3 DEF Look, Seen, Mark
  <2>2. ("held" \in bits') <=> down
    BY <1>3 DEF Look, Seen, Mark
  <2> QED BY <1>3, <2>1, <2>2 DEF Look, TypeOK
<1>4. CASE Read
  BY <1>4 DEF Read, Keep, TypeOK
<1>5. CASE Click
  <2>1. /\ ("released" \in bits') <=> ("released" \in r3)
        /\ ("held" \in bits') <=> ("held" \in r3)
    BY <1>5 DEF Click, ClearClick
  <2>2. pc = "click" /\ pc' = (IF "released" \in r3 THEN "release" ELSE "idle")
        /\ r3' = (IF pc' = "idle" THEN {} ELSE r3)
        /\ UNCHANGED <<down, presses, releases>>
    BY <1>5 DEF Click, Keep
  <2> QED BY <2>1, <2>2 DEF TypeOK
<1>6. CASE Release
  <2>1. /\ "released" \in r3
        /\ "released" \notin bits'
        /\ ("held" \in bits') <=> ("held" \in r3)
    BY <1>6 DEF Release, TypeOK
  <2>2. pc = "release" /\ pc' = "idle" /\ UNCHANGED <<down, presses>>
    BY <1>6 DEF Release
  <2>3. releases' = releases + 1
    <3>1. Owed \in {1, 2}
      BY <2>1, <2>2
    <3>2. releases \in 0 .. MaxPresses + 1 /\ presses \in 0..MaxPresses
      BY DEF TypeOK
    <3> HIDE DEF Owed
    <3>3. releases <= MaxPresses
      BY <3>1, <3>2, MouseAssumption
    <3> QED BY <1>6, <3>2, <3>3, CountType DEF Release
  <2> QED BY <2>1, <2>2, <2>3 DEF TypeOK
<1>7. CASE UNCHANGED vars
  BY <1>7 DEF vars
<1> QED BY <1>1, <1>2, <1>3, <1>4, <1>5, <1>6, <1>7 DEF Next, MouseUpdate

(* The bits, the registers and counters are typed, and a release is    *)
(* never reported twice, for every number of presses.                      *)
THEOREM ReleasesPaid == Spec => [](TypeOK /\ ReleasesBounded)
<1>1. Inv /\ [Next]_vars => Inv'
  BY TypeStep, OwedStep DEF Inv
<1>2. Inv => TypeOK /\ ReleasesBounded
  BY DEF Inv, TypeOK, ReleasesBounded, Owed, One
<1> QED BY InvInit, <1>1, <1>2, PTL DEF Spec
-----------------------------------------------------------------------------
(* While the user is patient the machine goes from rest to rest through    *)
(* one of two chains of phases: a press seen, read and answered, or a      *)
(* release seen, read and answered.                                        *)
Rest ==
  /\ Settled
  /\ clicks = presses
  /\ releases + One(down) = presses

(* The button went down: the window thread has yet to look, it has looked, *)
(* and mouse_update has read the bits.                                     *)
Pushed ==
  /\ down /\ clicks + 1 = presses /\ releases + 1 = presses
  /\ \/ pressed /\ bits = {} /\ pc = "idle"
     \/ ~pressed /\ bits = {"clicked", "held"} /\ pc = "idle"
     \/ ~pressed /\ bits = {"clicked", "held"} /\ pc = "click" /\ r3 = bits

(* It went up, likewise. *)
Freed ==
  /\ ~down /\ ~pressed /\ clicks = presses /\ releases + 1 = presses
  /\ \/ bits = {"held"} /\ pc = "idle"
     \/ bits = {"released"} /\ pc = "idle"
     \/ bits = {"released"} /\ pc = "release" /\ r3 = bits

PatientInv == TypeOK /\ (patient => Rest \/ Pushed \/ Freed)

LEMMA PatientInit == Init => PatientInv
<1> SUFFICES ASSUME Init PROVE PatientInv
  OBVIOUS
<1>1. TypeOK
  BY InvInit DEF Inv
<1>2. ~down /\ ~pressed /\ bits = {} /\ pc = "idle"
  BY Zenon DEF Init
<1>3. Rest
  BY <1>2 DEF Init, Rest, Settled, One
<1> QED BY <1>1, <1>3 DEF PatientInv

LEMMA PatientStep == PatientInv /\ [Next]_vars => PatientInv'
<1> SUFFICES ASSUME PatientInv, [Next]_vars, patient' PROVE (Rest \/ Pushed \/ Freed)'
  BY TypeStep DEF PatientInv
<1>0. /\ TypeOK
      /\ presses \in 0..MaxPresses /\ clicks \in 0 .. MaxPresses + 1
      /\ releases \in 0 .. MaxPresses + 1 /\ MaxPresses \in Nat
  BY MouseAssumption DEF PatientInv, TypeOK
<1> USE DEF One
<1>1. CASE Press
  <2>1. patient /\ Settled
    BY <1>1 DEF Press
  <2>2. ~down /\ down' /\ pressed' /\ presses' = presses + 1
        /\ UNCHANGED <<bits, pc, clicks, releases>>
    BY <1>1 DEF Press
  <2>3. Rest
    BY <2>1, <2>2 DEF PatientInv, Pushed, Freed, Settled
  <2>4. Pushed'
    BY <1>0, <2>1, <2>2, <2>3 DEF Rest, Settled, Pushed
  <2> QED BY <2>4
<1>2. CASE LetGo
  <2>1. patient /\ Settled
    BY <1>2 DEF LetGo
  <2>2. down /\ ~down' /\ UNCHANGED <<pressed, bits, pc, presses, clicks, releases>>
    BY <1>2 DEF LetGo
  <2>3. Rest
    BY <2>1, <2>2 DEF PatientInv, Pushed, Freed, Settled
  <2>4. Freed'
    BY <1>0, <2>1, <2>2, <2>3 DEF Rest, Settled, Freed
  <2> QED BY <2>4
<1>3. CASE Look
  <2>1. patient /\ ~pressed' /\ bits' = Seen
        /\ UNCHANGED <<down, pc, r3, presses, clicks, releases>>
    BY <1>3 DEF Look
  <2>2. CASE Rest
    <3>1. bits' = bits
      BY <2>1, <2>2 DEF Rest, Settled, Seen, Mark
    <3> QED BY <2>1, <2>2, <3>1 DEF Rest, Settled
  <2>3. CASE Pushed
    <3>1. bits' = {"clicked", "held"}
      BY <2>1, <2>3 DEF Pushed, Seen, Mark
    <3> QED BY <2>1, <2>3, <3>1 DEF Pushed
  <2>4. CASE Freed
    <3>1. bits' = {"released"}
      BY <2>1, <2>4 DEF Freed, Seen, Mark
    <3> QED BY <2>1, <2>4, <3>1 DEF Freed
  <2> QED BY <2>1, <2>2, <2>3, <2>4 DEF PatientInv
<1>4. CASE Read
  <2>1. patient /\ pc = "idle" /\ (pc' # "idle" => r3' = bits)
        /\ UNCHANGED <<down, pressed, bits, presses, clicks, releases>>
    BY <1>4 DEF Read, Keep
  <2>2. /\ "clicked" \in bits /\ "released" \notin bits => pc' = "click"
        /\ "clicked" \notin bits /\ "released" \in bits => pc' = "release"
        /\ "clicked" \notin bits /\ "released" \notin bits => pc' = "idle"
    BY <1>4 DEF Read
  <2>3. CASE Rest
    <3>1. "clicked" \notin bits /\ "released" \notin bits
      BY <2>3 DEF Rest, Settled
    <3>2. pc' = pc
      BY <2>1, <2>2, <3>1
    <3> QED BY <2>1, <2>3, <3>2 DEF Rest, Settled
  <2>4. CASE Pushed
    BY <2>1, <2>2, <2>4 DEF Pushed
  <2>5. CASE Freed
    BY <2>1, <2>2, <2>5 DEF Freed
  <2> QED BY <2>1, <2>3, <2>4, <2>5 DEF PatientInv
<1>5. CASE Click
  <2>1. patient /\ pc = "click" /\ bits' = r3 \ {"clicked"} /\ clicks' = Count(clicks)
        /\ UNCHANGED <<down, pressed, presses, releases>>
    BY <1>5 DEF Click, ClearClick
  <2>2. Pushed /\ r3 = {"clicked", "held"}
    BY <2>1 DEF PatientInv, Rest, Settled, Pushed, Freed
  <2>3. pc' = "idle"
    BY <1>5, <2>2 DEF Click
  <2>4. clicks' = clicks + 1
    BY <1>0, <2>1, <2>2 DEF Count, Pushed
  <2>5. Rest'
    BY <1>0, <2>1, <2>2, <2>3, <2>4 DEF Rest, Settled, Pushed
  <2> QED BY <2>5
<1>6. CASE Release
  <2>1. patient /\ pc = "release" /\ bits' = r3 \ {"released"}
        /\ releases' = Count(releases) /\ pc' = "idle"
        /\ UNCHANGED <<down, pressed, presses, clicks>>
    BY <1>6 DEF Release
  <2>2. Freed /\ r3 = {"released"}
    BY <2>1 DEF PatientInv, Rest, Settled, Pushed, Freed
  <2>3. releases' = releases + 1
    BY <1>0, <2>1, <2>2 DEF Count, Freed
  <2>4. Rest'
    BY <1>0, <2>1, <2>2, <2>3 DEF Rest, Settled, Freed
  <2> QED BY <2>4
<1>7. CASE UNCHANGED vars
  BY <1>7 DEF vars, PatientInv, Rest, Settled, Pushed, Freed
<1> QED BY <1>1, <1>2, <1>3, <1>4, <1>5, <1>6, <1>7 DEF Next, MouseUpdate

(* A patient user's presses and releases are counted exactly, however      *)
(* often the threads look in between and for every number of presses.      *)
THEOREM PatientUserCounted == Spec => []EachCounted
<1>1. PatientInv => EachCounted
  <2> SUFFICES ASSUME PatientInv, patient, Settled
               PROVE  clicks = presses /\ releases = IF down THEN presses - 1 ELSE presses
    BY DEF EachCounted
  <2>1. Rest
    BY DEF PatientInv, Pushed, Freed, Settled
  <2>2. presses \in Nat /\ releases \in Nat
    BY MouseAssumption DEF PatientInv, TypeOK
  <2> QED BY <2>1, <2>2 DEF Rest, One
<1> QED BY <1>1, PatientInit, PatientStep, PTL DEF Spec
-----------------------------------------------------------------------------
(* The desktop. *)

(* The desktop does with the button what Mouse.tla says.                   *)
LEMMA DesktopStepsMouse == [DesktopNext]_dvars => [Next]_vars
<1> SUFFICES ASSUME [DesktopNext]_dvars PROVE [Next]_vars
  OBVIOUS
<1>1. CASE Hand
  BY <1>1 DEF Hand, Next
<1>2. CASE Poll
  BY <1>2 DEF Poll, Next
<1>3. CASE Vsync
  BY <1>3 DEF Vsync, ReadAt, ClickAt, ReleaseAt, Next, MouseUpdate
<1>4. CASE TypeExit \/ F12
  BY <1>4 DEF TypeExit, F12
<1>5. CASE MonitorStep
  BY <1>5 DEF MonitorStep, StartShell, ShellTake, ExitMonitor
<1>6. CASE LoopStep
  BY <1>6 DEF LoopStep, Take, OpenMenu, ClickBesideNames, Closed, Outside, Hover, LookHeld,
              AwaitRelease, PostLoad, PostStore, PostMove, CloseMenu
<1>7. CASE UNCHANGED dvars
  BY <1>7 DEF dvars
<1> QED BY <1>1, <1>2, <1>3, <1>4, <1>5, <1>6, <1>7 DEF DesktopNext

(* Whatever the event loop, the monitor and the keyboard do, the button    *)
(* is counted as in Mouse.tla.                                             *)
THEOREM DesktopImplementsMouse == DesktopSpec => Spec
<1>1. DesktopInit => Init
  BY DEF DesktopInit
<1> QED BY <1>1, DesktopStepsMouse, PTL DEF DesktopSpec, Spec

(* A release is never reported twice, and of a patient user everything is  *)
(* counted, on the desktop as well.                                        *)
THEOREM DesktopCounts == DesktopSpec => [](ReleasesBounded /\ EachCounted)
BY DesktopImplementsMouse, ReleasesPaid, PatientUserCounted, PTL
-----------------------------------------------------------------------------
(* The monitor. *)

Stages == {"enter", "shell", "lost"}

(* Unless the monitor was invoked from within itself, it is either not     *)
(* running and the vsync handler is its own, or it is running once and has *)
(* saved the handler that was there before.                                *)
MonitorInv ==
  /\ frames \in Seq(Stages)
  /\ InMonitor => monitored
  /\ ~nested =>
       \/ frames = <<>> /\ vector = "system"
       \/ /\ frames \in {<<"enter">>, <<"shell">>}
          /\ saved = "system"
          /\ frames = <<"shell">> => oldRsp = 1

LEMMA SingleFrame ==
  ASSUME NEW s
  PROVE  Len(<<s>>) = 1 /\ Last(<<s>>) = s /\ Front(<<s>>) = <<>> /\ <<s>> # <<>>
BY DEF Last, Front

LEMMA FrontStages ==
  ASSUME NEW f \in Seq(Stages), f # <<>>
  PROVE  Front(f) \in Seq(Stages)
BY DEF Front

LEMMA MonitorInit == DesktopInit => MonitorInv
BY DEF DesktopInit, MonitorInv, InMonitor

LEMMA MonitorUnchanged == MonitorInv /\ UNCHANGED monitor => MonitorInv'
BY DEF MonitorInv, InMonitor, monitor

LEMMA MonitorKept == MonitorInv /\ [DesktopNext]_dvars => MonitorInv'
<1> SUFFICES ASSUME MonitorInv, [DesktopNext]_dvars PROVE MonitorInv'
  OBVIOUS
<1>1. CASE F12
  <2>1. frames' = Append(frames, "enter") /\ vector' = "monitor" /\ saved' = vector
        /\ monitored' = TRUE /\ nested' = (nested \/ InMonitor)
    BY <1>1 DEF F12
  <2>2. frames' \in Seq(Stages)
    BY <2>1 DEF MonitorInv, Stages
  <2>3. ASSUME ~nested'
        PROVE  frames' = <<"enter">> /\ saved' = "system"
    <3>1. ~nested /\ frames = <<>>
      BY <2>1, <2>3 DEF InMonitor
    <3> QED BY <3>1, <2>1 DEF MonitorInv
  <2>4. <<"enter">> # <<"shell">>
    OBVIOUS
  <2> QED BY <2>1, <2>2, <2>3, <2>4 DEF MonitorInv
<1>2. CASE StartShell
  <2>1. frames # <<>> /\ Last(frames) = "enter" /\ frames' = Append(Front(frames), "shell")
        /\ oldRsp' = Len(frames) /\ UNCHANGED <<vector, saved, monitored, nested>>
    BY <1>2 DEF StartShell, MonitorRuns, InMonitor
  <2>2. frames' \in Seq(Stages)
    BY <2>1, FrontStages DEF MonitorInv, Stages
  <2>3. monitored'
    BY <2>1 DEF MonitorInv, InMonitor
  <2>4. ASSUME ~nested'
        PROVE  frames' = <<"shell">> /\ saved' = "system" /\ oldRsp' = 1
    <3>1. frames = <<"enter">> /\ saved = "system"
      BY <2>1, <2>4, SingleFrame DEF MonitorInv
    <3>2. Append(<<>>, "shell") = <<"shell">>
      OBVIOUS
    <3>3. Front(frames) = <<>> /\ Len(frames) = 1
      BY <3>1, SingleFrame, Zenon
    <3> QED BY <3>1, <3>2, <3>3, <2>1, Zenon
  <2> QED BY <2>2, <2>3, <2>4 DEF MonitorInv
<1>3. CASE ExitMonitor
  <2>1. frames # <<>> /\ Last(frames) = "shell" /\ vector' = saved
        /\ frames' = (IF oldRsp = Len(frames) THEN Front(frames) ELSE Append(Front(frames), "lost"))
        /\ UNCHANGED <<saved, oldRsp, monitored, nested>>
    BY <1>3 DEF ExitMonitor, MonitorRuns, InMonitor
  <2>2. frames' \in Seq(Stages)
    BY <2>1, FrontStages DEF MonitorInv, Stages
  <2>3. monitored'
    BY <2>1 DEF MonitorInv, InMonitor
  <2>4. ASSUME ~nested'
        PROVE  frames' = <<>> /\ vector' = "system"
    <3>1. frames = <<"shell">> /\ saved = "system" /\ oldRsp = 1
      BY <2>1, <2>4, SingleFrame DEF MonitorInv
    <3> QED BY <3>1, <2>1, SingleFrame
  <2> QED BY <2>2, <2>3, <2>4 DEF MonitorInv
<1>4. CASE UNCHANGED monitor
  BY <1>4, MonitorUnchanged
<1>5. CASE Hand \/ Poll \/ Vsync \/ TypeExit \/ ShellTake
  BY <1>5, <1>4 DEF Hand, Poll, Vsync, ReadAt, ClickAt, ReleaseAt, TypeExit, ShellTake, desktop
<1>6. CASE LoopStep
  BY <1>6, <1>4 DEF LoopStep, Take, OpenMenu, ClickBesideNames, Closed, Outside, Hover, LookHeld,
                    AwaitRelease, PostLoad, PostStore, PostMove, CloseMenu
<1>7. CASE UNCHANGED dvars
  BY <1>7, <1>4 DEF dvars, desktop
<1> QED BY <1>1, <1>2, <1>3, <1>5, <1>6, <1>7 DEF DesktopNext, MonitorStep

(* After every exit the machine listens again, unless F12 was pressed      *)
(* within the monitor.                                                     *)
THEOREM MonitorGivesBack == DesktopSpec => []DesktopListens
<1>1. MonitorInv => DesktopListens
  BY SingleFrame DEF MonitorInv, DesktopListens, InMonitor
<1> QED BY <1>1, MonitorInit, MonitorKept, PTL DEF DesktopSpec
-----------------------------------------------------------------------------
(* The event loop: types. *)

Kinds == {"none", "menu update", "menu click", "bar click", "mouse click", "mouse release", "key"}

Entry == [kind : Kinds, x : Nat, root : Nat, item : Nat]

(* What the event loop is handling suits the place it is at, and the entry *)
(* that its new_event writes to is there.                                  *)
DesktopTypeOK ==
  /\ cursor \in [x : Nat, y : Nat]
  /\ queue \in Seq(Entry)
  /\ beyond \in Seq(Entry)
  /\ at \in {"loop", "bar", "hover", "held", "wait", "post", "kind", "x", "rest", "move", "close"}
  /\ task \in Entry
  /\ at \in {"hover", "held", "wait"} => task.kind = "menu update"
  /\ at = "post" \/ Posting => task.kind \in {"menu update", "menu click"}
  /\ slot \in Nat
  /\ Posting => slot \in 1 .. Len(queue) + Len(beyond)
  /\ ~Posting => beyond = <<>>
  /\ shown \in Nat
  /\ lit \in Nat

LEMMA RootsType == Roots \subseteq Nat \ {0}
BY DesktopAssumption DEF Roots

LEMMA SpotsType == Spots \subseteq [x : Nat, y : Nat]
<1>1. Elsewhere \in [x : Nat, y : Nat]
  BY DEF Elsewhere
<1>2. [x : {0} \cup Roots, y : {0}] \subseteq [x : Nat, y : Nat]
  <2>1. {0} \cup Roots \subseteq Nat /\ {0} \subseteq Nat
    BY RootsType
  <2> QED BY <2>1
<1>3. ASSUME NEW i \in Roots
      PROVE  [x : Span[i], y : 1..Items[i]] \subseteq [x : Nat, y : Nat]
  <2>1. Span[i] \subseteq Nat
    BY DesktopAssumption DEF Roots
  <2>2. 1..Items[i] \subseteq Nat
    BY DesktopAssumption DEF Roots
  <2> QED BY <2>1, <2>2
<1> QED BY <1>1, <1>2, <1>3, Zenon DEF Spots

LEMMA ItemType == cursor \in [x : Nat, y : Nat] => ItemAt(cursor) \in Nat
BY DEF ItemAt

(* The events of the handlers. *)
LEMMA HandEventType ==
  ASSUME DesktopTypeOK
  PROVE  \A e \in {HandEvent("bar click", cursor.x), HandEvent("mouse click", 0),
                   HandEvent("mouse release", 0), Exit} :
           e \in Entry /\ e.kind # "menu update"
<1>1. cursor.x \in Nat
  BY DEF DesktopTypeOK
<1>2. ASSUME NEW k \in Kinds, NEW x \in Nat, k # "menu update"
      PROVE  HandEvent(k, x) \in Entry /\ HandEvent(k, x).kind # "menu update"
  BY <1>2 DEF HandEvent, Event, Entry
<1>3. HandEvent("bar click", cursor.x) \in Entry /\ HandEvent("bar click", cursor.x).kind # "menu update"
  BY <1>1, <1>2 DEF Kinds
<1>4. HandEvent("mouse click", 0) \in Entry /\ HandEvent("mouse click", 0).kind # "menu update"
  BY <1>2 DEF Kinds
<1>5. HandEvent("mouse release", 0) \in Entry /\ HandEvent("mouse release", 0).kind # "menu update"
  BY <1>2 DEF Kinds
<1>6. Exit \in Entry /\ Exit.kind # "menu update"
  BY <1>2 DEF Exit, Kinds
<1> QED BY <1>3, <1>4, <1>5, <1>6, Zenon

(* The events of the menu. *)
LEMMA MenuEventType ==
  ASSUME NEW k \in Kinds, NEW r \in Nat, NEW i \in Nat
  PROVE  /\ MenuEvent(k, r, i) \in Entry
         /\ MenuEvent(k, r, i).kind = k
         /\ MenuEvent(k, r, i).root = r
         /\ MenuEvent(k, r, i).item = i
BY DEF MenuEvent, Event, Entry

LEMMA NoTaskType == NoTask \in Entry /\ NoTask.kind # "menu update"
<1>1. "none" \in Kinds
  BY DEF Kinds
<1> QED BY <1>1, MenuEventType DEF NoTask

LEMMA EntryExcept ==
  ASSUME NEW e \in Entry, NEW k \in Kinds, NEW i \in Nat
  PROVE  /\ [e EXCEPT !.item = i] \in Entry
         /\ [e EXCEPT !.item = i].kind = e.kind
         /\ [e EXCEPT !.item = i].root = e.root
         /\ [e EXCEPT !.item = i].item = i
         /\ [e EXCEPT !.kind = k] \in Entry
         /\ [e EXCEPT !.kind = k].kind = k
         /\ [e EXCEPT !.kind = k].root = e.root
         /\ [e EXCEPT !.kind = k].item = e.item
BY DEF Entry

LEMMA EntryIndices == \A q \in Seq(Entry) : Len(q) \in Nat /\ DOMAIN q \subseteq Nat
OBVIOUS

LEMMA CarryOne == \A m, n \in Nat : (m + 1) + n = m + (n + 1)
OBVIOUS

(* What is appended is the last entry, the others stay where they are.     *)
LEMMA AppendEntry ==
  ASSUME NEW q \in Seq(Entry), NEW e \in Entry
  PROVE  /\ Append(q, e) \in Seq(Entry)
         /\ \A n \in DOMAIN q : n \in DOMAIN Append(q, e) /\ Append(q, e)[n] = q[n]
         /\ Len(q) + 1 \in DOMAIN Append(q, e) /\ Append(q, e)[Len(q) + 1] = e
         /\ \A n \in DOMAIN Append(q, e) : n \in DOMAIN q \/ n = Len(q) + 1
OBVIOUS

(* What is taken is the first entry, the others move down by one.          *)
LEMMA TailEntry ==
  ASSUME NEW q \in Seq(Entry), q # <<>>
  PROVE  /\ Tail(q) \in Seq(Entry)
         /\ 1 \in DOMAIN q /\ Head(q) = q[1] /\ Head(q) \in Entry
         /\ DOMAIN q \subseteq Nat
         /\ \A n \in DOMAIN Tail(q) : n + 1 \in DOMAIN q /\ Tail(q)[n] = q[n + 1] /\ n \in Nat /\ n # 0
         /\ \A n \in DOMAIN q : n = 1 \/ (n - 1 \in DOMAIN Tail(q) /\ Tail(q)[n - 1] = q[n])
OBVIOUS

(* One store of new_event writes one word, or the last ones, of an entry.  *)
LEMMA WrittenEntry ==
  ASSUME NEW e \in Entry, task \in Entry, at \in {"kind", "x", "rest"}
  PROVE  /\ Written(e) \in Entry
         /\ at = "kind" => Written(e).kind = task.kind
         /\ at # "kind" => Written(e).kind = e.kind
         /\ at = "x" => Written(e).x = task.x
         /\ at # "x" => Written(e).x = e.x
         /\ at = "rest" => Written(e).root = task.root /\ Written(e).item = task.item
<1>1. CASE at = "kind"
  BY <1>1 DEF Written, Entry
<1>2. CASE at = "x"
  BY <1>2 DEF Written, Entry
<1>3. CASE at = "rest"
  BY <1>3 DEF Written, Entry
<1> QED BY <1>1, <1>2, <1>3

LEMMA AddType ==
  ASSUME DesktopTypeOK, NEW e \in Entry, Add(e), UNCHANGED <<at, slot>>
  PROVE  /\ queue' \in Seq(Entry) /\ Len(queue') = Len(queue) + 1
         /\ beyond' \in Seq(Entry)
         /\ \A n \in DOMAIN beyond' : n + 1 \in DOMAIN beyond /\ beyond'[n] = beyond[n + 1]
         /\ Posting' => slot' \in 1 .. Len(queue') + Len(beyond')
         /\ ~Posting' => beyond' = <<>>
<1>1. queue \in Seq(Entry) /\ beyond \in Seq(Entry) /\ slot \in Nat
  BY DEF DesktopTypeOK
<1>2. queue' \in Seq(Entry) /\ Len(queue') = Len(queue) + 1
  BY <1>1 DEF Add
<1>3. /\ beyond' \in Seq(Entry)
      /\ \A n \in DOMAIN beyond' : n + 1 \in DOMAIN beyond /\ beyond'[n] = beyond[n + 1]
      /\ Len(beyond') + 1 >= Len(beyond)
      /\ Len(beyond') \in Nat
      /\ beyond = <<>> => beyond' = <<>>
  <2>1. CASE beyond = <<>>
    BY <2>1, <1>1 DEF Add
  <2>2. CASE beyond # <<>>
    <3>1. beyond' = Tail(beyond)
      BY <2>2 DEF Add
    <3> QED BY <2>2, <3>1, <1>1
  <2> QED BY <2>1, <2>2
<1>4. (Posting <=> Posting') /\ slot' = slot
  BY DEF Posting
<1>5. Posting => slot \in 1 .. Len(queue) + Len(beyond)
  BY DEF DesktopTypeOK
<1>6. ~Posting => beyond = <<>>
  BY DEF DesktopTypeOK
<1>7. Posting' => slot' \in 1 .. Len(queue') + Len(beyond')
  BY <1>1, <1>2, <1>3, <1>4, <1>5
<1> QED BY <1>2, <1>3, <1>4, <1>6, <1>7

LEMMA TakeOutType ==
  ASSUME DesktopTypeOK, queue # <<>>, TakeOut, UNCHANGED <<at, slot>>
  PROVE  /\ queue' \in Seq(Entry)
         /\ beyond' \in Seq(Entry)
         /\ Posting' => slot' \in 1 .. Len(queue') + Len(beyond')
         /\ ~Posting' => beyond' = <<>>
<1>1. queue \in Seq(Entry) /\ beyond \in Seq(Entry) /\ slot \in Nat
  BY DEF DesktopTypeOK
<1>2. queue' = Tail(queue) /\ queue' \in Seq(Entry) /\ Len(queue') = Len(queue) - 1
      /\ queue[Len(queue)] \in Entry
  BY <1>1 DEF TakeOut
<1>3. (Posting <=> Posting') /\ slot' = slot
  BY DEF Posting
<1>4. CASE Posting
  <2>1. beyond' = <<queue[Len(queue)]>> \o beyond
    BY <1>4 DEF TakeOut
  <2>2. beyond' \in Seq(Entry) /\ Len(beyond') = Len(beyond) + 1
    BY <2>1, <1>1, <1>2
  <2>3. slot \in 1 .. Len(queue) + Len(beyond)
    BY <1>4 DEF DesktopTypeOK
  <2>4. Len(queue') + Len(beyond') = Len(queue) + Len(beyond)
    BY <1>1, <1>2, <2>2
  <2> QED BY <1>2, <1>3, <1>4, <2>2, <2>3, <2>4
<1>5. CASE ~Posting
  BY <1>5, <1>2, <1>3 DEF TakeOut
<1> QED BY <1>4, <1>5

(* A store leaves the entries where they are and changes the one it is to. *)
LEMMA StoreType ==
  ASSUME DesktopTypeOK, PostStore
  PROVE  /\ at \in {"kind", "x", "rest"} /\ at' = AfterStore[at]
         /\ queue' \in Seq(Entry) /\ Len(queue') = Len(queue) /\ DOMAIN queue' = DOMAIN queue
         /\ beyond' \in Seq(Entry) /\ Len(beyond') = Len(beyond) /\ DOMAIN beyond' = DOMAIN beyond
         /\ \A n \in DOMAIN queue : queue'[n] = IF n = slot THEN Written(queue[n]) ELSE queue[n]
         /\ \A n \in DOMAIN beyond :
              beyond'[n] = IF Len(queue) + n = slot THEN Written(beyond[n]) ELSE beyond[n]
<1>1. queue \in Seq(Entry) /\ beyond \in Seq(Entry) /\ task \in Entry
  BY DEF DesktopTypeOK
<1>2. at \in {"kind", "x", "rest"} /\ at' = AfterStore[at]
  BY DEF PostStore, LoopRuns, AfterStore
<1>3. \A e \in Entry : Written(e) \in Entry
  BY <1>1, <1>2, WrittenEntry
<1>4. queue' = [n \in DOMAIN queue |-> IF n = slot THEN Written(queue[n]) ELSE queue[n]]
  BY DEF PostStore
<1>5. beyond' = [n \in DOMAIN beyond |->
                   IF Len(queue) + n = slot THEN Written(beyond[n]) ELSE beyond[n]]
  BY DEF PostStore
<1>6. queue' \in Seq(Entry) /\ Len(queue') = Len(queue)
  BY <1>1, <1>3, <1>4
<1>7. beyond' \in Seq(Entry) /\ Len(beyond') = Len(beyond)
  BY <1>1, <1>3, <1>5
<1> QED BY <1>2, <1>4, <1>5, <1>6, <1>7

(* The move of the pointer takes over what is in memory below it.          *)
LEMMA MoveType ==
  ASSUME DesktopTypeOK, PostMove
  PROVE  /\ at = "move" /\ queue' \in Seq(Entry) /\ Len(queue') = slot
         /\ \A n \in DOMAIN queue' :
              \/ n \in DOMAIN queue /\ queue'[n] = queue[n]
              \/ n - Len(queue) \in DOMAIN beyond /\ queue'[n] = beyond[n - Len(queue)]
<1>1. queue \in Seq(Entry) /\ beyond \in Seq(Entry)
  BY DEF DesktopTypeOK
<1>2. at = "move"
  BY DEF PostMove, LoopRuns
<1>3. slot \in 1 .. Len(queue) + Len(beyond)
  BY <1>2 DEF DesktopTypeOK, Posting
<1>4. queue' = SubSeq(queue \o beyond, 1, slot)
  BY DEF PostMove
<1> QED BY <1>1, <1>2, <1>3, <1>4

LEMMA TypesInit == DesktopInit => DesktopTypeOK
<1> SUFFICES ASSUME DesktopInit PROVE DesktopTypeOK
  OBVIOUS
<1>1. NoTask \in Entry
  BY NoTaskType
<1>2. Elsewhere \in [x : Nat, y : Nat]
  BY DEF Elsewhere
<1>3. at = "loop" /\ ~Posting
  BY DEF DesktopInit, Posting
<1>4. queue = <<>> /\ beyond = <<>> /\ <<>> \in Seq(Entry)
  BY DEF DesktopInit
<1>5. cursor = Elsewhere /\ task = NoTask /\ slot = 0 /\ shown = 0 /\ lit = 0
  BY DEF DesktopInit
<1> QED BY <1>1, <1>2, <1>3, <1>4, <1>5 DEF DesktopTypeOK

LEMMA TypesUnchanged == DesktopTypeOK /\ UNCHANGED <<cursor, entries, menu>> => DesktopTypeOK'
BY DEF DesktopTypeOK, Posting, entries, menu

(* The steps that leave the queue alone and do not belong to new_event.    *)
LEMMA TypesElsewhere ==
  ASSUME DesktopTypeOK, UNCHANGED <<cursor, entries, slot>>, ~Posting,
         at' \in {"loop", "bar", "hover", "held", "wait", "post", "close"},
         task' \in Entry,
         at' \in {"hover", "held", "wait"} => task'.kind = "menu update",
         at' = "post" => task'.kind \in {"menu update", "menu click"},
         shown' \in Nat, lit' \in Nat
  PROVE  DesktopTypeOK'
<1>1. ~Posting'
  BY DEF Posting
<1> QED BY <1>1 DEF DesktopTypeOK, entries

LEMMA TypesKept == DesktopTypeOK /\ [DesktopNext]_dvars => DesktopTypeOK'
<1> SUFFICES ASSUME DesktopTypeOK, [DesktopNext]_dvars PROVE DesktopTypeOK'
  OBVIOUS
<1>1. NoTask \in Entry
  BY NoTaskType
<1>2. CASE Hand \/ Poll \/ StartShell \/ UNCHANGED dvars
  BY <1>2, TypesUnchanged DEF Hand, Poll, StartShell, dvars, desktop
<1>3. CASE ReadAt
  <2>1. cursor' \in [x : Nat, y : Nat]
    BY <1>3, SpotsType DEF ReadAt
  <2> QED BY <1>3, <2>1 DEF ReadAt, DesktopTypeOK, Posting, entries, menu
<1>4. CASE F12
  <2>1. cursor' \in [x : Nat, y : Nat]
    BY <1>4 DEF F12, Elsewhere
  <2> QED BY <1>4, <2>1 DEF F12, DesktopTypeOK, Posting, entries, menu
<1>5. CASE ClickAt \/ ReleaseAt \/ TypeExit
  <2>1. UNCHANGED <<cursor, menu>>
    BY <1>5 DEF ClickAt, ReleaseAt, TypeExit
  <2>2. UNCHANGED entries \/ \E e \in Entry : Add(e)
    BY <1>5, HandEventType, Zenon DEF ClickAt, ReleaseAt, TypeExit
  <2>3. ASSUME NEW e \in Entry, Add(e)
        PROVE  DesktopTypeOK'
    <3>1. UNCHANGED <<cursor, at, task, slot, shown, lit>>
      BY <2>1 DEF menu
    <3>2. /\ queue' \in Seq(Entry) /\ beyond' \in Seq(Entry)
          /\ Posting' => slot' \in 1 .. Len(queue') + Len(beyond')
          /\ ~Posting' => beyond' = <<>>
      BY <2>3, <3>1, AddType
    <3>3. Posting <=> Posting'
      BY <3>1 DEF Posting
    <3> QED BY <3>1, <3>2, <3>3 DEF DesktopTypeOK
  <2> QED BY <2>1, <2>2, <2>3, TypesUnchanged
<1>6. CASE ShellTake \/ ExitMonitor
  <2>1. queue # <<>> /\ TakeOut /\ UNCHANGED <<cursor, at, task, slot, shown, lit>>
    BY <1>6 DEF ShellTake, ExitMonitor, menu
  <2>2. /\ queue' \in Seq(Entry) /\ beyond' \in Seq(Entry)
        /\ Posting' => slot' \in 1 .. Len(queue') + Len(beyond')
        /\ ~Posting' => beyond' = <<>>
    BY <2>1, TakeOutType
  <2>3. Posting <=> Posting'
    BY <2>1 DEF Posting
  <2> QED BY <2>1, <2>2, <2>3 DEF DesktopTypeOK
<1>7. CASE Take
  <2>1. queue' \in Seq(Entry) /\ Head(queue) \in Entry /\ at = "loop"
    BY <1>7, TailEntry DEF Take, LoopRuns, DesktopTypeOK
  <2>2. UNCHANGED <<cursor, beyond, slot, shown, lit>>
    BY <1>7 DEF Take
  <2>3. /\ task' \in Entry /\ at' \in {"loop", "bar", "hover"}
        /\ at' = "hover" => task'.kind = "menu update"
    <3>1. CASE Head(queue).kind \in {"menu update", "bar click"}
      <4>1. task' = Head(queue) /\ at' = IF task'.kind = "bar click" THEN "bar" ELSE "hover"
        BY <1>7, <3>1 DEF Take
      <4> QED BY <2>1, <3>1, <4>1
    <3>2. CASE Head(queue).kind \notin {"menu update", "bar click"}
      <4>1. UNCHANGED <<task, at>>
        BY <1>7, <3>2 DEF Take
      <4> QED BY <2>1, <4>1 DEF DesktopTypeOK
    <3> QED BY <3>1, <3>2
  <2>4. ~Posting /\ ~Posting'
    BY <2>1, <2>3 DEF Posting
  <2> QED BY <2>1, <2>2, <2>3, <2>4 DEF DesktopTypeOK
<1>8. CASE OpenMenu
  <2>1. task.x \in Nat
    BY DEF DesktopTypeOK, Entry
  <2>2. task' \in Entry /\ task'.kind = "menu update"
    <3>1. task' = MenuEvent("menu update", task.x, 0)
      BY <1>8 DEF OpenMenu
    <3>2. "menu update" \in Kinds /\ 0 \in Nat
      BY DEF Kinds
    <3>3. /\ MenuEvent("menu update", task.x, 0) \in Entry
          /\ MenuEvent("menu update", task.x, 0).kind = "menu update"
      BY <2>1, <3>2 DEF MenuEvent, Event, Entry
    <3> QED BY <3>1, <3>3, Zenon
  <2>3. ~Posting
    BY <1>8 DEF OpenMenu, LoopRuns, Posting
  <2> QED BY <1>8, <2>1, <2>2, <2>3, TypesElsewhere DEF OpenMenu
<1>9. CASE ClickBesideNames \/ Closed
  <2>1. at' = "loop" /\ task' = NoTask /\ UNCHANGED <<cursor, entries, slot>>
    BY <1>9, Zenon DEF ClickBesideNames, Closed
  <2>2. shown' \in {0, shown} /\ lit' \in {0, lit}
    BY <1>9, Zenon DEF ClickBesideNames, Closed
  <2>3. shown' \in Nat /\ lit' \in Nat
    <3>1. shown \in Nat /\ lit \in Nat /\ 0 \in Nat
      BY DEF DesktopTypeOK
    <3> QED BY <2>2, <3>1, Zenon
  <2>4. ~Posting
    BY <1>9 DEF ClickBesideNames, Closed, LoopRuns, Posting
  <2> QED BY <1>1, <2>1, <2>3, <2>4, TypesElsewhere
<1>10. CASE Outside
  <2>1. at = "hover" /\ at' = "post" /\ UNCHANGED <<cursor, entries, task, slot, shown, lit>>
    BY <1>10 DEF Outside, LoopRuns
  <2>2. ~Posting /\ task \in Entry /\ task.kind = "menu update" /\ shown \in Nat /\ lit \in Nat
    BY <2>1 DEF Posting, DesktopTypeOK
  <2> QED BY <2>1, <2>2, TypesElsewhere
<1>11. CASE Hover
  <2>1. ItemAt(cursor) \in Nat
    BY ItemType DEF DesktopTypeOK
  <2>2. at = "hover" /\ at' = "held" /\ UNCHANGED <<cursor, entries, slot>>
    BY <1>11 DEF Hover, LoopRuns
  <2>3. task \in Entry /\ task.kind = "menu update" /\ task.root \in Nat
    BY <2>2 DEF DesktopTypeOK, Entry
  <2>4. task' \in Entry /\ task'.kind = "menu update"
    <3>1. task' = [task EXCEPT !.item = ItemAt(cursor)]
      BY <1>11, Zenon DEF Hover
    <3>2. /\ [task EXCEPT !.item = ItemAt(cursor)] \in Entry
          /\ [task EXCEPT !.item = ItemAt(cursor)].kind = task.kind
      BY <2>1, <2>3 DEF Entry
    <3> QED BY <2>3, <3>1, <3>2, Zenon
  <2>5. shown' \in Nat /\ lit' \in Nat
    BY <1>11, <2>1, <2>3 DEF Hover, DesktopTypeOK
  <2>6. ~Posting
    BY <2>2 DEF Posting
  <2> QED BY <2>2, <2>4, <2>5, <2>6, TypesElsewhere
<1>12. CASE LookHeld
  <2>1. at = "held" /\ at' \in {"wait", "post"} /\ UNCHANGED <<cursor, entries, task, slot, shown, lit>>
    BY <1>12 DEF LookHeld, LoopRuns
  <2>2. ~Posting /\ task \in Entry /\ task.kind = "menu update" /\ shown \in Nat /\ lit \in Nat
    BY <2>1 DEF Posting, DesktopTypeOK
  <2> QED BY <2>1, <2>2, TypesElsewhere
<1>13. CASE AwaitRelease
  <2>1. task' \in Entry /\ task'.kind = "menu click"
    BY <1>13, EntryExcept DEF AwaitRelease, DesktopTypeOK, Kinds
  <2>2. at = "wait" /\ at' = "post" /\ UNCHANGED <<cursor, entries, slot, shown, lit>>
    BY <1>13 DEF AwaitRelease, LoopRuns
  <2>3. ~Posting /\ shown \in Nat /\ lit \in Nat
    BY <2>2 DEF Posting, DesktopTypeOK
  <2> QED BY <2>1, <2>2, <2>3, TypesElsewhere
<1>14. CASE PostLoad
  <2>1. /\ at = "post" /\ at' = "kind" /\ slot' = Len(queue) + 1 /\ beyond' = <<NoTask>>
        /\ UNCHANGED <<cursor, queue, task, shown, lit>>
    BY <1>14 DEF PostLoad, LoopRuns
  <2>2. beyond' \in Seq(Entry) /\ Len(beyond') = 1
    <3>1. <<NoTask>> \in Seq(Entry) /\ Len(<<NoTask>>) = 1
      BY <1>1
    <3> QED BY <2>1, <3>1
  <2>3. Posting'
    BY <2>1 DEF Posting
  <2>4. slot' \in Nat /\ slot' \in 1 .. Len(queue') + Len(beyond')
    <3>1. queue \in Seq(Entry)
      BY DEF DesktopTypeOK
    <3>2. Len(queue) \in Nat
      BY <3>1
    <3> QED BY <2>1, <2>2, <3>2
  <2>5. task.kind \in {"menu update", "menu click"}
    BY <2>1 DEF DesktopTypeOK
  <2> QED BY <2>1, <2>2, <2>3, <2>4, <2>5 DEF DesktopTypeOK
<1>15. CASE PostStore
  <2>1. UNCHANGED <<cursor, task, slot, shown, lit>>
    BY <1>15 DEF PostStore
  <2>2. Posting /\ Posting' /\ at' \in {"x", "rest", "move"}
    BY <1>15, StoreType DEF Posting, AfterStore
  <2> QED BY <1>15, <2>1, <2>2, StoreType DEF DesktopTypeOK
<1>16. CASE PostMove
  <2>1. /\ at' \in {"loop", "close"} /\ task' = NoTask /\ slot' = 0 /\ beyond' = <<>>
        /\ UNCHANGED <<cursor, shown, lit>>
    BY <1>16 DEF PostMove
  <2>2. ~Posting' /\ beyond' \in Seq(Entry) /\ slot' \in Nat
    BY <2>1 DEF Posting
  <2> QED BY <1>1, <1>16, <2>1, <2>2, MoveType DEF DesktopTypeOK
<1>17. CASE CloseMenu
  <2>1. at = "close" /\ at' = "loop" /\ shown' = 0 /\ lit' = 0 /\ UNCHANGED <<cursor, entries, task, slot>>
    BY <1>17 DEF CloseMenu, LoopRuns
  <2>2. ~Posting /\ task \in Entry
    BY <2>1 DEF Posting, DesktopTypeOK
  <2> QED BY <2>1, <2>2, TypesElsewhere
<1> QED BY <1>2, <1>3, <1>4, <1>5, <1>6, <1>7, <1>8, <1>9, <1>10, <1>11, <1>12, <1>13, <1>14, <1>15,
           <1>16, <1>17 DEF DesktopNext, Vsync, MonitorStep, LoopStep
-----------------------------------------------------------------------------
(* The entry that new_event writes to. *)

(* Undisturbed it stays right above the queue, and holds the words stored  *)
(* so far.                                                                 *)
PostInv ==
  undisturbed /\ Posting =>
    /\ slot = Len(queue) + 1
    /\ Len(beyond) = 1
    /\ at # "kind" => beyond[1].kind = task.kind
    /\ at \in {"rest", "move"} => beyond[1].x = task.x
    /\ at = "move" => beyond[1].root = task.root /\ beyond[1].item = task.item

LEMMA PostInit == DesktopInit => PostInv
BY DEF DesktopInit, PostInv, Posting

LEMMA Undisturbed == undisturbed' /\ [DesktopNext]_dvars => undisturbed
<1> SUFFICES ASSUME undisturbed', [DesktopNext]_dvars PROVE undisturbed
  OBVIOUS
<1>1. UNCHANGED entries => undisturbed
  BY Zenon DEF entries
<1>2. ASSUME NEW e, Add(e)
      PROVE  undisturbed
  BY <1>2, Zenon DEF Add, Disturb
<1>3. TakeOut => undisturbed
  BY Zenon DEF TakeOut, Disturb
<1>4. CASE Hand \/ Poll \/ Vsync \/ TypeExit \/ F12 \/ UNCHANGED dvars
  BY <1>4, <1>1, <1>2, Zenon
     DEF Hand, Poll, Vsync, ReadAt, ClickAt, ReleaseAt, TypeExit, F12, dvars, desktop
<1>5. CASE MonitorStep
  BY <1>5, <1>1, <1>3, Zenon DEF MonitorStep, StartShell, ShellTake, ExitMonitor
<1>6. CASE LoopStep
  BY <1>6, <1>1, Zenon DEF LoopStep, Take, OpenMenu, ClickBesideNames, Closed, Outside, Hover,
     LookHeld, AwaitRelease, PostLoad, PostStore, PostMove, CloseMenu
<1> QED BY <1>4, <1>5, <1>6 DEF DesktopNext

LEMMA PostKept == DesktopTypeOK /\ PostInv /\ [DesktopNext]_dvars => PostInv'
<1> SUFFICES ASSUME DesktopTypeOK, PostInv, [DesktopNext]_dvars, undisturbed', Posting'
             PROVE  PostInv'
  BY DEF PostInv
<1>0. undisturbed /\ queue \in Seq(Entry) /\ beyond \in Seq(Entry) /\ task \in Entry
  BY Undisturbed DEF DesktopTypeOK
<1>1. ASSUME UNCHANGED <<entries, menu>>
      PROVE  PostInv'
  BY <1>1 DEF PostInv, Posting, entries, menu
<1>2. CASE Hand \/ Poll \/ ReadAt \/ F12 \/ StartShell \/ UNCHANGED dvars
  BY <1>1, <1>2 DEF Hand, Poll, ReadAt, F12, StartShell, dvars, desktop
<1>3. ASSUME UNCHANGED menu, Disturb
      PROVE  FALSE
  <2>1. Posting
    BY <1>3 DEF Posting, menu
  <2> QED BY <1>3, <2>1 DEF Disturb
<1>4. CASE ClickAt \/ ReleaseAt \/ TypeExit
  <2>1. UNCHANGED menu /\ (UNCHANGED entries \/ Disturb)
    BY <1>4, Zenon DEF ClickAt, ReleaseAt, TypeExit, Add
  <2> QED BY <1>1, <1>3, <2>1
<1>5. CASE ShellTake \/ ExitMonitor
  BY <1>3, <1>5 DEF ShellTake, ExitMonitor, TakeOut
<1>6. CASE LoopStep /\ ~PostLoad /\ ~PostStore
  <2>1. at' \in {"loop", "bar", "hover", "held", "wait", "post", "close"}
    BY <1>6 DEF LoopStep, LoopRuns, Take, OpenMenu, ClickBesideNames, Closed, Outside, Hover,
       LookHeld, AwaitRelease, PostMove, CloseMenu
  <2> QED BY <2>1 DEF Posting
<1>7. CASE PostLoad
  <2>1. at' = "kind" /\ slot' = Len(queue) + 1 /\ beyond' = <<NoTask>> /\ queue' = queue
    BY <1>7 DEF PostLoad
  <2> QED BY <2>1 DEF PostInv
<1>8. CASE PostStore
  <2>1. /\ at \in {"kind", "x", "rest"} /\ at' = AfterStore[at]
        /\ Len(queue') = Len(queue) /\ Len(beyond') = Len(beyond)
        /\ \A n \in DOMAIN beyond :
             beyond'[n] = IF Len(queue) + n = slot THEN Written(beyond[n]) ELSE beyond[n]
    BY <1>8, StoreType
  <2>2. UNCHANGED <<task, slot>>
    BY <1>8 DEF PostStore
  <2>3. Posting
    BY <2>1 DEF Posting
  <2>4. slot = Len(queue) + 1 /\ Len(beyond) = 1
    BY <1>0, <2>3 DEF PostInv
  <2>5. 1 \in DOMAIN beyond /\ beyond[1] \in Entry /\ beyond'[1] = Written(beyond[1])
    <3>1. DOMAIN beyond = 1..1
      BY <1>0, <2>4
    <3>2. 1 \in DOMAIN beyond /\ beyond[1] \in Entry
      BY <1>0, <3>1
    <3>3. Len(queue) + 1 = slot
      BY <2>4
    <3> QED BY <2>1, <3>2, <3>3
  <2>6. CASE at = "kind"
    <3>1. at' = "x" /\ beyond'[1].kind = task.kind
      BY <1>0, <2>1, <2>5, <2>6, WrittenEntry DEF AfterStore
    <3> QED BY <2>1, <2>2, <2>4, <3>1 DEF PostInv
  <2>7. CASE at = "x"
    <3>1. at' = "rest" /\ beyond'[1].kind = beyond[1].kind /\ beyond'[1].x = task.x
      BY <1>0, <2>1, <2>5, <2>7, WrittenEntry DEF AfterStore
    <3>2. beyond[1].kind = task.kind
      BY <1>0, <2>3, <2>7 DEF PostInv
    <3> QED BY <2>1, <2>2, <2>4, <3>1, <3>2 DEF PostInv
  <2>8. CASE at = "rest"
    <3>1. at' = "move" /\ beyond'[1].kind = beyond[1].kind /\ beyond'[1].x = beyond[1].x
          /\ beyond'[1].root = task.root /\ beyond'[1].item = task.item
      BY <1>0, <2>1, <2>5, <2>8, WrittenEntry DEF AfterStore
    <3>2. beyond[1].kind = task.kind /\ beyond[1].x = task.x
      BY <1>0, <2>3, <2>8 DEF PostInv
    <3> QED BY <2>1, <2>2, <2>4, <3>1, <3>2 DEF PostInv
  <2> QED BY <2>1, <2>6, <2>7, <2>8
<1> QED BY <1>2, <1>4, <1>5, <1>6, <1>7, <1>8 DEF DesktopNext, Vsync, MonitorStep, LoopStep

(* So undisturbed, new_event adds its event to the queue. *)
LEMMA MoveAppends ==
  ASSUME DesktopTypeOK, PostInv, undisturbed, PostMove
  PROVE  queue' = Append(queue, task)
<1>1. queue \in Seq(Entry) /\ beyond \in Seq(Entry) /\ task \in Entry
  BY DEF DesktopTypeOK
<1>2. at = "move" /\ queue' = SubSeq(queue \o beyond, 1, slot)
  BY DEF PostMove, LoopRuns
<1>3. /\ slot = Len(queue) + 1 /\ Len(beyond) = 1
      /\ beyond[1].kind = task.kind /\ beyond[1].x = task.x
      /\ beyond[1].root = task.root /\ beyond[1].item = task.item
  BY <1>2 DEF PostInv, Posting
<1>4. beyond[1] = task
  <2>1. DOMAIN beyond = 1..1
    BY <1>1, <1>3
  <2>2. beyond[1] \in Entry
    BY <1>1, <2>1
  <2>3. ASSUME NEW e \in Entry
        PROVE  e = [kind |-> e.kind, x |-> e.x, root |-> e.root, item |-> e.item]
    BY DEF Entry
  <2> QED BY <1>1, <1>3, <2>2, <2>3
<1>5. beyond = <<task>>
  BY <1>1, <1>3, <1>4
<1>6. queue \o beyond = Append(queue, task)
  BY <1>1, <1>5
<1>7. SubSeq(Append(queue, task), 1, Len(queue) + 1) = Append(queue, task)
  BY <1>1
<1> QED BY <1>2, <1>3, <1>6, <1>7

LEMMA AppendPrefix ==
  ASSUME NEW q \in Seq(Entry), NEW e \in Entry
  PROVE  IsPrefix(q, Append(q, e)) /\ IsPrefix(q, q)
BY DEF IsPrefix

(* No event is lost, torn or resurrected as long as nobody posts or takes  *)
(* one in the middle of the menu's new_event, for any menus and inputs.    *)
THEOREM NothingLost == DesktopSpec => NoneLost
<1> DEFINE Grows == undisturbed' => IsPrefix(queue, queue') \/ queue' = Tail(queue)
<1>1. DesktopTypeOK /\ PostInv /\ [DesktopNext]_dvars => [Grows]_dvars
  <2> SUFFICES ASSUME DesktopTypeOK, PostInv, [DesktopNext]_dvars, undisturbed'
               PROVE  IsPrefix(queue, queue') \/ queue' = Tail(queue)
    OBVIOUS
  <2>1. undisturbed /\ queue \in Seq(Entry) /\ task \in Entry
    BY Undisturbed DEF DesktopTypeOK
  <2>2. \A e \in Entry : queue' = Append(queue, e) => IsPrefix(queue, queue')
    BY <2>1, AppendPrefix
  <2>3. queue' = queue => IsPrefix(queue, queue')
    BY <2>1, AppendPrefix
  <2>4. CASE Hand \/ Poll \/ ReadAt \/ F12 \/ StartShell \/ UNCHANGED dvars
    BY <2>3, <2>4 DEF Hand, Poll, ReadAt, F12, StartShell, dvars, desktop, entries
  <2>5. CASE ClickAt \/ ReleaseAt \/ TypeExit
    <3>1. UNCHANGED entries \/ \E e \in Entry : Add(e)
      BY <2>5, HandEventType, Zenon DEF ClickAt, ReleaseAt, TypeExit
    <3>2. queue' = queue \/ \E e \in Entry : queue' = Append(queue, e)
      BY <3>1, Zenon DEF Add, entries
    <3> QED BY <3>2, <2>2, <2>3, Zenon
  <2>6. CASE ShellTake \/ ExitMonitor \/ Take
    BY <2>6 DEF ShellTake, ExitMonitor, TakeOut, Take
  <2>7. CASE PostMove
    BY <2>7, <2>1, <2>2, MoveAppends
  <2>8. CASE PostStore
    <3>1. at \in {"kind", "x", "rest"}
      BY <2>8, StoreType
    <3>2. slot = Len(queue) + 1
      BY <2>1, <3>1 DEF PostInv, Posting
    <3>3. queue' = [n \in DOMAIN queue |-> IF n = slot THEN Written(queue[n]) ELSE queue[n]]
      BY <2>8 DEF PostStore
    <3>4. \A n \in DOMAIN queue : n # slot
      BY <2>1, <3>2
    <3>5. queue' = [n \in DOMAIN queue |-> queue[n]]
      BY <3>3, <3>4
    <3>6. queue' = queue
      BY <2>1, <3>5
    <3> QED BY <3>6, <2>3
  <2>9. CASE OpenMenu \/ ClickBesideNames \/ Closed \/ Outside \/ Hover \/ LookHeld \/ AwaitRelease
             \/ PostLoad \/ CloseMenu
    <3>1. queue' = queue
      BY <2>9 DEF OpenMenu, ClickBesideNames, Closed, Outside, Hover, LookHeld, AwaitRelease, PostLoad,
         CloseMenu, entries
    <3> QED BY <3>1, <2>3
  <2> QED BY <2>4, <2>5, <2>6, <2>7, <2>8, <2>9 DEF DesktopNext, Vsync, MonitorStep, LoopStep
<1> QED BY <1>1, TypesInit, TypesKept, PostInit, PostKept, PTL DEF DesktopSpec, NoneLost
-----------------------------------------------------------------------------
(* The update that an open menu lives on. *)

Queued(q) == \E n \in DOMAIN q : q[n].kind = "menu update"

LEMMA QueuedAppend ==
  ASSUME NEW q \in Seq(Entry), NEW e \in Entry
  PROVE  Queued(Append(q, e)) <=> (Queued(q) \/ e.kind = "menu update")
<1> USE DEF Queued
<1>1. ASSUME NEW n \in DOMAIN q, q[n].kind = "menu update"
      PROVE  Queued(Append(q, e))
  <2>1. n \in DOMAIN Append(q, e) /\ Append(q, e)[n] = q[n]
    BY AppendEntry
  <2> QED BY <1>1, <2>1, Zenon
<1>2. ASSUME e.kind = "menu update"
      PROVE  Queued(Append(q, e))
  <2>1. Len(q) + 1 \in DOMAIN Append(q, e) /\ Append(q, e)[Len(q) + 1] = e
    BY AppendEntry
  <2> QED BY <1>2, <2>1, Zenon
<1>3. ASSUME NEW n \in DOMAIN Append(q, e), Append(q, e)[n].kind = "menu update"
      PROVE  Queued(q) \/ e.kind = "menu update"
  <2>1. (n \in DOMAIN q /\ Append(q, e)[n] = q[n]) \/ Append(q, e)[n] = e
    BY AppendEntry
  <2> QED BY <1>3, <2>1, Zenon
<1> QED BY <1>1, <1>2, <1>3, Zenon

LEMMA QueuedTail ==
  ASSUME NEW q \in Seq(Entry), q # <<>>
  PROVE  Queued(q) <=> (Queued(Tail(q)) \/ Head(q).kind = "menu update")
<1> USE DEF Queued
<1>1. ASSUME Head(q).kind = "menu update"
      PROVE  Queued(q)
  <2>1. 1 \in DOMAIN q /\ Head(q) = q[1]
    BY TailEntry
  <2> QED BY <1>1, <2>1, Zenon
<1>2. ASSUME NEW n \in DOMAIN Tail(q), Tail(q)[n].kind = "menu update"
      PROVE  Queued(q)
  <2>1. n + 1 \in DOMAIN q /\ Tail(q)[n] = q[n + 1]
    BY TailEntry
  <2> QED BY <1>2, <2>1, Zenon
<1>3. ASSUME NEW n \in DOMAIN q, q[n].kind = "menu update"
      PROVE  Queued(Tail(q)) \/ Head(q).kind = "menu update"
  <2>1. n = 1 \/ (n - 1 \in DOMAIN Tail(q) /\ Tail(q)[n - 1] = q[n])
    BY TailEntry
  <2>2. Head(q) = q[1]
    BY TailEntry
  <2> QED BY <1>3, <2>1, <2>2, Zenon
<1> QED BY <1>1, <1>2, <1>3, Zenon

LEMMA PendingMeaning ==
  ASSUME DesktopTypeOK
  PROVE  (Pending \/ at = "post" \/ Posting)
           <=> (Queued(queue) \/ at \in {"hover", "held", "wait", "post"} \/ Posting)
BY DEF Pending, Queued, DesktopTypeOK

LEMMA ServedKept ==
  DesktopTypeOK /\ MonitorInv /\ PostInv /\ MenuServed /\ [DesktopNext]_dvars => MenuServed'
<1> SUFFICES ASSUME DesktopTypeOK, MonitorInv, PostInv, MenuServed, [DesktopNext]_dvars,
                    undisturbed', shown' # 0, at' # "close", ~monitored'
             PROVE  (Pending \/ at = "post" \/ Posting)'
  BY DEF MenuServed, MenuReadded
<1> DEFINE Moves == {"hover", "held", "wait", "post", "kind", "x", "rest", "move"}
<1>1. DesktopTypeOK'
  BY TypesKept
<1>2. (Pending \/ at = "post" \/ Posting)' <=> (Queued(queue') \/ at' \in Moves)
  <2>1. (Pending \/ at = "post" \/ Posting)'
          <=> (Queued(queue) \/ at \in {"hover", "held", "wait", "post"} \/ Posting)'
    BY <1>1, PendingMeaning, PTL
  <2>2. (Queued(queue) \/ at \in {"hover", "held", "wait", "post"} \/ Posting)'
          <=> (Queued(queue') \/ at' \in Moves)
    BY DEF Queued, Posting
  <2> QED BY <2>1, <2>2
<1>3. ASSUME shown # 0, at # "close", ~monitored
      PROVE  Queued(queue) \/ at \in Moves
  BY <1>3, Undisturbed, PendingMeaning DEF MenuServed, MenuReadded, Posting
<1>4. queue \in Seq(Entry) /\ task \in Entry
  BY DEF DesktopTypeOK
<1>5. SUFFICES Queued(queue') \/ at' \in Moves
  BY <1>2
<1>6. CASE Hand \/ Poll \/ ReadAt \/ UNCHANGED dvars
  <2>1. UNCHANGED <<queue, at, shown, monitored>>
    BY <1>6 DEF Hand, Poll, ReadAt, dvars, desktop, entries, menu, monitor
  <2> QED BY <2>1, <1>3
<1>7. CASE ClickAt \/ ReleaseAt \/ TypeExit
  <2>1. UNCHANGED <<at, shown, monitored>>
    BY <1>7 DEF ClickAt, ReleaseAt, TypeExit, menu, monitor
  <2>2. UNCHANGED entries \/ \E e \in Entry : Add(e)
    BY <1>7, HandEventType, Zenon DEF ClickAt, ReleaseAt, TypeExit
  <2>3. queue' = queue \/ \E e \in Entry : queue' = Append(queue, e)
    BY <2>2, Zenon DEF Add, entries
  <2>4. Queued(queue) => Queued(queue')
    BY <2>3, <1>4, QueuedAppend
  <2> QED BY <2>1, <2>4, <1>3
<1>8. CASE F12
  BY <1>8 DEF F12
<1>9. CASE MonitorStep
  BY <1>9 DEF MonitorStep, StartShell, ShellTake, ExitMonitor, MonitorRuns, MonitorInv, monitor
<1>10. CASE Take
  <2>1. queue # <<>> /\ queue' = Tail(queue) /\ at = "loop" /\ UNCHANGED <<shown, monitored>>
    BY <1>10 DEF Take, LoopRuns, monitor
  <2>2. Queued(queue)
    BY <2>1, <1>3
  <2>3. CASE Head(queue).kind = "menu update"
    <3>1. at' = "hover"
      BY <1>10, <2>3 DEF Take
    <3> QED BY <3>1
  <2>4. CASE Head(queue).kind # "menu update"
    <3>1. Queued(Tail(queue))
      BY <2>1, <2>2, <2>4, <1>4, QueuedTail
    <3> QED BY <3>1, <2>1
  <2> QED BY <2>3, <2>4
<1>11. CASE OpenMenu \/ Outside \/ AwaitRelease \/ PostLoad
  BY <1>11 DEF OpenMenu, Outside, AwaitRelease, PostLoad
<1>12. CASE ClickBesideNames \/ Closed \/ CloseMenu
  BY <1>12 DEF ClickBesideNames, Closed, CloseMenu
<1>13. CASE Hover \/ LookHeld
  BY <1>13 DEF Hover, LookHeld
<1>14. CASE PostStore
  BY <1>14, StoreType DEF AfterStore
<1>15. CASE PostMove
  <2>1. queue' = Append(queue, task)
    BY <1>15, Undisturbed, MoveAppends
  <2>2. task.kind = "menu update"
    BY <1>15 DEF PostMove, LoopRuns, Posting, DesktopTypeOK
  <2> QED BY <2>1, <2>2, <1>4, QueuedAppend
<1> QED BY <1>6, <1>7, <1>8, <1>9, <1>10, <1>11, <1>12, <1>13, <1>14, <1>15
        DEF DesktopNext, Vsync, LoopStep

(* An open menu never freezes: its update is queued or being served, as    *)
(* long as the monitor has not taken events away and nothing was posted in *)
(* the middle of the menu's own new_event.                                 *)
THEOREM MenuNeverFreezes == DesktopSpec => []MenuServed
<1>1. DesktopInit => MenuServed
  BY DEF DesktopInit, MenuServed, MenuReadded
<1> QED BY <1>1, TypesInit, TypesKept, MonitorInit, MonitorKept, PostInit, PostKept, ServedKept, PTL
        DEF DesktopSpec
-----------------------------------------------------------------------------
(* The item that is chosen. *)

Matches(e) == e.root = shown /\ e.item = lit

(* An update in memory while new_event runs is the one it writes.          *)
Ours(e) ==
  /\ task.kind = "menu update"
  /\ at = "move" => e.root = task.root /\ e.item = task.item

(* There is one update, queued or being served, and it is of the menu and  *)
(* the item that are shown.  A closed menu may have left one behind.       *)
OneUpdate ==
  /\ ~Posting =>
       /\ \A m, n \in DOMAIN queue :
            queue[m].kind = "menu update" /\ queue[n].kind = "menu update" => m = n
       /\ \A n \in DOMAIN queue :
            queue[n].kind = "menu update" /\ shown # 0 => Matches(queue[n])
  /\ Posting =>
       /\ \A n \in DOMAIN queue :
            queue[n].kind = "menu update" => n = slot /\ Ours(queue[n])
       /\ \A n \in DOMAIN beyond :
            beyond[n].kind = "menu update" => Len(queue) + n = slot /\ Ours(beyond[n])
  /\ at \in {"hover", "held", "wait", "post", "close"} => ~Queued(queue)
  /\ at = "hover" /\ shown # 0 => Matches(task)
  /\ at \in {"held", "wait", "post"} \/ Posting => Matches(task)

ChoiceInv == tidy /\ (undisturbed \/ ~monitored) => OneUpdate

(* A broken contract stays broken. *)
LEMMA ContractKept ==
  ASSUME [DesktopNext]_dvars, tidy', (undisturbed \/ ~monitored)'
  PROVE  tidy /\ (undisturbed \/ ~monitored)
<1>1. undisturbed' => undisturbed
  BY Undisturbed
<1>2. CASE Hand \/ Poll \/ Vsync \/ TypeExit \/ F12 \/ UNCHANGED dvars
  <2>1. UNCHANGED menu
    BY <1>2, Zenon DEF Hand, Poll, Vsync, ReadAt, ClickAt, ReleaseAt, TypeExit, F12, dvars, desktop
  <2>2. UNCHANGED monitor \/ monitored'
    BY <1>2, Zenon DEF Hand, Poll, Vsync, ReadAt, ClickAt, ReleaseAt, TypeExit, F12, dvars, desktop
  <2> QED BY <1>1, <2>1, <2>2 DEF menu, monitor
<1>3. CASE MonitorStep
  <2>1. UNCHANGED menu /\ monitored' = monitored
    BY <1>3 DEF MonitorStep, StartShell, ShellTake, ExitMonitor, monitor
  <2> QED BY <1>1, <2>1 DEF menu
<1>4. CASE LoopStep
  <2>1. UNCHANGED monitor
    BY <1>4, Zenon DEF LoopStep, Take, OpenMenu, ClickBesideNames, Closed, Outside, Hover, LookHeld,
       AwaitRelease, PostLoad, PostStore, PostMove, CloseMenu
  <2>2. tidy
    BY <1>4, Zenon DEF LoopStep, Take, OpenMenu, ClickBesideNames, Closed, Outside, Hover, LookHeld,
       AwaitRelease, PostLoad, PostStore, PostMove, CloseMenu
  <2> QED BY <1>1, <2>1, <2>2 DEF monitor
<1> QED BY <1>2, <1>3, <1>4 DEF DesktopNext

LEMMA ChoiceUnchanged == OneUpdate /\ UNCHANGED <<entries, menu>> => OneUpdate'
BY DEF OneUpdate, Ours, Matches, Queued, Posting, entries, menu

LEMMA ChoiceAdd ==
  ASSUME DesktopTypeOK, OneUpdate, UNCHANGED menu,
         NEW e \in Entry, e.kind # "menu update", Add(e)
  PROVE  OneUpdate'
<1>1. queue \in Seq(Entry) /\ UNCHANGED <<at, task, slot, shown, lit>> /\ queue' = Append(queue, e)
  BY DEF DesktopTypeOK, menu, Add
<1>2. ASSUME NEW n \in DOMAIN queue', queue'[n].kind = "menu update"
      PROVE  n \in DOMAIN queue /\ queue'[n] = queue[n]
  <2>1. n \in DOMAIN queue \/ n = Len(queue) + 1
    BY <1>1, <1>2, AppendEntry
  <2>2. queue'[Len(queue) + 1] = e
    BY <1>1, AppendEntry
  <2>3. n # Len(queue) + 1
    BY <1>2, <2>2
  <2>4. n \in DOMAIN queue => queue'[n] = queue[n]
    BY <1>1, AppendEntry
  <2> QED BY <2>1, <2>3, <2>4
<1>3. Queued(queue') => Queued(queue)
  BY <1>1, QueuedAppend
<1>4. (Queued(queue)' <=> Queued(queue')) /\ (Posting' <=> Posting)
  BY <1>1 DEF Queued, Posting
<1>5. Matches(task)' <=> Matches(task)
  BY <1>1 DEF Matches
<1>6. ASSUME ~Posting
      PROVE  /\ \A m, n \in DOMAIN queue' :
                  queue'[m].kind = "menu update" /\ queue'[n].kind = "menu update" => m = n
             /\ \A n \in DOMAIN queue' :
                  queue'[n].kind = "menu update" /\ shown # 0 => Matches(queue'[n])
  BY <1>2, <1>6, Zenon DEF OneUpdate
<1>7. ASSUME Posting, NEW n \in DOMAIN queue', queue'[n].kind = "menu update"
      PROVE  n = slot /\ Ours(queue'[n])
  BY <1>2, <1>7, Zenon DEF OneUpdate
<1>8. ASSUME Posting, NEW n \in DOMAIN beyond', beyond'[n].kind = "menu update"
      PROVE  Len(queue') + n = slot /\ Ours(beyond'[n])
  <2>1. beyond' \in Seq(Entry) /\ n + 1 \in DOMAIN beyond /\ beyond'[n] = beyond[n + 1]
        /\ Len(queue') = Len(queue) + 1
    BY <1>1, <1>8, AddType
  <2>2. Len(queue) + (n + 1) = slot /\ Ours(beyond[n + 1])
    BY <1>8, <2>1 DEF OneUpdate
  <2>3. n \in Nat
    <3>1. DOMAIN beyond' \subseteq Nat
      BY <2>1, EntryIndices
    <3> QED BY <1>8, <3>1
  <2>4. Len(queue) \in Nat
    BY <1>1, EntryIndices
  <2>5. Len(queue') + n = Len(queue) + (n + 1)
    <3>1. (Len(queue) + 1) + n = Len(queue) + (n + 1)
      BY <2>3, <2>4, CarryOne, Zenon
    <3>2. Len(queue') = Len(queue) + 1
      BY <2>1
    <3> QED BY <3>1, <3>2, Zenon
  <2> QED BY <2>1, <2>2, <2>5
<1>9. /\ at' \in {"hover", "held", "wait", "post", "close"} => ~Queued(queue)'
      /\ at' = "hover" /\ shown' # 0 => Matches(task)'
      /\ at' \in {"held", "wait", "post"} \/ Posting' => Matches(task)'
  BY <1>1, <1>3, <1>4, <1>5 DEF OneUpdate
<1>10. ~Posting' =>
         /\ \A m, n \in DOMAIN queue' :
              queue'[m].kind = "menu update" /\ queue'[n].kind = "menu update" => m = n
         /\ \A n \in DOMAIN queue' :
              queue'[n].kind = "menu update" /\ shown' # 0 => Matches(queue[n])'
  BY <1>1, <1>4, <1>6 DEF Matches
<1>11. Posting' =>
         /\ \A n \in DOMAIN queue' :
              queue'[n].kind = "menu update" => n = slot' /\ Ours(queue[n])'
         /\ \A n \in DOMAIN beyond' :
              beyond'[n].kind = "menu update" => Len(queue') + n = slot' /\ Ours(beyond[n])'
  BY <1>1, <1>4, <1>7, <1>8 DEF Ours
<1> QED BY <1>9, <1>10, <1>11 DEF OneUpdate

LEMMA ChoiceTail ==
  ASSUME DesktopTypeOK, OneUpdate, ~Posting, queue # <<>>, queue' = Tail(queue)
  PROVE  /\ \A m, n \in DOMAIN queue' :
              queue'[m].kind = "menu update" /\ queue'[n].kind = "menu update" => m = n
         /\ \A n \in DOMAIN queue' :
              queue'[n].kind = "menu update" /\ shown # 0 => Matches(queue'[n])
         /\ Queued(queue') => Queued(queue)
         /\ Head(queue).kind = "menu update" => ~Queued(queue')
         /\ Head(queue).kind = "menu update" /\ shown # 0 => Matches(Head(queue))
<1>1. queue \in Seq(Entry)
  BY DEF DesktopTypeOK
<1>2. 1 \in DOMAIN queue /\ Head(queue) = queue[1]
  BY <1>1, TailEntry
<1>3. \A n \in DOMAIN queue' :
        n + 1 \in DOMAIN queue /\ queue'[n] = queue[n + 1] /\ n \in Nat /\ n # 0
  BY <1>1, TailEntry
<1>4. ASSUME NEW m \in DOMAIN queue', NEW n \in DOMAIN queue',
             queue'[m].kind = "menu update", queue'[n].kind = "menu update"
      PROVE  m = n
  <2>1. m + 1 = n + 1
    BY <1>3, <1>4, Zenon DEF OneUpdate
  <2> QED BY <1>3, <2>1
<1>5. ASSUME NEW n \in DOMAIN queue', queue'[n].kind = "menu update", shown # 0
      PROVE  Matches(queue'[n])
  <2>1. Matches(queue[n + 1])
    BY <1>3, <1>5, Zenon DEF OneUpdate
  <2> QED BY <2>1, <1>3, Zenon
<1>6. Queued(queue') => Queued(queue)
  BY <1>1, QueuedTail
<1>7. ASSUME Head(queue).kind = "menu update", Queued(queue')
      PROVE  FALSE
  <2>1. PICK n \in DOMAIN queue' : queue'[n].kind = "menu update"
    BY <1>7 DEF Queued
  <2>2. n + 1 = 1
    BY <1>2, <1>3, <1>7, <2>1, Zenon DEF OneUpdate
  <2> QED BY <1>3, <2>2
<1>8. Head(queue).kind = "menu update" /\ shown # 0 => Matches(Head(queue))
  BY <1>2, Zenon DEF OneUpdate
<1> QED BY <1>4, <1>5, <1>6, <1>7, <1>8, Zenon

LEMMA ChoiceStore == DesktopTypeOK /\ OneUpdate /\ PostStore => OneUpdate'
<1> SUFFICES ASSUME DesktopTypeOK, OneUpdate, PostStore PROVE OneUpdate'
  OBVIOUS
<1>1. /\ at \in {"kind", "x", "rest"} /\ at' = AfterStore[at]
      /\ Len(queue') = Len(queue) /\ DOMAIN queue' = DOMAIN queue /\ DOMAIN beyond' = DOMAIN beyond
      /\ \A n \in DOMAIN queue : queue'[n] = IF n = slot THEN Written(queue[n]) ELSE queue[n]
      /\ \A n \in DOMAIN beyond :
           beyond'[n] = IF Len(queue) + n = slot THEN Written(beyond[n]) ELSE beyond[n]
  BY StoreType
<1>2. Posting /\ Posting' /\ at' \in {"x", "rest", "move"} /\ (at' = "move" => at = "rest")
  BY <1>1 DEF Posting, AfterStore
<1>3. UNCHANGED <<task, slot, shown, lit>>
  BY DEF PostStore
<1>4. queue \in Seq(Entry) /\ beyond \in Seq(Entry) /\ task \in Entry
  BY DEF DesktopTypeOK
<1>5. ASSUME NEW e \in Entry, Written(e).kind = "menu update", e.kind = "menu update" => Ours(e)
      PROVE  /\ task.kind = "menu update"
             /\ at' = "move" => Written(e).root = task.root /\ Written(e).item = task.item
  <2>1. task.kind = "menu update"
    BY <1>1, <1>4, <1>5, WrittenEntry DEF Ours
  <2>2. at' = "move" => Written(e).root = task.root /\ Written(e).item = task.item
    BY <1>1, <1>2, <1>4, WrittenEntry
  <2> QED BY <2>1, <2>2
<1>6. ASSUME NEW n \in DOMAIN queue', queue'[n].kind = "menu update"
      PROVE  /\ n = slot /\ task.kind = "menu update"
             /\ at' = "move" => queue'[n].root = task.root /\ queue'[n].item = task.item
  <2>1. queue[n] \in Entry /\ (queue[n].kind = "menu update" => n = slot /\ Ours(queue[n]))
    <3>1. n \in DOMAIN queue
      BY <1>1, <1>6
    <3>2. queue[n] \in Entry
      BY <1>4, <3>1
    <3> QED BY <1>2, <3>1, <3>2 DEF OneUpdate
  <2>2. n = slot
    BY <1>1, <1>6, <2>1
  <2>3. queue'[n] = Written(queue[n])
    BY <1>1, <2>2
  <2> QED BY <1>5, <1>6, <2>1, <2>2, <2>3
<1>7. ASSUME NEW n \in DOMAIN beyond', beyond'[n].kind = "menu update"
      PROVE  /\ Len(queue) + n = slot /\ task.kind = "menu update"
             /\ at' = "move" => beyond'[n].root = task.root /\ beyond'[n].item = task.item
  <2>1. beyond[n] \in Entry /\ (beyond[n].kind = "menu update" => Len(queue) + n = slot /\ Ours(beyond[n]))
    <3>1. n \in DOMAIN beyond
      BY <1>1, <1>7
    <3>2. beyond[n] \in Entry
      BY <1>4, <3>1
    <3> QED BY <1>2, <3>1, <3>2 DEF OneUpdate
  <2>2. Len(queue) + n = slot
    BY <1>1, <1>7, <2>1
  <2>3. beyond'[n] = Written(beyond[n])
    BY <1>1, <2>2
  <2> QED BY <1>5, <1>7, <2>1, <2>2, <2>3
<1>8. \A n \in DOMAIN queue' : queue'[n].kind = "menu update" => n = slot' /\ Ours(queue[n])'
  BY <1>3, <1>6 DEF Ours
<1>9. \A n \in DOMAIN beyond' :
        beyond'[n].kind = "menu update" => Len(queue') + n = slot' /\ Ours(beyond[n])'
  BY <1>1, <1>3, <1>7 DEF Ours
<1>10. Matches(task)'
  BY <1>2, <1>3 DEF OneUpdate, Matches
<1> QED BY <1>2, <1>8, <1>9, <1>10 DEF OneUpdate

LEMMA ChoiceMove == DesktopTypeOK /\ OneUpdate /\ PostMove => OneUpdate'
<1> SUFFICES ASSUME DesktopTypeOK, OneUpdate, PostMove PROVE OneUpdate'
  OBVIOUS
<1>1. /\ at = "move"
      /\ \A n \in DOMAIN queue' :
           \/ n \in DOMAIN queue /\ queue'[n] = queue[n]
           \/ n - Len(queue) \in DOMAIN beyond /\ queue'[n] = beyond[n - Len(queue)]
      /\ DOMAIN queue' \subseteq Nat
  <2>1. queue' \in Seq(Entry)
    BY MoveType
  <2>2. DOMAIN queue' \subseteq Nat
    BY <2>1
  <2> QED BY <2>2, MoveType
<1>2. /\ at' = IF task.kind = "menu click" THEN "close" ELSE "loop"
      /\ UNCHANGED <<shown, lit>>
  BY DEF PostMove
<1>3. Posting /\ ~Posting'
  BY <1>1, <1>2 DEF Posting
<1>4. Matches(task) /\ task.kind \in {"menu update", "menu click"}
  BY <1>3 DEF OneUpdate, DesktopTypeOK
<1>5. ASSUME NEW n \in DOMAIN queue', queue'[n].kind = "menu update"
      PROVE  n = slot /\ task.kind = "menu update" /\ Matches(queue'[n])
  <2>1. n \in Nat /\ Len(queue) \in Nat
    <3>1. queue \in Seq(Entry)
      BY DEF DesktopTypeOK
    <3> QED BY <1>1, <3>1
  <2>2. n = slot /\ Ours(queue'[n])
    <3>1. CASE n \in DOMAIN queue /\ queue'[n] = queue[n]
      BY <1>3, <1>5, <3>1 DEF OneUpdate
    <3>2. CASE n - Len(queue) \in DOMAIN beyond /\ queue'[n] = beyond[n - Len(queue)]
      <4>1. Len(queue) + (n - Len(queue)) = slot /\ Ours(beyond[n - Len(queue)])
        BY <1>3, <1>5, <3>2 DEF OneUpdate
      <4>2. Len(queue) + (n - Len(queue)) = n
        BY <2>1
      <4> QED BY <3>2, <4>1, <4>2
    <3> QED BY <1>1, <3>1, <3>2
  <2> QED BY <1>1, <1>4, <2>2 DEF Ours, Matches
<1>6. \A m, n \in DOMAIN queue' :
        queue'[m].kind = "menu update" /\ queue'[n].kind = "menu update" => m = n
  BY <1>5
<1>7. \A n \in DOMAIN queue' : queue'[n].kind = "menu update" => Matches(queue[n])'
  BY <1>2, <1>5 DEF Matches
<1>8. at' = "close" => ~Queued(queue)'
  BY <1>2, <1>5 DEF Queued
<1> QED BY <1>2, <1>3, <1>6, <1>7, <1>8 DEF OneUpdate

LEMMA ChoiceKept ==
  DesktopTypeOK /\ MonitorInv /\ ChoiceInv /\ [DesktopNext]_dvars => ChoiceInv'
<1> SUFFICES ASSUME DesktopTypeOK, MonitorInv, ChoiceInv, [DesktopNext]_dvars,
                    tidy', (undisturbed \/ ~monitored)'
             PROVE  OneUpdate'
  BY DEF ChoiceInv
<1>1. queue \in Seq(Entry) /\ task \in Entry
  BY DEF DesktopTypeOK
<1>2. Queued(queue)' <=> Queued(queue')
  BY DEF Queued
<1>3. OneUpdate
  BY ContractKept DEF ChoiceInv
<1>4. CASE Hand \/ Poll \/ ReadAt \/ F12 \/ StartShell \/ UNCHANGED dvars
  BY <1>3, <1>4, ChoiceUnchanged DEF Hand, Poll, ReadAt, F12, StartShell, dvars, desktop
<1>5. CASE ClickAt \/ ReleaseAt \/ TypeExit
  <2>1. UNCHANGED menu
    BY <1>5 DEF ClickAt, ReleaseAt, TypeExit
  <2>2. UNCHANGED entries \/ \E e \in Entry : e.kind # "menu update" /\ Add(e)
    BY <1>5, HandEventType, Zenon DEF ClickAt, ReleaseAt, TypeExit
  <2> QED BY <1>3, <2>1, <2>2, ChoiceUnchanged, ChoiceAdd
<1>6. CASE ShellTake \/ ExitMonitor
  <2>1. queue # <<>> /\ TakeOut /\ InMonitor /\ monitored' = monitored
        /\ UNCHANGED <<at, task, slot, shown, lit>>
    BY <1>6 DEF ShellTake, ExitMonitor, MonitorRuns, menu, monitor
  <2>2. ~Posting
    BY <2>1 DEF MonitorInv, TakeOut, Disturb
  <2>3. queue' = Tail(queue) /\ ~Posting'
    BY <2>1, <2>2 DEF TakeOut, Posting
  <2> QED BY <2>1, <2>2, <2>3, <1>2, <1>3, ChoiceTail DEF OneUpdate, Matches
<1>7. CASE Take
  <2>1. queue # <<>> /\ queue' = Tail(queue) /\ at = "loop" /\ UNCHANGED <<shown, lit>>
    BY <1>7 DEF Take, LoopRuns
  <2>2. ~Posting
    BY <2>1 DEF Posting
  <2>3. CASE Head(queue).kind = "menu update"
    <3>1. at' = "hover" /\ task' = Head(queue)
      BY <1>7, <2>3 DEF Take
    <3>2. ~Posting'
      BY <3>1 DEF Posting
    <3> QED BY <2>1, <2>2, <2>3, <3>1, <3>2, <1>2, <1>3, ChoiceTail DEF OneUpdate, Matches
  <2>4. CASE Head(queue).kind # "menu update"
    <3>1. at' \in {"bar", "loop"}
      BY <1>7, <2>1, <2>4 DEF Take
    <3>2. ~Posting'
      BY <3>1 DEF Posting
    <3> QED BY <2>1, <2>2, <3>1, <3>2, <1>2, <1>3, ChoiceTail DEF OneUpdate, Matches
  <2> QED BY <2>3, <2>4
<1>8. CASE OpenMenu
  <2>1. ~Pending
    BY <1>8 DEF OpenMenu
  <2>2. ~Queued(queue)
    BY <2>1 DEF Pending, Queued
  <2>3. task' = MenuEvent("menu update", shown', 0) /\ lit' = 0 /\ at' = "post" /\ queue' = queue
    BY <1>8 DEF OpenMenu, entries
  <2>4. task'.root = shown' /\ task'.item = lit'
    BY <2>3 DEF MenuEvent, Event
  <2>5. ~Posting'
    BY <2>3 DEF Posting
  <2> QED BY <2>2, <2>3, <2>4, <2>5, <1>2 DEF OneUpdate, Matches, Queued
<1>9. CASE ClickBesideNames \/ Closed \/ CloseMenu
  <2>1. at \in {"bar", "hover", "close"} /\ at' = "loop" /\ queue' = queue /\ shown' = 0
    BY <1>9 DEF ClickBesideNames, Closed, CloseMenu, LoopRuns, entries
  <2>2. ~Posting /\ ~Posting'
    BY <2>1 DEF Posting
  <2> QED BY <2>1, <2>2, <1>3 DEF OneUpdate
<1>10. CASE Outside \/ LookHeld
  <2>1. /\ at' \in {"wait", "post"}
        /\ UNCHANGED <<queue, task, shown, lit>>
        /\ (at = "hover" /\ shown # 0) \/ at = "held"
    BY <1>10 DEF Outside, LookHeld, LoopRuns, entries
  <2>2. ~Posting /\ ~Posting'
    BY <2>1 DEF Posting
  <2> QED BY <2>1, <2>2, <1>2, <1>3 DEF OneUpdate, Matches
<1>11. CASE Hover
  <2>1. at = "hover" /\ at' = "held" /\ queue' = queue /\ shown # 0
    BY <1>11 DEF Hover, LoopRuns, ItemAt, entries
  <2>2. ItemAt(cursor) \in Nat
    BY ItemType DEF DesktopTypeOK
  <2>3. task' = [task EXCEPT !.item = ItemAt(cursor)]
    BY <1>11, Zenon DEF Hover
  <2>4. task'.root = task.root /\ task'.item = ItemAt(cursor)
    BY <1>1, <2>2, <2>3 DEF Entry
  <2>5. Matches(task)
    BY <2>1, <1>3 DEF OneUpdate
  <2>6. shown' = task'.root /\ lit' = task'.item
    BY <1>11, <2>4, <2>5 DEF Hover, Matches
  <2>7. ~Queued(queue')
    BY <2>1, <1>3 DEF OneUpdate
  <2>8. ~Posting'
    BY <2>1 DEF Posting
  <2> QED BY <2>1, <2>6, <2>7, <2>8, <1>2 DEF OneUpdate, Matches, Queued
<1>12. CASE AwaitRelease
  <2>1. at = "wait" /\ at' = "post" /\ UNCHANGED <<queue, shown, lit>>
        /\ task' = [task EXCEPT !.kind = "menu click"]
    BY <1>12, Zenon DEF AwaitRelease, LoopRuns, entries
  <2>2. task'.root = task.root /\ task'.item = task.item
    BY <1>1, <2>1 DEF Entry
  <2>3. ~Posting /\ ~Posting'
    BY <2>1 DEF Posting
  <2> QED BY <2>1, <2>2, <2>3, <1>2, <1>3 DEF OneUpdate, Matches
<1>13. CASE PostLoad
  <2>1. /\ at = "post" /\ at' = "kind" /\ beyond' = <<NoTask>>
        /\ UNCHANGED <<queue, task, shown, lit>>
    BY <1>13 DEF PostLoad, LoopRuns
  <2>2. ~Queued(queue) /\ Matches(task)
    BY <2>1, <1>3 DEF OneUpdate
  <2>3. \A n \in DOMAIN beyond' : beyond'[n].kind # "menu update"
    <3>1. DOMAIN beyond' = 1..1 /\ beyond'[1] = NoTask
      BY <2>1
    <3>2. \A n \in DOMAIN beyond' : n = 1
      BY <3>1
    <3> QED BY <3>1, <3>2, NoTaskType
  <2>4. Posting' /\ Matches(task)'
    BY <2>1, <2>2 DEF Posting, Matches
  <2>5. \A n \in DOMAIN queue' : queue'[n].kind # "menu update"
    BY <2>1, <2>2 DEF Queued
  <2> QED BY <2>1, <2>3, <2>4, <2>5 DEF OneUpdate
<1>14. CASE PostStore \/ PostMove
  BY <1>3, <1>14, ChoiceStore, ChoiceMove
<1> QED BY <1>4, <1>5, <1>6, <1>7, <1>8, <1>9, <1>10, <1>11, <1>12, <1>13, <1>14
        DEF DesktopNext, Vsync, MonitorStep, LoopStep

(* As long as no menu is opened over a pending update, what the user       *)
(* chooses is the item that is drawn as chosen, of the menu that is shown, *)
(* also when events were posted in the middle of the menu's new_event,     *)
(* unless the monitor moved the entries too.                               *)
THEOREM ChosenAsShown == DesktopSpec => []ChoiceShown
<1>1. DesktopInit => ChoiceInv
  BY DEF DesktopInit, ChoiceInv, OneUpdate, Queued, Posting
<1>2. ChoiceInv => ChoiceShown
  BY DEF ChoiceInv, OneUpdate, Matches, ChoiceShown, Choosing
<1> QED BY <1>1, <1>2, TypesInit, TypesKept, MonitorInit, MonitorKept, ChoiceKept, PTL DEF DesktopSpec
=============================================================================
