------------------------------ MODULE AudioProofs ------------------------------
(***************************************************************************)
(* The guest and the audio thread never disagree about whose turn it is,   *)
(* and what is heard is the clip, for clips of any length, as long as the  *)
(* contract is kept (proper and prompt): the program plays one clip at a   *)
(* time and lets it end, no request is dropped, and the handler is done    *)
(* before the audio thread wakes up.                                       *)
(***************************************************************************)
EXTENDS Audio, TLAPS

Stages == {"idle", "pointer", "length", "current", "out", "restore"}

(* Arithmetic of the two buffers. *)
LEMMA NextBufferType ==
  /\ NextBuffer \in {0, 1}
  /\ first => NextBuffer = 0
  /\ ~first => NextBuffer = 1
BY DEF NextBuffer

LEMMA LessPositive ==
  ASSUME NEW n \in 1 .. Wrap - 1
  PROVE  Less(n) = n - 1
<1>1. Wrap \in Nat \ {0}
  BY AudioAssumption
<1>2. n + Wrap - 1 = (n - 1) + Wrap /\ n - 1 \in 0 .. Wrap - 1
  BY <1>1
<1>3. ((n - 1) + Wrap) % Wrap = n - 1
  BY <1>1, <1>2
<1> QED BY <1>2, <1>3 DEF Less

LEMMA LessType ==
  ASSUME NEW n \in 0 .. Wrap - 1
  PROVE  Less(n) \in 0 .. Wrap - 1
<1>1. Wrap \in Nat \ {0} /\ n + Wrap - 1 \in Nat
  BY AudioAssumption
<1> QED BY <1>1 DEF Less

LEMMA HalfType ==
  ASSUME NEW i \in 0..MaxPlays, NEW k \in 0..Wrap
  PROVE  <<i, k>> \in Half
BY DEF Half

LEMMA TypeInit == Init => TypeOK
<1> SUFFICES ASSUME Init PROVE TypeOK
  OBVIOUS
<1>0. 0 \in 0..MaxPlays /\ 0 \in 0..Wrap /\ 0 \in 0 .. Wrap - 1 /\ 0 \in 0 .. Wrap + 1
  BY AudioAssumption
<1>1. Silence \in Half
  BY <1>0, HalfType DEF Silence
<1>2. <<Silence, Silence>> \in Buffer
  BY <1>1 DEF Buffer
<1>3. buffers \in [{0, 1} -> Buffer] /\ heard \in Buffer /\ pointer \in Half
  BY <1>1, <1>2 DEF Init
<1>4. playing \in BOOLEAN /\ first \in BOOLEAN /\ requested \in BOOLEAN
  BY Zenon DEF Init
<1>5. /\ thread = "look" /\ current = 0 /\ length = 0 /\ vector = "other"
      /\ saved = "other" /\ program = "idle" /\ handler = "idle" /\ clip = 0
      /\ size = 0 /\ turns = 0
  BY Zenon DEF Init
<1>6. proper \in BOOLEAN /\ prompt \in BOOLEAN
  BY Zenon DEF Init
<1>7. /\ thread \in {"look", "send", "sleep"} /\ current \in {0, 1}
      /\ length \in 0 .. Wrap - 1 /\ turns \in 0 .. Wrap + 1
      /\ vector \in {"refill", "other"} /\ saved \in {"refill", "other"}
      /\ program \in Stages /\ handler \in {"idle", "copy", "lost"}
      /\ clip \in 0..MaxPlays /\ size \in Lengths \cup {0}
  BY <1>0, <1>5 DEF Stages
<1> QED BY <1>3, <1>4, <1>6, <1>7, Zenon DEF TypeOK, Stages

(* The types of the emulator's side and the history, and of the guest's.   *)
HostTypes ==
  /\ playing \in BOOLEAN /\ first \in BOOLEAN
  /\ thread \in {"look", "send", "sleep"}
  /\ requested \in BOOLEAN
  /\ clip \in 0..MaxPlays /\ size \in Lengths \cup {0}
  /\ turns \in 0 .. Wrap + 1
  /\ heard \in Buffer
  /\ proper \in BOOLEAN /\ prompt \in BOOLEAN

GuestTypes ==
  /\ buffers \in [{0, 1} -> Buffer] /\ current \in {0, 1}
  /\ pointer \in Half /\ length \in 0 .. Wrap - 1
  /\ vector \in {"refill", "other"} /\ saved \in {"refill", "other"}
  /\ program \in Stages
  /\ handler \in {"idle", "copy", "lost"}

LEMMA TypeParts == ASSUME TypeOK PROVE HostTypes /\ GuestTypes
<1>1. HostTypes
  BY Zenon DEF TypeOK, HostTypes
<1>2. GuestTypes
  BY Zenon DEF TypeOK, GuestTypes, Stages
<1> QED BY <1>1, <1>2

LEMMA TypeNext == ASSUME HostTypes', GuestTypes' PROVE TypeOK'
BY Zenon DEF TypeOK, HostTypes, GuestTypes, Stages

(* Types: one lemma for each action. *)
LEMMA StepType == ASSUME NEW k \in 0..Wrap PROVE Step(k) \in 0..Wrap
BY AudioAssumption DEF Step

LEMMA PlayVectorType ==
  ASSUME TypeOK, NEW n \in Lengths, PlayVector(n)
  PROVE  TypeOK'
<1>1. /\ clip < MaxPlays /\ clip' = clip + 1 /\ size' = n
      /\ saved' = vector /\ vector' = "refill" /\ program' = "pointer"
  BY DEF PlayVector
<1>2. /\ playing' = playing /\ first' = first /\ thread' = thread
      /\ requested' = requested /\ buffers' = buffers /\ current' = current
      /\ pointer' = pointer /\ length' = length /\ handler' = handler
      /\ turns' = turns /\ heard' = heard /\ prompt' = prompt
  BY Zenon DEF PlayVector
<1>3. clip' \in 0..MaxPlays
  <2>1. clip \in 0..MaxPlays /\ MaxPlays \in Nat
    BY AudioAssumption DEF TypeOK
  <2> QED BY <1>1, <2>1
<1>4. size' \in Lengths \cup {0}
  BY <1>1
<1>5. proper' = (proper /\ n # 0 /\ ~playing /\ ~requested /\ thread # "send")
  BY Zenon DEF PlayVector
<1>6. proper' \in BOOLEAN
  BY <1>5, Zenon
<1>7. /\ vector' \in {"refill", "other"} /\ saved' \in {"refill", "other"}
      /\ program' \in Stages
  BY <1>1 DEF TypeOK, Stages
<1>20. HostTypes'
  BY TypeParts, <1>2, <1>3, <1>4, <1>6, <1>7, Zenon DEF HostTypes
<1>21. GuestTypes'
  BY TypeParts, <1>2, <1>3, <1>4, <1>6, <1>7, Zenon DEF GuestTypes
<1> QED BY <1>20, <1>21, TypeNext

LEMMA PlayPointerType == ASSUME TypeOK, PlayPointer PROVE TypeOK'
<1>1. pointer' = <<clip, 1>> /\ program' = "length"
  BY DEF PlayPointer
<1>2. /\ playing' = playing /\ first' = first /\ thread' = thread
      /\ requested' = requested /\ buffers' = buffers /\ current' = current
      /\ length' = length /\ vector' = vector /\ saved' = saved
      /\ handler' = handler /\ clip' = clip /\ size' = size
      /\ turns' = turns /\ heard' = heard /\ proper' = proper /\ prompt' = prompt
  BY Zenon DEF PlayPointer
<1>3. pointer' \in Half
  <2>1. clip \in 0..MaxPlays /\ 1 \in 0..Wrap
    BY AudioAssumption DEF TypeOK
  <2> QED BY <1>1, <2>1, HalfType
<1>4. program' \in Stages
  BY <1>1 DEF Stages
<1>20. HostTypes'
  BY TypeParts, <1>2, <1>3, <1>4, Zenon DEF HostTypes
<1>21. GuestTypes'
  BY TypeParts, <1>2, <1>3, <1>4, Zenon DEF GuestTypes
<1> QED BY <1>20, <1>21, TypeNext

LEMMA PlayLengthType == ASSUME TypeOK, PlayLength PROVE TypeOK'
<1>1. length' = size /\ program' = "current"
  BY DEF PlayLength
<1>2. /\ playing' = playing /\ first' = first /\ thread' = thread
      /\ requested' = requested /\ buffers' = buffers /\ current' = current
      /\ pointer' = pointer /\ vector' = vector /\ saved' = saved
      /\ handler' = handler /\ clip' = clip /\ size' = size
      /\ turns' = turns /\ heard' = heard /\ proper' = proper /\ prompt' = prompt
  BY Zenon DEF PlayLength
<1>3. length' \in 0 .. Wrap - 1
  BY <1>1, AudioAssumption DEF TypeOK
<1>4. program' \in Stages
  BY <1>1 DEF Stages
<1>20. HostTypes'
  BY TypeParts, <1>2, <1>3, <1>4, Zenon DEF HostTypes
<1>21. GuestTypes'
  BY TypeParts, <1>2, <1>3, <1>4, Zenon DEF GuestTypes
<1> QED BY <1>20, <1>21, TypeNext

LEMMA PlayCurrentType == ASSUME TypeOK, PlayCurrent PROVE TypeOK'
<1>1. current' = 1 /\ program' = "out"
  BY DEF PlayCurrent
<1>2. /\ playing' = playing /\ first' = first /\ thread' = thread
      /\ requested' = requested /\ buffers' = buffers /\ length' = length
      /\ pointer' = pointer /\ vector' = vector /\ saved' = saved
      /\ handler' = handler /\ clip' = clip /\ size' = size
      /\ turns' = turns /\ heard' = heard /\ proper' = proper /\ prompt' = prompt
  BY Zenon DEF PlayCurrent
<1>3. current' \in {0, 1} /\ program' \in Stages
  BY <1>1 DEF Stages
<1>20. HostTypes'
  BY TypeParts, <1>2, <1>3, Zenon DEF HostTypes
<1>21. GuestTypes'
  BY TypeParts, <1>2, <1>3, Zenon DEF GuestTypes
<1> QED BY <1>20, <1>21, TypeNext

LEMMA PlayOutType == ASSUME TypeOK, PlayOut PROVE TypeOK'
<1>1. /\ playing' = TRUE /\ first' = TRUE /\ program' = "idle" /\ turns' = 0
  BY Zenon DEF PlayOut, AudioPort
<1>2. /\ thread' = thread /\ requested' = requested /\ buffers' = buffers
      /\ current' = current /\ pointer' = pointer /\ length' = length /\ vector' = vector
      /\ saved' = saved /\ handler' = handler /\ clip' = clip /\ size' = size
      /\ heard' = heard /\ proper' = proper /\ prompt' = prompt
  BY Zenon DEF PlayOut
<1>3. turns' \in 0 .. Wrap + 1
  BY <1>1, AudioAssumption
<1>4. program' \in Stages
  BY <1>1 DEF Stages
<1>5. playing' \in BOOLEAN /\ first' \in BOOLEAN
  BY <1>1, Zenon
<1>20. HostTypes'
  BY TypeParts, <1>2, <1>3, <1>4, <1>5, Zenon DEF HostTypes
<1>21. GuestTypes'
  BY TypeParts, <1>2, <1>3, <1>4, <1>5, Zenon DEF GuestTypes
<1> QED BY <1>20, <1>21, TypeNext

LEMMA StopOutType == ASSUME TypeOK, StopOut PROVE TypeOK'
<1>1. playing' = FALSE /\ first' = TRUE /\ program' = "restore" /\ prompt' = FALSE
  BY Zenon DEF StopOut, AudioPort
<1>2. /\ thread' = thread /\ requested' = requested /\ buffers' = buffers
      /\ current' = current /\ pointer' = pointer /\ length' = length /\ vector' = vector
      /\ saved' = saved /\ handler' = handler /\ clip' = clip /\ size' = size
      /\ turns' = turns /\ heard' = heard /\ proper' = proper
  BY Zenon DEF StopOut
<1>3. program' \in Stages
  BY <1>1 DEF Stages
<1>4. playing' \in BOOLEAN /\ first' \in BOOLEAN /\ prompt' \in BOOLEAN
  BY <1>1, Zenon
<1>20. HostTypes'
  BY TypeParts, <1>2, <1>3, <1>4, Zenon DEF HostTypes
<1>21. GuestTypes'
  BY TypeParts, <1>2, <1>3, <1>4, Zenon DEF GuestTypes
<1> QED BY <1>20, <1>21, TypeNext

LEMMA StopRestoreType == ASSUME TypeOK, StopRestore PROVE TypeOK'
<1>1. vector' = saved /\ program' = "idle"
  BY Zenon DEF StopRestore
<1>2. /\ playing' = playing /\ first' = first /\ thread' = thread
      /\ requested' = requested /\ buffers' = buffers
      /\ current' = current /\ pointer' = pointer /\ length' = length
      /\ saved' = saved /\ handler' = handler /\ clip' = clip /\ size' = size
      /\ turns' = turns /\ heard' = heard /\ proper' = proper /\ prompt' = prompt
  BY Zenon DEF StopRestore
<1>3. program' \in Stages
  BY <1>1 DEF Stages
<1>20. HostTypes'
  BY TypeParts, <1>1, <1>2, <1>3, Zenon DEF HostTypes
<1>21. GuestTypes'
  BY TypeParts, <1>1, <1>2, <1>3, Zenon DEF GuestTypes
<1> QED BY <1>20, <1>21, TypeNext

LEMMA SwapType == ASSUME TypeOK, Swap PROVE TypeOK'
<1>1. requested' = FALSE
  BY Zenon DEF Swap
<1>2. /\ playing' = playing /\ first' = first /\ thread' = thread /\ pointer' = pointer
      /\ length' = length /\ vector' = vector /\ saved' = saved /\ program' = program
      /\ clip' = clip /\ size' = size /\ turns' = turns /\ heard' = heard
      /\ proper' = proper /\ prompt' = prompt
  BY Zenon DEF Swap
<1>3. buffers \in [{0, 1} -> Buffer] /\ pointer \in Half /\ current \in {0, 1}
  BY Zenon DEF TypeOK
<1>4. /\ buffers' \in [{0, 1} -> Buffer] /\ current' \in {0, 1}
      /\ handler' \in {"idle", "copy", "lost"}
  <2>1. CASE vector = "refill"
    <3>1. /\ current' = 1 - current /\ handler' = "copy"
          /\ buffers' = [buffers EXCEPT ![current'] = <<pointer, buffers[current'][2]>>]
      BY <2>1 DEF Swap, Turned, Other
    <3>2. current' \in {0, 1}
      BY <1>3, <3>1
    <3>3. <<pointer, buffers[current'][2]>> \in Buffer
      BY <1>3, <3>2 DEF Buffer
    <3> QED BY <1>3, <3>1, <3>2, <3>3
  <2>2. CASE vector # "refill"
    BY <1>3, <2>2 DEF Swap
  <2> QED BY <2>1, <2>2
<1>5. requested' \in BOOLEAN
  BY <1>1, Zenon
<1>20. HostTypes'
  BY TypeParts, <1>2, <1>4, <1>5, Zenon DEF HostTypes
<1>21. GuestTypes'
  BY TypeParts, <1>2, <1>4, <1>5, Zenon DEF GuestTypes
<1> QED BY <1>20, <1>21, TypeNext

LEMMA DropType == ASSUME TypeOK, Drop PROVE TypeOK'
<1>1. requested' = FALSE /\ prompt' = FALSE
  BY Zenon DEF Drop
<1>2. /\ playing' = playing /\ first' = first /\ thread' = thread /\ clip' = clip
      /\ size' = size /\ turns' = turns /\ heard' = heard /\ proper' = proper
      /\ UNCHANGED guest
  BY Zenon DEF Drop
<1>3. requested' \in BOOLEAN /\ prompt' \in BOOLEAN
  BY <1>1, Zenon
<1>4. /\ buffers' = buffers /\ current' = current /\ pointer' = pointer
      /\ length' = length /\ vector' = vector /\ saved' = saved
      /\ program' = program /\ handler' = handler
  BY <1>2, Zenon DEF guest
<1>5. program' \in Stages
  BY <1>4, Zenon DEF TypeOK, Stages
<1>20. HostTypes'
  BY TypeParts, <1>2, <1>3, <1>4, <1>5, Zenon DEF HostTypes
<1>21. GuestTypes'
  BY TypeParts, <1>2, <1>3, <1>4, <1>5, Zenon DEF GuestTypes
<1> QED BY <1>20, <1>21, TypeNext

LEMMA SwapEndType == ASSUME TypeOK, SwapEnd PROVE TypeOK'
<1>1. /\ buffers' = [buffers EXCEPT ![current] = <<buffers[current][1], pointer>>]
      /\ pointer' = <<pointer[1], Step(pointer[2])>>
      /\ length' = Less(length)
      /\ handler' = "idle"
  BY DEF SwapEnd
<1>2. /\ thread' = thread /\ requested' = requested /\ current' = current
      /\ saved' = saved /\ program' = program /\ clip' = clip /\ size' = size
      /\ turns' = turns /\ heard' = heard /\ proper' = proper /\ prompt' = prompt
  BY Zenon DEF SwapEnd
<1>3. \/ playing' = FALSE /\ first' = TRUE /\ vector' = saved
      \/ playing' = playing /\ first' = first /\ vector' = vector
  BY Zenon DEF SwapEnd, AudioPort
<1>4. buffers \in [{0, 1} -> Buffer] /\ pointer \in Half /\ current \in {0, 1}
      /\ length \in 0 .. Wrap - 1
  BY Zenon DEF TypeOK
<1>5. buffers' \in [{0, 1} -> Buffer]
  <2>1. <<buffers[current][1], pointer>> \in Buffer
    BY <1>4 DEF Buffer
  <2> QED BY <1>1, <1>4, <2>1
<1>6. pointer' \in Half
  <2>1. pointer[1] \in 0..MaxPlays /\ pointer[2] \in 0..Wrap
    BY <1>4 DEF Half
  <2> QED BY <1>1, <2>1, StepType, HalfType
<1>7. length' \in 0 .. Wrap - 1
  BY <1>1, <1>4, LessType
<1>8. playing' \in BOOLEAN /\ first' \in BOOLEAN
  <2>1. playing \in BOOLEAN /\ first \in BOOLEAN
    BY Zenon DEF TypeOK
  <2> QED BY <1>3, <2>1, Zenon
<1>9. vector' \in {"refill", "other"}
  BY <1>3, Zenon DEF TypeOK
<1>10. handler' \in {"idle", "copy", "lost"}
  BY <1>1
<1>20. HostTypes'
  BY TypeParts, <1>2, <1>4, <1>5, <1>6, <1>7, <1>8, <1>9, <1>10, Zenon DEF HostTypes
<1>21. GuestTypes'
  BY TypeParts, <1>2, <1>4, <1>5, <1>6, <1>7, <1>8, <1>9, <1>10, Zenon DEF GuestTypes
<1> QED BY <1>20, <1>21, TypeNext

LEMMA LookType == ASSUME TypeOK, Look PROVE TypeOK'
<1>1. heard' = buffers[NextBuffer] /\ thread' = "send"
      /\ turns' = IF turns <= Wrap THEN turns + 1 ELSE turns
  BY DEF Look
<1>2. first' = ~first
  BY Zenon DEF Look
<1>3. /\ playing' = playing /\ requested' = requested /\ clip' = clip /\ size' = size
      /\ proper' = proper /\ prompt' = prompt
      /\ UNCHANGED guest
  BY Zenon DEF Look
<1>4. /\ buffers' = buffers /\ current' = current /\ pointer' = pointer
      /\ length' = length /\ vector' = vector /\ saved' = saved
      /\ program' = program /\ handler' = handler
  BY <1>3, Zenon DEF guest
<1>5. heard' \in Buffer
  <2>1. buffers \in [{0, 1} -> Buffer]
    BY Zenon DEF TypeOK
  <2> QED BY <1>1, <2>1, NextBufferType
<1>6. turns' \in 0 .. Wrap + 1
  <2>1. turns \in 0 .. Wrap + 1
    BY Zenon DEF TypeOK
  <2> QED BY <1>1, <2>1, AudioAssumption
<1>7. thread' \in {"look", "send", "sleep"}
  BY <1>1
<1>8. first' \in BOOLEAN
  BY <1>2, Zenon
<1>20. HostTypes'
  BY TypeParts, <1>3, <1>4, <1>5, <1>6, <1>7, <1>8, Zenon DEF HostTypes
<1>21. GuestTypes'
  BY TypeParts, <1>3, <1>4, <1>5, <1>6, <1>7, <1>8, Zenon DEF GuestTypes
<1> QED BY <1>20, <1>21, TypeNext

LEMMA SendType == ASSUME TypeOK, Send PROVE TypeOK'
<1>1. requested' = TRUE
  BY Zenon DEF Send
<1>2. thread' \in {"look", "send", "sleep"}
  BY DEF Send
<1>3. /\ playing' = playing /\ first' = first /\ clip' = clip /\ size' = size
      /\ turns' = turns /\ heard' = heard /\ proper' = proper /\ prompt' = prompt
      /\ UNCHANGED guest
  BY Zenon DEF Send
<1>4. requested' \in BOOLEAN
  BY <1>1, Zenon
<1>20. HostTypes'
  BY TypeParts, <1>2, <1>3, <1>4, Zenon DEF HostTypes, guest
<1>21. GuestTypes'
  BY TypeParts, <1>2, <1>3, <1>4, Zenon DEF GuestTypes, guest
<1> QED BY <1>20, <1>21, TypeNext

LEMMA WakeUpType == ASSUME TypeOK, WakeUp PROVE TypeOK'
<1>1. thread' \in {"look", "send", "sleep"}
  BY DEF WakeUp
<1>2. prompt' = (prompt /\ ~requested /\ handler # "copy")
  BY Zenon DEF WakeUp
<1>3. /\ playing' = playing /\ first' = first /\ clip' = clip /\ size' = size
      /\ turns' = turns /\ heard' = heard /\ requested' = requested
      /\ proper' = proper /\ UNCHANGED guest
  BY Zenon DEF WakeUp
<1>4. prompt' \in BOOLEAN
  BY <1>2, Zenon
<1>20. HostTypes'
  BY TypeParts, <1>1, <1>3, <1>4, Zenon DEF HostTypes, guest
<1>21. GuestTypes'
  BY TypeParts, <1>1, <1>3, <1>4, Zenon DEF GuestTypes, guest
<1> QED BY <1>20, <1>21, TypeNext

LEMMA TypeStep == TypeOK /\ [Next]_vars => TypeOK'
<1> SUFFICES ASSUME TypeOK, [Next]_vars PROVE TypeOK'
  OBVIOUS
<1>1. ASSUME NEW n \in Lengths, PlayVector(n) PROVE TypeOK'
  BY <1>1, PlayVectorType
<1>12. CASE PlayPointer \/ PlayLength \/ PlayCurrent
  BY <1>12, PlayPointerType, PlayLengthType, PlayCurrentType
<1>2. CASE PlayOut
  BY <1>2, PlayOutType
<1>3. CASE StopOut
  BY <1>3, StopOutType
<1>4. CASE StopRestore
  BY <1>4, StopRestoreType
<1>5. CASE Swap
  BY <1>5, SwapType
<1>6. CASE Drop
  BY <1>6, DropType
<1>7. CASE SwapEnd
  BY <1>7, SwapEndType
<1>8. CASE Look
  BY <1>8, LookType
<1>9. CASE Send
  BY <1>9, SendType
<1>10. CASE WakeUp
  BY <1>10, WakeUpType
<1>11. CASE UNCHANGED vars
  <2>1. /\ playing' = playing /\ first' = first /\ thread' = thread
        /\ requested' = requested /\ clip' = clip /\ size' = size /\ turns' = turns
        /\ heard' = heard /\ proper' = proper /\ prompt' = prompt /\ UNCHANGED guest
    BY <1>11, Zenon DEF vars
  <2>2. /\ buffers' = buffers /\ current' = current /\ pointer' = pointer
        /\ length' = length /\ vector' = vector /\ saved' = saved
        /\ program' = program /\ handler' = handler
    BY <2>1, Zenon DEF guest
  <2>3. /\ playing' \in BOOLEAN /\ first' \in BOOLEAN /\ requested' \in BOOLEAN
        /\ thread' \in {"look", "send", "sleep"}
        /\ clip' \in 0..MaxPlays /\ size' \in Lengths \cup {0}
        /\ turns' \in 0 .. Wrap + 1 /\ heard' \in Buffer
        /\ proper' \in BOOLEAN /\ prompt' \in BOOLEAN
    BY <2>1, Zenon DEF TypeOK
  <2>4. /\ buffers' \in [{0, 1} -> Buffer] /\ current' \in {0, 1}
        /\ pointer' \in Half /\ length' \in 0 .. Wrap - 1
        /\ vector' \in {"refill", "other"} /\ saved' \in {"refill", "other"}
        /\ program' \in Stages /\ handler' \in {"idle", "copy", "lost"}
    BY <2>2, Zenon DEF TypeOK, Stages
  <2> QED BY <2>3, <2>4, Zenon DEF TypeOK, Stages
<1> QED BY <1>1, <1>2, <1>3, <1>4, <1>5, <1>6, <1>7, <1>8, <1>9, <1>10, <1>11, <1>12
        DEF Next, Program, PlaySteps, Handler, AudioThread

(* The contract, once broken, stays broken. *)
LEMMA HistoryStep ==
  ASSUME [Next]_vars
  PROVE  (proper' => proper) /\ (prompt' => prompt)
<1>1. ASSUME NEW n \in Lengths, PlayVector(n) PROVE (proper' => proper) /\ (prompt' => prompt)
  BY <1>1, Zenon DEF PlayVector
<1>12. CASE PlayPointer \/ PlayLength \/ PlayCurrent
  <2>1. proper' = proper /\ prompt' = prompt
    BY <1>12, Zenon DEF PlayPointer, PlayLength, PlayCurrent
  <2> QED BY <2>1, Zenon
<1>2. CASE PlayOut
  <2>1. proper' = proper /\ prompt' = prompt
    BY <1>2, Zenon DEF PlayOut
  <2> QED BY <2>1, Zenon
<1>3. CASE StopOut
  <2>1. proper' = proper /\ prompt' = FALSE
    BY <1>3, Zenon DEF StopOut
  <2> QED BY <2>1, Zenon
<1>4. CASE StopRestore
  <2>1. proper' = proper /\ prompt' = prompt
    BY <1>4, Zenon DEF StopRestore
  <2> QED BY <2>1, Zenon
<1>5. CASE Swap
  <2>1. proper' = proper /\ prompt' = prompt
    BY <1>5, Zenon DEF Swap
  <2> QED BY <2>1, Zenon
<1>6. CASE Drop
  <2>1. proper' = proper /\ prompt' = FALSE
    BY <1>6, Zenon DEF Drop
  <2> QED BY <2>1, Zenon
<1>7. CASE SwapEnd
  <2>1. proper' = proper /\ prompt' = prompt
    BY <1>7, Zenon DEF SwapEnd
  <2> QED BY <2>1, Zenon
<1>8. CASE Look
  <2>1. proper' = proper /\ prompt' = prompt
    BY <1>8, Zenon DEF Look
  <2> QED BY <2>1, Zenon
<1>9. CASE Send
  <2>1. proper' = proper /\ prompt' = prompt
    BY <1>9, Zenon DEF Send
  <2> QED BY <2>1, Zenon
<1>10. CASE WakeUp
  <2>1. proper' = proper /\ prompt' = (prompt /\ ~requested /\ handler # "copy")
    BY <1>10, Zenon DEF WakeUp
  <2> QED BY <2>1, Zenon
<1>11. CASE UNCHANGED vars
  BY <1>11, Zenon DEF vars
<1> QED BY <1>1, <1>2, <1>3, <1>4, <1>5, <1>6, <1>7, <1>8, <1>9, <1>10, <1>11, <1>12
        DEF Next, Program, PlaySteps, Handler, AudioThread

-----------------------------------------------------------------------------
(* What the guest's words say of the clip, whoever is in turn: this        *)
(* survives dropped and late requests and stopped clips.  First, what      *)
(* play_audio has set so far, and who must leave it alone meanwhile.       *)
Prepared ==
  /\ program \in {"pointer", "length", "current", "out"} =>
       /\ ~playing /\ ~requested /\ thread # "send" /\ handler = "idle"
       /\ vector = "refill" /\ saved = "other" /\ size >= 1
  /\ program \in {"length", "current", "out"} => pointer = <<clip, 1>>
  /\ program \in {"current", "out"} => length = size
  /\ program = "out" => current = 1

Restored == ~playing /\ program = "idle" => vector = "other"

Settings ==
  /\ Prepared
  /\ Restored
  /\ saved = "other"
  /\ handler = "copy" => vector = "refill"
  /\ vector = "refill" /\ program \in {"idle", "restore"} =>
       length >= 1 /\ pointer[2] + length = size + 1

SettingsInv == TypeOK /\ (proper => Settings)

LEMMA SettingsInit == Init => SettingsInv
<1> SUFFICES ASSUME Init PROVE SettingsInv
  OBVIOUS
<1>1. vector = "other" /\ saved = "other" /\ handler = "idle" /\ program = "idle"
  BY DEF Init
<1> QED BY <1>1, TypeInit DEF SettingsInv, Settings, Prepared, Restored

LEMMA PlayVectorSettings ==
  ASSUME TypeOK, Settings, NEW n \in Lengths, PlayVector(n), proper'
  PROVE  Settings'
<1>1. n # 0 /\ ~playing /\ ~requested /\ thread # "send"
  BY Zenon DEF PlayVector
<1>2. /\ program = "idle" /\ handler = "idle" /\ saved' = vector /\ size' = n
      /\ program' = "pointer" /\ handler' = "idle" /\ vector' = "refill"
      /\ thread' = thread
  BY DEF PlayVector
<1>3. playing' = playing /\ requested' = requested
  BY Zenon DEF PlayVector
<1>4. ~playing' /\ ~requested'
  BY <1>1, <1>3, Zenon
<1>5. vector = "other"
  BY <1>1, <1>2 DEF Settings, Restored
<1>6. n >= 1
  BY <1>1, AudioAssumption
<1> QED BY <1>1, <1>2, <1>4, <1>5, <1>6 DEF Settings, Prepared, Restored

LEMMA PlayStepsSettings ==
  ASSUME TypeOK, Settings, PlayPointer \/ PlayLength \/ PlayCurrent
  PROVE  Settings'
<1>1. program \in {"pointer", "length", "current"}
  BY DEF PlayPointer, PlayLength, PlayCurrent
<1>2. /\ ~playing /\ ~requested /\ thread # "send" /\ handler = "idle"
      /\ vector = "refill" /\ saved = "other" /\ size >= 1
  BY <1>1 DEF Settings, Prepared
<1>3. /\ playing' = playing /\ requested' = requested /\ thread' = thread
      /\ handler' = handler /\ vector' = vector /\ saved' = saved /\ size' = size
      /\ clip' = clip
  BY Zenon DEF PlayPointer, PlayLength, PlayCurrent
<1>4. ~playing' /\ ~requested'
  BY <1>2, <1>3, Zenon
<1>5. CASE PlayPointer
  <2>1. pointer' = <<clip, 1>> /\ program' = "length"
    BY <1>5 DEF PlayPointer
  <2> QED BY <1>2, <1>3, <1>4, <2>1 DEF Settings, Prepared, Restored
<1>6. CASE PlayLength
  <2>1. pointer' = pointer /\ length' = size /\ program = "length" /\ program' = "current"
    BY <1>6 DEF PlayLength
  <2> QED BY <1>2, <1>3, <1>4, <2>1 DEF Settings, Prepared, Restored
<1>7. CASE PlayCurrent
  <2>1. /\ pointer' = pointer /\ length' = length /\ current' = 1
        /\ program = "current" /\ program' = "out"
    BY <1>7 DEF PlayCurrent
  <2> QED BY <1>2, <1>3, <1>4, <2>1 DEF Settings, Prepared, Restored
<1> QED BY <1>5, <1>6, <1>7

LEMMA PlayOutSettings == ASSUME TypeOK, Settings, PlayOut PROVE Settings'
<1>1. program = "out" /\ handler = "idle" /\ program' = "idle"
  BY DEF PlayOut
<1>2. /\ playing' = TRUE /\ handler' = handler /\ saved' = saved /\ vector' = vector
      /\ length' = length /\ pointer' = pointer /\ size' = size
  BY Zenon DEF PlayOut, AudioPort
<1>3. playing'
  BY <1>2, Zenon
<1>4. /\ vector = "refill" /\ saved = "other" /\ size >= 1 /\ length = size
      /\ pointer = <<clip, 1>>
  BY <1>1 DEF Settings, Prepared
<1>5. size \in Nat
  BY AudioAssumption DEF TypeOK
<1>6. pointer'[2] + length' = size' + 1 /\ length' >= 1
  BY <1>2, <1>4, <1>5
<1> QED BY <1>1, <1>2, <1>3, <1>4, <1>6 DEF Settings, Prepared, Restored

LEMMA SwapEndSettings ==
  ASSUME TypeOK, Settings, SwapEnd
  PROVE  Settings'
<1>1. handler = "copy" /\ vector = "refill" /\ saved = "other"
  BY DEF SwapEnd, Settings
<1>a. program \in {"idle", "restore"}
  BY <1>1 DEF Settings, Prepared, TypeOK
<1>2. /\ pointer' = <<pointer[1], Step(pointer[2])>> /\ length' = Less(length)
      /\ handler' = "idle"
  BY DEF SwapEnd
<1>3. saved' = saved /\ program' = program /\ size' = size
  BY Zenon DEF SwapEnd
<1>b. Prepared'
  BY <1>a, <1>3 DEF Prepared
<1>4. length \in 1 .. Wrap - 1 /\ pointer[2] \in 0..Wrap /\ size \in 0 .. Wrap - 1
      /\ pointer[2] + length = size + 1 /\ Wrap \in Nat
  <2>1. length \in 0 .. Wrap - 1 /\ pointer \in Half /\ size \in 0 .. Wrap - 1
        /\ Wrap \in Nat \ {0}
    BY AudioAssumption DEF TypeOK
  <2>2. pointer[2] \in 0..Wrap
    BY <2>1 DEF Half
  <2>3. length >= 1 /\ pointer[2] + length = size + 1
    BY <1>1, <1>a DEF Settings
  <2> QED BY <2>1, <2>2, <2>3
<1>5. Step(pointer[2]) = pointer[2] + 1
  BY <1>4 DEF Step
<1>6. length' = length - 1
  BY <1>2, <1>4, LessPositive
<1>7. pointer'[2] + length' = size' + 1
  <2>1. pointer'[2] = pointer[2] + 1
    BY <1>2, <1>5
  <2> QED BY <1>3, <1>4, <1>6, <2>1
<1>8. CASE length' = 0
  <2>1. vector' = saved
    BY <1>8, Zenon DEF SwapEnd
  <2> QED BY <1>1, <1>2, <1>3, <1>b, <2>1 DEF Settings, Restored
<1>9. CASE length' # 0
  <2>1. vector' = vector /\ playing' = playing
    BY <1>9, Zenon DEF SwapEnd
  <2>2. playing' <=> playing
    BY <2>1, Zenon
  <2>3. length' >= 1
    BY <1>4, <1>6, <1>9
  <2>4. Restored'
    BY <1>3, <2>1, <2>2 DEF Settings, Restored
  <2> QED BY <1>1, <1>2, <1>3, <1>7, <1>b, <2>1, <2>3, <2>4 DEF Settings
<1> QED BY <1>8, <1>9

(* Every other step leaves the words alone, and no play_audio is running   *)
(* then, or nothing it depends on changes.                                 *)
LEMMA OtherSettings ==
  ASSUME TypeOK, Settings,
         StopOut \/ StopRestore \/ Swap \/ Drop \/ AudioThread \/ UNCHANGED vars
  PROVE  Settings'
<1>1. CASE StopOut
  <2>1. program' = "restore" /\ handler' = handler /\ saved' = saved /\ vector' = vector
        /\ length' = length /\ pointer' = pointer /\ size' = size /\ program = "idle"
    BY <1>1, Zenon DEF StopOut
  <2> QED BY <2>1 DEF Settings, Prepared, Restored
<1>2. CASE StopRestore
  <2>1. vector' = saved /\ handler = "idle" /\ handler' = handler /\ saved' = saved
        /\ program' = "idle"
    BY <1>2, Zenon DEF StopRestore
  <2> QED BY <2>1 DEF Settings, Prepared, Restored
<1>3. CASE Swap
  <2>1. saved' = saved /\ vector' = vector
        /\ length' = length /\ pointer' = pointer /\ size' = size /\ program' = program
    BY <1>3, Zenon DEF Swap
  <2>2. playing' <=> playing
    <3>1. playing' = playing
      BY <1>3, Zenon DEF Swap
    <3> QED BY <3>1, Zenon
  <2>3. handler' = "copy" => vector = "refill"
    BY <1>3 DEF Swap
  <2>4. requested
    BY <1>3, Zenon DEF Swap
  <2>5. program \in {"idle", "restore"}
    BY <2>4 DEF Settings, Prepared, TypeOK
  <2> QED BY <2>1, <2>2, <2>3, <2>5 DEF Settings, Prepared, Restored
<1>4. CASE Drop
  <2>1. requested
    BY <1>4, Zenon DEF Drop
  <2>2. program \in {"idle", "restore"}
    BY <2>1 DEF Settings, Prepared, TypeOK
  <2>3. /\ vector' = vector /\ saved' = saved /\ length' = length /\ pointer' = pointer
        /\ handler' = handler /\ program' = program /\ size' = size
    BY <1>4, Zenon DEF Drop, guest
  <2>4. playing' <=> playing
    <3>1. playing' = playing
      BY <1>4, Zenon DEF Drop
    <3> QED BY <3>1, Zenon
  <2> QED BY <2>2, <2>3, <2>4 DEF Settings, Prepared, Restored
<1>5. CASE Look \/ Send
  <2>1. playing \/ thread = "send"
    BY <1>5, Zenon DEF Look, Send
  <2>2. program \in {"idle", "restore"}
    BY <2>1 DEF Settings, Prepared, TypeOK
  <2>3. /\ vector' = vector /\ saved' = saved /\ length' = length /\ pointer' = pointer
        /\ handler' = handler /\ program' = program /\ size' = size
    BY <1>5, Zenon DEF Look, Send, guest
  <2>4. playing' <=> playing
    <3>1. playing' = playing
      BY <1>5, Zenon DEF Look, Send
    <3> QED BY <3>1, Zenon
  <2> QED BY <2>2, <2>3, <2>4 DEF Settings, Prepared, Restored
<1>6. CASE WakeUp
  <2>1. /\ vector' = vector /\ saved' = saved /\ length' = length /\ pointer' = pointer
        /\ handler' = handler /\ program' = program /\ size' = size
        /\ current' = current /\ clip' = clip /\ thread' = "look"
    BY <1>6, Zenon DEF WakeUp, guest
  <2>2. (playing' <=> playing) /\ (requested' <=> requested)
    <3>1. playing' = playing /\ requested' = requested
      BY <1>6, Zenon DEF WakeUp
    <3> QED BY <3>1, Zenon
  <2> QED BY <2>1, <2>2 DEF Settings, Prepared, Restored
<1>7. CASE UNCHANGED vars
  BY <1>7, Zenon DEF Settings, Prepared, Restored, vars, guest
<1> QED BY <1>1, <1>2, <1>3, <1>4, <1>5, <1>6, <1>7 DEF AudioThread

LEMMA SettingsStep == SettingsInv /\ [Next]_vars => SettingsInv'
<1> SUFFICES ASSUME SettingsInv, [Next]_vars PROVE SettingsInv'
  OBVIOUS
<1>1. TypeOK /\ TypeOK'
  BY TypeStep DEF SettingsInv
<1>2. ASSUME proper' PROVE Settings'
  <2>1. Settings
    BY <1>2, HistoryStep DEF SettingsInv
  <2>2. ASSUME NEW n \in Lengths, PlayVector(n) PROVE Settings'
    BY <1>1, <1>2, <2>1, <2>2, PlayVectorSettings
  <2>3. CASE PlayPointer \/ PlayLength \/ PlayCurrent
    BY <1>1, <2>1, <2>3, PlayStepsSettings
  <2>4. CASE PlayOut
    BY <1>1, <2>1, <2>4, PlayOutSettings
  <2>5. CASE SwapEnd
    BY <1>1, <2>1, <2>5, SwapEndSettings
  <2>6. CASE StopOut \/ StopRestore \/ Swap \/ Drop \/ AudioThread \/ UNCHANGED vars
    BY <1>1, <2>1, <2>6, OtherSettings
  <2> QED BY <2>2, <2>3, <2>4, <2>5, <2>6 DEF Next, Program, PlaySteps, Handler
<1> QED BY <1>1, <1>2 DEF SettingsInv

-----------------------------------------------------------------------------
(* The two sides in step, as long as the contract is kept. *)
Whole(k) == <<<<clip, k>>, <<clip, k>>>>

Waiting == thread = "send" \/ requested

(* A buffer has been taken, and the handler has not answered. *)
Ahead ==
  /\ current = NextBuffer
  /\ turns = pointer[2]
  /\ pointer[2] >= 2 => buffers[current] = Whole(pointer[2] - 1)

(* The handler is between the halves of a chunk. *)
Copying ==
  /\ current # NextBuffer
  /\ turns = pointer[2]
  /\ pointer[2] >= 2 => buffers[NextBuffer] = Whole(pointer[2] - 1)
  /\ buffers[current][1] = pointer

(* The handler has answered every buffer that was taken. *)
Level ==
  /\ current # NextBuffer
  /\ turns = pointer[2] - 1
  /\ pointer[2] >= 2 => buffers[current] = Whole(pointer[2] - 1)
  /\ pointer[2] >= 3 => buffers[NextBuffer] = Whole(pointer[2] - 2)

(* Who may be doing something in which phase. *)
Phases ==
  /\ handler \in {"idle", "copy"} /\ program # "restore"
  /\ requested => playing /\ thread = "sleep" /\ handler = "idle"
  /\ handler = "copy" => playing /\ thread = "sleep"
  /\ thread = "send" => playing
  /\ playing => program = "idle"

(* What the guest's words say of the clip. *)
Words ==
  /\ playing => /\ vector = "refill" /\ saved = "other"
                /\ length >= 1
                /\ pointer[1] = clip
                /\ pointer[2] >= 1
                /\ pointer[2] + length = size + 1
  /\ ~playing /\ program = "idle" => vector = "other"

Turns ==
  /\ playing /\ Waiting => Ahead
  /\ playing /\ handler = "copy" => Copying
  /\ playing /\ ~Waiting /\ handler = "idle" => Level

Inv == TypeOK /\ Phases /\ Words /\ Turns

LEMMA InvInit == Init => Inv
<1> SUFFICES ASSUME Init PROVE Inv
  OBVIOUS
<1>1. TypeOK
  BY TypeInit
<1>2. /\ ~playing /\ ~requested
      /\ thread = "look" /\ program = "idle" /\ handler = "idle" /\ vector = "other"
  BY Zenon DEF Init
<1> QED BY <1>1, <1>2 DEF Inv, Phases, Words, Turns

(* The program starts a clip, word by word. *)
LEMMA PlayVectorInv ==
  ASSUME Inv, NEW n \in Lengths, PlayVector(n), proper'
  PROVE  Inv'
<1>0. Phases
  BY DEF Inv
<1>1. ~playing
  BY Zenon DEF PlayVector
<1>2. program' = "pointer" /\ handler' = "idle" /\ thread' = thread
  BY DEF PlayVector
<1>3. playing' = playing /\ requested' = requested
  BY Zenon DEF PlayVector
<1>4. ~playing' /\ (requested' <=> requested)
  BY <1>1, <1>3, Zenon
<1>5. TypeOK'
  BY PlayVectorType DEF Inv
<1>6. Phases'
  BY <1>0, <1>1, <1>2, <1>4 DEF Phases
<1>7. Words' /\ Turns'
  BY <1>2, <1>4 DEF Words, Turns
<1> QED BY <1>5, <1>6, <1>7 DEF Inv

LEMMA PlayStepsInv ==
  ASSUME Inv, Prepared, PlayPointer \/ PlayLength \/ PlayCurrent
  PROVE  Inv'
<1>0. Phases
  BY DEF Inv
<1>1. ~playing /\ ~requested /\ handler = "idle" /\ thread # "send"
  BY DEF Prepared, PlayPointer, PlayLength, PlayCurrent
<1>2. /\ program' \in {"length", "current", "out"} /\ handler' = "idle"
      /\ thread' = thread
  BY DEF PlayPointer, PlayLength, PlayCurrent
<1>3. playing' = playing /\ requested' = requested
  BY Zenon DEF PlayPointer, PlayLength, PlayCurrent
<1>4. ~playing' /\ ~requested'
  BY <1>1, <1>3, Zenon
<1>5. TypeOK'
  BY PlayPointerType, PlayLengthType, PlayCurrentType DEF Inv
<1>6. Phases'
  BY <1>0, <1>1, <1>2, <1>4 DEF Phases
<1>7. Words' /\ Turns'
  BY <1>2, <1>4 DEF Words, Turns
<1> QED BY <1>5, <1>6, <1>7 DEF Inv

(* The port is switched on: both sides start at the first buffer. *)
LEMMA PlayOutInv == ASSUME Inv, Prepared, PlayOut PROVE Inv'
<1>1. /\ program = "out" /\ handler = "idle" /\ playing' = TRUE /\ first' = TRUE
      /\ program' = "idle" /\ turns' = 0
  BY Zenon DEF PlayOut, AudioPort
<1>2. /\ thread' = thread /\ requested' = requested
      /\ current' = current /\ pointer' = pointer /\ length' = length /\ vector' = vector
      /\ saved' = saved /\ handler' = handler /\ clip' = clip /\ size' = size
  BY Zenon DEF PlayOut
<1>3. /\ ~requested /\ thread # "send" /\ vector = "refill" /\ saved = "other"
      /\ size >= 1 /\ pointer = <<clip, 1>> /\ length = size /\ current = 1
  BY <1>1 DEF Prepared
<1>4. playing' /\ first' /\ ~requested' /\ thread' # "send"
  <2>1. playing' /\ first'
    BY <1>1, Zenon
  <2>2. ~requested' /\ thread' # "send"
    BY <1>2, <1>3, Zenon
  <2> QED BY <2>1, <2>2
<1>5. TypeOK'
  BY PlayOutType DEF Inv
<1>6. Phases'
  BY <1>1, <1>2, <1>4 DEF Phases
<1>7. Words'
  <2>1. size \in Nat
    BY AudioAssumption DEF Inv, TypeOK
  <2>2. /\ length' >= 1 /\ pointer'[1] = clip' /\ pointer'[2] >= 1
        /\ pointer'[2] + length' = size' + 1
    BY <1>2, <1>3, <2>1
  <2> QED BY <1>2, <1>3, <1>4, <2>2 DEF Words
<1>8. Turns'
  <2>1. NextBuffer' = 0
    BY <1>4 DEF NextBuffer
  <2>2. current' = 1 /\ pointer'[2] = 1
    BY <1>2, <1>3
  <2>3. Level'
    BY <1>1, <2>1, <2>2 DEF Level
  <2>4. ~Waiting' /\ handler' = "idle"
    BY <1>1, <1>2, <1>4 DEF Waiting
  <2> QED BY <2>3, <2>4, Zenon DEF Turns
<1> QED BY <1>5, <1>6, <1>7, <1>8 DEF Inv

(* Facts about a clip being played that every other step starts from. *)
LEMMA PlayingFacts ==
  ASSUME Inv, playing
  PROVE  /\ program = "idle" /\ vector = "refill" /\ saved = "other"
         /\ length \in 1 .. Wrap - 1 /\ pointer[2] \in 1..Wrap
         /\ pointer = <<clip, pointer[2]>>
         /\ pointer[2] + length = size + 1 /\ size \in 1 .. Wrap - 1
         /\ clip \in 0..MaxPlays /\ current \in {0, 1}
         /\ pointer[2] < Wrap
<1>1. program = "idle" /\ vector = "refill" /\ saved = "other" /\ length >= 1
      /\ pointer[1] = clip /\ pointer[2] >= 1 /\ pointer[2] + length = size + 1
  BY DEF Inv, Phases, Words
<1>2. Wrap \in Nat \ {0} /\ Lengths \subseteq 0 .. Wrap - 1
  BY AudioAssumption
<1>3. length \in 0 .. Wrap - 1 /\ pointer \in Half /\ size \in 0 .. Wrap - 1
      /\ clip \in 0..MaxPlays /\ current \in {0, 1}
  BY <1>2 DEF Inv, TypeOK
<1>4. pointer = <<pointer[1], pointer[2]>> /\ pointer[2] \in 0..Wrap
  BY <1>3 DEF Half
<1>5. pointer[2] < Wrap /\ size \in 1 .. Wrap - 1
  BY <1>1, <1>2, <1>3, <1>4
<1> QED BY <1>1, <1>2, <1>3, <1>4, <1>5

(* The handler answers: the first half of the next chunk. *)
LEMMA SwapInv == ASSUME Inv, Swap PROVE Inv'
<1>0. TypeOK /\ Phases /\ Words /\ Turns
  BY DEF Inv
<1>1. requested /\ handler = "idle" /\ requested' = FALSE
  BY Zenon DEF Swap
<1>2. playing /\ thread = "sleep"
  BY <1>0, <1>1, Zenon DEF Phases
<1>3. /\ program = "idle" /\ vector = "refill" /\ saved = "other"
      /\ length \in 1 .. Wrap - 1 /\ pointer[2] \in 1..Wrap
      /\ pointer = <<clip, pointer[2]>>
      /\ pointer[2] + length = size + 1 /\ size \in 1 .. Wrap - 1
      /\ clip \in 0..MaxPlays /\ current \in {0, 1}
      /\ pointer[2] < Wrap
  BY <1>2, PlayingFacts
<1>4. /\ current' = 1 - current
      /\ buffers' = [buffers EXCEPT ![current'] = <<pointer, @[2]>>]
      /\ handler' = "copy"
      /\ UNCHANGED <<playing, first, thread, pointer, length, vector, saved, program,
                     clip, size, turns, heard>>
  BY <1>3 DEF Swap, Turned, Other
<1>5. /\ playing' = playing /\ first' = first /\ thread' = thread /\ pointer' = pointer
      /\ length' = length /\ vector' = vector /\ saved' = saved /\ program' = program
      /\ clip' = clip /\ size' = size /\ turns' = turns /\ heard' = heard
  BY <1>4, Zenon
<1>6. buffers \in [{0, 1} -> Buffer] /\ pointer \in Half
  BY <1>0, Zenon DEF TypeOK
<1>7. current' \in {0, 1} /\ current' # current
  BY <1>3, <1>4
<1>8. /\ buffers' \in [{0, 1} -> Buffer]
      /\ buffers'[current] = buffers[current]
      /\ buffers'[current'][1] = pointer
  <2>1. buffers[current'] \in Buffer
    BY <1>6, <1>7
  <2>2. <<pointer, buffers[current'][2]>> \in Buffer
    BY <1>6, <2>1 DEF Buffer
  <2>3. buffers' = [buffers EXCEPT ![current'] = <<pointer, buffers[current'][2]>>]
    BY <1>4
  <2> QED BY <1>3, <1>6, <1>7, <2>2, <2>3
<1>9. TypeOK'
  BY SwapType DEF Inv
<1>10. playing' /\ ~requested' /\ thread' = "sleep" /\ program' = "idle"
  <2>1. ~requested'
    BY <1>1, Zenon
  <2>2. playing'
    BY <1>2, <1>5, Zenon
  <2> QED BY <1>2, <1>3, <1>5, <2>1, <2>2
<1>11. Phases'
  BY <1>4, <1>10 DEF Phases
<1>12. Words'
  BY <1>0, <1>2, <1>5, <1>10 DEF Words
<1>13. Turns'
  <2>1. Ahead
    BY <1>0, <1>1, <1>2, Zenon DEF Turns, Waiting
  <2>2. NextBuffer' = NextBuffer
    BY <1>5, Zenon DEF NextBuffer
  <2>3. Copying'
    BY <1>3, <1>5, <1>7, <1>8, <2>1, <2>2 DEF Ahead, Copying, Whole
  <2>4. ~Waiting' /\ handler' = "copy"
    BY <1>4, <1>10 DEF Waiting
  <2> QED BY <2>3, <2>4 DEF Turns
<1> QED BY <1>9, <1>11, <1>12, <1>13 DEF Inv

(* ... and the second half, after which the clip may be over. *)
LEMMA SwapEndInv == ASSUME Inv, SwapEnd PROVE Inv'
<1>0. TypeOK /\ Phases /\ Words /\ Turns
  BY DEF Inv
<1>1. handler = "copy"
  BY DEF SwapEnd
<1>2. playing /\ thread = "sleep" /\ ~requested
  BY <1>0, <1>1 DEF Phases
<1>3. /\ program = "idle" /\ vector = "refill" /\ saved = "other"
      /\ length \in 1 .. Wrap - 1 /\ pointer[2] \in 1..Wrap
      /\ pointer = <<clip, pointer[2]>>
      /\ pointer[2] + length = size + 1 /\ size \in 1 .. Wrap - 1
      /\ clip \in 0..MaxPlays /\ current \in {0, 1}
      /\ pointer[2] < Wrap
  BY <1>2, PlayingFacts
<1>4. /\ buffers' = [buffers EXCEPT ![current] = <<@[1], pointer>>]
      /\ pointer' = <<pointer[1], pointer[2] + 1>>
      /\ length' = Less(length)
      /\ handler' = "idle"
  BY <1>3 DEF SwapEnd, Step
<1>5. /\ thread' = thread /\ requested' = requested /\ current' = current
      /\ saved' = saved /\ program' = program /\ clip' = clip /\ size' = size
      /\ turns' = turns /\ heard' = heard
  BY Zenon DEF SwapEnd
<1>6. length' = length - 1 /\ length' \in 0 .. Wrap - 1
  <2>1. length' = length - 1
    BY <1>3, <1>4, LessPositive
  <2> QED BY <1>3, <2>1, AudioAssumption
<1>7. \/ length' = 0 /\ playing' = FALSE /\ first' = TRUE /\ vector' = saved
      \/ length' # 0 /\ playing' = playing /\ first' = first /\ vector' = vector
  BY Zenon DEF SwapEnd, AudioPort
<1>8. /\ pointer'[1] = clip /\ pointer'[2] = pointer[2] + 1 /\ pointer' \in Half
  <2>1. pointer[1] = clip
    BY <1>3
  <2>2. pointer' = <<clip, pointer[2] + 1>>
    BY <1>4, <2>1
  <2>3. pointer[2] + 1 \in 0..Wrap
    BY <1>3, AudioAssumption
  <2> QED BY <1>3, <2>2, <2>3, HalfType
<1>9. buffers \in [{0, 1} -> Buffer] /\ pointer \in Half
  BY <1>0, Zenon DEF TypeOK
<1>10. /\ buffers' \in [{0, 1} -> Buffer]
       /\ buffers'[current] = <<buffers[current][1], pointer>>
       /\ \A b \in {0, 1} : b # current => buffers'[b] = buffers[b]
  <2>1. buffers[current] \in Buffer
    BY <1>3, <1>9
  <2>2. <<buffers[current][1], pointer>> \in Buffer
    BY <1>9, <2>1 DEF Buffer
  <2>3. buffers' = [buffers EXCEPT ![current] = <<buffers[current][1], pointer>>]
    BY <1>4
  <2> QED BY <1>3, <1>9, <2>2, <2>3
<1>11. TypeOK'
  BY SwapEndType DEF Inv
<1>12. ~requested' /\ thread' = "sleep" /\ program' = "idle"
  <2>1. ~requested'
    BY <1>2, <1>5, Zenon
  <2> QED BY <1>2, <1>3, <1>5, <2>1
<1>13. Phases'
  BY <1>4, <1>12 DEF Phases
<1>14. CASE ~playing'
  <2>1. length' = 0 /\ vector' = saved
    BY <1>2, <1>7, <1>14, Zenon
  <2>2. Words'
    BY <1>3, <1>12, <1>14, <2>1 DEF Words
  <2>3. Turns'
    BY <1>14 DEF Turns
  <2> QED BY <1>11, <1>13, <2>2, <2>3 DEF Inv
<1>15. CASE playing'
  <2>1. length' # 0 /\ first' = first /\ vector' = vector
    BY <1>7, <1>15, Zenon
  <2>2. Words'
    BY <1>3, <1>5, <1>6, <1>8, <1>12, <1>15, <2>1 DEF Words
  <2>3. NextBuffer' = NextBuffer
    BY <2>1, Zenon DEF NextBuffer
  <2>4. Copying
    BY <1>0, <1>1, <1>2, Zenon DEF Turns
  <2>5. Level'
    <3>1. current' # NextBuffer' /\ turns' = pointer'[2] - 1
      BY <1>3, <1>5, <1>8, <2>3, <2>4 DEF Copying
    <3>2. buffers'[current'] = <<pointer, pointer>>
      <4>1. buffers[current][1] = pointer
        BY <2>4 DEF Copying
      <4>2. buffers'[current] = <<buffers[current][1], pointer>>
        BY <1>10
      <4> QED BY <1>5, <4>1, <4>2
    <3>3. Whole(pointer[2] - 1)' = <<pointer, pointer>>
      BY <1>3, <1>5, <1>8 DEF Whole
    <3>4. pointer'[2] >= 3 => buffers'[NextBuffer] = Whole(pointer[2] - 1)
      BY <1>3, <1>8, <1>10, <2>4, NextBufferType DEF Copying
    <3>5. Whole(pointer[2] - 2)' = Whole(pointer[2] - 1)
      BY <1>3, <1>5, <1>8 DEF Whole
    <3> QED BY <2>3, <3>1, <3>2, <3>3, <3>4, <3>5 DEF Level
  <2>6. ~Waiting' /\ handler' = "idle"
    BY <1>4, <1>12 DEF Waiting
  <2>7. Turns'
    BY <2>5, <2>6 DEF Turns
  <2> QED BY <1>11, <1>13, <2>2, <2>7 DEF Inv
<1> QED BY <1>14, <1>15

(* The audio thread takes a buffer. *)
LEMMA LookFacts ==
  ASSUME Inv, Look
  PROVE  /\ playing /\ Level /\ handler = "idle" /\ ~requested /\ thread = "look"
         /\ NextBuffer' # NextBuffer
         /\ first' \in BOOLEAN
         /\ turns' = turns + 1 /\ turns' = pointer[2] /\ pointer[2] < Wrap
<1>0. TypeOK /\ Phases /\ Words /\ Turns
  BY DEF Inv
<1>1. thread = "look" /\ playing
  BY DEF Look
<1>2. handler = "idle" /\ ~requested
  BY <1>0, <1>1 DEF Phases
<1>3. Level
  BY <1>0, <1>1, <1>2 DEF Turns, Waiting
<1>4. pointer[2] \in 1..Wrap /\ pointer[2] < Wrap /\ turns = pointer[2] - 1
  BY <1>1, <1>3, PlayingFacts DEF Level
<1>5. turns' = turns + 1
  <2>1. Wrap \in Nat
    BY AudioAssumption
  <2>2. turns <= Wrap
    BY <1>4, <2>1
  <2> QED BY <2>2 DEF Look
<1>6. first' = ~first
  BY Zenon DEF Look
<1>7. first \in BOOLEAN /\ first' \in BOOLEAN
  <2>1. first \in BOOLEAN
    BY <1>0, Zenon DEF TypeOK
  <2> QED BY <1>6, <2>1, Zenon
<1>8. NextBuffer' # NextBuffer
  <2>1. CASE first
    <3>1. ~first'
      BY <1>6, <2>1, Zenon
    <3>2. NextBuffer = 0 /\ NextBuffer' = 1
      BY <2>1, <3>1 DEF NextBuffer
    <3> QED BY <3>2
  <2>2. CASE ~first
    <3>1. first'
      BY <1>6, <2>2, Zenon
    <3>2. NextBuffer = 1 /\ NextBuffer' = 0
      BY <2>2, <3>1 DEF NextBuffer
    <3> QED BY <3>2
  <2> QED BY <2>1, <2>2
<1>9. turns' = pointer[2]
  BY <1>4, <1>5
<1> QED BY <1>1, <1>2, <1>3, <1>4, <1>5, <1>7, <1>8, <1>9

LEMMA LookInv == ASSUME Inv, Look PROVE Inv'
<1>0. TypeOK /\ Phases /\ Words /\ Turns
  BY DEF Inv
<1>1. /\ playing /\ Level /\ handler = "idle" /\ ~requested /\ thread = "look"
      /\ NextBuffer' # NextBuffer
      /\ first' \in BOOLEAN
      /\ turns' = turns + 1 /\ turns' = pointer[2] /\ pointer[2] < Wrap
  BY LookFacts
<1>2. heard' = buffers[NextBuffer] /\ thread' = "send"
  BY DEF Look
<1>3. /\ playing' = playing /\ requested' = requested /\ clip' = clip /\ size' = size
      /\ UNCHANGED guest
  BY Zenon DEF Look
<1>4. /\ buffers' = buffers /\ current' = current /\ pointer' = pointer
      /\ length' = length /\ vector' = vector /\ saved' = saved
      /\ program' = program /\ handler' = handler
  BY <1>3, Zenon DEF guest
<1>5. current \in {0, 1} /\ pointer[2] \in 1..Wrap
  BY <1>1, PlayingFacts
<1>6. TypeOK'
  BY LookType DEF Inv
<1>7. playing' /\ ~requested' /\ handler' = "idle"
  <2>1. playing'
    BY <1>1, <1>3, Zenon
  <2>2. ~requested'
    BY <1>1, <1>3, Zenon
  <2> QED BY <1>1, <1>4, <2>1, <2>2
<1>8. Phases'
  BY <1>0, <1>1, <1>2, <1>4, <1>7 DEF Phases
<1>9. Words'
  BY <1>0, <1>1, <1>3, <1>4, <1>7 DEF Words
<1>10. Turns'
  <2>1. NextBuffer \in {0, 1} /\ NextBuffer' \in {0, 1}
    BY DEF NextBuffer
  <2>2. current' = NextBuffer'
    BY <1>1, <1>4, <1>5, <2>1 DEF Level
  <2>3. pointer[2] >= 2 => buffers'[current'] = Whole(pointer[2] - 1)'
    BY <1>1, <1>3, <1>4, <1>5 DEF Level, Whole
  <2>4. Ahead'
    BY <1>1, <1>4, <2>2, <2>3 DEF Ahead
  <2>5. Waiting'
    BY <1>2 DEF Waiting
  <2> QED BY <1>7, <2>4, <2>5 DEF Turns
<1> QED BY <1>6, <1>8, <1>9, <1>10 DEF Inv

(* It requests a swap, and sleeps until the swap is over. *)
LEMMA SendInv == ASSUME Inv, Send PROVE Inv'
<1>0. TypeOK /\ Phases /\ Words /\ Turns
  BY DEF Inv
<1>1. thread = "send" /\ ~requested /\ thread' = "sleep"
  BY DEF Send
<1>2. requested' = TRUE
  BY Zenon DEF Send
<1>3. /\ playing' = playing /\ first' = first /\ clip' = clip /\ size' = size
      /\ turns' = turns /\ heard' = heard /\ UNCHANGED guest
  BY Zenon DEF Send
<1>4. /\ buffers' = buffers /\ current' = current /\ pointer' = pointer
      /\ length' = length /\ vector' = vector /\ saved' = saved
      /\ program' = program /\ handler' = handler
  BY <1>3, Zenon DEF guest
<1>5. playing /\ handler = "idle" /\ program = "idle"
  BY <1>0, <1>1 DEF Phases
<1>6. playing' /\ requested' /\ handler' = "idle" /\ program' = "idle"
  <2>1. playing'
    BY <1>3, <1>5, Zenon
  <2>2. requested'
    BY <1>2, Zenon
  <2> QED BY <1>4, <1>5, <2>1, <2>2
<1>7. TypeOK'
  BY SendType DEF Inv
<1>8. Phases'
  BY <1>1, <1>6 DEF Phases
<1>9. Words'
  BY <1>0, <1>3, <1>4, <1>5, <1>6 DEF Words
<1>10. Turns'
  <2>1. Ahead
    BY <1>0, <1>1, <1>5 DEF Turns, Waiting
  <2>2. NextBuffer' = NextBuffer
    BY <1>3, Zenon DEF NextBuffer
  <2>3. Ahead'
    BY <1>3, <1>4, <2>1, <2>2, Zenon DEF Ahead, Whole
  <2>4. Waiting'
    BY <1>6 DEF Waiting
  <2> QED BY <1>6, <2>3, <2>4 DEF Turns
<1> QED BY <1>7, <1>8, <1>9, <1>10 DEF Inv

LEMMA WakeUpInv == ASSUME Inv, WakeUp, prompt' PROVE Inv'
<1>0. TypeOK /\ Phases /\ Words /\ Turns
  BY DEF Inv
<1>1. thread = "sleep" /\ ~requested /\ handler # "copy" /\ thread' = "look"
  BY Zenon DEF WakeUp
<1>3. /\ playing' = playing /\ first' = first /\ clip' = clip /\ size' = size
      /\ turns' = turns /\ heard' = heard /\ requested' = requested /\ UNCHANGED guest
  BY Zenon DEF WakeUp
<1>4. /\ buffers' = buffers /\ current' = current /\ pointer' = pointer
      /\ length' = length /\ vector' = vector /\ saved' = saved
      /\ program' = program /\ handler' = handler
  BY <1>3, Zenon DEF guest
<1>5. handler = "idle" /\ handler' = "idle"
  BY <1>0, <1>1, <1>4 DEF Phases
<1>6. ~requested'
  <2>1. requested' = requested
    BY <1>3
  <2> QED BY <1>1, <2>1, Zenon
<1>7. TypeOK'
  BY WakeUpType DEF Inv
<1>8. playing' <=> playing
  <2>1. playing' = playing
    BY <1>3
  <2> QED BY <2>1, Zenon
<1>9. Phases'
  BY <1>0, <1>1, <1>4, <1>5, <1>6, <1>8 DEF Phases
<1>10. Words'
  BY <1>0, <1>3, <1>4, <1>8 DEF Words
<1>11. Turns'
  <2>1. playing => Level
    BY <1>0, <1>1, <1>5 DEF Turns, Waiting
  <2>2. NextBuffer' = NextBuffer
    BY <1>3, Zenon DEF NextBuffer
  <2>3. Level => Level'
    BY <1>3, <1>4, <2>2, Zenon DEF Level, Whole
  <2>4. ~Waiting'
    BY <1>1, <1>6 DEF Waiting
  <2> QED BY <1>5, <1>8, <2>1, <2>3, <2>4 DEF Turns
<1> QED BY <1>7, <1>9, <1>10, <1>11 DEF Inv

LEMMA StutterInv == ASSUME Inv, UNCHANGED vars PROVE Inv'
<1>1. TypeOK'
  BY TypeStep DEF Inv
<1>2. /\ UNCHANGED <<playing, first, thread, requested, clip, size, turns, heard>>
      /\ UNCHANGED guest
  BY Zenon DEF vars
<1>3. Phases' /\ Words'
  BY <1>2, Zenon DEF Inv, Phases, Words, guest
<1>4. /\ (Ahead <=> Ahead') /\ (Copying <=> Copying') /\ (Level <=> Level')
      /\ (Waiting <=> Waiting')
  BY <1>2, Zenon DEF Ahead, Copying, Level, Waiting, NextBuffer, Whole, guest
<1>5. Turns'
  BY <1>2, <1>4, Zenon DEF Inv, Turns, guest
<1> QED BY <1>1, <1>3, <1>5 DEF Inv

LEMMA StepInv ==
  ASSUME Inv, Prepared, [Next]_vars, proper', prompt'
  PROVE  Inv'
<1>1. ASSUME NEW n \in Lengths, PlayVector(n) PROVE Inv'
  BY <1>1, PlayVectorInv
<1>12. CASE PlayPointer \/ PlayLength \/ PlayCurrent
  BY <1>12, PlayStepsInv
<1>2. CASE PlayOut
  BY <1>2, PlayOutInv
<1>3. CASE StopOut
  BY <1>3 DEF StopOut
<1>4. CASE StopRestore
  BY <1>4 DEF StopRestore, Inv, Phases
<1>5. CASE Swap
  BY <1>5, SwapInv
<1>6. CASE Drop
  BY <1>6 DEF Drop
<1>7. CASE SwapEnd
  BY <1>7, SwapEndInv
<1>8. CASE Look
  BY <1>8, LookInv
<1>9. CASE Send
  BY <1>9, SendInv
<1>10. CASE WakeUp
  BY <1>10, WakeUpInv
<1>11. CASE UNCHANGED vars
  BY <1>11, StutterInv
<1> QED BY <1>1, <1>2, <1>3, <1>4, <1>5, <1>6, <1>7, <1>8, <1>9, <1>10, <1>11, <1>12
        DEF Next, Program, PlaySteps, Handler, AudioThread

LEMMA InvSafe ==
  ASSUME Inv
  PROVE  handler = "copy" => playing /\ current # NextBuffer
<1> SUFFICES ASSUME handler = "copy" PROVE playing /\ current # NextBuffer
  OBVIOUS
<1>1. playing /\ Copying
  BY DEF Inv, Phases, Turns
<1> QED BY <1>1 DEF Copying

(* What is heard when a buffer is taken. *)
LEMMA StepHeard ==
  ASSUME Inv, Next, turns' = turns + 1, turns' > 2
  PROVE  heard' = <<<<clip, turns' - 2>>, <<clip, turns' - 2>>>>
<1>0. turns \in 0 .. Wrap + 1
  BY DEF Inv, TypeOK
<1>1. turns' # turns /\ turns' # 0
  BY <1>0, AudioAssumption
<1>2. Look
  BY <1>1 DEF Next, Program, PlaySteps, Handler, AudioThread, PlayVector, PlayPointer,
              PlayLength, PlayCurrent, PlayOut, StopOut, StopRestore, Swap, Drop, SwapEnd, Send, WakeUp
<1>3. /\ playing /\ Level /\ turns' = pointer[2] /\ heard' = buffers[NextBuffer]
  BY <1>2, LookFacts DEF Look
<1>4. pointer[2] >= 3
  BY <1>0, <1>3
<1> QED BY <1>3, <1>4 DEF Level, Whole

(* The inductive invariant: the settings as long as the program kept its   *)
(* side, the rest as long as the whole contract has been kept.             *)
KeptInv == SettingsInv /\ (proper /\ prompt => Inv)

LEMMA KeptInit == Init => KeptInv
BY InvInit, SettingsInit DEF KeptInv

LEMMA KeptStep == KeptInv /\ [Next]_vars => KeptInv'
<1> SUFFICES ASSUME KeptInv, [Next]_vars PROVE KeptInv'
  OBVIOUS
<1>1. SettingsInv'
  BY SettingsStep DEF KeptInv
<1>2. ASSUME proper', prompt' PROVE Inv'
  <2>1. proper /\ prompt
    BY <1>2, HistoryStep
  <2>2. Inv /\ Prepared
    BY <2>1 DEF KeptInv, SettingsInv, Settings
  <2> QED BY <1>2, <2>2, StepInv
<1> QED BY <1>1, <1>2 DEF KeptInv

(* As long as the contract is kept, with clips of any length: the handler  *)
(* fills the buffer that is not played next.                               *)
THEOREM AudioInSync == Spec => [](TypeOK /\ InSync)
<1>1. KeptInv => TypeOK /\ InSync
  BY InvSafe DEF KeptInv, SettingsInv, InSync
<1> QED BY <1>1, KeptInit, KeptStep, PTL DEF Spec

(* As long as the contract is kept, the clip is heard chunk by chunk, in   *)
(* order.                                                                  *)
THEOREM ClipInOrder == Spec => HeardInOrder
<1>1. KeptInv /\ [Next]_vars =>
        [proper /\ prompt /\ turns' = turns + 1 /\ turns' > 2 =>
           heard' = <<<<clip, turns' - 2>>, <<clip, turns' - 2>>>>]_vars
  <2> SUFFICES ASSUME KeptInv, Next, proper, prompt, turns' = turns + 1, turns' > 2
               PROVE  heard' = <<<<clip, turns' - 2>>, <<clip, turns' - 2>>>>
    OBVIOUS
  <2>1. Inv
    BY DEF KeptInv
  <2> QED BY <2>1, StepHeard
<1> QED BY <1>1, KeptInit, KeptStep, PTL DEF Spec, HeardInOrder

(* What the settings say of the copying handler and of the swap vector.    *)
LEMMA SettingsSafe == SettingsInv => InsideClip /\ VectorRestored
<1> SUFFICES ASSUME SettingsInv, proper PROVE InsideClip /\ VectorRestored
  BY DEF InsideClip, VectorRestored
<1>1. Settings
  BY DEF SettingsInv
<1>2. VectorRestored
  BY <1>1 DEF Settings, Restored, VectorRestored
<1>3. ASSUME handler = "copy" PROVE pointer[2] <= size
  <2>1. length >= 1 /\ pointer[2] + length = size + 1
    <3>1. vector = "refill" /\ program \in {"idle", "restore"}
      BY <1>1, <1>3 DEF SettingsInv, TypeOK, Settings, Prepared
    <3> QED BY <1>1, <3>1 DEF Settings
  <2>2. length \in 0 .. Wrap - 1 /\ pointer \in Half /\ size \in 0 .. Wrap - 1 /\ Wrap \in Nat
    BY AudioAssumption DEF SettingsInv, TypeOK
  <2>3. pointer[2] \in Nat
    BY <2>2 DEF Half
  <2> QED BY <2>1, <2>2, <2>3
<1> QED BY <1>2, <1>3 DEF InsideClip

(* The handler never copies from behind the end of the clip, even if clips *)
(* are stopped and requests are dropped or served late.                    *)
THEOREM ClipKeepsToItself == Spec => []InsideClip
BY SettingsInit, SettingsStep, SettingsSafe, PTL DEF Spec

(* The swap vector is restored, even then.                                 *)
THEOREM VectorComesBack == Spec => []VectorRestored
BY SettingsInit, SettingsStep, SettingsSafe, PTL DEF Spec
=============================================================================
