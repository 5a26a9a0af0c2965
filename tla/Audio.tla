-------------------------------- MODULE Audio --------------------------------
(***************************************************************************)
(* Audio playback: the ROM's play_audio, stop_audio and the swap interrupt *)
(* handler refill_buffer (fox32rom/audio.asm), the audio port              *)
(* (fox32/src/bus.rs) and the audio thread of the emulator                 *)
(* (fox32/src/main.rs).  Two buffers are played in turn; each side keeps   *)
(* its own idea of whose turn it is.                                       *)
(*                                                                         *)
(* A clip is a sequence of chunks of 32768 bytes, and a chunk is written   *)
(* in two halves, since the handler copies word by word while the audio    *)
(* thread may read.  A half is named by its clip, its number in the clip   *)
(* and its position; all that matters of a sample is where it came from.   *)
(***************************************************************************)
EXTENDS Naturals

CONSTANTS
  Lengths,   \* the lengths, in chunks, of the clips the program plays
  Wrap,      \* BOUND: AUDIO_LENGTH counts modulo this (2^17 in the code)
  MaxPlays   \* BOUND: clips played

ASSUME AudioAssumption ==
  /\ Wrap \in Nat \ {0}
  /\ Lengths \subseteq 0 .. Wrap - 1
  /\ MaxPlays \in Nat

VARIABLES
  playing,   \* struct Audio: playing
  first,     \* struct Audio: current_buffer_is_0
  thread,    \* the audio thread: about to "look", to "send", or in "sleep"
  requested, \* a swap request (interrupt 0xFE) is in the channel
  buffers,   \* the two halves of each buffer
  current,   \* CURRENT_BUFFER: 0, or 1 for 0xFF
  pointer,   \* AUDIO_POINTER: the clip and the number of its next chunk
  length,    \* AUDIO_LENGTH, in chunks
  vector,    \* the swap interrupt vector: "refill", or "other"
  saved,     \* OLD_BUFFER_SWAP_VECTOR
  program,   \* "idle", or the word play_audio or stop_audio will set next
  handler,   \* "idle", "copy" between the halves of a chunk, or "lost"
  clip,      \* the clip played last, counted from 1
  size,      \* its length
  turns,     \* the buffers played since play_audio switched the port on
  heard,     \* the buffer played last
  proper,    \* so far the program played no empty clip, and none while
             \* another one was being played or its last request waited
  prompt     \* so far no clip was stopped, and each request was served
             \* before the audio thread woke up

guest == <<buffers, current, pointer, length, vector, saved, program, handler>>
vars == <<playing, first, thread, requested, guest, clip, size, turns, heard,
          proper, prompt>>

Silence == <<0, 0>>
Half == (0..MaxPlays) \X (0..Wrap)
Buffer == Half \X Half

Chunk == <<pointer, pointer>>

Init ==
  /\ playing = FALSE
  /\ first = TRUE
  /\ thread = "look"
  /\ requested = FALSE
  /\ buffers = [b \in {0, 1} |-> <<Silence, Silence>>]
  /\ current = 0
  /\ pointer = Silence
  /\ length = 0
  /\ vector = "other"
  /\ saved = "other"
  /\ program = "idle"
  /\ handler = "idle"
  /\ clip = 0
  /\ size = 0
  /\ turns = 0
  /\ heard = <<Silence, Silence>>
  /\ proper = TRUE
  /\ prompt = TRUE
-----------------------------------------------------------------------------
(* The program.  It does nothing while the handler runs. *)

Quiet == ~playing /\ ~requested /\ handler = "idle" /\ thread = "look"

(* play_audio, word by word, for the handler of a request that is still    *)
(* waiting may run in between.                                             *)
PlayVector(n) ==
  /\ program = "idle" /\ handler = "idle"
  /\ clip < MaxPlays
  /\ saved' = vector
  /\ vector' = "refill"
  /\ clip' = clip + 1
  /\ size' = n
  /\ program' = "pointer"
  /\ proper' = (proper /\ n # 0 /\ ~playing /\ ~requested /\ thread # "send")
  /\ UNCHANGED <<playing, first, thread, requested, buffers, current, pointer,
                 length, handler, turns, heard, prompt>>

PlayPointer ==
  /\ program = "pointer" /\ handler = "idle"
  /\ pointer' = <<clip, 1>>
  /\ program' = "length"
  /\ UNCHANGED <<playing, first, thread, requested, buffers, current, length,
                 vector, saved, handler, clip, size, turns, heard, proper,
                 prompt>>

PlayLength ==
  /\ program = "length" /\ handler = "idle"
  /\ length' = size
  /\ program' = "current"
  /\ UNCHANGED <<playing, first, thread, requested, buffers, current, pointer,
                 vector, saved, handler, clip, size, turns, heard, proper,
                 prompt>>

(* Mutant: CURRENT_BUFFER starts with the value refill_buffer will turn    *)
(* into 0xFF.                                                              *)
PlayCurrentSwapped ==
  /\ program = "current" /\ handler = "idle"
  /\ current' = 0
  /\ program' = "out"
  /\ UNCHANGED <<playing, first, thread, requested, buffers, pointer, length,
                 vector, saved, handler, clip, size, turns, heard, proper,
                 prompt>>

PlayCurrent ==
  /\ program = "current" /\ handler = "idle"
  /\ current' = 1
  /\ program' = "out"
  /\ UNCHANGED <<playing, first, thread, requested, buffers, pointer, length,
                 vector, saved, handler, clip, size, turns, heard, proper,
                 prompt>>

(* Writing the audio port, whatever the value, also resets the buffer.     *)
AudioPort(on) == playing' = on /\ first' = TRUE

PlayOut ==
  /\ program = "out" /\ handler = "idle"
  /\ AudioPort(TRUE)
  /\ program' = "idle"
  /\ turns' = 0
  /\ UNCHANGED <<thread, requested, buffers, current, pointer, length, vector,
                 saved, handler, clip, size, heard, proper, prompt>>

(* stop_audio, called by the program. *)
StopOut ==
  /\ program = "idle" /\ handler = "idle"
  /\ playing
  /\ AudioPort(FALSE)
  /\ program' = "restore"
  /\ prompt' = FALSE
  /\ UNCHANGED <<thread, requested, buffers, current, pointer, length, vector,
                 saved, handler, clip, size, turns, heard, proper>>

StopRestore ==
  /\ program = "restore" /\ handler = "idle"
  /\ vector' = saved
  /\ program' = "idle"
  /\ UNCHANGED <<playing, first, thread, requested, buffers, current, pointer,
                 length, saved, handler, clip, size, turns, heard, proper, prompt>>
-----------------------------------------------------------------------------
(* The handler.  It turns CURRENT_BUFFER over, fills that buffer and, when *)
(* nothing is left, stops the audio.                                       *)

Other(b) == 1 - b

(* Mutant: CURRENT_BUFFER is not turned over. *)
SameBuffer(b) == b

Turned(b) == Other(b)

(* A request taken from the channel while interrupts are on. *)
Swap ==
  /\ requested
  /\ handler = "idle"
  /\ requested' = FALSE
  /\ IF vector = "refill"
       THEN /\ current' = Turned(current)
            /\ buffers' = [buffers EXCEPT ![current'] = <<pointer, @[2]>>]
            /\ handler' = "copy"
       ELSE /\ handler' = "lost"
            /\ UNCHANGED <<current, buffers>>
  /\ UNCHANGED <<playing, first, thread, pointer, length, vector, saved, program,
                 clip, size, turns, heard, proper, prompt>>

(* ... or while they are off: Cpu::interrupt drops it. *)
Drop ==
  /\ requested
  /\ handler = "idle"
  /\ requested' = FALSE
  /\ prompt' = FALSE
  /\ UNCHANGED <<playing, first, thread, guest, clip, size, turns, heard,
                 proper>>

Less(n) == (n + Wrap - 1) % Wrap

(* BOUND: the chunk's number stops counting at Wrap. *)
Step(k) == IF k < Wrap THEN k + 1 ELSE k

(* Mutant: stop_audio is called one chunk late. *)
SwapEndLate ==
  /\ handler = "copy"
  /\ buffers' = [buffers EXCEPT ![current] = <<@[1], pointer>>]
  /\ pointer' = <<pointer[1], Step(pointer[2])>>
  /\ length' = Less(length)
  /\ IF length = 0
       THEN AudioPort(FALSE) /\ vector' = saved
       ELSE UNCHANGED <<playing, first, vector>>
  /\ handler' = "idle"
  /\ UNCHANGED <<thread, requested, current, saved, program, clip, size, turns,
                 heard, proper, prompt>>

(* Mutant: the vector is not restored at the end of the clip. *)
SwapEndKeepsVector ==
  /\ handler = "copy"
  /\ buffers' = [buffers EXCEPT ![current] = <<@[1], pointer>>]
  /\ pointer' = <<pointer[1], Step(pointer[2])>>
  /\ length' = Less(length)
  /\ IF length' = 0
       THEN AudioPort(FALSE)
       ELSE UNCHANGED <<playing, first>>
  /\ handler' = "idle"
  /\ UNCHANGED <<thread, requested, current, vector, saved, program, clip,
                 size, turns, heard, proper, prompt>>

(* Mutant: nobody calls stop_audio. *)
SwapEndOn ==
  /\ handler = "copy"
  /\ buffers' = [buffers EXCEPT ![current] = <<@[1], pointer>>]
  /\ pointer' = <<pointer[1], Step(pointer[2])>>
  /\ length' = Less(length)
  /\ handler' = "idle"
  /\ UNCHANGED <<playing, first, vector, thread, requested, current, saved,
                 program, clip, size, turns, heard, proper, prompt>>

(* ... the rest of refill_buffer: the second half, and the end of the clip. *)
SwapEnd ==
  /\ handler = "copy"
  /\ buffers' = [buffers EXCEPT ![current] = <<@[1], pointer>>]
  /\ pointer' = <<pointer[1], Step(pointer[2])>>
  /\ length' = Less(length)
  /\ IF length' = 0
       THEN AudioPort(FALSE) /\ vector' = saved
       ELSE UNCHANGED <<playing, first, vector>>
  /\ handler' = "idle"
  /\ UNCHANGED <<thread, requested, current, saved, program, clip, size, turns,
                 heard, proper, prompt>>
-----------------------------------------------------------------------------
(* The audio thread: every 500 ms, play one buffer and request a swap.     *)

NextBuffer == IF first THEN 0 ELSE 1

Look ==
  /\ thread = "look"
  /\ playing
  /\ heard' = buffers[NextBuffer]
  /\ first' = ~first
  /\ turns' = IF turns <= Wrap THEN turns + 1 ELSE turns
  /\ thread' = "send"
  /\ UNCHANGED <<playing, requested, guest, clip, size, proper, prompt>>

(* ~requested is the bound: at most one request waits. *)
Send ==
  /\ thread = "send"
  /\ ~requested
  /\ requested' = TRUE
  /\ thread' = "sleep"
  /\ UNCHANGED <<playing, first, guest, clip, size, turns, heard, proper,
                 prompt>>

WakeUp ==
  /\ thread = "sleep"
  /\ thread' = "look"
  /\ prompt' = (prompt /\ ~requested /\ handler # "copy")
  /\ UNCHANGED <<playing, first, requested, guest, clip, size, turns, heard,
                 proper>>
-----------------------------------------------------------------------------
PlaySteps == PlayPointer \/ PlayLength \/ PlayCurrent \/ PlayOut
Program == (\E n \in Lengths : PlayVector(n)) \/ PlaySteps \/ StopOut \/ StopRestore
Handler == Swap \/ Drop \/ SwapEnd
AudioThread == Look \/ Send \/ WakeUp

Next == Program \/ Handler \/ AudioThread

Spec == Init /\ [][Next]_vars

(* The program finishes the calls it makes, the CPU takes requests,        *)
(* interrupts are not off for every one of them, and the audio thread      *)
(* keeps looking.                                                          *)
FairSpec ==
  /\ Spec
  /\ WF_vars(PlaySteps \/ StopRestore)
  /\ WF_vars(Handler) /\ SF_vars(Swap)
  /\ WF_vars(AudioThread)
-----------------------------------------------------------------------------
(* Properties. *)

(* Every variable is typed. *)
TypeOK ==
  /\ playing \in BOOLEAN
  /\ first \in BOOLEAN
  /\ thread \in {"look", "send", "sleep"}
  /\ requested \in BOOLEAN
  /\ buffers \in [{0, 1} -> Buffer]
  /\ current \in {0, 1}
  /\ pointer \in Half
  /\ length \in 0 .. Wrap - 1
  /\ vector \in {"refill", "other"}
  /\ saved \in {"refill", "other"}
  /\ program \in {"idle", "pointer", "length", "current", "out", "restore"}
  /\ handler \in {"idle", "copy", "lost"}
  /\ clip \in 0..MaxPlays
  /\ size \in Lengths \cup {0}
  /\ turns \in 0 .. Wrap + 1
  /\ heard \in Buffer
  /\ proper \in BOOLEAN
  /\ prompt \in BOOLEAN

(* While clips are played one at a time and requests are served in time,   *)
(* the two sides agree on whose turn it is: the handler fills the buffer   *)
(* that was played last, never the one that is played next ("reset it to   *)
(* zero here to stay in sync").                                            *)
InSync ==
  proper /\ prompt => (handler = "copy" => playing /\ current # NextBuffer)

(* Then, from the third buffer on, what is heard is the clip, chunk by     *)
(* chunk and never half a chunk.                                           *)
HeardInOrder ==
  [][proper /\ prompt /\ turns' = turns + 1 /\ turns' > 2 =>
       heard' = <<<<clip, turns' - 2>>, <<clip, turns' - 2>>>>]_vars

(* The handler never copies from behind the end of the clip, even if clips *)
(* are stopped and requests are dropped or served late, as long as none of *)
(* them is served inside the next play_audio.                              *)
InsideClip == proper => (handler = "copy" => pointer[2] <= size)

(* When nothing is played, the swap vector is the one that was there       *)
(* before (stop_audio: "restore the old buffer swap vector"), even then.   *)
VectorRestored == proper /\ ~playing /\ program = "idle" => vector = "other"

(* A clip ends: whatever the program does, playback is switched off in the *)
(* end, unless a request that outlived its clip ran into the handler of    *)
(* somebody else.                                                          *)
SwitchedOff == playing ~> (~playing \/ handler = "lost")
=============================================================================
