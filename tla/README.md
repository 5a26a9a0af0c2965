# fox32: specification, model checking and proofs

This directory holds TLA+ models of fox32 (the repository one level up, under
`src/`): a fantasy 32-bit computer made of an emulator in Rust (`fox32`), a
second CPU core in C (`fox32core`), an assembler (`fox32asm`), a boot ROM
written in fox32 assembly (`fox32rom`) and a small operating system on top of it
(`fox32os`).  The models are translated from the code; TLC checks them on small
instances, and TLAPS proves the most important properties for every value of the
constants.

## 1. Inventory

### 1.1 How the parts interact

    window thread (winit loop)          audio thread              CPU thread
      mouse, keyboard, disks              plays a buffer            runs instructions
      |    | send(0xFF) per turn          | send(0xFE) per buffer   |
      |    +---------------> interrupt channel <-----------+        |
      |                            | one per instruction            |
      |                            +--> Cpu::interrupt / vm_raise --+
      |                                                             |
      +--- Mutex<Mouse>, Mutex<Keyboard>, Mutex<Overlay>, AtomicBool --- in/out ports
                                                                    |
      ROM: system_vsync_handler -> mouse_update, keyboard_update -> new_event
           refill_buffer (vector 0xFE)
      ROM: wait_for_event / get_next_event, menus, monitor, drawing, RYFS
      OS:  kernel -> new_task / yield_task / end_current_task -> vulpine, programs

Three host threads share small structs under locks; each access is locked, but a
sequence of accesses is not.  Inside the machine there is one CPU, and interrupt
handlers that run between any two instructions of a program whose interrupt flag
is set.  So there are two layers of concurrency, and most of what can go wrong
lies in the seams: thread against thread in the emulator, handler against
program in the ROM, and the agreement between a host thread and a handler that
follow the same protocol without sharing any state (audio).

### 1.2 Components

| component | state | operations | what makes it correct |
|---|---|---|---|
| event system (`fox32rom/event.asm`) | queue pointer, entries, the interrupt flag | `event_new`, `event_next`, `event_wait`, `event__init`, the vsync handler, the monitor | whole events, once each and in order; no lost wakeup; the copying loop ends |
| scheduler (`fox32os/kernel/task.asm`, `main.asm`) | ID bitmap, current task, task table, stack pointers | `new_task`, `yield_task`, `end_current_task[_no_mark]`, `get_unused_task_id` | round robin, exact bitmap, table large enough, stacks apart, panic only at the end |
| mouse path (`mouse.rs`, `bus.rs`, `main.rs`, `mouse.asm`) | three bits under a mutex, registers of `mouse_update` | the window's look, `in`, two `out`s | one event per press and per release |
| CPU thread (`main.rs`, `runtime.rs`, `cpu.rs`, `fox32.c`) | flags, halted, channel, threads | step, raise, recv, send, `HALT`, `RETI` | transparent interrupts, wakeup, end of the process |
| audio (`audio.rs`, `bus.rs`, `main.rs`, `audio.asm`) | two buffers, whose turn it is on either side, pointer, length, swap vector | `play_audio`, `stop_audio`, `refill_buffer`, the audio thread | both sides agree on the turn; the clip in order; vector restored |
| instruction set (`cpu.rs`) and (`fox32.c`) | registers, memory, flags | 40-odd instructions in three sizes | the two cores agree; a skipped instruction does nothing |
| memory map and bus (`memory.rs`, `bus.rs`) | RAM, ROM, ports | read and write of 8, 16, 32 bits, `io_read`, `io_write` | accesses stay in range; locks are not left poisoned |
| keyboard path (`keyboard.rs`, `keyboard.asm`) | ring of 32 scancodes | push, pop once per vsync | order; the newest is dropped when full |
| disk (`disk.rs`, `bus.rs`, `disk.asm`) | four slots, current sector, buffer pointer | insert, remove, seek, read, write | a command meets the disk it was meant for |
| overlays and display (`main.rs`, `overlay.asm`) | 32 overlays | ports, blending, coverage test | clipping |
| menus (`main.asm`, `menu.asm`, `menu_bar.asm`) | open menu, hovered item, circulating update event | click, update, choose, close | an open menu keeps its update event (not always: run `menu_frozen`); what is chosen is what is drawn |
| monitor (`monitor/*`) | saved vsync handler and stack, text buffer, cursor | enter, leave, key, command, scroll | the desktop gets its handler back; buffers hold |
| memory, string, integer routines | counters | copy, compare, print | counts of zero |
| RYFS reader (`ryfs.asm`) | file struct, sector buffer | open, seek, read, read whole file | the bytes of the file that were asked for |
| boot (`boot.asm`, `main.asm`) | event loop of the ROM | probe disk, load, jump | a disk without a kernel does no harm, one with a kernel is started |
| allocator and FXF loader (`allocator.asm`, `fxf/*`) | bump pointer; relocation table | allocate, relocate | blocks disjoint and off the kernel; each entry relocated once |
| vulpine (`vulpine/main.asm`) | a window | event loop | it is a client of events and tasks |
| assembler (`fox32asm`) | statements, current size and address, labels, backpatch targets, relocations | include, assemble, backpatch, write | the CPU fetches what was written, labels where they are |
| drawing, fonts, jump tables, demos, build scripts | - | pixel loops, data | not state machines |

### 1.3 What is hard

* *Handler against program.*  `event_next` looks at the queue with interrupts on
  and shifts it with interrupts off; `event_wait` halts first and looks later;
  `event_new` is called from the handler, where nothing interrupts it, and from
  the menu code, where everything does.
* *Thread against thread.*  The mouse bits are read with one lock and written
  back with another; a panic of the CPU thread can leave a lock poisoned; the CPU
  thread decides to sleep from a flag that a request may have changed.
* *Two sides, no shared state.*  The audio thread and `refill_buffer` each keep a
  toggle; a request may be late, dropped, or outlive its clip.
* *Long legal sequences.*  Task IDs are freed and reused, the kernel's start-up
  code is queued as if it were a task, and its stack is handed to another one.
  A menu is kept alive by an event that it puts back into the queue each time,
  while a second menu does the same and the monitor takes events from both.
* *Long chains.*  A label is an address in the assembler, a placeholder in the
  code, four bytes in a file, cells in linked sectors, an entry of a relocation
  table and at last an operand of the CPU: five programs in three languages have
  to agree.

The full list, each entry at its line with the properties that cover it or the
reason why none does yet, is `hazards` in `PROJECT.json`.

## 2. Plan

The order is the order of what matters.

1. **Events**, refined from **EventFifo** - checked and proved.
2. **Tasks**, refined from **TaskRing** - checked and proved, the refinement too.
3. **Mouse** - checked and proved.
4. **CpuThread** - checked and proved.
5. **Audio** - checked and proved.
6. **Machine, RustCpu, CoreCpu, TwoCpus** - checked, and proved for bytes of 4 and
   of 8 bits, any registers and any memory layout.
7. **Desktop**, which composes Mouse with the event loop, the menus and the
   monitor - checked, its invariants proved.
8. **Assembler**, **Loader** (disk, boot, RYFS, kernel start, FXF) and
   **Allocator**, composed by **Launch** - checked; its safety properties proved,
   and the refinement of the allocator.
9. **Keyboard ring**: the 32 scancodes between the window and `keyboard_update`.

What is left beyond 9 is the monitor's shell and its text buffer, and the
overlays.  Neither has more than one actor and a handful of sequential
conditions; section 6 says why they come last.

## 3. Modules

Each module header says what is abstracted.  An action stands for the code between
two points at which somebody else can act: one locked access of a host thread,
one instruction of a program that interrupts may hit, a whole handler when
nothing can interrupt it.  `map` in `PROJECT.json` gives the lines of every
definition.

Some properties hold only for callers that keep a contract the code does not
enforce.  Such a contract is a *history variable* that is true until it is first
broken (`masked`, `alone`, `patient`, `proper`, `prompt`, `tidy`, `undisturbed`).  The actions that
break it stay enabled, so one run shows what holds with the contract and what
holds without it, and nothing is assumed away.

### 3.1 Events

State: `ptr` is the word at `EVENT_QUEUE_POINTER` (an address, so that the zero
of fresh RAM is distinct from an empty queue), `slots` the words above it,
`iflag` and `zero` CPU flags, `pc` the place of the program in the routines of
`event.asm`, `mon` the monitor.  `InitCmp`, `InitMov`, `WaitIse`, `WaitHalt`,
`WaitCmp`, `WaitJmp`, `NextCmp`, `NextEmpty`/`NextSome`, `NewLoad`, `NewStore`,
`NewMov` are single instructions (`NewStore` one store of one word); `NextTake`
is the body between `icl` and `ise`.  `VSync(es)` is the whole handler, posting
the events `es` by way of `event_new`.  `F12`, `MonitorTake`, `MonitorExit` are
the monitor, which polls the same queue from inside the handler with interrupts
on.

`masked`: every call of `event_new` by the program was made with interrupts off,
and no event was posted between the compare and the move of `event__init` on a
queue not yet initialised (an event that arrives there is forgotten; the ROM
starts with interrupts off and avoids it).  `alone`: nobody opened the monitor.

Run `events` (three entries of two words, bursts of up to 2 events per vsync):
with both contracts the routines implement `EventFifo` (`FifoSpec`) and what is
posted is delivered to a program that polls (`AllDelivered`).  With `masked`
alone entries are whole (`EventsWhole`) and only `event_next` takes them
(`NoneDropped`); with `alone` every call returns.  Two words per event are
enough for an event to be half written; three entries with bursts of two make
the queue empty, partly full and full while the program is at each of its
instructions.  `NeverRunsAway` says that the copying loop, which ends on equality
of two pointers, never starts on an empty queue; the monitor can empty the queue
between the look and the loop, hence `alone`.  Callers without `masked` are in the run
too, and find entries made of two events; the menu code is one, and what that means
for it is in 3.7.

Fairness: the CPU executes (`Routine`), the window requests a vsync at every turn
of its loop whether or not there is an event (`VSync(<<>>)` only; that events
happen is never assumed), and for `AllDelivered` the program polls again and
again (`LoopSpec`), as each main loop in the repository does.

### 3.2 Tasks

`bitmap`, `current`, `queue`, `sp` are the words of the kernel; `mem` records who
wrote each stack word last, so that a shared stack shows.  A code address is
abstracted to the thread it belongs to.  `NewTask`, `YieldTask`,
`EndCurrentTask`, `BootStart`, `BootEnd` are whole routines: they run with
nothing that touches their words.  `kernel/main.asm` calls `new_task` with its own
`rsp`, is queued by `yield_task` as a task that has no ID, and later ends through
`end_current_task_no_mark`; this is modelled literally, and `ShallowStart` names
the assumption that keeps the two users of that stack apart (the startup task
does not yield from inside a call before the start-up code has ended).

Run `tasks` (four IDs, two words of stack): the table of 32 structs is exactly
large enough although `new_task` appends two before it takes one (`QueueFits`), bits
are set exactly for living tasks, no thread is in two places, an ID that is freed
is the ender's own, stacks are intact, and the table copied down at every
switch is a ring (`RingSpec`).  Four IDs let an ID be freed and reused while
others wait.  `EveryTaskRuns` assumes that every thread gives the CPU up
(`SF(Switch)`), which is what cooperative means.

`TaskRing` states the order in which the code runs threads, not the one its comment
promises: `task.asm:3` says `new_task` adds a task "and jump[s] to it immediately",
while it puts the task behind all waiting ones and jumps to the head.  Run
`task_at_once` takes the comment at its word (`JumpsAtOnce`) and finds the third step
of a violation: the startup task creates another one, and the start-up code, which
waited, runs.

### 3.3 Mouse

`Look` is the window's turn; `Read` the two `in` instructions of `mouse_update`
(one lock each, but the position is not changed by the other actions), `Click`
and `Release` the two `out`s.  `patient` is true while the user waits for the
machine to settle before touching the button again.

Mouse is checked as a part of Desktop, whose steps are steps of Mouse or leave it
alone: `ReleasesBounded` for any user, `EachCounted` for a patient one are
properties of run `desktop`.  Run `mouse_twice`, of Mouse by itself: a press and a
release within one vsync are answered as two clicks.  Observed without a run: a
release that is written back can overwrite a fresh click, and after a click and a
release in one pass the release event carries the click's registers instead of the
position.

Fairness is stated in Desktop.

### 3.4 CpuThread

`Turn` is one turn of the inner loop: take at most one request, raise it, step.
`End`, `Wake` are the outer loop, `SendVSync`, `Draw` the window thread,
`AudioLook`, `AudioSend` the audio thread.  Instructions are abstracted to what
they do to the flags and the halted bit.  `Runtime` selects the core: `vm_raise`
of `fox32core` also halts.

Run `cpu_rust` (channel of 3, nesting of 3, every instruction anywhere): handlers
are invisible in the interrupt flag of the program (`FlagRestored`), the thread
ends only by `HALT` with interrupts off, a halted CPU wakes up, the window follows
the CPU thread.  Run `cpu_core`: with `fox32core` the first delivered interrupt
ends the thread.

Fairness: the CPU thread and the window loop run.  That the audio thread runs is
not assumed.

### 3.5 Audio

`PlayVector` .. `PlayOut` are the stores of `play_audio`, each a step because a
request of an earlier clip may be served in between; `StopOut`, `StopRestore`
those of `stop_audio`; `Swap`/`SwapEnd` `refill_buffer` before and after the
middle of its copying loop; `Drop` a request that finds interrupts off; `Look`,
`Send`, `WakeUp` the audio thread around its 500 ms.  `proper`: no clip was empty
or started over another one or over a request in flight.  `prompt`: no clip was
stopped, and each request was served before the audio thread woke up.

Run `audio` (clips of 0, 1, 2 and 4 chunks, two clips, lengths modulo 5): under
both contracts the two sides agree on whose turn it is and the clip is heard in
order; under `proper` alone nothing is copied from behind the clip and the swap
vector is restored; `SwitchedOff` holds without any contract.  Four chunks are
the first length at which both buffers have been filled and played twice.  The
modulus makes a length of zero wrap as it does in the code.

Observed without a run: the first two buffers played are what was in memory
before and the last two chunks are never heard (the port is switched off when the
last chunk has been copied, not when it has been played); a dropped request
leaves the sides out of step; a clip of less than 32768 bytes wraps the length;
a second `play_audio` over a first one loses the saved vector.

Fairness: the program finishes the calls it makes, the CPU takes requests and is
not found with interrupts off forever (`SF(Swap)`), the audio thread keeps
looking.

### 3.6 Instruction set

`Machine` is what a program sees: registers, memory, flags and port accesses, with
words of four bytes of `ByteBits` bits.  `RustCpu` has one action per arm of
`execute_instruction`, `CoreCpu` one per case of `vm_execute` with the bodies
`VM_IMPL_*`; both work on a machine.  A panic of the host is a dead machine: the
thread has ended, so what a half-executed instruction has left behind is not seen.
Undefined shifts in C (a count out of the range of an `int`) are a choice between a
masked count and everything shifted out; division by zero traps.  `RustCpu` is the
release build: arithmetic wraps and shift counts are masked.

`TwoCpus` runs both from one machine on the same instructions and requests.
`Differs` lists, reason by reason, the instructions on which they disagree:
decoded by one only, effective by one although skipped, an operand that means
something else, writes to ROM, another result.  `Agree` says that this list is
complete: before the first of them no program can tell the two apart.  Program
text is not in memory (self-modifying code is out of scope); the length of every
instruction is compared with what `fox32asm` emits.

Run `isa` (bytes of 4 bits, RAM of 16 cells, ROM of 4; eight machines with
pointers into, across and outside of both, counts below, at and above the
widths, all flags, stacks at the wrap-around and in ROM; every opcode with every
kind of operand in three sizes; then up to three of `reti`, `cmp`, `push`, `pop`
and interrupts, bound `MaxSteps`): beside `Agree`, an instruction that is no taken
jump is followed by the one after it (`FollowsOn`), narrow instructions write
narrowly (`NarrowWrites`), and a handler that finds its frame returns to what it
interrupted (`ReturnsToInterrupted`).  Four bits make all bytes, halves and
words small enough for TLC's arithmetic and leave every boundary in place: the
definitions use `Width` and `Mod` only (the one case lost is a byte count beyond the
width of an `int`; halves and words have it).  One instruction shows a disagreement
between the two; what the later steps add is the stack.

Observed without a run of its own: the condition table of `encoding.md` does not hold of
either CPU, for some skipped instructions have effects (`loop`, `in` in Rust, `cmp`,
`bts` in C).  `ryfs.asm:143` has a conditional `loop`.

### 3.7 Desktop

Desktop extends Mouse by what a click causes.  `cursor` is the position of overlay
31, `queue` the entries of the event queue, `at` and `task` the place of
the event loop in `main.asm`, `menu_bar.asm` and `menu.asm` and the event in its
registers, `shown` and `lit` what overlay 29 shows; `vector`, `saved`, `frames` and
`oldRsp` are the vsync handler, the monitor's copy of it, the invocations of the
monitor on the stack and its saved stack pointer.

`Hand` is the user, `Poll` the window.  `ReadAt`, `ClickAt`, `ReleaseAt` are
`mouse_update`, with the position and the events; `TypeExit` and `F12` are
`keyboard_update`.  `StartShell`, `ShellTake`, `ExitMonitor` run in place of the
event loop, whose steps are `Take`, `OpenMenu`, `ClickBesideNames`, `Closed`,
`Outside`, `Hover`, `LookHeld`, `AwaitRelease`, `PostLoad`, `PostStore`, `PostMove`,
`CloseMenu`: each ends where the handler may change what the next one reads.  `menu_update_event` reads the
position from the overlay and the button from its port, so both can be newer than
the event it handles, and it works on the menu that is shown, not on the one the
event is of.

The menu code calls `new_event` with interrupts on, so a vsync may post, or the
monitor post and take, between any two of its instructions.  `PostLoad` reads the
queue pointer into `slot` (`r8`), `PostStore` stores the event a word at a time, and
`PostMove` writes the pointer back, to behind `slot`, wherever it is by then.  The
words are `kind`, `x` and the rest: what follows the second word is looked at only
in an update of a menu, which no handler posts, so that the order of these stores
among themselves is not seen.  `beyond` is what lies in memory above the pointer
while this goes on, since the pointer may move down under `slot` (the monitor takes
an event) and back over entries that were no longer counted; outside of `new_event`
every entry above the pointer is written whole before it is read again, and `beyond`
is empty.  The handler's own `new_event` (`Add`) is not interrupted; the monitor's
`event_next` (`TakeOut`) masks interrupts.

Contracts: `undisturbed`, nobody touched the queue in the middle of the event loop's
`new_event`; `tidy`, no menu was opened while an update of another was on its way;
`monitored`, the monitor was invoked; `nested`, from within itself.  An exit from an
outer invocation after an inner one finds `MONITOR_OLD_RSP` in a frame that has been
left: the invocation is `lost`, and what the CPU executes then is not modelled.

Run `desktop` (one menu of two items; two
presses, four inputs, F12 or return being one and a press two): as long as
`undisturbed`, no event is lost, torn or resurrected (`NoneLost`) and an open menu
always has an update on its way (`MenuServed`); what is chosen is what is drawn as
chosen (`ChoiceShown`), the desktop gets its vsync handler back (`DesktopListens`),
and, for a user who owes nothing, the loop that waits for the button ends
(`WaitEnds`) and what is in the queue gets its turn (`Served`).  The last two need no
contract: what posts in the middle of `new_event` cost is an event, not the progress
of the others.  Two presses open a menu and choose, or open it twice; four inputs let
F12, return and F12 again fall among them, and return fall into a `new_event`; with
two items the one drawn and the one under the mouse can differ.  One menu is enough
here: a second one matters only where an update of one is served while the other
is shown, which is what `tidy` excludes and the run `menu_stale` is for, and the
theorems about the safety properties are for any menus.

Run `menu_frozen` is `MenuServed` without its contract, which is what the comment
`menu.asm:184` says: a key posted after the first store of the menu's `new_event`
takes the entry, the remaining stores and the pointer are written over it, and the
menu stays open with no update of it left.  Posted after the last store it replaces
the update whole; posted after the load, before any store, it is lost itself.
An update that survives is never a wrong one: the kind is the first word stored, so
an event of a handler that comes later overwrites it, and one that came earlier is
overwritten by all of the update's words.  Only the monitor, which moves the entries
while they are half written, can make half an update pass for a whole; hence
`ChoiceShown` asks for `undisturbed` if the monitor was invoked, and what is drawn
for such an update, which names no menu, is not modelled.

Run `menu_stale` (two menus of one item, the first over the place of the second):
two menus opened one after the other leave two updates in the
queue, and the older one reports a click on the menu that is open as a click on its
own.

Fairness: the window polls (`WF(Poll)`), vsyncs come (`WF(Vsync)`), the CPU goes on
with what they interrupted (`WF(MonitorStep)`, `WF(LoopStep)`).

### 3.8 Launch

The life of a program in four modules.  **Assembler** is `fox32asm`: `Include` and
`Included` replace includes, at most `MaxIncludes` of them; one action per kind of
statement (`LabelDefine`, `Constant`, `Origin`, `Data`, `Blob`, `Fill`,
`Instruction`) or `Panic`; `Backpatch(n)` for each name in any order, since the
table, `targets`, is a hash map from names to the places to patch; `Write` in either
format.  `Statements` is what the grammar lets a statement be, and
`AssemblerAssumption` says that the sources consist of them.  **Loader** is the disk and what reads
it: `PowerOn` and `Turn` (the event loop's look at the drive, once per event, with
`BootRaw`, `BootFat`, `BootRyfs`, `BootMistaken`, `NoBoot`), `RawSectorRead`, `SystemSector`,
`ReadConfig`, `OpenStartup`, `StartupSector`, `ParseHeader`, one `Relocate` per
relocation, and the calls of a running program (`OpenFile`, `Seek`, `Read`,
`WriteSector`).  **Allocator** is `allocate_memory`, with words that wrap.
**Launch** puts the assembled file on a disk that its tool has `Formatted` (every
part of a file has a sector, and no two the same), boots it, lets the program make calls,
and compares what the CPU would *fetch* from memory with what was *written*: `Lands`
walks the statements by the lengths that the CPU finds, and computes the meaning of
each operand without the tables of the assembler.

The boot process tells the kind of a disk from its cells (`Looks`): a first byte
0xEB or 0xE9 is a FAT disk, 0x52 0x59 at offset 2 of sector 1 a RYFS disk, anything
else a raw one.  A disk that a tool formatted looks like what it is; a raw file
may look like either by chance.  It is then an endless loop (`BootFat`), or read as a
RYFS disk: without the kernel's name where a directory has its names it is left
alone like any disk without a kernel (`NoBoot`), with it (`BootMistaken`) what
follows is not modelled.  The two sectors are read to where the kernel or the raw
file will be and are overwritten by it before anyone looks, so that `memory` leaves
them out.  In the same way the words that the kernel itself changes while it
runs (the task table, the bump pointer) are variables of Tasks and Allocator and no
part of `memory`: `KernelStays` speaks of its code and constants.

The formats have limits that the code does not enforce, and `ForItsFormat` names
them: a raw file has one origin, where it will run; an FXF file has none, at least
one relocation, and labels only where a whole word is relocated; a label used as
data follows a word (`LabelsAreWords`).  `Bootable` adds that a raw disk looks like one, and that its size
fits the word in which the controller reports it (`DiskSize`): of a longer one the
boot process loads only what the remainder says.  `Supported` names the reads for which
`ryfs_read` returns what was asked for.  The programs and calls beyond these limits
are in the model and do there what the code does; the properties exclude them.

Run `launch` (bytes of 4 bits, RAM of 170 cells, sectors of 30 with 24 of a file,
names of 2; about 2 700 programs: every instruction, every kind of operand in every
size, every sequence of three statements of ten that define, use and move labels,
includes that nest, repeat, miss or include themselves, files that begin with a jump
(the low digits of the two bytes) or have the magic in their second sector, in
either order; six disks: raw, another
format, RYFS complete, without kernel, without configuration, with a wrong name; up
to four calls and three blocks): `FetchesWhatWasWritten`, `KernelStays`,
`ReadsWhatWasAsked`, `BlocksApart`, and a machine with a bootable disk runs its
program whichever idle disks were tried before (`Starts`).  The kernel takes two
sectors that are not consecutive, the program up to four, so that links are
followed; the requests reach a sector's end, a payload and zero.

Fairness: the assembler and the CPU thread run, one after the other
(`WF(Assemble \/ Start \/ Insert \/ Run)`).  A running program owes no call.

Observed without a run: the size a label has as data is left over from the
instruction before it (`CURRENT_SIZE`); the relocation loop adds the base to a
whole word also where the label is narrow or relative; a file without relocations
makes it count from zero down; the magic of an FXF file is not looked at; `ryfs_read`
does not go on to the next sector, starts one sector early at the boundaries, and
takes a count of zero for 2^32; a write to a disk ends the emulator, which opens
disks for reading.

## 4. Runs

| run | module | expects | distinct states | shows |
|---|---|---|---|---|
| `events` | MCEvents | pass | 246 798 | 3.1 |
| `tasks` | MCTasks | pass | 20 560 | 3.2 |
| `task_at_once` | MCTasks | violation of `JumpsAtOnce` | | another task runs first |
| `mouse_twice` | MCMouse | violation of `ClicksBounded` | | two clicks of one |
| `cpu_rust` | MCCpuThread | pass | 5 358 | 3.4 |
| `cpu_core` | MCCpuThread | violation of `EndsOnlyByHalt` | | `vm_raise` halts |
| `audio` | MCAudio | pass | 458 910 | 3.5 |
| `isa` | MCTwoCpus | pass | 1 150 880 | 3.6 |
| `desktop` | MCDesktop | pass | 734 473 | 3.3, 3.7 |
| `menu_frozen` | MCDesktop | violation of `MenuReadded` | | a key overwrites the update |
| `menu_stale` | MCDesktop | violation of `ChoiceOfOpenMenu` | | a click on another menu |
| `launch` | MCLaunch | pass | 65 683 | 3.8 |

The five violations are disagreements between the code and its own comments or
documents; `findings` in `PROJECT.json` quotes them.  Every property of a passing
run has a mutant: a changed definition, written next to the original and marked
as such, that breaks it.

`CHECK_DEADLOCK FALSE` stands where the system really stops: the runaway loop and
the bound on posting in Events, the panic in Tasks, the end of the threads in
CpuThread, the last clip in Audio, the bound on steps in TwoCpus, a dead machine or
a program that has made its calls in Launch.

## 5. Proofs

| theorem | module | says |
|---|---|---|
| `Typing` | EventsProofs | types, for all constants |
| `TakeTerminates` | EventsProofs | `[]NeverRunsAway` |
| `MaskedPostsStayWhole` | EventsProofs | `[]EventsWhole` |
| `NothingForgotten` | EventsProofs | `NoneDropped` |
| `QueueIsFifo` | EventsProofs | `FifoSpec`, the refinement of EventFifo |
| `TableNeverOverrun` | TasksProofs | types, `QueueFits` |
| `BitmapIsExact` | TasksProofs | `BitmapExact`, `PanicsOnlyWhenDone` |
| `ThreadsInOnePlace`, `IdsAreTheirs` | TasksProofs | `OnePlace`, `IdsNameThreads` |
| `SchedulerIsRing` | TasksProofs | `RingSpec`, the refinement of TaskRing |
| `StacksKept` | TasksProofs | `StackIntact`, under `ShallowStart` |
| `ReleasesPaid` | DesktopProofs | types, `ReleasesBounded` |
| `PatientUserCounted` | DesktopProofs | `EachCounted` |
| `FlagTheorem` | CpuThreadProofs | types, `FlagRestored` for both cores |
| `RustEndsOnlyByHalt` | CpuThreadProofs | `EndsOnlyByHalt` for the Rust core |
| `AudioInSync` | AudioProofs | types, `InSync` |
| `ClipInOrder` | AudioProofs | `HeardInOrder` |
| `ClipKeepsToItself`, `VectorComesBack` | AudioProofs | `InsideClip`, `VectorRestored` |
| `DesktopImplementsMouse` | DesktopProofs | Desktop refines Mouse |
| `DesktopCounts` | DesktopProofs | `ReleasesBounded`, `EachCounted` on the desktop |
| `MonitorGivesBack` | DesktopProofs | `DesktopListens` |
| `NothingLost` | DesktopProofs | `NoneLost`, while `undisturbed` |
| `MenuNeverFreezes` | DesktopProofs | `MenuServed`, while `undisturbed` |
| `ChosenAsShown` | DesktopProofs | `ChoiceShown`, for `tidy` users |
| `AllocatorKeepsApart` | LaunchProofs | `BlocksApart` for the allocator by itself |
| `LaunchImplementsAllocator` | LaunchProofs | Launch refines Allocator |
| `LaunchKeepsApart` | LaunchProofs | `BlocksApart` for a program that runs |
| `ReadsAreOfFile` | LaunchProofs | `ReadsWhatWasAsked` |
| `KernelKept` | LaunchProofs | `KernelStays` |
| `FetchesAsWritten` | LaunchProofs | `FetchesWhatWasWritten` |
| `OperandsNeverDecoded` | TwoCpusProofs | `FollowsOn` for both cores |
| `SameToPrograms` | TwoCpusProofs | `[]Agree`: the two cores are the same machine |
| `MachinesStayMachines` | TwoCpusProofs | types of both machines |
| `NarrowEffects` | TwoCpusProofs | `NarrowWrites` for both cores |
| `InterruptsReturn` | TwoCpusProofs | `ReturnsToInterrupted` for both cores |

The assumptions are the `ASSUME`s of the modules, which TLC evaluates.  The proofs of
Mouse are in DesktopProofs, which carries them over, and MachineFacts has the lemmas
about bytes, words and memory that TwoCpusProofs and LaunchProofs share.  How the
arguments go:

* *Events.*  `IInv` is the typing with what the program counter says of the
  registers.  `TakeInv`: a program that has seen a non-empty queue finds it
  non-empty, since only the program takes.  `WholeInv`: a partly written entry
  lies at the pointer, not below, because interrupts stay off from the call to
  the move.  `WarmInv`: a routine of the program that has seen a pointer of 0 still
  finds nothing queued when it moves the pointer.  With both, a pointer that was
  read before an interrupt is never written back over a later one
  (`NothingForgotten`).  The
  refinement maps each posting step to `Post`, the shift to `Take`, the compare
  of an empty queue to `TakeNothing`, and everything else to a stutter.
* *Tasks.*  The ring (the running thread followed by the table) has pairwise
  distinct threads whose IDs are exactly the bitmap; its length is then at most
  the number of IDs plus the start-up thread, which gives the capacity
  (`TaskInv`).  The lemmas named `...Shape` describe how each switch changes the
  ring, and the refinement reads `Rotate`, `Create` and `Leave` off them.  For the
  stacks, `StacksInv` adds that each thread points into its own area, that the
  start-up code keeps nothing on its stack while it waits, and that the startup
  task keeps nothing there when the start-up code is resumed: while the latter
  waits, the ring has only these two (`BootPhase`), so the contract applies at the
  one switch where it matters.  A call then writes above the words of its own
  thread in an area where nobody else has any.
* *Mouse.*  `Owed` counts the release events that the bits, the registers and the
  button still stand for; releases plus what is owed never exceeds the presses.
  For the patient user the invariant is a list of phases with exact counts.
* *CpuThread.*  The pushed flags are all set, and the flag as the program left it
  is the flag itself or the bottom frame.
* *Audio.*  `Prepared` says what `play_audio` has set so far and that nobody else
  is awake meanwhile; `Settings` relates pointer, length and vector whoever is in
  turn; `Inv` adds the three phases of a round, `Ahead` (a buffer was taken),
  `Copying` and `Level` (it was replaced), with the contents of both buffers.
* *Desktop.*  Each step of Desktop is a step of Mouse or leaves its variables, so
  the theorems of Mouse carry over.  `MonitorInv`: without nesting there is at most
  one invocation, and the saved vector is the system's from its first step to its
  exit.  `PostInv`: while `new_event` is undisturbed the pointer is where it was
  read and the entry above it has exactly the words stored so far, so that its last
  step is one append (`MoveAppends`); from this `NoneLost` follows action by
  action.  `MenuServed` is inductive given the types (`DesktopTypeOK`) and `PostInv`:
  every branch of the event loop either puts the update back, or shows nothing.  For
  the choice, `OneUpdate` says that at most one update is in the queue, above it or in
  the loop's hands and that it names the menu shown and the item drawn; it holds
  through disturbed posts as well (`ChoiceAdd`, `ChoiceStore`, `ChoiceMove`), since an
  entry whose kind is `menu update` has all of its words or is still being written.
  `tidy` is what keeps it so when a menu is opened.
* *TwoCpus, lengths.*  `Shaped`: a machine has its fields, whatever is in them, so
  that an arm which changes registers, memory or flags leaves the instruction
  pointer alone.  `SameParts` shows that the assembler, `read_source` and
  `vm_skipparam` give an operand the same length whatever its kind and size, and
  every arm of either CPU ends dead, past its operands or, if it is a jump whose
  condition holds, elsewhere (`RustStep`, `CoreStep`).
* *TwoCpus, agreement.*  `AgreeInv`: while `same` holds the machines are equal and
  well typed.  For each arm one lemma gives the turn of `cpu.rs` as a machine
  (`RustPlain`, `RustMov`, ...), one that of `fox32.c` (`CorePlain`, ...), and one
  shows that outside `Differs` they are the same machine.  What the two compute by
  different means meets in lemmas about the operators: a sum of bits determines a
  number and is bounded by its width (`FromBits`), modulo and quotient of powers of
  two, shifts, rotations and sign extension, loads and stores of one to four cells.
  Where such a lemma needs induction over the bits, it uses the least number at which
  it would fail, since a least element is all that the library gives without
  an operator as a parameter.
* *TwoCpus, types and effects.*  `BothMachines` needs no agreement, so it goes on
  after the two have parted: `RustExecutes` and `CoreExecutes` go through the arms
  and cases, `RustInterrupted` and `CoreInterrupted` through the interrupt.  An arm
  reads an operand only where it has found it mapped, which bounds the value
  (`Loads`, `Values`), and what it computes is cut to its size before it is stored
  (`Splices`, `Stores`).  The effect of an arm is `Narrow`, one predicate for the
  cells and one for the registers: `PutNarrow` shows it for an operand that is
  written, `PushedNarrow`, `PoppedNarrow` and `ReturnNarrow` for the stack, and for
  each arm it is one of these.  The assumptions that `Program` and `Sequel` are
  instructions and that vectors are natural numbers are the types of the decoder and
  of `interrupt`.
* *TwoCpus, interrupts.*  `ReturnInv` adds to the types that what `last` records is
  an interrupt of a machine and that a CPU it has killed stays dead (`LastRaised`).
  Since both parts of the frame are mapped and the end of the address space is
  not, the stack pointer has not wrapped while it was pushed (`FramePlaces`); a
  word is the numeral of its four stored bytes (`Digits`) and a byte of flags gives
  back its bits (`FlagBits`), so that what `reti` pops is what was pushed (`FrameRead`,
  `Returned`), whatever else the handler did.
* *Launch, blocks.*  `FreeAbove`: the bump pointer is at or above the end of every
  block and below the limit, so that neither the difference nor the sum wraps.  Only
  `TakeBlock` calls the allocator, with a word.
* *Launch, reads.*  `ReadInv`: what a handle names is a file of the disk in the
  drive, which stays there once something was booted from it.  `FollowsParts`: after
  k links the traversal of `ryfs_read` is at part k of the file, and the number of
  links it takes for a seek offset leads to the part that has the offset
  (`LinksToPart`), unless the offset is a multiple of a payload; there the code takes
  one link too few, which is why `Supported` leaves it out.  A part is then compared
  with the text cell by cell (`CellsBetween`).
* *Launch, the kernel.*  Nothing keeps the relocation loop inside the startup file: it
  adds to whatever words its table names.  That the kernel survives it therefore
  depends on the file that `fox32asm` wrote, and the proof follows this file from the
  source on.  `AsmInv`, of the assembler: each place that waits for an address lies
  with all of its field in the code already emitted, its recorded address is its
  offset as long as there was no `org`, and it is a whole word if the labels are;
  `size` is what the statements so far make `CURRENT_SIZE`; a label in an operand has
  its place in the table, its entry in the relocations, or is constant.  Its last
  conjunct is the result: the file is header, code and table, and each entry has a
  word of code at it.  `FileIs` reads the words of the header and of the table in
  the cells of the file.  `BootInv`, of the boot: the files on a disk are the kernel and
  what the assembler wrote; while a file is read, the parts before the current one
  are where they belong (`Arriving`, kept by `SectorArrives`, which needs that every
  part has a sector of its own); and once the header was read, the loop has the
  number, the place and the contents of the entries that are left (`Relocating`).
  `RelocateEntry` shows that one round patches a word of the code, so that neither
  the kernel below nor the table above changes.  A block lies above the kernel by
  `FreeAbove`.  The invariant is stated for every source, not only for those that
  `ForItsFormat` admits: for those it says more (`Boots`).
* *Launch, the program.*  `FetchesAsWritten` joins the assembler, the disk, the
  loader and the decoder of the CPU.  `LaidInv`, of the assembler: there are offsets,
  one per statement passed, such that each statement lies at its offset as it is
  encoded (`Offsets`, `Encoded`), except in the fields of its references; those lie
  apart from each other (`RefsApart`) and either wait in the table (`Waiting`) or hold
  the address of their name (`Resolved`); a name has the address of its last
  definition (`Values`); and each reference that moves with the program is once in
  the relocation table (`Listed`), so that no word is relocated twice.  It speaks of
  sources that are `Steady`, which `ForItsFormat` implies (`FormatSteady`): otherwise
  the addresses that the assembler counts are not those of the cells.  One lemma per
  statement shows that it is laid behind the others, and `BackpatchLaid` that
  patching a name in any order changes its own fields only.  `ImageInv`, of memory: a
  raw disk is there up to the sector that is read next (`RawArrives`); of an FXF file
  exactly the first entries of the table have been relocated, the words of the others
  and all other cells are as in the file (`FxfRelocated`); and what a running program
  reads and allocates lies elsewhere (`WrittenBelow`).  On this the decoder is run:
  `OpcodeRead`, `ControlRead`, `OperandRead` and `InstructionRead` show that the
  CPU's reading of an encoded instruction is the instruction and that its length is
  the number of cells it was encoded in.  `PlaceIs` concludes that the walk of `Place`
  reaches statement *i* at the base plus its offset: `Place` is a recursive function,
  and it satisfies its equation because the bases plus offsets do (`PlaceWalks`); two
  functions that do agree at every statement, by going up to the last one with `UpTo`,
  which needs no operator as a parameter.  Then what the walk says of a label,
  plus the base that was added, is what its references hold (`LabelsAgree`), and
  every statement `Lands`.  A raw file is the case in which no entry was relocated, an
  FXF file the one in which all were (`FetchesRelocated`).

Model-checked only: every liveness property (`CallsReturn`, `WaitReturns`,
`AllDelivered`, `EveryTaskRuns`, `WakesUp`, `WindowFollows`, `SwitchedOff`,
`WaitEnds`, `Served`, `Starts`), since fairness and `ENABLED` are out of the prover's
reach.

## 6. Not modelled

`components` in `PROJECT.json` lists each part with its reason.

* *Keyboard ring.*  `keyboard_update` is in Desktop and Events with the keys that
  matter; the ring of 32 scancodes before it delays keys and drops the newest when
  it is full, which is the same to them as a user who is late or does not press.
* *Overlays and display.*  One lock per access; a frame drawn between two writes
  shows half a change and the next one mends it.  The rest is arithmetic of pixels.
* *Monitor shell.*  Sequential line editing, and commands that store and jump
  wherever their user says.
* *How far queues grow.*  The event queue and the interrupt channel have no limit in
  the code; how long they get depends on relative speeds, which a model of
  interleavings does not have.  Both are bounded here, by `Slots` and by the
  capacity of the channel; `hazards` lists what lies behind them in memory.
* *Memory that two parts share.*  The menu's overlay, its size and position included
  (`main.asm:252-257`), lies inside audio buffer 1 (0x02134000 to 0x0213BFFF): a menu
  drawn while a clip is played is heard, and `refill_buffer` writes samples over it.
  Audio and Desktop are modelled apart, so that the order in which a clip is heard
  (`HeardInOrder`) is that of a machine on which no menu is opened meanwhile.
* *Disks 1 to 3 and removal.*  No program of the repository uses them.
* Drawing, fonts, jump tables, string and integer routines, vulpine's drawing, demos
  and build scripts have no control state worth checking.

In the modelled parts the positions of pixels, the contents of samples and the texts
are abstracted to where they come from.
