------------------------------- MODULE Desktop -------------------------------
(***************************************************************************)
(* The desktop of fox32rom: the event loop (main.asm) that serves the menu *)
(* bar and the open menu (menu_bar.asm, menu.asm), the vsync handler that  *)
(* feeds it (mouse.asm, keyboard.asm), and the debug monitor               *)
(* (monitor/monitor.asm, monitor/shell.asm) that F12 puts in their place.  *)
(* Mouse.tla is the path of the button; here it also has a position, and   *)
(* what it causes goes through the queue of EventFifo.tla.                 *)
(*                                                                         *)
(* The event loop and the monitor run on the CPU thread, interrupted by    *)
(* mouse_update and keyboard_update, which are never interrupted           *)
(* themselves.  The monitor is such an interruption that does not return   *)
(* until its user says exit; meanwhile its shell takes the events.         *)
(*                                                                         *)
(* A position is a column and a row: row 0 is the menu bar, where the name *)
(* of root menu i is column i and column 0 is beside every name; row k is  *)
(* the height of item k of any menu.                                       *)
(***************************************************************************)
EXTENDS Mouse, Sequences, SequencesExt

CONSTANTS
  Items,     \* how many items root menu i has, a sequence
  Span,      \* the columns that the menu of root i covers
  MaxInputs  \* BOUND: how many keys the user presses, a press of the button
             \* counting twice

ASSUME DesktopAssumption ==
  /\ Items \in Seq(Nat \ {0})
  /\ Span \in [DOMAIN Items -> SUBSET Nat]
  /\ MaxInputs \in Nat

VARIABLES
  cursor,    \* the position of overlay 31
  queue,     \* the event queue: the entries below EVENT_QUEUE_POINTER
  beyond,    \* the entries above it that the event loop's new_event may
             \* still take for its own
  at,        \* where the event loop is
  task,      \* the event it is handling
  slot,      \* the entry that its new_event writes to, r8 of event__store
  shown,     \* the root menu that overlay 29 shows, 0 if it is disabled
  lit,       \* the item drawn as hovered, 0 for none
  vector,    \* the handler of the vsync interrupt
  saved,     \* MONITOR_OLD_VSYNC_HANDLER
  frames,    \* the invocations of the monitor that have not returned
  oldRsp,    \* MONITOR_OLD_RSP: the invocation whose stack it points into
  keys,      \* how many keys were pressed
  tidy,      \* no menu was opened while an update of another was pending
  monitored, \* the monitor was invoked
  nested,    \* the monitor was invoked from within the monitor
  undisturbed \* so far nobody else touched the queue while new_event of the
             \* event loop ran

entries == <<queue, beyond, undisturbed>>
menu == <<at, task, slot, shown, lit, tidy>>
monitor == <<vector, saved, frames, oldRsp, monitored, nested>>
desktop == <<cursor, entries, menu, monitor, keys>>
dvars == <<vars, desktop>>

Roots == DOMAIN Items

Elsewhere == [x |-> 0, y |-> 1]

Spots ==
  {Elsewhere} \cup [x : {0} \cup Roots, y : {0}]
    \cup UNION {[x : Span[i], y : 1..Items[i]] : i \in Roots}

(* The words of an event: r0, r1, and of what the desktop looks at, r2 and *)
(* r3.  The r1 of a menu's event points to the menu bar's root struct,     *)
(* which as a position is beside every name and as a key not the return    *)
(* key.                                                                    *)
Event(kind, x, root, item) ==
  [kind |-> kind, x |-> x, root |-> root, item |-> item]

MenuEvent(kind, root, item) == Event(kind, 0, root, item)

HandEvent(kind, x) == Event(kind, x, 0, 0)

NoTask == MenuEvent("none", 0, 0)

(* The return key, at the end of a line "exit".                            *)
Exit == HandEvent("key", 1)

(* The item of the menu shown that is at position p, 0 if overlay 29 does  *)
(* not cover it: the overlay is as high as the menu has items.             *)
ItemAt(p) ==
  IF shown # 0 /\ p.x \in Span[shown] /\ p.y \in 1..Items[shown] THEN p.y ELSE 0

InMonitor == frames # <<>>

(* The stack pointer of the monitor pointed into a frame that was gone.    *)
Lost == "lost" \in Range(frames)

DesktopInit ==
  /\ Init
  /\ cursor = Elsewhere
  /\ queue = <<>>
  /\ beyond = <<>>
  /\ at = "loop"
  /\ task = NoTask
  /\ slot = 0
  /\ shown = 0
  /\ lit = 0
  /\ vector = "system"
  /\ saved = "system"
  /\ frames = <<>>
  /\ oldRsp = 0
  /\ keys = 0
  /\ tidy = TRUE
  /\ monitored = FALSE
  /\ nested = FALSE
  /\ undisturbed = TRUE
-----------------------------------------------------------------------------
(* The user and the window thread. *)

Inputs == 2 * presses + keys

Hand == ((Press /\ Inputs + 2 <= MaxInputs) \/ LetGo) /\ UNCHANGED desktop

Poll == Look /\ UNCHANGED desktop
-----------------------------------------------------------------------------
(* The queue.  Its entries lie in memory one after the other, and what is  *)
(* above the pointer is kept here while the event loop is in new_event:    *)
(* outside it nobody reads an entry there before it is written whole.      *)

(* new_event has read the pointer and not yet moved it. *)
Posting == at \in {"kind", "x", "rest", "move"}

Disturb == undisturbed' = (undisturbed /\ ~Posting)

(* new_event of a handler, which nothing interrupts. *)
Add(e) ==
  /\ queue' = Append(queue, e)
  /\ beyond' = IF beyond = <<>> THEN <<>> ELSE Tail(beyond)
  /\ Disturb

(* event_next of the monitor: the entries move down by one, and the last   *)
(* one also stays where it was.                                            *)
TakeOut ==
  /\ queue' = Tail(queue)
  /\ beyond' = IF Posting THEN <<queue[Len(queue)]>> \o beyond ELSE <<>>
  /\ Disturb
-----------------------------------------------------------------------------
(* system_vsync_handler: mouse_update, then keyboard_update. *)

(* The position is the latest the window thread saw: any.                  *)
ReadAt ==
  /\ vector = "system"
  /\ ~Lost
  /\ Read
  /\ cursor' \in Spots
  /\ UNCHANGED <<entries, menu, monitor, keys>>

(* A click in the menu bar is one for the menu bar, any other click one    *)
(* for the program unless a menu is open.                                  *)
ClickAt ==
  /\ Click
  /\ \/ cursor.y = 0 /\ Add(HandEvent("bar click", cursor.x))
     \/ cursor.y # 0 /\ shown = 0 /\ Add(HandEvent("mouse click", 0))
     \/ cursor.y # 0 /\ shown # 0 /\ UNCHANGED entries
  /\ UNCHANGED <<cursor, menu, monitor, keys>>

ReleaseAt ==
  /\ Release
  /\ Add(HandEvent("mouse release", 0))
  /\ UNCHANGED <<cursor, menu, monitor, keys>>

(* keyboard_update: any key becomes an event.  The one that matters is the *)
(* one that makes the monitor exit.                                        *)
TypeExit ==
  /\ pc = "idle"
  /\ ~Lost
  /\ Inputs < MaxInputs
  /\ keys' = keys + 1
  /\ Add(Exit)
  /\ UNCHANGED <<vars, cursor, menu, monitor>>

(* invoke_monitor, still within the handler, with interrupts enabled again *)
(* and overlay 31 moved out to show the console.                           *)
F12 ==
  /\ pc = "idle"
  /\ ~Lost
  /\ Inputs < MaxInputs
  /\ keys' = keys + 1
  /\ saved' = vector
  /\ vector' = "monitor"
  /\ frames' = Append(frames, "enter")
  /\ cursor' = Elsewhere
  /\ monitored' = TRUE
  /\ nested' = (nested \/ InMonitor)
  /\ UNCHANGED <<vars, entries, menu, oldRsp>>

Vsync == ReadAt \/ ClickAt \/ ReleaseAt
-----------------------------------------------------------------------------
(* The monitor. *)

MonitorRuns(stage) == pc = "idle" /\ InMonitor /\ Last(frames) = stage

(* The end of invoke_monitor: MONITOR_OLD_RSP is set only now.             *)
StartShell ==
  /\ MonitorRuns("enter")
  /\ frames' = Append(Front(frames), "shell")
  /\ oldRsp' = Len(frames)
  /\ UNCHANGED <<vars, cursor, entries, menu, keys, vector, saved,
                 monitored, nested>>

SaysExit(e) == e.kind = Exit.kind /\ e.x = Exit.x

(* monitor_shell_event_loop drops every event that is not a key. *)
ShellTake ==
  /\ MonitorRuns("shell")
  /\ queue # <<>>
  /\ ~SaysExit(Head(queue))
  /\ TakeOut
  /\ UNCHANGED <<vars, cursor, menu, monitor, keys>>

(* Mutant: exit_monitor does not restore the vsync handler. *)
ExitDeaf ==
  /\ MonitorRuns("shell")
  /\ queue # <<>>
  /\ SaysExit(Head(queue))
  /\ TakeOut
  /\ frames' = IF oldRsp = Len(frames) THEN Front(frames)
               ELSE Append(Front(frames), "lost")
  /\ UNCHANGED <<vars, cursor, menu, keys, vector, saved, oldRsp,
                 monitored, nested>>

(* exit_monitor: it returns to what the latest invocation interrupted.  An *)
(* older one finds the stack pointer in a frame that has been returned     *)
(* from and overwritten since: what runs next is not modelled.             *)
ExitMonitor ==
  /\ MonitorRuns("shell")
  /\ queue # <<>>
  /\ SaysExit(Head(queue))
  /\ TakeOut
  /\ vector' = saved
  /\ frames' = IF oldRsp = Len(frames) THEN Front(frames)
               ELSE Append(Front(frames), "lost")
  /\ UNCHANGED <<vars, cursor, menu, keys, saved, oldRsp, monitored,
                 nested>>

MonitorStep == StartShell \/ ShellTake \/ ExitMonitor
-----------------------------------------------------------------------------
(* The event loop. *)

LoopRuns(stage) == pc = "idle" /\ ~InMonitor /\ at = stage

(* An update is on its way: queued, or taken and to be added again.        *)
Pending ==
  \/ \E n \in DOMAIN queue : queue[n].kind = "menu update"
  \/ at \in {"hover", "held", "wait"}
  \/ (at = "post" \/ Posting) /\ task.kind = "menu update"

(* get_next_event; what the loop does not know it drops. *)
Take ==
  /\ LoopRuns("loop")
  /\ queue # <<>>
  /\ queue' = Tail(queue)
  /\ IF Head(queue).kind \in {"menu update", "bar click"}
       THEN /\ task' = Head(queue)
            /\ at' = IF task'.kind = "bar click" THEN "bar" ELSE "hover"
       ELSE UNCHANGED <<task, at>>
  /\ UNCHANGED <<vars, cursor, beyond, undisturbed, slot, shown, lit, tidy,
                 monitor, keys>>

(* menu_bar_click_event opens the menu under the name clicked, ...         *)
OpenMenu ==
  /\ LoopRuns("bar")
  /\ task.x \in Roots
  /\ shown' = task.x
  /\ lit' = 0
  /\ task' = MenuEvent("menu update", task.x, 0)
  /\ at' = "post"
  /\ tidy' = (tidy /\ ~Pending)
  /\ UNCHANGED <<vars, cursor, entries, slot, monitor, keys>>

(* ... or closes the one that is open. *)
ClickBesideNames ==
  /\ LoopRuns("bar")
  /\ task.x \notin Roots
  /\ shown' = 0
  /\ lit' = 0
  /\ at' = "loop"
  /\ task' = NoTask
  /\ UNCHANGED <<vars, cursor, entries, slot, tidy, monitor, keys>>

(* menu_update_event.  Nothing is left to do for a closed menu; ...        *)
Closed ==
  /\ LoopRuns("hover")
  /\ shown = 0
  /\ at' = "loop"
  /\ task' = NoTask
  /\ UNCHANGED <<vars, cursor, entries, slot, shown, lit, tidy, monitor,
                 keys>>

(* Mutant: the update is not added again when the mouse is elsewhere.      *)
OutsideForgotten ==
  /\ LoopRuns("hover")
  /\ shown # 0
  /\ ItemAt(cursor) = 0
  /\ at' = "loop"
  /\ task' = NoTask
  /\ UNCHANGED <<vars, cursor, entries, slot, shown, lit, tidy, monitor,
                 keys>>

(* Mutant: the mouse is awaited here. *)
OutsideAwaited ==
  /\ LoopRuns("hover")
  /\ shown # 0
  /\ ItemAt(cursor) = 0
  /\ UNCHANGED dvars

(* ... the mouse outside the menu changes nothing; ...                     *)
Outside ==
  /\ LoopRuns("hover")
  /\ shown # 0
  /\ ItemAt(cursor) = 0
  /\ at' = "post"
  /\ UNCHANGED <<vars, cursor, entries, task, slot, shown, lit, tidy,
                 monitor, keys>>

(* Mutant: the item under the mouse is not drawn. *)
HoverUndrawn ==
  /\ LoopRuns("hover")
  /\ ItemAt(cursor) # 0
  /\ task' = [task EXCEPT !.item = ItemAt(cursor)]
  /\ at' = "held"
  /\ UNCHANGED <<vars, cursor, entries, slot, shown, lit, tidy, monitor,
                 keys>>

(* ... and another item under it than before is drawn as hovered, in the   *)
(* menu that the update is of.                                             *)
Hover ==
  /\ LoopRuns("hover")
  /\ ItemAt(cursor) # 0
  /\ task' = [task EXCEPT !.item = ItemAt(cursor)]
  /\ IF task.item = ItemAt(cursor)
       THEN UNCHANGED <<shown, lit>>
       ELSE shown' = task.root /\ lit' = ItemAt(cursor)
  /\ at' = "held"
  /\ UNCHANGED <<vars, cursor, entries, slot, tidy, monitor, keys>>

(* The button is looked at directly, not through the queue.                *)
LookHeld ==
  /\ LoopRuns("held")
  /\ at' = IF "held" \in bits THEN "wait" ELSE "post"
  /\ UNCHANGED <<vars, cursor, entries, task, slot, shown, lit, tidy,
                 monitor, keys>>

(* Mutant: it waits for the released bit, which mouse_update clears.       *)
AwaitReleased ==
  /\ LoopRuns("wait")
  /\ "released" \in bits
  /\ task' = [task EXCEPT !.kind = "menu click"]
  /\ at' = "post"
  /\ UNCHANGED <<vars, cursor, entries, slot, shown, lit, tidy, monitor,
                 keys>>

(* menu_update_event_clicked *)
AwaitRelease ==
  /\ LoopRuns("wait")
  /\ "held" \notin bits
  /\ task' = [task EXCEPT !.kind = "menu click"]
  /\ at' = "post"
  /\ UNCHANGED <<vars, cursor, entries, slot, shown, lit, tidy, monitor,
                 keys>>

(* Mutant: the pointer is taken for that of the newest entry.              *)
PostLoadNewest ==
  /\ LoopRuns("post")
  /\ slot' = IF queue = <<>> THEN 1 ELSE Len(queue)
  /\ beyond' = <<NoTask>>
  /\ at' = "kind"
  /\ UNCHANGED <<vars, cursor, queue, undisturbed, task, shown, lit, tidy,
                 monitor, keys>>

(* new_event, with interrupts on: it reads the pointer (which event__init  *)
(* has set long before, when the click on the menu bar was posted), ...    *)
PostLoad ==
  /\ LoopRuns("post")
  /\ slot' = Len(queue) + 1
  /\ beyond' = <<NoTask>>
  /\ at' = "kind"
  /\ UNCHANGED <<vars, cursor, queue, undisturbed, task, shown, lit, tidy,
                 monitor, keys>>

(* ... stores one word after the other (r2 and all after it count as one:  *)
(* nobody looks at them in an event of the handler), ...                   *)
Written(e) ==
  CASE at = "kind" -> [e EXCEPT !.kind = task.kind]
    [] at = "x" -> [e EXCEPT !.x = task.x]
    [] at = "rest" -> [e EXCEPT !.root = task.root, !.item = task.item]

AfterStore == [kind |-> "x", x |-> "rest", rest |-> "move"]

PostStore ==
  /\ \E stage \in DOMAIN AfterStore : LoopRuns(stage)
  /\ queue' = [n \in DOMAIN queue |->
                 IF n = slot THEN Written(queue[n]) ELSE queue[n]]
  /\ beyond' = [n \in DOMAIN beyond |->
                  IF Len(queue) + n = slot THEN Written(beyond[n]) ELSE beyond[n]]
  /\ at' = AfterStore[at]
  /\ UNCHANGED <<vars, cursor, undisturbed, task, slot, shown, lit, tidy,
                 monitor, keys>>

(* ... and moves the pointer to behind what it wrote, wherever it is now.  *)
PostMove ==
  /\ LoopRuns("move")
  /\ queue' = SubSeq(queue \o beyond, 1, slot)
  /\ beyond' = <<>>
  /\ slot' = 0
  /\ at' = IF task.kind = "menu click" THEN "close" ELSE "loop"
  /\ task' = NoTask
  /\ UNCHANGED <<vars, cursor, undisturbed, shown, lit, tidy, monitor, keys>>

CloseMenu ==
  /\ LoopRuns("close")
  /\ shown' = 0
  /\ lit' = 0
  /\ at' = "loop"
  /\ UNCHANGED <<vars, cursor, entries, task, slot, tidy, monitor, keys>>

LoopStep ==
  \/ Take \/ OpenMenu \/ ClickBesideNames \/ Closed \/ Outside \/ Hover
  \/ LookHeld \/ AwaitRelease \/ PostLoad \/ PostStore \/ PostMove \/ CloseMenu
-----------------------------------------------------------------------------
DesktopNext ==
  \/ Hand \/ Poll \/ Vsync \/ TypeExit \/ F12 \/ MonitorStep \/ LoopStep

(* The window thread keeps polling, vsyncs keep coming, and between them   *)
(* the CPU goes on with what they interrupted.  The user owes nothing: no  *)
(* key, no release of the button.                                          *)
DesktopSpec ==
  /\ DesktopInit /\ [][DesktopNext]_dvars
  /\ WF_dvars(Poll) /\ WF_dvars(Vsync)
  /\ WF_dvars(MonitorStep) /\ WF_dvars(LoopStep)
-----------------------------------------------------------------------------
(* Properties. *)

(* menu.asm says of menu_update_event "the event is added back into the    *)
(* event queue if the menu is still open": a menu on the screen never      *)
(* freezes, for an update of it is always on its way.  Only the monitor,   *)
(* which takes the events of the desktop, can eat it.                      *)
MenuReadded ==
  shown # 0 /\ at # "close" /\ ~monitored => Pending \/ at = "post" \/ Posting

(* The code keeps that promise as long as no vsync posts an event between  *)
(* the load and the store of the queue pointer in the menu's new_event,    *)
(* which it calls with interrupts on.                                      *)
MenuServed == undisturbed => MenuReadded

(* Under the same contract no event is lost, torn or resurrected: the      *)
(* queue only grows at its end and shrinks at its front.                   *)
NoneLost == [][undisturbed' => IsPrefix(queue, queue') \/ queue' = Tail(queue)]_dvars

(* What is chosen is what the user sees drawn as chosen, as long as no     *)
(* menu was opened while an update of another was pending.  An event in    *)
(* the middle of new_event can cost the menu its update but never gives it *)
(* a wrong one, for the kind is the first word written; only the monitor,  *)
(* which moves the entries, could make half an update pass for a whole.    *)
Choosing ==
  \/ at = "wait"
  \/ (at = "post" \/ Posting) /\ task.kind = "menu click"

ChoiceShown ==
  tidy /\ (undisturbed \/ ~monitored) /\ Choosing =>
    shown = task.root /\ lit = task.item

(* menu.asm calls the parameters of the click "selected root menu item"   *)
(* and "selected menu item": the item is one of the menu that is open.     *)
ChoiceOfOpenMenu == Choosing => shown = task.root

(* Outside the monitor the vsync handler is the one that serves mouse and  *)
(* keyboard, unless F12 was pressed within the monitor.                    *)
DesktopListens == ~InMonitor /\ ~nested => vector = "system"

(* menu_update_event spins until the held bit is clear, with nothing else  *)
(* served meanwhile.  The bit is overwritten by mouse_update, yet once the *)
(* button is up the loop gets out (or the monitor holds it up).            *)
WaitEnds == at = "wait" ~> (at # "wait" \/ down \/ InMonitor)

(* An open menu keeps the queue busy with its update, yet the queue is in  *)
(* the end rid of everything else: what is in it gets its turn (NoneLost   *)
(* says under which contract nothing leaves it otherwise), except while    *)
(* the user holds the button over an item.                                 *)
Served ==
  \/ <>[](\A n \in DOMAIN queue : queue[n].kind = "menu update")
  \/ <>[](at = "wait" /\ down)
  \/ <>Lost
=============================================================================
