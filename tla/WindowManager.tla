---------------------------- MODULE WindowManager ----------------------------
(***************************************************************************)
(* The window manager of a terminal (ouroboros/oriscwm.c) and the programs *)
(* that open windows through libc (tools/cc/lib: wm.c, term.c, pointer.c). *)
(*                                                                         *)
(* The manager is one task.  It waits for any of its queues and then makes *)
(* one pass over all of them: one request, one pointer subscription, every *)
(* pointer event, one keyboard subscription, one key.  Programs and the    *)
(* user go on between the polls of a pass, so each poll is one action.     *)
(* Programs wait for the answer to a request, but a subscription is a      *)
(* message without an answer, in a queue of its own, and does not say      *)
(* which window it is for.                                                 *)
(*                                                                         *)
(* The screen has one dimension here, x; what there is at a point besides  *)
(* a position is given with the point.  The polls of the surfaces, whose   *)
(* effect is drawing, and the place of a scrollbar's elevator are left     *)
(* out.  "bind" stands for every request that looks a window up and leaves *)
(* the table as it is.  The terminal is co-resident with its supervisor.   *)
(***************************************************************************)
EXTENDS Integers, Sequences, FiniteSets, SequencesExt

CONSTANTS
  Programs,    \* the programs of one behaviour
  Owners,      \* those that name themselves as owner of their window; libc never does
  Pointing,    \* those that subscribe to the pointer
  Crashing,    \* those that may crash
  MaxWindows,  \* MAX_WINDOWS: 16
  ScreenW,     \* FB_W
  WindowW,     \* USABLE_W_PX
  Origin,      \* CELL_ORIGIN_X: where the first window is put
  Cascade,     \* CASCADE_OFFSET_PX
  Gestures,    \* pointer events the user may make while n - 1 programs have been started
  Keys,        \* keys the user may type until then
  MaxInputs,   \* bound: the keys and pointer events until then
  SinkDepth,   \* how many of them a sink holds: 64
  None

Wids == 1 .. MaxWindows
Places == 0 .. (ScreenW - WindowW)
(* The objects allocated for a window, in this order.                      *)
Objects == <<"console", "grid", "vector", "raster", "fb">>
WindowParts == {"menu_button", "title", "arrow", "elevator", "anchor", "content"}
MenuParts == {"off", "pushpin", "title", "program", "end_session", "plate"}
(* part is what a window that covers the point has there, menu what the    *)
(* desktop menu has there while it is shown.                               *)
Point == [x : 0 .. (ScreenW - 1), part : WindowParts, menu : MenuParts]
Event == [type : {"down", "up", "motion"}, button : {"left", "right", "none"}, at : Point]
Key == {"escape", "other"}
Ops == {"new", "bind", "destroy"}
Request == [op : Ops, from : Programs, wid : 0 .. MaxWindows]
(* R4 and O2 of a message to the keyboard service.                         *)
KbdMessage == [r4 : {0, 1}, o2 : Programs]
Answer == [status : {"ok", "noent", "nospc", "io"}, wid : 0 .. MaxWindows]

ASSUME WindowsAssumption == MaxWindows \in Nat \ {0}
ASSUME ScreenAssumption ==
  /\ ScreenW \in Nat /\ WindowW \in Nat \ {0} /\ Origin \in Nat /\ Cascade \in Nat
  /\ WindowW + 2 * Origin <= ScreenW
  /\ Gestures \in [1 .. (Cardinality(Programs) + 1) -> SUBSET Event]
  /\ Keys \in [1 .. (Cardinality(Programs) + 1) -> SUBSET Key]
ASSUME ProgramsAssumption ==
  /\ Owners \cup Pointing \cup Crashing \subseteq Programs /\ None \notin Programs
  /\ None \notin Point /\ None \notin Answer
  /\ MaxInputs \in [1 .. (Cardinality(Programs) + 1) -> Nat] /\ SinkDepth \in Nat
  /\ IsFiniteSet(Programs)

VARIABLES
  pc,           \* where the manager is in its loop
  requests, kbd_svc, ptr_svc, ptr_events, kbd_events,  \* its queues
  window_type,  \* which wids are live
  objects,      \* what is allocated for each wid
  window_z,     \* live windows from bottom to top
  focused_wid, window_pos,
  kbd_sub, ptr_sub,
  owner,        \* the program a wid was last opened for; only Owners can be asked for
  drag,         \* a window dragged by its title bar
  sb,           \* the parts of a scrollbar that are held
  menu,         \* the desktop menu
  pending_xy,   \* a drag motion that later ones may replace
  client, held, reply,  \* each program's state, its window, the answer it got
  user_closed,  \* history: the user has closed a window
  left_down, inputs     \* the user: SELECT is pressed, inputs so far

queueVars == <<requests, kbd_svc, ptr_svc, ptr_events, kbd_events>>
tableVars == <<window_type, objects, window_z, focused_wid, kbd_sub, ptr_sub>>
windowVars == <<window_pos, owner>>
mouseVars == <<drag, sb, menu, pending_xy, user_closed>>
programVars == <<client, held, reply>>
userVars == <<left_down, inputs>>
vars == <<pc, queueVars, tableVars, windowVars, mouseVars, programVars, userVars>>

Live == {w \in Wids : window_type[w]}
NoDrag == [active |-> FALSE, wid |-> 0, grab |-> 0, outline |-> 0]
NoMenu == [active |-> FALSE, pinned |-> FALSE, drag |-> FALSE]
TopOf(z) == IF z = <<>> THEN 0 ELSE Last(z)

Init ==
  /\ pc = "wait"
  /\ requests = <<>> /\ kbd_svc = <<>> /\ ptr_svc = <<>>
  /\ ptr_events = <<>> /\ kbd_events = <<>>
  /\ window_type = [w \in Wids |-> FALSE]
  /\ objects = [w \in Wids |-> {}]
  /\ window_z = <<>> /\ focused_wid = 0
  /\ kbd_sub = [w \in Wids |-> None] /\ ptr_sub = [w \in Wids |-> None]
  /\ window_pos = [w \in Wids |-> 0]
  /\ owner = [w \in Wids |-> None]
  /\ drag = NoDrag /\ sb = {} /\ menu = NoMenu
  /\ pending_xy = None /\ user_closed = FALSE
  /\ client = [p \in Programs |-> "off"]
  /\ held = [p \in Programs |-> 0] /\ reply = [p \in Programs |-> None]
  /\ left_down = FALSE /\ inputs = 0

-----------------------------------------------------------------------------
(* The window table.                                                       *)

(* refocus_to_topmost                                                      *)
Refocused(w, z) == IF focused_wid = w THEN TopOf(z) ELSE focused_wid

TeardownFocusKept(w) ==                            \* Mutant: no refocus_to_topmost
  /\ objects' = [objects EXCEPT ![w] = {}]
  /\ window_z' = RemoveFirst(window_z, w)
  /\ window_type' = [window_type EXCEPT ![w] = FALSE]
  /\ kbd_sub' = [kbd_sub EXCEPT ![w] = None]
  /\ ptr_sub' = [ptr_sub EXCEPT ![w] = None]
  /\ UNCHANGED focused_wid

(* What window_teardown and scan_owner_exits do to a window: its objects   *)
(* are freed, and the focus goes to the window that is then on top.  The   *)
(* owner is left in place.                                                 *)
Teardown(w) ==
  /\ objects' = [objects EXCEPT ![w] = {}]
  /\ window_z' = RemoveFirst(window_z, w)
  /\ window_type' = [window_type EXCEPT ![w] = FALSE]
  /\ kbd_sub' = [kbd_sub EXCEPT ![w] = None]
  /\ ptr_sub' = [ptr_sub EXCEPT ![w] = None]
  /\ focused_wid' = Refocused(w, window_z')

(* raise_window: focus, and to the top of the stack.                       *)
Raise(w) ==
  /\ focused_wid' = w
  /\ window_z' = Append(RemoveFirst(window_z, w), w)

(* topmost_window_at                                                       *)
Covers(w, x) == x >= window_pos[w] /\ x < window_pos[w] + WindowW
TopmostAt(x) ==
  LET hit == {i \in 1 .. Len(window_z) : Covers(window_z[i], x)}
  IN  IF hit = {} THEN 0 ELSE window_z[CHOOSE i \in hit : \A j \in hit : j <= i]

(* The default position of the n-th window from the bottom.                *)
Slack == ScreenW - WindowW - 2 * Origin
DefaultPos(n) == Origin + ((n * Cascade) % (Slack + 1))

-----------------------------------------------------------------------------
(* Requests, one of them in each pass, each answered to its sender.        *)

Tell(p, status, w) == reply' = [reply EXCEPT ![p] = [status |-> status, wid |-> w]]

FreedOnFailureLess(n) == {Objects[i] : i \in 1 .. (n - 2)}  \* Mutant: one forgotten

(* What is freed again when the n-th allocation for a window fails.        *)
FreedOnFailure(n) == {Objects[i] : i \in 1 .. (n - 1)}

HandleNewWindow(p) ==
  LET free == Wids \ Live
      w == CHOOSE v \in free : \A u \in free : v <= u
  IN
  \/ /\ free = {}
     /\ Tell(p, "nospc", 0)
     /\ UNCHANGED <<tableVars, windowVars>>
  \/ \E n \in 1 .. Len(Objects) :                  \* the n-th allocation fails
     /\ free # {}
     /\ objects' = [objects EXCEPT ![w] = {Objects[i] : i \in 1 .. (n - 1)} \ FreedOnFailure(n)]
     /\ owner' = [owner EXCEPT ![w] = p]
     /\ Tell(p, "io", 0)
     /\ UNCHANGED <<window_type, window_z, focused_wid, kbd_sub, ptr_sub, window_pos>>
  \/ /\ free # {}
     /\ owner' = [owner EXCEPT ![w] = p]
     /\ objects' = [objects EXCEPT ![w] = {Objects[i] : i \in 1 .. Len(Objects)}]
     /\ window_pos' = [window_pos EXCEPT ![w] = DefaultPos(Len(window_z))]
     /\ window_z' = Append(window_z, w)
     /\ focused_wid' = w
     /\ window_type' = [window_type EXCEPT ![w] = TRUE]
     /\ Tell(p, "ok", w)
     /\ UNCHANGED <<kbd_sub, ptr_sub>>

(* The answer to a bind carries a reference to the surface, which the      *)
(* program keeps; nothing of the manager's changes.                        *)
HandleBindSurface(p, w) ==
  /\ Tell(p, IF window_type[w] THEN "ok" ELSE "noent", w)
  /\ UNCHANGED <<tableVars, windowVars>>

HandleDestroyWindow(p, w) ==
  \/ /\ window_type[w]
     /\ Teardown(w)
     /\ Tell(p, "ok", 0)
     /\ UNCHANGED windowVars
  \/ /\ ~window_type[w]
     /\ Tell(p, "noent", 0)
     /\ UNCHANGED <<tableVars, windowVars>>

ReadyWithoutRequests ==                            \* Mutant: a slot of the set left out
  \/ kbd_svc # <<>> \/ ptr_svc # <<>> \/ ptr_events # <<>> \/ kbd_events # <<>>

(* wm_block_until_ready: the set given to WaitAnyQueue holds every queue,  *)
(* and while a scrollbar's arrow is held the wait ends by itself.          *)
Ready ==
  \/ requests # <<>> \/ kbd_svc # <<>> \/ ptr_svc # <<>>
  \/ ptr_events # <<>> \/ kbd_events # <<>> \/ "arrow" \in sb

PollOneRequest ==
  /\ pc = "wait" /\ Ready /\ requests # <<>>
  /\ requests' = Tail(requests)
  /\ pc' = "ptr_subs"
  /\ LET r == Head(requests) IN
     \/ r.op = "new" /\ HandleNewWindow(r.from)
     \/ r.op = "bind" /\ HandleBindSurface(r.from, r.wid)
     \/ r.op = "destroy" /\ HandleDestroyWindow(r.from, r.wid)
  /\ UNCHANGED <<kbd_svc, ptr_svc, ptr_events, kbd_events, mouseVars, client, held, userVars>>

OwnerAnswers(w) ==                                 \* Mutant: any state will do
  window_type[w] /\ owner[w] \in Owners /\ client[owner[w]] # "gone"

(* Woken without a request, the manager looks at the owners of the         *)
(* windows; task_query answers for a task that has exited until it is      *)
(* reaped.                                                                 *)
OwnerExited(w) == window_type[w] /\ owner[w] \in Owners /\ client[owner[w]] = "exited"

NoRequest ==
  /\ pc = "wait" /\ Ready /\ requests = <<>>
  /\ pc' = "scan"
  /\ UNCHANGED <<queueVars, tableVars, windowVars, mouseVars, programVars, userVars>>

ScanOwnerExits ==
  /\ pc = "scan"
  /\ \/ \E w \in Wids : OwnerExited(w) /\ Teardown(w) /\ UNCHANGED pc
     \/ (\A w \in Wids : ~OwnerExited(w)) /\ pc' = "ptr_subs" /\ UNCHANGED tableVars
  /\ UNCHANGED <<queueVars, windowVars, mouseVars, programVars, userVars>>

-----------------------------------------------------------------------------
(* Subscriptions.                                                          *)

(* A subscription is stored for the window that is focused now; null       *)
(* clears the slot.                                                        *)
PollPointerSubscribes ==
  /\ pc = "ptr_subs"
  /\ pc' = "ptr_events"
  /\ \/ ptr_svc = <<>> /\ UNCHANGED <<ptr_svc, ptr_sub>>
     \/ /\ ptr_svc # <<>>
        /\ ptr_svc' = Tail(ptr_svc)
        /\ ptr_sub' = IF focused_wid = 0 THEN ptr_sub
                      ELSE [ptr_sub EXCEPT ![focused_wid] = Head(ptr_svc)]
  /\ UNCHANGED <<requests, kbd_svc, ptr_events, kbd_events, window_type, objects,
                 window_z, focused_wid, kbd_sub, windowVars, mouseVars,
                 programVars, userVars>>

(* R4, which tells subscribing from unsubscribing, is not looked at.       *)
PollKeyboardSubscribes ==
  /\ pc = "kbd_subs"
  /\ pc' = "kbd_events"
  /\ \/ kbd_svc = <<>> /\ UNCHANGED <<kbd_svc, kbd_sub>>
     \/ /\ kbd_svc # <<>>
        /\ kbd_svc' = Tail(kbd_svc)
        /\ kbd_sub' = IF focused_wid = 0 THEN kbd_sub
                      ELSE [kbd_sub EXCEPT ![focused_wid] = Head(kbd_svc).o2]
  /\ UNCHANGED <<requests, ptr_svc, ptr_events, kbd_events, window_type, objects,
                 window_z, focused_wid, ptr_sub, windowVars, mouseVars,
                 programVars, userVars>>

(* A key goes to the subscriber of the focused window, unless the menu     *)
(* takes it.                                                               *)
PollKeyboardEvents ==
  /\ pc = "kbd_events"
  /\ pc' = "wait"
  /\ \/ kbd_events = <<>> /\ UNCHANGED <<kbd_events, menu>>
     \/ /\ kbd_events # <<>>
        /\ kbd_events' = Tail(kbd_events)
        /\ menu' = IF Head(kbd_events) = "escape"
                     THEN [menu EXCEPT !.active = FALSE, !.pinned = FALSE] ELSE menu
  /\ UNCHANGED <<requests, kbd_svc, ptr_svc, ptr_events, tableVars, windowVars,
                 drag, sb, pending_xy, user_closed, programVars, userVars>>

-----------------------------------------------------------------------------
(* Pointer events, all that are there.  The manager itself moves windows,  *)
(* scrollbars and its menu; the rest is forwarded to the subscriber of the *)
(* focused window, which changes nothing here.                             *)

ClampedLow(v) == IF v < 0 THEN 0 ELSE v            \* Mutant: one side only
Clamped(v) == IF v < 0 THEN 0 ELSE IF v > ScreenW - WindowW THEN ScreenW - WindowW ELSE v
Dismissed == [menu EXCEPT !.active = FALSE, !.pinned = FALSE]
Coalesced(e) == e.type = "motion" /\ drag.active /\ ~menu.active

(* A motion moves the outline of the dragged window, unless the menu is    *)
(* dragged or an elevator held.                                            *)
MotionTo(x) ==
  drag' = IF drag.active /\ ~menu.drag /\ "elevator" \notin sb
            THEN [drag EXCEPT !.outline = Clamped(x - drag.grab)] ELSE drag

DragMenu(e) ==
  /\ menu' = [menu EXCEPT !.drag = ~(e.type = "up" /\ e.button = "left")]
  /\ UNCHANGED <<pc, tableVars, windowVars, drag, sb, user_closed>>

(* A menu that is not pinned takes every event, a pinned one those on it.  *)
MenuOwns(e) == menu.active /\ (~menu.pinned \/ e.at.menu # "off")

(* desktop_menu_select: a program is started by the supervisor, whose      *)
(* answer the manager waits for; a pinned menu stays for the next one.     *)
SelectProgram ==
  /\ menu' = IF menu.pinned THEN menu ELSE Dismissed
  /\ pc' = "spawning"
SelectEndSession ==
  /\ menu' = Dismissed
  /\ pc' = "ended"

PressMenu(item) ==
  \/ /\ item = "pushpin"
     /\ menu' = IF menu.pinned THEN Dismissed ELSE [menu EXCEPT !.pinned = TRUE]
     /\ UNCHANGED pc
  \/ item = "program" /\ SelectProgram
  \/ item = "end_session" /\ SelectEndSession
  \/ /\ item \in {"title", "plate", "off"}
     /\ menu' = IF menu.pinned THEN [menu EXCEPT !.drag = (item = "title")] ELSE Dismissed
     /\ UNCHANGED pc

PointAtMenu(e) ==
  /\ IF e.type = "down" /\ e.button = "left" THEN PressMenu(e.at.menu) ELSE UNCHANGED <<pc, menu>>
  /\ UNCHANGED <<tableVars, windowVars, drag, sb, user_closed>>

(* The right button on the desktop shows the menu.                         *)
RightPress(e) ==
  /\ menu' = IF TopmostAt(e.at.x) = 0 /\ ~menu.active
               THEN [active |-> TRUE, pinned |-> FALSE, drag |-> FALSE] ELSE menu
  /\ UNCHANGED <<tableVars, windowVars, drag, sb, user_closed>>

LeftPress(e) ==
  LET t == TopmostAt(e.at.x) IN
  /\ UNCHANGED <<menu, windowVars>>
  /\ \/ t = 0 /\ UNCHANGED <<tableVars, drag, sb, user_closed>>
     \/ /\ t # 0 /\ e.at.part = "menu_button"     \* the interim way to close a window
        /\ Teardown(t)
        /\ user_closed' = TRUE
        /\ UNCHANGED <<drag, sb>>
     \/ /\ t # 0 /\ e.at.part # "menu_button"
        /\ Raise(t)
        /\ drag' = IF e.at.part = "title"
                     THEN [active |-> TRUE, wid |-> t, grab |-> e.at.x - window_pos[t],
                           outline |-> window_pos[t]] ELSE drag
        /\ sb' = IF e.at.part \in {"arrow", "elevator", "anchor"}
                   THEN sb \cup {e.at.part} ELSE sb
        /\ UNCHANGED <<window_type, objects, kbd_sub, ptr_sub, user_closed>>

(* Letting a scrollbar go leaves a drag as it is.                          *)
LeftRelease(e) ==
  /\ UNCHANGED <<menu, tableVars, owner, user_closed>>
  /\ sb' = {}
  /\ IF sb = {} /\ drag.active
       THEN /\ window_pos' = [window_pos EXCEPT ![drag.wid] = drag.outline]
            /\ drag' = NoDrag
       ELSE UNCHANGED <<window_pos, drag>>

PointAtScreen(e) ==
  /\ UNCHANGED pc
  /\ \/ e.type = "down" /\ e.button = "right" /\ RightPress(e)
     \/ e.type = "down" /\ e.button = "left" /\ LeftPress(e)
     \/ e.type = "up" /\ e.button = "left" /\ LeftRelease(e)
     \/ /\ e.type = "motion"
        /\ MotionTo(e.at.x)
        /\ UNCHANGED <<menu, tableVars, windowVars, sb, user_closed>>

DispatchPointerEvent(e) ==
  \/ menu.drag /\ DragMenu(e)
  \/ ~menu.drag /\ MenuOwns(e) /\ PointAtMenu(e)
  \/ ~menu.drag /\ ~MenuOwns(e) /\ PointAtScreen(e)

PollOnePointerEvent ==
  /\ pc = "ptr_events" /\ ptr_events # <<>>
  /\ \/ /\ Coalesced(Head(ptr_events))
        /\ pending_xy' = Head(ptr_events).at
        /\ UNCHANGED <<pc, tableVars, windowVars, drag, sb, menu, user_closed>>
     \/ /\ ~Coalesced(Head(ptr_events)) /\ pending_xy = None
        /\ DispatchPointerEvent(Head(ptr_events))
        /\ UNCHANGED pending_xy
  /\ ptr_events' = Tail(ptr_events)
  /\ UNCHANGED <<requests, kbd_svc, ptr_svc, kbd_events, programVars, userVars>>

(* The latest drag motion is handled before any other event.               *)
FlushMotion ==
  /\ pc = "ptr_events" /\ pending_xy # None
  /\ ptr_events # <<>> => ~Coalesced(Head(ptr_events))
  /\ MotionTo(pending_xy.x)
  /\ pending_xy' = None
  /\ UNCHANGED <<pc, queueVars, tableVars, windowVars, sb, menu, user_closed,
                 programVars, userVars>>

NoPointerEvent ==
  /\ pc = "ptr_events" /\ ptr_events = <<>> /\ pending_xy = None
  /\ pc' = "kbd_subs"
  /\ UNCHANGED <<queueVars, tableVars, windowVars, mouseVars, programVars, userVars>>

-----------------------------------------------------------------------------
Manager ==
  \/ PollOneRequest \/ NoRequest \/ ScanOwnerExits
  \/ PollPointerSubscribes \/ PollOnePointerEvent
  \/ FlushMotion \/ NoPointerEvent \/ PollKeyboardSubscribes \/ PollKeyboardEvents

SupervisorBindsFirst ==                            \* Mutant: it asks the manager first
  pc = "wait" /\ UNCHANGED vars

(* The supervisor serves the spawn the manager waits for.  Co-resident, it *)
(* does not open a window of its own first: the manager would not answer.  *)
SupervisorServes ==
  /\ pc = "spawning"
  /\ pc' = "ptr_events"
  /\ UNCHANGED <<queueVars, tableVars, windowVars, mouseVars, programVars, userVars>>

-----------------------------------------------------------------------------
Started == Cardinality({p \in Programs : client[p] # "off"})

(* A program: wm_open_session, term_init, pointer_subscribe, its work, and *)
(* term_shutdown and wm_destroy_window at the end.                         *)

Send(p, op, w) == requests' = Append(requests, [op |-> op, from |-> p, wid |-> w])
Waiting == {"opening", "binding", "closing"}
Open(p) == client[p] \in {"running", "pointing"}

ManagerIdles == UNCHANGED <<pc, ptr_events, kbd_events, window_type, objects, window_z,
                            focused_wid, kbd_sub, ptr_sub, windowVars, mouseVars, userVars>>

WmNewWindow(p) ==
  /\ client[p] = "off" /\ inputs <= MaxInputs[Started + 2]
  /\ client' = [client EXCEPT ![p] = "opening"]
  /\ Send(p, "new", 0)
  /\ UNCHANGED <<kbd_svc, ptr_svc, held, reply>> /\ ManagerIdles

(* The answer: a program that gets no window ends; one whose surfaces      *)
(* cannot be bound gives its window back.                                  *)
WmAnswer(p) ==
  /\ client[p] \in Waiting /\ reply[p] # None
  /\ reply' = [reply EXCEPT ![p] = None]
  /\ \/ /\ client[p] = "opening" /\ reply[p].status = "ok"
        /\ held' = [held EXCEPT ![p] = reply[p].wid]
        /\ client' = [client EXCEPT ![p] = "binding"]
        /\ Send(p, "bind", reply[p].wid)
        /\ UNCHANGED kbd_svc
     \/ /\ client[p] = "binding" /\ reply[p].status = "ok"
        /\ client' = [client EXCEPT ![p] = "running"]       \* and term_init
        /\ kbd_svc' = Append(kbd_svc, [r4 |-> 0, o2 |-> p])
        /\ UNCHANGED <<held, requests>>
     \/ /\ client[p] = "binding" /\ reply[p].status # "ok"
        /\ client' = [client EXCEPT ![p] = "closing"]
        /\ Send(p, "destroy", held[p])
        /\ UNCHANGED <<held, kbd_svc>>
     \/ /\ client[p] = "closing" \/ (client[p] = "opening" /\ reply[p].status # "ok")
        /\ client' = [client EXCEPT ![p] = "gone"]
        /\ UNCHANGED <<held, requests, kbd_svc>>
  /\ UNCHANGED ptr_svc /\ ManagerIdles

PointerSubscribe(p) ==
  /\ p \in Pointing /\ client[p] = "running"
  /\ client' = [client EXCEPT ![p] = "pointing"]
  /\ ptr_svc' = Append(ptr_svc, p)
  /\ UNCHANGED <<requests, kbd_svc, held, reply>> /\ ManagerIdles

(* Some programs unsubscribe from the pointer first, with a null reference. *)
TermShutdown(p) ==
  /\ Open(p)
  /\ client' = [client EXCEPT ![p] = "leaving"]
  /\ ptr_svc' \in {ptr_svc} \cup IF client[p] = "pointing" THEN {Append(ptr_svc, None)} ELSE {}
  /\ kbd_svc' = Append(kbd_svc, [r4 |-> 1, o2 |-> p])
  /\ UNCHANGED <<requests, held, reply>> /\ ManagerIdles

WmDestroyWindow(p) ==
  /\ client[p] = "leaving"
  /\ client' = [client EXCEPT ![p] = "closing"]
  /\ Send(p, "destroy", held[p])
  /\ UNCHANGED <<kbd_svc, ptr_svc, held, reply>> /\ ManagerIdles

(* A crash leaves the window to the scan, if there is an owner to ask for. *)
Crash(p) ==
  /\ p \in Crashing /\ Open(p)
  /\ client' = [client EXCEPT ![p] = IF p \in Owners THEN "exited" ELSE "gone"]
  /\ UNCHANGED <<requests, kbd_svc, ptr_svc, held, reply>> /\ ManagerIdles

Reap(p) ==
  /\ client[p] = "exited"
  /\ client' = [client EXCEPT ![p] = "gone"]
  /\ UNCHANGED <<requests, kbd_svc, ptr_svc, held, reply>> /\ ManagerIdles

Program(p) ==
  \/ WmNewWindow(p) \/ WmAnswer(p) \/ PointerSubscribe(p)
  \/ TermShutdown(p) \/ WmDestroyWindow(p) \/ Crash(p) \/ Reap(p)

-----------------------------------------------------------------------------
(* The user, whose keys and pointer events the display puts in the two     *)
(* input sinks; one that is full drops them.  SELECT is the left button.   *)
Sunk(sink, e) == IF Len(sink) < SinkDepth THEN Append(sink, e) ELSE sink

Type(k) ==
  /\ inputs < MaxInputs[Started + 1]
  /\ inputs' = inputs + 1
  /\ kbd_events' = Sunk(kbd_events, k)
  /\ UNCHANGED <<pc, requests, kbd_svc, ptr_svc, ptr_events, tableVars, windowVars,
                 mouseVars, programVars, left_down>>

Pointer(e) ==
  /\ inputs < MaxInputs[Started + 1]
  /\ inputs' = inputs + 1
  /\ e.button = "left" => (e.type = "up" <=> left_down)
  /\ left_down' = IF e.button = "left" THEN e.type = "down" ELSE left_down
  /\ ptr_events' = Sunk(ptr_events, e)
  /\ UNCHANGED <<pc, requests, kbd_svc, ptr_svc, kbd_events, tableVars, windowVars,
                 mouseVars, programVars>>

User == (\E k \in Keys[Started + 1] : Type(k)) \/ (\E e \in Gestures[Started + 1] : Pointer(e))

Next == pc # "ended" /\ (Manager \/ SupervisorServes \/ User \/ \E p \in Programs : Program(p))
Spec == Init /\ [][Next]_vars

(* The processor gives every task its turn (TaskSched.RunnableRuns): the   *)
(* manager and the supervisor go on, and a program takes its answers.      *)
Fairness ==
  /\ WF_vars(pc # "ended" /\ (Manager \/ SupervisorServes))
  /\ \A p \in Programs : WF_vars(pc # "ended" /\ WmAnswer(p))
FairSpec == Spec /\ Fairness

-----------------------------------------------------------------------------
TypeOK ==
  /\ pc \in {"wait", "scan", "ptr_subs", "ptr_events", "kbd_subs",
             "kbd_events", "spawning", "ended"}
  /\ requests \in Seq(Request) /\ kbd_svc \in Seq(KbdMessage)
  /\ ptr_svc \in Seq(Programs \cup {None})
  /\ ptr_events \in Seq(Event) /\ kbd_events \in Seq(Key)
  /\ window_type \in [Wids -> BOOLEAN]
  /\ objects \in [Wids -> SUBSET {Objects[i] : i \in 1 .. Len(Objects)}]
  /\ window_z \in Seq(Wids) /\ focused_wid \in 0 .. MaxWindows
  /\ window_pos \in [Wids -> Places]
  /\ kbd_sub \in [Wids -> Programs \cup {None}] /\ ptr_sub \in [Wids -> Programs \cup {None}]
  /\ owner \in [Wids -> Programs \cup {None}]
  /\ drag \in [active : BOOLEAN, wid : 0 .. MaxWindows, grab : Int, outline : Places]
  /\ (drag.active => drag.wid # 0)
  /\ sb \subseteq {"arrow", "elevator", "anchor"}
  /\ menu \in [active : BOOLEAN, pinned : BOOLEAN, drag : BOOLEAN]
  /\ pending_xy \in Point \cup {None} /\ user_closed \in BOOLEAN
  /\ client \in [Programs -> {"off", "running", "pointing", "leaving",
                              "exited", "gone"} \cup Waiting]
  /\ held \in [Programs -> 0 .. MaxWindows] /\ reply \in [Programs -> Answer \cup {None}]
  /\ left_down \in BOOLEAN /\ inputs \in Nat

(* However windows are opened, raised, closed by their program, by the     *)
(* user or by the scan, and whichever allocation fails: the stack lists    *)
(* the live windows, each once, and the focus is on the top of it ...      *)
StackExact ==
  /\ Len(window_z) = Cardinality(Live)
  /\ {window_z[i] : i \in 1 .. Len(window_z)} = Live
  /\ focused_wid = TopOf(window_z)
(* ... and exactly the live windows have their objects; a dead one has     *)
(* neither objects nor subscribers nor writes that its wid would pass on.  *)
TornDown ==
  \A w \in Wids :
    /\ window_type[w] => objects[w] = {Objects[i] : i \in 1 .. Len(Objects)}
    /\ ~window_type[w] => /\ objects[w] = {}
                          /\ kbd_sub[w] = None /\ ptr_sub[w] = None
WindowTable == StackExact /\ TornDown

(* Until the user closes a window, a program that has opened one and not   *)
(* asked to close it has it: no request, scan or exit of another program   *)
(* takes it away, and its wid is not given to another.                     *)
HasWindow(p) == window_type[held[p]] /\ owner[held[p]] = p
Holding == {"binding", "running", "pointing", "leaving"}
OwnWindow == ~user_closed => \A p \in Programs : client[p] \in Holding => HasWindow(p)

(* Every program that waits for an answer gets one, unless the session     *)
(* ends, also while the manager itself waits for the supervisor; and what  *)
(* is in a queue is taken: an event, a key or a subscription is enough to  *)
(* wake the manager, which takes one of most kinds in a pass.              *)
Answered ==
  \A p \in Programs :
    (client[p] \in Waiting /\ reply[p] = None) ~> (reply[p] # None \/ pc = "ended")
InputTaken == (kbd_events # <<>>) ~> (kbd_events = <<>> \/ pc = "ended")
SubscriptionTaken == (kbd_svc # <<>>) ~> (kbd_svc = <<>> \/ pc = "ended")
Attended == Answered /\ InputTaken /\ SubscriptionTaken

(* term_shutdown "removes that one entry, leaving other subscribers (e.g.  *)
(* the parent shell) untouched" (term.c).  Not so: the manager stores the  *)
(* reference it should remove for whatever window is focused by then.      *)
LeavesOthers ==
  [][PollKeyboardSubscribes /\ kbd_svc # <<>> /\ Head(kbd_svc).r4 = 1 =>
       \A w \in Wids : kbd_sub[w] \notin {None, Head(kbd_svc).o2} => kbd_sub'[w] = kbd_sub[w]]_vars

(* "each window's subscriber lives in its own slot" (oriscwm.c): not when  *)
(* another window gets the focus before the subscription is polled.        *)
SubscriberOwn == \A w \in Wids : kbd_sub[w] \in {None, owner[w]}
(* A request closes a window of its own program only: not when the wid of  *)
(* a window the user has closed was given to another since, which is then  *)
(* closed in its place.                                                    *)
ClosesOwn ==
  [][PollOneRequest =>
       \A w \in Wids : window_type[w] /\ ~window_type'[w] => owner[w] = Head(requests).from]_vars
(* The menu is dragged only while it is shown: Escape takes it down and    *)
(* leaves it dragged, and the manager takes every pointer event until the  *)
(* button is let go.                                                       *)
DraggedMenuShown == menu.drag => menu.active
(* A window that is dragged is live: closing it leaves the drag on, and    *)
(* letting the button go moves the window that has the wid by then.        *)
DraggedLive == drag.active => window_type[drag.wid]
=============================================================================
