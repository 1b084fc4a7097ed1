----------------------------- MODULE WaylandInput -----------------------------
(* WaylandInput: the seat's events become a queue of inputs for the application,
   with key repeat, compose, pointer frames and the reset of a lost device; and
   WaylandWindow's keyboard and pointer listeners, which choose what is recorded
   when the context-menu popup takes the focus.  The compositor is external.    *)
EXTENDS Integers, Sequences, SequencesExt

CONSTANTS
    Dead, Letter, Shift,   \* a dead key, a letter, and a key that does not repeat
    Rates,                 \* repeat rates the compositor may announce; 0 is none
    Second, Delay,         \* ticks of a second and of the delay before repeats
    MaxBurst,              \* repeats emitted in one turn (32)
    MaxWire, MaxQueue,     \* bounds: events on their way, inputs before a turn
    MaxStall,              \* bound: ticks between two turns
    MaxClicks              \* bound: wheel clicks

ASSUME InputBounds ==
    /\ Rates \subseteq Nat /\ {Second, Delay, MaxBurst, MaxStall} \subseteq Nat \ {0}

VARIABLES
    kbd,      \* keymap, focus, compose and repeat of WaylandInput
    ptr,      \* focus, surface, buttons and axis frame of WaylandInput
    queue,    \* its inputs
    win,      \* WaylandWindow: the device, the popup, and the end of the popup
    app,      \* what the application has been told
    shell,     \* the compositor
    wire      \* its events on their way

inputVars == <<kbd, ptr, queue, win, app, shell, wire>>

Keys == {Dead, Letter, Shift}
NoKey == "none"
Surfaces == {"toplevel", "popup"}
NoFrame == [continuous |-> 0, discrete |-> 0, value120 |-> 0]

(* device is the one device of the seat: the keyboard's inputs and the pointer's
   share the queue, but none of their code reads the other's. *)
InputInit(device) ==
    /\ kbd = [keymap |-> FALSE, focused |-> FALSE, composing |-> FALSE, rate |-> 0,
              active |-> FALSE, key |-> NoKey, due |-> 0]
    /\ ptr = [focused |-> FALSE, surface |-> "toplevel", down |-> FALSE, frame |-> NoFrame]
    /\ queue = <<>> /\ wire = <<>>
    /\ win = [seat |-> device, device |-> FALSE, popup |-> FALSE, done |-> FALSE]
    /\ app = [focused |-> FALSE, over |-> "none", down |-> FALSE, steps |-> 0,
              slipped |-> FALSE, erased |-> FALSE]
    /\ shell = [device |-> FALSE, focus |-> "none", popup |-> FALSE, held |-> {},
               down |-> FALSE, clicks |-> 0]

-----------------------------------------------------------------------------
(* Key repeat and compose, as functions of kbd. *)

Interval(rate) == IF Second \div rate > 1 THEN Second \div rate ELSE 1

StopRepeat(k) == [k EXCEPT !.active = FALSE, !.key = NoKey]
ResetCompose(k) == [k EXCEPT !.composing = FALSE]

StartRepeat(k, key) ==
    IF k.rate = 0 \/ key = Shift THEN StopRepeat(k)
    ELSE [k EXCEPT !.active = TRUE, !.key = key, !.due = Delay]

(* TextForKey's feed: a dead key opens a sequence and any other text ends it. *)
Feed(k, key) ==
    IF key = Shift THEN k
    ELSE IF key = Dead THEN [k EXCEPT !.composing = ~@]
    ELSE ResetCompose(k)

Bug_RecordKey(k, key, pressed) ==
    IF ~k.keymap THEN k
    ELSE IF pressed THEN StartRepeat(Feed(k, key), key)
    ELSE k

RecordKey(k, key, pressed) ==
    IF ~k.keymap THEN k
    ELSE IF pressed THEN
        LET fed == Feed(k, key)
        IN IF fed.composing THEN StopRepeat(fed) ELSE StartRepeat(fed, key)
    ELSE IF k.active /\ k.key = key THEN StopRepeat(k)
    ELSE k

SetRepeatInfo(k, rate) ==
    IF rate = 0 THEN StopRepeat([k EXCEPT !.rate = 0])
    ELSE [k EXCEPT !.rate = rate, !.due = IF k.active THEN Delay ELSE @]

(* RunKeyRepeat: what is due, at most MaxBurst of it, the rest being forgotten.
   n counts what was emitted. *)
Emitted(k) ==
    LET late == IF k.due > 0 THEN 0 ELSE 1 + (0 - k.due) \div Interval(k.rate)
    IN IF ~k.active THEN 0 ELSE IF late < MaxBurst THEN late ELSE MaxBurst

Bug_RunKeyRepeat(k) ==
    IF k.active THEN [k EXCEPT !.due = @ + Emitted(k) * Interval(k.rate)] ELSE k

RunKeyRepeat(k) ==
    LET n == Emitted(k)
        next == k.due + n * Interval(k.rate)
    IN IF ~k.active THEN k
       ELSE [k EXCEPT !.due = IF next > 0 THEN next ELSE Interval(k.rate),
                      !.composing = IF k.key = Dead THEN (@ # (n % 2 = 1)) ELSE @]

(* RecordKeyboardFocus and ResetKeyboardState, which come together on a loss. *)
Bug_Unfocus(k) == ResetCompose([k EXCEPT !.focused = FALSE])
Unfocus(k) == StopRepeat(ResetCompose([k EXCEPT !.focused = FALSE]))

-----------------------------------------------------------------------------
(* The queue. *)

FocusInput(on) == [kind |-> IF on THEN "focus" ELSE "unfocus", surface |-> "toplevel"]
PointerInput(kind, surface) == [kind |-> kind, surface |-> surface]
IsKeyboard(i) == i.kind \in {"focus", "unfocus"}

(* The inputs that are the keyboard's, or those that are not. *)
InputsOf(keyboard) ==
    LET kept[n \in 0 .. Len(queue)] ==
            IF n = 0 THEN <<>>
            ELSE IF IsKeyboard(queue[n]) = keyboard THEN Append(kept[n - 1], queue[n])
            ELSE kept[n - 1]
    IN kept[Len(queue)]

FocusChanged(on) == IF on = kbd.focused THEN queue ELSE Append(queue, FocusInput(on))

(* ResetKeyboardDevice: queued keyboard inputs go, and a loss stays reported. *)
Bug_LossReported == kbd.focused
LossReported == kbd.focused \/ \E i \in DOMAIN queue : queue[i].kind = "unfocus"

ResetKeyboardDevice ==
    /\ kbd' = [Unfocus(kbd) EXCEPT !.keymap = FALSE]
    /\ queue' = InputsOf(FALSE) \o (IF LossReported THEN <<FocusInput(FALSE)>> ELSE <<>>)
    /\ app' = [app EXCEPT !.slipped = FALSE]
    /\ UNCHANGED ptr

(* ResetPointerDevice: queued pointer inputs go; buttons still down are released
   and a leave stays reported.  A queued release goes too, of a button that is up
   again; app.erased remembers it. *)
LeaveReported == ptr.focused \/ \E i \in DOMAIN queue : queue[i].kind = "leave"

Bug_Releases == <<>>
Releases == IF ptr.down THEN <<PointerInput("release", ptr.surface)>> ELSE <<>>

ResetPointerDevice ==
    /\ queue' = InputsOf(TRUE) \o Releases
                 \o (IF LeaveReported THEN <<PointerInput("leave", ptr.surface)>> ELSE <<>>)
    /\ ptr' = [focused |-> FALSE, down |-> FALSE, frame |-> NoFrame,
               surface |-> IF LeaveReported THEN "toplevel" ELSE ptr.surface]
    /\ app' = [app EXCEPT !.erased = @ \/
                  (~ptr.down /\ \E i \in DOMAIN queue : queue[i].kind = "release")]
    /\ UNCHANGED kbd

-----------------------------------------------------------------------------
(* The listeners.  A destroyed popup reaches them as a null surface, which is
   equal to the popup's when there is none: its enters and leaves are the popup's
   still.  No popup opens over events on their way to the last one (Turn). *)

KeyboardEnter ==
    /\ kbd' = [kbd EXCEPT !.focused = TRUE]
    /\ queue' = FocusChanged(TRUE)
    /\ UNCHANGED <<ptr, win, app>>

(* A leave of the toplevel is not recorded while there is a popup, which is about
   to take the focus; app.slipped remembers one after which it did not,
   until a loss is recorded or a key goes down. *)
KeyboardLeave(e) ==
    /\ IF e.surface = "toplevel" /\ win.popup
       THEN UNCHANGED <<kbd, queue>> /\ app' = [app EXCEPT !.slipped = @ \/ e.to = "none"]
       ELSE /\ kbd' = Unfocus(kbd) /\ queue' = FocusChanged(FALSE)
            /\ app' = [app EXCEPT !.slipped = FALSE]
    /\ UNCHANGED <<ptr, win>>

PointerEnter(e) ==
    /\ ptr' = [ptr EXCEPT !.focused = TRUE, !.surface = e.surface]
    /\ queue' = Append(queue, PointerInput("move", e.surface))
    /\ UNCHANGED <<kbd, app, win>>

RecordPointerLeave ==
    IF ptr.focused THEN
        /\ queue' = Append(queue, PointerInput("leave", ptr.surface))
        /\ ptr' = [ptr EXCEPT !.focused = FALSE, !.surface = "toplevel"]
    ELSE UNCHANGED <<ptr, queue>>

PointerButton(e) ==
    /\ ptr' = [ptr EXCEPT !.down = e.kind = "press"]
    /\ queue' = Append(queue, PointerInput(e.kind, ptr.surface))
    /\ UNCHANGED <<kbd, app, win>>

(* Axis events gather until the frame, which takes the most current form. *)
PointerAxis(e) ==
    /\ ptr' = [ptr EXCEPT !.frame[e.form] = @ + 1]
    /\ UNCHANGED <<kbd, queue, app, win>>

Bug_Steps(f) == f.value120 + f.discrete + f.continuous
Steps(f) ==
    IF f.value120 # 0 THEN f.value120
    ELSE IF f.discrete # 0 THEN f.discrete ELSE f.continuous

RecordPointerFrame ==
    /\ queue' = IF Steps(ptr.frame) = 0 THEN queue
                ELSE Append(queue, [kind |-> "scroll", surface |-> ptr.surface,
                                    steps |-> Steps(ptr.frame)])
    /\ ptr' = [ptr EXCEPT !.frame = NoFrame]
    /\ UNCHANGED <<kbd, app, win>>

Keyboard(e) ==
    /\ kbd' = CASE e.kind = "keymap" -> StopRepeat(ResetCompose([kbd EXCEPT !.keymap = TRUE]))
                [] e.kind = "rate"   -> SetRepeatInfo(kbd, e.rate)
                [] OTHER             -> RecordKey(kbd, e.key, e.kind = "keyDown")
    /\ app' = [app EXCEPT !.slipped = @ /\ e.kind # "keyDown"]
    /\ UNCHANGED <<ptr, queue, win>>

InputArrives ==
    /\ wire # <<>> /\ Len(queue) < MaxQueue
    /\ LET e == Head(wire) IN
        \/ /\ e.kind = "attach" /\ win' = [win EXCEPT !.device = TRUE]
           /\ UNCHANGED <<kbd, ptr, queue, app>>
        \/ /\ e.kind = "detach" /\ win' = [win EXCEPT !.device = FALSE]
           /\ IF win.seat = "keyboard" THEN ResetKeyboardDevice ELSE ResetPointerDevice
        \/ /\ e.kind = "popupDone" /\ win' = [win EXCEPT !.done = win.popup]
           /\ UNCHANGED <<kbd, ptr, queue, app>>
        \/ e.kind = "enter" /\ win.seat = "keyboard" /\ KeyboardEnter
        \/ e.kind = "leave" /\ win.seat = "keyboard" /\ KeyboardLeave(e)
        \/ e.kind \in {"keymap", "rate", "keyDown", "keyUp"} /\ Keyboard(e)
        \/ e.kind = "enter" /\ win.seat = "pointer" /\ PointerEnter(e)
        \/ e.kind = "leave" /\ win.seat = "pointer" /\ RecordPointerLeave
           /\ UNCHANGED <<kbd, app, win>>
        \/ e.kind \in {"press", "release"} /\ PointerButton(e)
        \/ e.kind = "axis" /\ PointerAxis(e)
        \/ e.kind = "frame" /\ RecordPointerFrame
    /\ wire' = Tail(wire)
    /\ UNCHANGED shell

-----------------------------------------------------------------------------
(* A turn: the events have been dispatched, ticks have passed, repeats that are
   due are emitted, and the application takes the inputs. *)

HandleInput(a, i) ==
    CASE i.kind \in {"focus", "unfocus"} -> [a EXCEPT !.focused = i.kind = "focus"]
      [] i.kind = "move"                 -> [a EXCEPT !.over = i.surface]
      [] i.kind = "leave"                -> [a EXCEPT !.over = "none"]
      [] i.kind \in {"press", "release"} -> [a EXCEPT !.down = i.kind = "press"]
      [] OTHER                           -> [a EXCEPT !.steps = @ + i.steps]

(* The application once it has handled what is queued. *)
Taken(a, inputs) ==
    LET told[n \in 0 .. Len(inputs)] ==
            IF n = 0 THEN a ELSE HandleInput(told[n - 1], inputs[n])
    IN told[Len(inputs)]
Told == Taken(app, queue)

Turn ==
    /\ \E ticks \in 0 .. MaxStall :
        LET late == [kbd EXCEPT !.due = @ - ticks] IN
        /\ \E open \in BOOLEAN :
            LET told == Told
                lost == app.focused /\ ~told.focused
                keep == win.popup /\ ~win.done /\ ~lost
            IN /\ app' = told
               /\ win' = [win EXCEPT !.done = FALSE,
                     !.popup = open /\ (keep \/ (~win.popup /\ ~shell.popup /\ win.device
                          /\ wire = <<>> /\ (told.focused \/ told.over = "toplevel")))]
        /\ kbd' = IF kbd.active THEN RunKeyRepeat(late) ELSE kbd
    /\ queue' = <<>>
    /\ UNCHANGED <<ptr, shell, wire>>

-----------------------------------------------------------------------------
(* The compositor. *)

Send(events) == wire' = wire \o events
Ready == Len(wire) < MaxWire
Ev(kind) == [kind |-> kind]
At(kind, surface, to) == [kind |-> kind, surface |-> surface, to |-> to]
AtKey(kind, key) == [kind |-> kind, key |-> key]

(* The device comes, with its keymap and rate, and goes. *)
CompDevice ==
    /\ Ready
    /\ IF shell.device
       THEN /\ Send(<<Ev("detach")>>)
            /\ shell' = [shell EXCEPT !.device = FALSE, !.focus = "none", !.held = {}, !.down = FALSE]
       ELSE /\ \E rate \in Rates :
                 Send(<<Ev("attach")>> \o
                      (IF win.seat = "keyboard"
                       THEN <<Ev("keymap"), [kind |-> "rate", rate |-> rate]>> ELSE <<>>))
            /\ shell' = [shell EXCEPT !.device = TRUE]
    /\ UNCHANGED <<kbd, ptr, queue, win, app>>

(* Focus moves between another client, the toplevel and its mapped popup; a
   button that is down keeps the pointer where it is. *)
CompFocus ==
    /\ Ready /\ shell.device /\ ~shell.down
    /\ \E to \in {"none", "toplevel"} \cup (IF shell.popup THEN {"popup"} ELSE {}) :
        /\ to # shell.focus
        /\ win.seat = "keyboard" => (shell.popup => to = "none")
        /\ Send((IF shell.focus = "none" THEN <<>> ELSE <<At("leave", shell.focus, to)>>)
             \o (IF to = "none" THEN <<>> ELSE <<At("enter", to, to)>>)
             \o (IF shell.popup /\ to = "none" THEN <<Ev("popupDone")>> ELSE <<>>))
        /\ shell' = [shell EXCEPT !.focus = to, !.popup = @ /\ to # "none",
                       !.held = IF to = "none" THEN {} ELSE @]
    /\ UNCHANGED <<kbd, ptr, queue, win, app>>

(* A popup is mapped and grabs the keyboard, or is dismissed at once. *)
CompPopup ==
    /\ Ready /\ win.popup /\ ~win.done /\ ~shell.popup /\ ~Contains(wire, Ev("popupDone"))
    /\ IF shell.focus = "none" THEN Send(<<Ev("popupDone")>>) /\ UNCHANGED shell
       ELSE /\ shell' = [shell EXCEPT !.popup = TRUE,
                                    !.focus = IF win.seat = "keyboard" THEN "popup" ELSE @]
            /\ IF win.seat = "keyboard"
               THEN Send(<<At("leave", "toplevel", "popup"), At("enter", "popup", "popup")>>)
               ELSE UNCHANGED wire
    /\ UNCHANGED <<kbd, ptr, queue, win, app>>

(* The client destroyed the popup: the toplevel has the focus back, with a leave
   of the destroyed surface or without. *)
CompUnmap ==
    /\ Ready /\ ~win.popup /\ shell.popup
    /\ shell' = [shell EXCEPT !.popup = FALSE, !.focus = IF @ = "popup" THEN "toplevel" ELSE @]
    /\ \E told \in BOOLEAN :
        Send(IF shell.focus # "popup" THEN <<>>
             ELSE (IF told THEN <<At("leave", "popup", "toplevel")>> ELSE <<>>)
                    \o <<At("enter", "toplevel", "toplevel")>>)
    /\ UNCHANGED <<kbd, ptr, queue, win, app>>

CompKey ==
    /\ Ready /\ win.seat = "keyboard" /\ shell.focus # "none"
    /\ \E key \in Keys :
        /\ Send(<<AtKey(IF key \in shell.held THEN "keyUp" ELSE "keyDown", key)>>)
        /\ shell' = [shell EXCEPT !.held = IF key \in @ THEN @ \ {key} ELSE @ \cup {key}]
    /\ UNCHANGED <<kbd, ptr, queue, win, app>>

CompButton ==
    /\ Ready /\ win.seat = "pointer" /\ shell.focus # "none"
    /\ Send(<<At(IF shell.down THEN "release" ELSE "press", shell.focus, shell.focus)>>)
    /\ shell' = [shell EXCEPT !.down = ~@]
    /\ UNCHANGED <<kbd, ptr, queue, win, app>>

CompWheel ==
    /\ Ready /\ win.seat = "pointer" /\ shell.focus # "none" /\ shell.clicks < MaxClicks
    /\ \E more \in {<<>>, <<"discrete">>, <<"value120">>, <<"discrete", "value120">>} :
        Send([i \in 1 .. 1 + Len(more) |-> [kind |-> "axis",
                 form |-> IF i = 1 THEN "continuous" ELSE more[i - 1]]] \o <<Ev("frame")>>)
    /\ shell' = [shell EXCEPT !.clicks = @ + 1]
    /\ UNCHANGED <<kbd, ptr, queue, win, app>>

InputNext ==
    \/ InputArrives \/ Turn
    \/ CompDevice \/ CompFocus \/ CompPopup \/ CompUnmap \/ CompKey \/ CompButton \/ CompWheel

InputSpec ==
    (\E device \in {"keyboard", "pointer"} : InputInit(device)) /\ [][InputNext]_inputVars

-----------------------------------------------------------------------------
(* Type invariant; without a device nothing repeats, has focus or is pressed. *)
InputTypeOK ==
    /\ kbd.active => kbd.keymap /\ kbd.rate # 0 /\ kbd.key \in Keys
    /\ ~win.device => ~kbd.active /\ ~kbd.focused /\ ~ptr.focused /\ ~ptr.down
    /\ ptr.surface \in Surfaces /\ app.over \in Surfaces \cup {"none"}

(* A key repeats only while it is held under the editor's focus, unless its end is
   on the way or the toplevel's leave slipped past a popup that was never shown. *)
RepeatsAreHeld ==
    wire = <<>> /\ kbd.active => app.slipped \/ (kbd.key \in shell.held /\ shell.focus # "none")

(* The application knows whether it has the keyboard and where the pointer is,
   once it has taken what is queued, popups and lost devices included. *)
FocusIsKnown ==
    wire = <<>> =>
        /\ win.seat = "keyboard" => Told.focused = (shell.focus # "none") \/ app.slipped
        /\ win.seat = "pointer" => Told.over = shell.focus

(* A button the application saw pressed it sees released, also when the pointer
   goes while it is down; a release erased with the queue is the exception. *)
ButtonsAreReleased ==
    wire = <<>> => Told.down = shell.down \/ app.erased

(* However many forms a click of the wheel comes in, it scrolls one step. *)
ScrollsOnce == Told.steps <= shell.clicks

(* Once repeats have run the next is in the future, so that the loop's deadline
   never makes it spin, however late the turn was. *)
RepeatsDoNotSpin == [][Turn /\ kbd'.active => kbd'.due > 0]_inputVars

(* What is held, focused and scrolled is what the devices did. *)
InputAgrees ==
    InputTypeOK /\ RepeatsAreHeld /\ FocusIsKnown /\ ButtonsAreReleased /\ ScrollsOnce
===============================================================================
