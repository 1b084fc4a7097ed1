----------------------------- MODULE WaylandFrame -----------------------------
(* Frames: damage collected between frames, the repaint plan made from a buffer's
   age and the damage of the frames before, the frame callback that paces, and
   the presentation feedback of submitted frames.  A column of cells stands for
   the window; what the model knows of a buffer is which of its cells are stale.
   The EGL buffers and the compositor are external.                             *)
EXTENDS Integers, FiniteSets, Sequences, SequencesExt

CONSTANTS
    Height,            \* cells of the window
    Buffers,           \* the buffers EGL swaps through
    MaxRectangles,     \* MaximumDamageRectangles
    MaxHistory,        \* MaximumDamageHistory
    MaxFeedback,       \* MaximumPresentationFeedback
    MaxSubmissions     \* bound: frames begun

ASSUME FrameBounds ==
    /\ Height \in Nat \ {0} /\ MaxRectangles \in Nat \ {0}
    /\ MaxHistory \in Nat /\ MaxFeedback \in Nat \ {0} /\ Buffers # {}

VARIABLES
    frame,       \* WaylandFrameState
    window,      \* WaylandWindow's frame callback, prepared submission and feedback
    repaint,     \* the plan of the frame being painted
    buffers,     \* ages, stale cells and the back buffer
    screen       \* cells of the screen that differ from the frame last submitted

frameVars == <<frame, window, repaint, buffers, screen>>

Cells == 1 .. Height
Whole == <<1, Height>>
CellsOf(rs) == UNION {r[1] .. r[2] : r \in rs}

FrameInit(on) ==
    /\ frame = [invalidated |-> on, painting |-> FALSE, prepared |-> FALSE,
                callback |-> FALSE, next |-> 1, active |-> 0,
                pending |-> IF on THEN {Whole} ELSE {}, damage |-> {},
                history |-> <<>>, feedback |-> <<>>]
    /\ window = [callback |-> FALSE, prepared |-> 0, feedback |-> {}]
    /\ repaint = {}
    /\ buffers = [age |-> [b \in Buffers |-> 0], stale |-> [b \in Buffers |-> Cells],
                  back |-> CHOOSE b \in Buffers : TRUE]
    /\ screen = {}

-----------------------------------------------------------------------------
(* Damage: sets of rectangles, merged into their bounds when there are too many;
   that the code counts a repeated one twice only makes it merge earlier.      *)

Bounds(rs) ==
    <<CHOOSE l \in {r[1] : r \in rs} : \A r \in rs : l <= r[1],
      CHOOSE h \in {r[2] : r \in rs} : \A r \in rs : h >= r[2]>>

Limited(rs) == IF Cardinality(rs) > MaxRectangles THEN {Bounds(rs)} ELSE rs

AppendDamage(target, source) == Limited(target \cup source)

(* The loop that appends the damage of the last n frames to what is submitted. *)
Accumulated(damage, history, n) ==
    LET merged[i \in 0 .. n] ==
            IF i = 0 THEN damage ELSE AppendDamage(merged[i - 1], history[i])
    IN merged[n]

(* What to repaint of a buffer of this age: also the frames it has missed. *)
Bug_Repaint(damage, history, age) ==
    Accumulated(damage, history, IF age = 1 THEN 0 ELSE age - 2)
Repaint(damage, history, age) == Accumulated(damage, history, age - 1)

-----------------------------------------------------------------------------
(* WaylandFrameState. *)

Invalidate(f, r) == [f EXCEPT !.invalidated = TRUE, !.pending = Limited(@ \cup {r})]

CanSubmit == frame.invalidated /\ ~frame.painting /\ ~frame.callback

(* Whether the age names a frame the history still reaches. *)
ValidAge(age) == age > 0 /\ age - 1 <= Len(frame.history)

Plan(age) ==
    IF ValidAge(age) THEN Repaint(frame.pending, frame.history, age) ELSE {Whole}

Bug_CancelPaint(f) ==
    IF ~f.painting THEN f
    ELSE [f EXCEPT !.invalidated = TRUE, !.damage = {}, !.active = 0, !.prepared = FALSE,
                   !.painting = FALSE,
                   !.feedback = RemoveFirst(@, f.active)]

Bug_KeepFeedback(f) ==
    IF ~f.painting THEN f
    ELSE [f EXCEPT !.pending = AppendDamage(@, f.damage), !.invalidated = TRUE,
                   !.damage = {}, !.active = 0, !.prepared = FALSE, !.painting = FALSE]

CancelPaint(f) ==
    IF ~f.painting THEN f
    ELSE [f EXCEPT !.pending = AppendDamage(@, f.damage), !.invalidated = TRUE,
                   !.feedback = RemoveFirst(@, f.active),
                   !.damage = {}, !.active = 0, !.prepared = FALSE, !.painting = FALSE]

(* CancelFrameCallback, when the window has one. *)
Bug_WithoutCallback(f) == f
WithoutCallback(f) == [f EXCEPT !.callback = @ /\ ~window.callback]

(* The oldest feedback makes room for another. *)
Bug_Expired(f) == {}
Expired(f) == IF Len(f.feedback) = MaxFeedback THEN {Head(f.feedback)} ELSE {}

-----------------------------------------------------------------------------
(* A change on the window makes its cells stale everywhere, and is invalidated
   with a rectangle that holds them; the editor queues it before the next frame. *)
Change ==
    /\ ~frame.painting
    /\ \E c \in Cells :
        /\ frame' = Invalidate(frame, <<c, c>>)
        /\ buffers' = [buffers EXCEPT !.stale = [b \in Buffers |-> @[b] \cup {c}]]
    /\ UNCHANGED <<window, repaint, screen>>

(* BeginFrame. *)
BeginFrame ==
    /\ CanSubmit /\ frame.next <= MaxSubmissions
    /\ repaint' = Plan(buffers.age[buffers.back])
    /\ frame' = [frame EXCEPT !.pending = {}, !.invalidated = FALSE, !.damage = frame.pending,
                              !.active = frame.next, !.next = @ + 1, !.painting = TRUE]
    /\ UNCHANGED <<window, buffers, screen>>

(* PrepareFrame asks for a frame callback, which may fail, and for feedback where
   the compositor presents it. *)
PrepareFrame ==
    /\ frame.painting /\ ~frame.prepared
    /\ \E feedback \in BOOLEAN :
        LET expired == IF feedback THEN Expired(frame) ELSE {}
            kept == IF expired = {} THEN frame.feedback ELSE Tail(frame.feedback)
        IN /\ frame' = [frame EXCEPT !.prepared = TRUE, !.callback = TRUE,
                 !.feedback = IF feedback THEN Append(kept, frame.active) ELSE kept]
           /\ window' = [callback |-> TRUE, prepared |-> frame.active,
                 feedback |-> (window.feedback \ expired) \cup
                              (IF feedback THEN {frame.active} ELSE {})]
    /\ UNCHANGED <<repaint, buffers, screen>>

(* The frame is painted, swapped and submitted: the buffers age, the compositor
   takes the submission's damage, and EGL offers another buffer. *)
Age(b) == IF b = buffers.back THEN 1 ELSE IF buffers.age[b] = 0 THEN 0 ELSE buffers.age[b] + 1

SubmitFrame ==
    /\ frame.prepared
    /\ frame' = [frame EXCEPT !.painting = FALSE, !.prepared = FALSE, !.active = 0,
                    !.damage = {},
                    !.history = SubSeq(<<frame.damage>> \o @, 1,
                        IF Len(@) < MaxHistory THEN Len(@) + 1 ELSE MaxHistory)]
    /\ window' = [window EXCEPT !.prepared = 0]
    /\ LET painted == buffers.stale[buffers.back] \ CellsOf(repaint) IN
       \E b \in Buffers \ {buffers.back} :
          /\ buffers' = [age |-> [x \in Buffers |-> Age(x)],
                         stale |-> [buffers.stale EXCEPT ![buffers.back] = painted],
                         back |-> b]
          /\ screen' = painted
    /\ repaint' = {}

(* A paint that was begun and abandoned may have spoiled any cell it was to paint;
   the editor invalidates all of itself, which is queued before the next frame. *)
Abandoned(f) == Invalidate(f, Whole)

CancelFrame ==
    /\ frame.painting
    /\ LET cancelled == WithoutCallback(CancelPaint(frame)) IN
        \/ frame' = cancelled /\ UNCHANGED buffers
        \/ /\ frame.prepared /\ frame' = Abandoned(cancelled)
           /\ buffers' = [buffers EXCEPT !.stale[buffers.back] = @ \cup CellsOf(repaint)]
    /\ window' = [callback |-> FALSE, prepared |-> 0,
                  feedback |-> window.feedback \ {window.prepared}]
    /\ repaint' = {}
    /\ UNCHANGED screen

(* A new size or scale: the buffers are made anew and all of it is damage. *)
ResetDamageHistory(f) == [f EXCEPT !.history = <<>>]

ApplyScaleConfiguration ==
    /\ ~frame.painting
    /\ frame' = Invalidate(ResetDamageHistory(WithoutCallback(frame)), Whole)
    /\ window' = [window EXCEPT !.callback = FALSE]
    /\ \E anew \in BOOLEAN :   \* a logical size can change with the buffers kept
         buffers' = [buffers EXCEPT !.stale = [b \in Buffers |-> Cells],
                                    !.age = IF anew THEN [b \in Buffers |-> 0] ELSE @]
    /\ UNCHANGED <<repaint, screen>>

FrameDone ==
    /\ window.callback /\ ~frame.painting
    /\ frame' = [frame EXCEPT !.callback = FALSE]
    /\ window' = [window EXCEPT !.callback = FALSE]
    /\ UNCHANGED <<repaint, buffers, screen>>

(* The compositor presented or discarded a frame: it tells once, in any order. *)
Presented ==
    /\ ~frame.painting
    /\ \E s \in window.feedback :
        /\ window' = [window EXCEPT !.feedback = @ \ {s}]
        /\ frame' = [frame EXCEPT !.feedback = RemoveFirst(@, s)]
    /\ UNCHANGED <<repaint, buffers, screen>>

FrameNext ==
    \/ Change \/ BeginFrame \/ PrepareFrame \/ SubmitFrame \/ CancelFrame
    \/ ApplyScaleConfiguration \/ FrameDone \/ Presented

FrameSpec == FrameInit(TRUE) /\ [][FrameNext]_frameVars

(* The loop paints when it can, a paint ends, and the compositor wants frames. *)
FrameFairness ==
    /\ WF_frameVars(BeginFrame) /\ WF_frameVars(PrepareFrame)
    /\ SF_frameVars(SubmitFrame) /\ WF_frameVars(FrameDone)

-----------------------------------------------------------------------------
(* Type invariant; the window's callback and prepared submission are those the
   state object believes in.                                                  *)
FrameTypeOK ==
    /\ frame.painting = (frame.active # 0) /\ (frame.prepared => frame.painting)
    /\ Len(frame.history) <= MaxHistory /\ Len(frame.feedback) <= MaxFeedback
    /\ Cardinality(frame.pending) <= MaxRectangles /\ Cardinality(repaint) <= MaxRectangles
    /\ window.callback = frame.callback
    /\ window.prepared = (IF frame.prepared THEN frame.active ELSE 0)

(* A submitted frame is whole: whatever buffer EGL handed out and however many
   frames it missed, were abandoned in it or lie behind a resize, no cell of it
   is stale when it is swapped. *)
FramesAreWhole == screen = {}

(* Between frames no change is forgotten: every stale cell of the buffer that was
   submitted last is damage still to be submitted. *)
DamageIsKept ==
    ~frame.painting => \A b \in Buffers : buffers.age[b] = 1 =>
        buffers.stale[b] \subseteq CellsOf(frame.pending)

(* The protocol objects for feedback and the submissions they are for are kept in
   two lists that agree: an expired or abandoned frame is in neither. *)
FeedbackAgrees == window.feedback = ToSet(frame.feedback)

(* Damage is drawn in the end, though paints are abandoned now and then. *)
DamageIsDrawn ==
    frame.invalidated ~> (~frame.invalidated \/ frame.next > MaxSubmissions)

(* Nothing that changed is lost between the frames, their ages and feedback. *)
FramesAgree == FrameTypeOK /\ FramesAreWhole /\ DamageIsKept /\ FeedbackAgrees
=============================================================================
