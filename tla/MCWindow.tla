------------------------------- MODULE MCWindow -------------------------------
(* The window's protocol state in one run.  Its parts share the event loop and
   nothing the models know of, so each behaviour follows one of them.         *)
EXTENDS WaylandTextInput, WaylandFrame, WaylandInput, WaylandGlobals

VARIABLE part
vars == <<part, textInputVars, frameVars, inputVars, globalVars>>

Init ==
    /\ part \in {"text", "frames", "keyboard", "pointer", "globals"}
    /\ TextInputInit /\ FrameInit(part = "frames") /\ GlobalsInit
    /\ InputInit(IF part \in {"keyboard", "pointer"} THEN part ELSE "none")

Next ==
    /\ \/ part = "text" /\ TextInputNext /\ UNCHANGED <<frameVars, inputVars, globalVars>>
       \/ part = "frames" /\ FrameNext /\ UNCHANGED <<textInputVars, inputVars, globalVars>>
       \/ /\ part \in {"keyboard", "pointer"} /\ InputNext
          /\ UNCHANGED <<textInputVars, frameVars, globalVars>>
       \/ part = "globals" /\ GlobalsNext /\ UNCHANGED <<textInputVars, frameVars, inputVars>>
    /\ UNCHANGED part

Spec == Init /\ [][Next]_vars
FairSpec == Spec /\ FrameFairness

(* The window neither spins on a held key nor stops drawing what changed. *)
WindowGoesOn == RepeatsDoNotSpin /\ DamageIsDrawn
===============================================================================
