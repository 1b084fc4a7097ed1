----------------------------- MODULE WaylandGlobals -----------------------------
(* Globals that come and go: WaylandLifecycle's list of them and the objects that
   WaylandWindow binds, replaces and releases with what depends on them, the size
   the compositor configures, and the one scale WaylandScaleState chooses.      *)
EXTENDS Integers, FiniteSets, Sequences, SequencesExt, FiniteSetsExt

CONSTANTS
    MaxNames,   \* bound: registry names, given in ascending order
    Sizes,      \* logical sizes; the first window has the least
    Scales,     \* integer scales; 1 is one of them
    Fraction    \* a fractional scale

ASSUME GlobalsBounds ==
    /\ MaxNames \in Nat \ {0} /\ Scales \subseteq Nat \ {0} /\ 1 \in Scales
    /\ Sizes \subseteq Nat \ {0} /\ Sizes # {} /\ Fraction \in Nat \ {0}

VARIABLES
    life,     \* WaylandLifecycle: globals by name, bound names, size, force close
    obj,      \* WaylandWindow's proxies
    scale,    \* WaylandScaleState
    applied,  \* the configuration last applied to the surface
    server    \* the compositor: the last name, its outputs, scales and seat

globalVars == <<life, obj, scale, applied, server>>

With(f, n, v) == [m \in DOMAIN f \cup {n} |-> IF m = n THEN v ELSE f[m]]
Without(f, n) == Restrict(f, DOMAIN f \ {n})

(* "manager" stands for the clipboard's, primary selection's and text input's,
   which need a seat for their device; "service" for what needs nothing else. *)
Kinds == {"compositor", "seat", "manager", "service", "viewporter", "fractional"}
Unbound == 0
Names == 1 .. MaxNames

(* Calculate: o.outputs maps the outputs to their scale and whether entered. *)
Calculate(o) ==
    LET entered == {o.outputs[n].scale : n \in {m \in DOMAIN o.outputs : o.outputs[m].entered}}
    IN IF o.viewport /\ o.fractional /\ o.fraction # 0
       THEN [size |-> o.size, scale |-> o.fraction, fractional |-> TRUE]
       ELSE [size |-> o.size, fractional |-> FALSE,
             scale |-> IF o.preferred # 0 THEN o.preferred ELSE Max(entered \cup {1})]

Refresh_(o) ==
    IF Calculate(o) = o.config THEN o
    ELSE [o EXCEPT !.config = Calculate(o), !.pending = TRUE]

Nothing == [n \in {} |-> n]
First == CHOOSE s \in Sizes : \A t \in Sizes : s <= t

GlobalsInit ==
    /\ life = [globals |-> Nothing, bound |-> [k \in Kinds |-> Unbound], force |-> FALSE, current |-> First]
    /\ obj = [bound |-> [k \in Kinds |-> Unbound], outputs |-> {}, viewport |-> FALSE,
              fractional |-> FALSE, device |-> FALSE, pointer |-> FALSE,
              keyboard |-> FALSE, failed |-> FALSE]
    /\ applied = [size |-> First, scale |-> 1, fractional |-> FALSE]
    /\ scale = [outputs |-> Nothing, preferred |-> 0, fraction |-> 0, viewport |-> FALSE,
                fractional |-> FALSE, size |-> First, pending |-> TRUE, config |-> applied]
    /\ server = [last |-> 0, scale |-> [n \in Names |-> 1], entered |-> {},
                 preferred |-> 0, fraction |-> 0, pointer |-> FALSE, keyboard |-> FALSE,
                 size |-> First]

-----------------------------------------------------------------------------
(* The bindings, as functions of w.b the window's proxies and w.s the scale state. *)

Window == [b |-> obj, s |-> scale]

Bug_RefreshProtocols(w) ==
    [w EXCEPT !.s.viewport = @ \/ w.b.viewport, !.s.fractional = w.b.fractional]

RefreshProtocols(w) ==
    [w EXCEPT !.s = Refresh_([@ EXCEPT !.viewport = w.b.viewport, !.fractional = w.b.fractional])]

CreateScaleObjects(w) ==
    RefreshProtocols([w EXCEPT !.b = [@ EXCEPT !.viewport = w.b.bound["viewporter"] # Unbound,
                                  !.fractional = w.b.bound["fractional"] # Unbound]])

(* A device needs its manager and the seat, whichever is bound last. *)
HasDevice(bound) == bound["manager"] # Unbound /\ bound["seat"] # Unbound

Bind(w, kind, name) ==
    LET b == [w.b EXCEPT !.bound[kind] = name,
                         !.failed = @ \/ w.b.bound[kind] # Unbound]
    IN IF kind \in {"viewporter", "fractional"} THEN CreateScaleObjects([w EXCEPT !.b = b])
       ELSE [w EXCEPT !.b = [b EXCEPT !.device = HasDevice(b.bound)]]

(* What becomes of a device the seat had and has: created, which fails over one
   that is there, or released.                                                 *)
Device(there, had, has) == IF had = has THEN there ELSE has

Devices(b, g, p, k) ==
    [b EXCEPT !.pointer = Device(@, g.pointer, p), !.keyboard = Device(@, g.keyboard, k),
              !.failed = \/ @ \/ (~g.pointer /\ p /\ b.pointer)
                         \/ (~g.keyboard /\ k /\ b.keyboard)]

Bug_ReleaseSeat(b, g) == [b EXCEPT !.device = FALSE]
ReleaseSeat(b, g) == [Devices(b, g, FALSE, FALSE) EXCEPT !.device = FALSE]

(* Of the bound global g. *)
Release(w, g) ==
    LET kind == g.kind
        b == [w.b EXCEPT !.bound[kind] = Unbound] IN
    CASE kind = "viewporter" -> RefreshProtocols([w EXCEPT !.b = [b EXCEPT !.viewport = FALSE]])
      [] kind = "fractional" ->
            RefreshProtocols([b |-> [b EXCEPT !.fractional = FALSE],
                              s |-> Refresh_([w.s EXCEPT !.fraction = 0])])
      [] kind = "seat"       -> [w EXCEPT !.b = ReleaseSeat(b, g)]
      [] OTHER               ->
            [w EXCEPT !.b = [b EXCEPT !.device = @ /\ kind # "manager"]]

(* RemoveGlobal's replacement: the first global left of the kind, if there is; the
   list is in the order of arrival, which is that of the names.                *)
Bug_Replacement(globals, kind) == Unbound

Replacement(globals, kind) ==
    LET left == {n \in DOMAIN globals : globals[n].kind = kind}
    IN IF left = {} THEN Unbound ELSE Min(left)

Replaced(w, g, new) ==
    IF new = Unbound THEN Release(w, g) ELSE Bind(Release(w, g), g.kind, new)

Keep(w) == obj' = w.b /\ scale' = w.s

-----------------------------------------------------------------------------
(* AddGlobal, of a name that is new; nothing is added once the close is forced. *)
AddGlobal ==
    /\ ~life.force /\ server.last < MaxNames
    /\ \E kind \in Kinds \cup {"output"} :
        LET name == server.last + 1
            first == kind # "output" /\ life.bound[kind] = Unbound IN
        /\ server' = [server EXCEPT !.last = name]
        /\ life' = [life EXCEPT !.globals = With(@, name, [kind |-> kind, entered |-> FALSE,
                                                pointer |-> FALSE, keyboard |-> FALSE]),
                        !.bound = IF first THEN [@ EXCEPT ![kind] = name] ELSE @]
        /\ IF kind = "output"
           THEN Keep([b |-> [obj EXCEPT !.outputs = @ \cup {name}],
                      s |-> [scale EXCEPT !.outputs =
                                With(@, name, [scale |-> 1, entered |-> FALSE])]])
           ELSE Keep(IF first THEN Bind(Window, kind, name) ELSE Window)
    /\ UNCHANGED applied

Bug_WithoutOutput(s, name) ==
    [s EXCEPT !.outputs = Without(@, name)]

WithoutOutput(s, name) ==
    Refresh_([s EXCEPT !.outputs = Without(@, name)])

RemoveGlobal ==
    /\ \E name \in DOMAIN life.globals :
        LET g == life.globals[name]
            rest == Without(life.globals, name)
        IN \/ /\ g.kind = "compositor" /\ life.bound[g.kind] = name
              /\ life' = [life EXCEPT !.globals = rest, !.force = TRUE]
              /\ UNCHANGED <<obj, scale, server>>
           \/ /\ g.kind = "output"
              /\ life' = [life EXCEPT !.globals = rest]
              /\ Keep([b |-> [obj EXCEPT !.outputs = @ \ {name}],
                       s |-> WithoutOutput(scale, name)])
              /\ server' = [server EXCEPT !.entered = @ \ {name}]
           \/ /\ g.kind \notin {"compositor", "output"} /\ life.bound[g.kind] = name
              /\ LET new == Replacement(rest, g.kind) IN
                 /\ life' = [life EXCEPT !.globals = rest, !.bound[g.kind] = new]
                 /\ Keep(Replaced(Window, g, new))
              /\ server' = IF g.kind = "seat"
                           THEN [server EXCEPT !.pointer = FALSE, !.keyboard = FALSE]
                           ELSE IF g.kind = "fractional" THEN [server EXCEPT !.fraction = 0]
                           ELSE server
           \/ /\ g.kind # "output" /\ life.bound[g.kind] # name
              /\ life' = [life EXCEPT !.globals = rest]
              /\ UNCHANGED <<obj, scale, server>>
    /\ UNCHANGED applied

(* UpdateSeatCapabilities, of the bound seat. *)
SeatCapabilities ==
    /\ life.bound["seat"] # Unbound
    /\ LET seat == life.bound["seat"] IN
       \E p, k \in BOOLEAN :
        /\ life' = [life EXCEPT !.globals[seat] = [@ EXCEPT !.pointer = p, !.keyboard = k]]
        /\ obj' = Devices(obj, life.globals[seat], p, k)
        /\ server' = [server EXCEPT !.pointer = p, !.keyboard = k]
    /\ UNCHANGED <<scale, applied>>

(* The surface enters or leaves an output the client has bound. *)
SurfaceOutput ==
    /\ \E name \in obj.outputs :
        LET enters == name \notin server.entered IN
        /\ server' = [server EXCEPT !.entered =
                         IF enters THEN @ \cup {name} ELSE @ \ {name}]
        /\ life' = [life EXCEPT !.globals[name] = [@ EXCEPT !.entered = enters]]
        /\ scale' = Refresh_([scale EXCEPT !.outputs[name] = [@ EXCEPT !.entered = enters]])
    /\ UNCHANGED <<obj, applied>>

OutputScale ==
    /\ \E name \in obj.outputs, s \in Scales :
        /\ server' = [server EXCEPT !.scale[name] = s]
        /\ scale' = Refresh_([scale EXCEPT !.outputs[name] = [@ EXCEPT !.scale = s]])
    /\ UNCHANGED <<life, obj, applied>>

PreferredScale ==
    /\ \E s \in Scales :
        /\ server' = [server EXCEPT !.preferred = s]
        /\ scale' = Refresh_([scale EXCEPT !.preferred = s])
    /\ UNCHANGED <<life, obj, applied>>

FractionalScale ==
    /\ obj.fractional
    /\ server' = [server EXCEPT !.fraction = Fraction]
    /\ scale' = Refresh_([scale EXCEPT !.fraction = Fraction])
    /\ UNCHANGED <<life, obj, applied>>

(* SurfaceConfigure acknowledges and commits what ToplevelConfigure proposed since
   the one before, of which the last counts; no size is the client's choice. *)
SurfaceConfigure ==
    /\ \E proposed \in Sizes \cup {0} :
        /\ life' = [life EXCEPT !.current = IF proposed # 0 THEN proposed ELSE @]
        /\ scale' = Refresh_([scale EXCEPT !.size = life'.current])
        /\ server' = [server EXCEPT !.size = life'.current]
    /\ UNCHANGED <<obj, applied>>

(* TakeScaleConfiguration, in each turn. *)
TakeScale ==
    /\ scale.pending
    /\ applied' = scale.config
    /\ scale' = [scale EXCEPT !.pending = FALSE]
    /\ UNCHANGED <<life, obj, server>>

GlobalsNext ==
    \/ AddGlobal \/ RemoveGlobal \/ SeatCapabilities \/ SurfaceOutput \/ OutputScale
    \/ PreferredScale \/ FractionalScale \/ SurfaceConfigure \/ TakeScale

GlobalsSpec == GlobalsInit /\ [][GlobalsNext]_globalVars

-----------------------------------------------------------------------------
NamesOf(kind) == {n \in DOMAIN life.globals : life.globals[n].kind = kind}

(* Type invariant; no proxy is made over another, and the outputs are those the
   compositor announces.                                                        *)
GlobalsTypeOK ==
    /\ ~obj.failed /\ DOMAIN life.globals \subseteq 1 .. server.last
    /\ DOMAIN scale.outputs = obj.outputs /\ obj.outputs = NamesOf("output")
    /\ scale.config = Calculate(scale)

(* A service is bound exactly while one is announced, to one that is, and by the
   proxy the window holds: a removed one is replaced by another that waits. *)
ServicesAreBound ==
    \A k \in Kinds : (k = "compositor" => ~life.force) =>
        /\ obj.bound[k] = life.bound[k]
        /\ IF NamesOf(k) = {} THEN life.bound[k] = Unbound ELSE life.bound[k] \in NamesOf(k)

(* What hangs on a service or on two is there exactly while they are. *)
DependentsFollow ==
    /\ obj.viewport = (obj.bound["viewporter"] # Unbound)
    /\ obj.fractional = (obj.bound["fractional"] # Unbound)
    /\ obj.device = HasDevice(obj.bound)
    /\ obj.pointer = server.pointer /\ obj.keyboard = server.keyboard

(* The surface is about to have the scale and size that follow from what the
   compositor said of it last, whatever was announced, entered and removed since;
   and it has them once a turn has come. *)
ScaleIsCurrent ==
    LET entered == {server.scale[n] : n \in server.entered \cap NamesOf("output")}
        whole == IF server.preferred # 0 THEN server.preferred ELSE Max(entered \cup {1})
        fractional == /\ NamesOf("viewporter") # {} /\ NamesOf("fractional") # {}
                      /\ server.fraction # 0
    IN /\ scale.config = [size |-> server.size, fractional |-> fractional,
                          scale |-> IF fractional THEN server.fraction ELSE whole]
       /\ ~scale.pending => applied = scale.config

(* The window's objects and scale follow the globals that are there. *)
GlobalsAgree == GlobalsTypeOK /\ ServicesAreBound /\ DependentsFollow /\ ScaleIsCurrent
===============================================================================
