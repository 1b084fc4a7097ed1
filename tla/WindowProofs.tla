------------------------------ MODULE WindowProofs ------------------------------
(* Proofs about the window: what the compositor announces of its globals and seats
   and what becomes of the proxies the window holds, the frames the window paints
   and submits, the inputs it records for the application, and its text input.

   Globals: whatever the compositor announces, removes and says of them, the window
   holds the proxies it should and the surface gets the scale that follows.  The
   window keeps a mirror of what the compositor said (Mirrored), brings the
   configuration up to date with every change to it (Configured), and knows of each
   seat whether it has its devices (SeatsKnown).

   Frames: every submitted frame shows the whole content, although only the damage
   since the buffer was last shown is painted into it.  What a buffer lacks is
   covered by the damage of as many submissions as its age and by the damage still
   pending (Behind), and an abandoned paint puts the damage back and spoils no cell
   that the next paint does not cover (Painted).

   Inputs: what the application will have been told is what the keyboard and the
   pointer recorded (RecordsAgree), what they recorded is what the events that have
   arrived make of the device (Follows), and the events on their way lead from there
   to what the compositor holds true (Leads).

   Text input: the enters and leaves on their way lead from what the client holds true
   to what the compositor does (Crosses), and, when there is none, the requests on
   their way leave the compositor on where the client is (TurnsOn) and with its state
   (Latest); what the field is to be given ends the preedit of a surface that was
   left (FieldFollows).                                                                *)
EXTENDS WaylandGlobals, WaylandFrame, WaylandInput, WaylandTextInput, FiniteSetTheorems,
        SequenceTheorems, WellFoundedInduction, TLAPS

Global == [kind : Kinds \cup {"output"}, entered : BOOLEAN, pointer : BOOLEAN, keyboard : BOOLEAN]
Bindings == [Kinds -> Nat]

LifeFields == {"globals", "bound", "force", "current"}
ProxyFields == {"bound", "outputs", "viewport", "fractional", "device", "pointer", "keyboard",
                "failed"}
ScaleFields == {"outputs", "preferred", "fraction", "viewport", "fractional", "size",
                "pending", "config"}
ServerFields == {"last", "scale", "entered", "preferred", "fraction", "pointer", "keyboard",
                 "size"}

IsLife(l) ==
    /\ l = [f \in LifeFields |-> l[f]]
    /\ \A n \in DOMAIN l.globals : l.globals[n] \in Global
    /\ l.bound \in Bindings /\ l.force \in BOOLEAN

IsProxies(b) ==
    /\ b = [f \in ProxyFields |-> b[f]]
    /\ b.bound \in Bindings

IsScale(s) == s = [f \in ScaleFields |-> s[f]]

IsServer(v) ==
    /\ v = [f \in ServerFields |-> v[f]]
    /\ v.last \in 0 .. MaxNames
    /\ DOMAIN v.scale = Names

Shaped == IsLife(life) /\ IsProxies(obj) /\ IsScale(scale) /\ IsServer(server)

(* The names are the compositor's, in the order it gave them. *)
Named ==
    /\ DOMAIN life.globals \subseteq 1 .. server.last
    /\ obj.outputs = NamesOf("output") /\ server.entered \subseteq obj.outputs
    /\ \A n \in Names : n > server.last => server.scale[n] = 1

(* A proxy is held for one of the globals of its kind, while there is one. *)
OneHeld(globals, bound, k) ==
    LET names == {n \in DOMAIN globals : globals[n].kind = k}
    IN IF names = {} THEN bound[k] = Unbound ELSE bound[k] \in names

Bound ==
    /\ obj.bound = life.bound
    /\ \A k \in Kinds : (k = "compositor" => ~life.force) => OneHeld(life.globals, life.bound, k)

(* Objects that depend on proxies, of the window's objects b. *)
Attached(b) ==
    /\ b.viewport = (b.bound["viewporter"] # Unbound)
    /\ b.fractional = (b.bound["fractional"] # Unbound)
    /\ b.device = HasDevice(b.bound)

(* Only the bound seat is known to have devices, and it has those the window holds. *)
SeatsKnown ==
    LET seat == life.bound["seat"] IN
    /\ \A n \in DOMAIN life.globals :
         LET g == life.globals[n] IN
         IF n = seat THEN g.pointer = obj.pointer /\ g.keyboard = obj.keyboard
         ELSE ~g.pointer /\ ~g.keyboard
    /\ seat = Unbound => ~obj.pointer /\ ~obj.keyboard
    /\ obj.pointer = server.pointer /\ obj.keyboard = server.keyboard
    /\ obj.pointer \in BOOLEAN /\ obj.keyboard \in BOOLEAN /\ ~obj.failed

(* What the scale is computed from is what the compositor said. *)
Mirrored ==
    /\ scale.outputs = [n \in obj.outputs |-> [scale |-> server.scale[n],
                                               entered |-> n \in server.entered]]
    /\ scale.preferred = server.preferred /\ scale.fraction = server.fraction
    /\ scale.size = server.size /\ life.current = server.size

Fits(b, s) == s.viewport = b.viewport /\ s.fractional = b.fractional

(* The configuration is that of the scale state, and applied once it was taken. *)
Configured(s, a) ==
    /\ s.config = Calculate(s)
    /\ ~s.pending => a = s.config

GlobalsInv ==
    /\ Shaped /\ Named /\ Bound /\ Attached(obj) /\ SeatsKnown /\ Mirrored
    /\ Fits(obj, scale) /\ Configured(scale, applied)

-----------------------------------------------------------------------------
(* The scale state and the window's objects *)

SameInputs(s, t) ==
    /\ t.outputs = s.outputs /\ t.preferred = s.preferred /\ t.fraction = s.fraction
    /\ t.viewport = s.viewport /\ t.fractional = s.fractional /\ t.size = s.size

\* Whatever of its input changed, a refresh leaves the configuration that follows.
LEMMA RefreshConfigures ==
  ASSUME NEW s, NEW a, IsScale(s), ~s.pending => a = s.config
  PROVE  IsScale(Refresh_(s)) /\ SameInputs(s, Refresh_(s)) /\ Configured(Refresh_(s), a)
  <1> DEFINE r == Refresh_(s)
  <1>1. IsScale(r) /\ SameInputs(s, r)
    BY DEF Refresh_, IsScale, ScaleFields, SameInputs
  <1>2. Calculate(r) = Calculate(s)
    BY <1>1 DEF SameInputs, Calculate
  <1>3. r.config = Calculate(s) /\ (~r.pending => ~s.pending /\ r.config = s.config)
    BY DEF Refresh_, IsScale, ScaleFields
  <1> QED BY <1>1, <1>2, <1>3 DEF Configured

IsWindow(w, a) ==
    /\ w = [b |-> w.b, s |-> w.s]
    /\ IsProxies(w.b) /\ IsScale(w.s) /\ (~w.s.pending => a = w.s.config)

(* Everything about the window's objects that does not name a global. *)
WindowGood(w, a) ==
    /\ IsWindow(w, a) /\ Attached(w.b) /\ Fits(w.b, w.s) /\ Configured(w.s, a)

SameSources(s, t) ==
    t.outputs = s.outputs /\ t.preferred = s.preferred /\ t.size = s.size

SameDevices(b, c) ==
    /\ c.outputs = b.outputs /\ c.pointer = b.pointer /\ c.keyboard = b.keyboard
    /\ c.failed = b.failed

\* The scale state learns which objects there are.
LEMMA RefreshProtocolsFits ==
  ASSUME NEW w, NEW a, IsWindow(w, a)
  PROVE  LET v == RefreshProtocols(w) IN
         /\ IsWindow(v, a) /\ v.b = w.b /\ Fits(v.b, v.s) /\ Configured(v.s, a)
         /\ SameSources(w.s, v.s) /\ v.s.fraction = w.s.fraction
  <1> DEFINE t == [w.s EXCEPT !.viewport = w.b.viewport, !.fractional = w.b.fractional]
             v == RefreshProtocols(w)
  <1>a. IsScale(w.s) /\ (~w.s.pending => a = w.s.config)
    BY DEF IsWindow
  <1>b. IsScale(t) /\ t.pending = w.s.pending /\ t.config = w.s.config
    BY <1>a DEF IsScale, ScaleFields, SameSources
  <1>2. /\ SameSources(w.s, t) /\ t.fraction = w.s.fraction
        /\ t.viewport = w.b.viewport /\ t.fractional = w.b.fractional
    BY <1>a DEF IsScale, ScaleFields, SameSources
  <1>3. v = [b |-> w.b, s |-> Refresh_(t)]
    BY DEF IsWindow, RefreshProtocols
  <1> HIDE DEF t
  <1>1. IsScale(t) /\ (~t.pending => a = t.config)
    BY <1>a, <1>b
  <1>4. IsScale(Refresh_(t)) /\ SameInputs(t, Refresh_(t)) /\ Configured(Refresh_(t), a)
    BY <1>1, RefreshConfigures
  <1>5. v.b = w.b /\ v.s = Refresh_(t) /\ v = [b |-> v.b, s |-> v.s]
    BY <1>3
  <1> HIDE DEF v
  <1>6. IsWindow(v, a)
    BY <1>4, <1>5 DEF IsWindow, Configured
  <1> QED
    BY <1>2, <1>4, <1>5, <1>6 DEF SameInputs, SameSources, Fits, v

\* From w to v a proxy of the kind k is made, of the name n.
Binds(w, v, a, k, n) ==
    /\ WindowGood(v, a) /\ v.b.bound = [w.b.bound EXCEPT ![k] = n]
    /\ SameDevices(w.b, v.b) /\ SameSources(w.s, v.s) /\ v.s.fraction = w.s.fraction

\* A proxy that was not there is made, with all that waited for it.
LEMMA BindGood ==
  ASSUME NEW w, NEW a, WindowGood(w, a), NEW k \in Kinds, NEW n \in Nat, n # Unbound,
         w.b.bound[k] = Unbound, w.b.failed \in BOOLEAN
  PROVE  Binds(w, Bind(w, k, n), a, k, n)
  <1> DEFINE bound == [w.b.bound EXCEPT ![k] = n]
             v == Bind(w, k, n)
             c == [w.b EXCEPT !.bound[k] = n, !.failed = @ \/ w.b.bound[k] # Unbound]
             viewport == bound["viewporter"] # Unbound
             fractional == bound["fractional"] # Unbound
             device == HasDevice(bound)
             d == [c EXCEPT !.viewport = viewport, !.fractional = fractional]
             e == [c EXCEPT !.device = device]
  <1>1. /\ w = [b |-> w.b, s |-> w.s] /\ IsProxies(w.b) /\ IsScale(w.s)
        /\ (~w.s.pending => a = w.s.config) /\ Attached(w.b) /\ Fits(w.b, w.s)
        /\ Configured(w.s, a)
    BY DEF WindowGood, IsWindow
  <1>2. bound \in Bindings /\ bound[k] = n /\ \A j \in Kinds \ {k} : bound[j] = w.b.bound[j]
    BY <1>1 DEF IsProxies, Bindings
  <1>3. /\ IsProxies(c) /\ SameDevices(w.b, c) /\ c.bound = bound
        /\ c.viewport = w.b.viewport /\ c.fractional = w.b.fractional /\ c.device = w.b.device
    <2> HIDE DEF bound
    <2>1. c = [w.b EXCEPT !.bound = bound, !.failed = @] BY <1>1 DEF bound, IsProxies, ProxyFields
    <2> HIDE DEF c
    <2> QED BY <1>1, <1>2, <2>1 DEF IsProxies, ProxyFields, SameDevices
  <1> HIDE DEF c, bound
  <1>4. CASE k \in {"viewporter", "fractional"}
    <2>1. IsProxies(d) /\ SameDevices(w.b, d) /\ d.bound = bound /\ Attached(d)
      <3>1. IsProxies(d) /\ SameDevices(c, d) /\ d.bound = bound /\ d.device = c.device
            /\ d.viewport = viewport /\ d.fractional = fractional
        <4> HIDE DEF viewport, fractional
        <4> QED BY <1>3 DEF IsProxies, ProxyFields, SameDevices
      <3>2. HasDevice(bound) = HasDevice(w.b.bound)
        BY <1>2, <1>4 DEF HasDevice, Kinds
      <3> HIDE DEF d
      <3> QED BY <1>1, <1>3, <3>1, <3>2 DEF Attached, SameDevices
    <2>2. v = RefreshProtocols([b |-> d, s |-> w.s])
      <3>1. c.bound = bound /\ w = [b |-> w.b, s |-> w.s] BY <1>1, <1>3
      <3>2. [w EXCEPT !.b = c] = [b |-> c, s |-> w.s] BY <3>1
      <3>3. v = CreateScaleObjects([w EXCEPT !.b = c])
        BY <1>4 DEF Bind, c
      <3>4. CreateScaleObjects([b |-> c, s |-> w.s]) = RefreshProtocols([b |-> d, s |-> w.s])
        <4> DEFINE u == [b |-> c, s |-> w.s]
        <4>1. u.b = c /\ u.s = w.s /\ DOMAIN u = {"b", "s"} OBVIOUS
        <4>2. [u EXCEPT !.b = [@ EXCEPT !.viewport = viewport, !.fractional = fractional]]
                = [b |-> d, s |-> w.s]
          <5> HIDE DEF viewport, fractional
          <5> QED OBVIOUS
        <4> QED BY <3>1, <4>1, <4>2 DEF CreateScaleObjects
      <3> QED BY <3>2, <3>3, <3>4
    <2>3. IsWindow([b |-> d, s |-> w.s], a)
      BY <1>1, <2>1 DEF IsWindow
    <2> DEFINE u == [b |-> d, s |-> w.s]
    <2>4. u.b = d /\ u.s = w.s OBVIOUS
    <2> HIDE DEF d, v, u
    <2>5. /\ IsWindow(v, a) /\ v.b = u.b /\ Fits(v.b, v.s) /\ Configured(v.s, a)
          /\ SameSources(u.s, v.s) /\ v.s.fraction = u.s.fraction
      BY <2>2, <2>3, RefreshProtocolsFits DEF u
    <2> QED BY <2>1, <2>4, <2>5 DEF Binds, WindowGood, bound, v
  <1>5. CASE k \notin {"viewporter", "fractional"}
    <2>1. IsProxies(e) /\ SameDevices(w.b, e) /\ e.bound = bound /\ Attached(e)
          /\ e.viewport = w.b.viewport /\ e.fractional = w.b.fractional
      <3>1. IsProxies(e) /\ SameDevices(c, e) /\ e.bound = bound /\ e.device = device
            /\ e.viewport = c.viewport /\ e.fractional = c.fractional
        <4> HIDE DEF device
        <4> QED BY <1>2, <1>3 DEF IsProxies, ProxyFields, SameDevices
      <3>2. /\ bound["viewporter"] = w.b.bound["viewporter"]
            /\ bound["fractional"] = w.b.bound["fractional"]
        BY <1>2, <1>5 DEF Kinds
      <3> HIDE DEF e
      <3> QED BY <1>1, <1>3, <3>1, <3>2 DEF Attached, SameDevices
    <2>2. v = [b |-> e, s |-> w.s]
      BY <1>1, <1>3, <1>5 DEF Bind, c, bound
    <2>3. v.b = e /\ v.s = w.s BY <2>2
    <2> HIDE DEF e, v
    <2> QED
      BY <1>1, <2>1, <2>2, <2>3
      DEF Binds, WindowGood, IsWindow, Fits, SameSources, bound, v
  <1> QED BY <1>4, <1>5

\* What the release of a proxy leaves of the seat's devices.
DevicesLeft(b, c, k) ==
    /\ c.outputs = b.outputs
    /\ IF k = "seat" THEN ~c.pointer /\ ~c.keyboard /\ c.failed = b.failed
       ELSE SameDevices(b, c)

\* From w to v a proxy of the kind k goes; n takes its place.
Replaces(w, v, a, k, n) ==
    /\ WindowGood(v, a) /\ v.b.bound = [w.b.bound EXCEPT ![k] = n]
    /\ DevicesLeft(w.b, v.b, k) /\ SameSources(w.s, v.s)
    /\ v.s.fraction = IF k = "fractional" THEN 0 ELSE w.s.fraction

\* Of a seat g it is known which devices the window's objects b hold.
KnownSeat(b, g) ==
    g.kind = "seat" => /\ g.pointer \in BOOLEAN /\ g.keyboard \in BOOLEAN
                       /\ b.pointer = g.pointer /\ b.keyboard = g.keyboard

\* A removed global goes with what depended on it.
LEMMA ReleaseGood ==
  ASSUME NEW w, NEW a, WindowGood(w, a), NEW g, g.kind \in Kinds,
         w.b.failed = FALSE, KnownSeat(w.b, g)
  PROVE  Replaces(w, Release(w, g), a, g.kind, Unbound)
  <1> DEFINE k == g.kind
             bound == [w.b.bound EXCEPT ![k] = Unbound]
             v == Release(w, g)
             b == [w.b EXCEPT !.bound[k] = Unbound]
  <1>1. /\ w = [b |-> w.b, s |-> w.s] /\ IsProxies(w.b) /\ IsScale(w.s)
        /\ (~w.s.pending => a = w.s.config) /\ Attached(w.b) /\ Fits(w.b, w.s)
        /\ Configured(w.s, a)
    BY DEF WindowGood, IsWindow
  <1>2. bound \in Bindings /\ bound[k] = Unbound /\ \A j \in Kinds \ {k} : bound[j] = w.b.bound[j]
    BY <1>1 DEF IsProxies, Bindings, Unbound
  <1>3. /\ IsProxies(b) /\ SameDevices(w.b, b) /\ b.bound = bound
        /\ b.viewport = w.b.viewport /\ b.fractional = w.b.fractional /\ b.device = w.b.device
    BY <1>1, <1>2 DEF IsProxies, ProxyFields, SameDevices
  <1> HIDE DEF b, bound
  <1>4. CASE k = "viewporter"
    <2> DEFINE d == [b EXCEPT !.viewport = FALSE]
               u == [b |-> d, s |-> w.s]
    <2>1. IsProxies(d) /\ SameDevices(b, d) /\ d.bound = bound /\ d.device = b.device
          /\ d.viewport = FALSE /\ d.fractional = b.fractional
      BY <1>3 DEF IsProxies, ProxyFields, SameDevices
    <2>2. Attached(d) /\ SameDevices(w.b, d)
      <3> HIDE DEF d
      <3> QED
        <4>1. \A j \in {"viewporter", "fractional", "manager", "seat"} \ {k} :
                bound[j] = w.b.bound[j]
          BY <1>2 DEF Kinds
        <4>2. HasDevice(bound) = HasDevice(w.b.bound) BY <1>4, <4>1 DEF HasDevice
        <4>3. SameDevices(w.b, d) BY <1>3, <2>1 DEF SameDevices
        <4>4. d.device = HasDevice(d.bound) BY <1>1, <1>3, <2>1, <4>2 DEF Attached
        <4>5. d.viewport = (d.bound["viewporter"] # Unbound)
          BY <1>1, <1>2, <1>3, <1>4, <2>1, <4>1 DEF Attached
        <4>6. d.fractional = (d.bound["fractional"] # Unbound)
          BY <1>1, <1>2, <1>3, <1>4, <2>1, <4>1 DEF Attached
        <4> QED BY <4>3, <4>4, <4>5, <4>6 DEF Attached
    <2>3. v = RefreshProtocols(u)
      BY <1>1, <1>4 DEF Release, b
    <2> HIDE DEF d, v
    <2>4. u.b = d /\ u.s = w.s /\ u = [b |-> u.b, s |-> u.s] OBVIOUS
    <2>5. IsWindow(u, a)
      BY <1>1, <2>1, <2>4 DEF IsWindow
    <2> HIDE DEF u
    <2>6. /\ IsWindow(v, a) /\ v.b = u.b /\ Fits(v.b, v.s) /\ Configured(v.s, a)
          /\ SameSources(u.s, v.s) /\ v.s.fraction = u.s.fraction
      BY <2>3, <2>5, RefreshProtocolsFits
    <2> QED
      BY <1>4, <2>1, <2>2, <2>4, <2>6 DEF Replaces, WindowGood, DevicesLeft, SameDevices, bound, v
  <1>5. CASE k = "fractional"
    <2> DEFINE d == [b EXCEPT !.fractional = FALSE]
               t == [w.s EXCEPT !.fraction = 0]
               u == [b |-> d, s |-> Refresh_(t)]
    <2>1. IsProxies(d) /\ SameDevices(b, d) /\ d.bound = bound /\ d.device = b.device
          /\ d.viewport = b.viewport /\ d.fractional = FALSE
      BY <1>3 DEF IsProxies, ProxyFields, SameDevices
    <2>2. Attached(d) /\ SameDevices(w.b, d)
      <3> HIDE DEF d
      <3> QED
        <4>1. \A j \in {"viewporter", "fractional", "manager", "seat"} \ {k} :
                bound[j] = w.b.bound[j]
          BY <1>2 DEF Kinds
        <4>2. HasDevice(bound) = HasDevice(w.b.bound) BY <1>5, <4>1 DEF HasDevice
        <4>3. SameDevices(w.b, d) BY <1>3, <2>1 DEF SameDevices
        <4>4. d.device = HasDevice(d.bound) BY <1>1, <1>3, <2>1, <4>2 DEF Attached
        <4>5. d.viewport = (d.bound["viewporter"] # Unbound)
          BY <1>1, <1>2, <1>3, <1>5, <2>1, <4>1 DEF Attached
        <4>6. d.fractional = (d.bound["fractional"] # Unbound)
          BY <1>1, <1>2, <1>3, <1>5, <2>1, <4>1 DEF Attached
        <4> QED BY <4>3, <4>4, <4>5, <4>6 DEF Attached
    <2>3. IsScale(t) /\ t.pending = w.s.pending /\ t.config = w.s.config
          /\ SameSources(w.s, t) /\ t.fraction = 0
      BY <1>1 DEF IsScale, ScaleFields, SameSources
    <2>4. v = RefreshProtocols(u)
      BY <1>5 DEF Release, b
    <2> HIDE DEF d, v, t
    <2>5. u.b = d /\ u.s = Refresh_(t) /\ u = [b |-> u.b, s |-> u.s] OBVIOUS
    <2>6. IsScale(Refresh_(t)) /\ SameInputs(t, Refresh_(t)) /\ Configured(Refresh_(t), a)
      BY <1>1, <2>3, RefreshConfigures
    <2>7. IsWindow(u, a)
      BY <2>1, <2>5, <2>6 DEF IsWindow, Configured
    <2> HIDE DEF u
    <2>8. /\ IsWindow(v, a) /\ v.b = u.b /\ Fits(v.b, v.s) /\ Configured(v.s, a)
          /\ SameSources(u.s, v.s) /\ v.s.fraction = u.s.fraction
      BY <2>4, <2>7, RefreshProtocolsFits
    <2>9. SameSources(w.s, v.s) /\ v.s.fraction = 0
      BY <2>3, <2>5, <2>6, <2>8 DEF SameSources, SameInputs
    <2> QED
      BY <1>5, <2>1, <2>2, <2>5, <2>8, <2>9 DEF Replaces, WindowGood, DevicesLeft, SameDevices, bound, v
  <1>6. CASE k = "seat"
    <2> DEFINE d == ReleaseSeat(b, g)
    <2>1. IsProxies(d) /\ d.bound = bound /\ d.outputs = b.outputs /\ d.device = FALSE
          /\ d.viewport = b.viewport /\ d.fractional = b.fractional
      BY <1>3 DEF IsProxies, ProxyFields, ReleaseSeat, Devices
    <2>2. d.pointer = FALSE /\ d.keyboard = FALSE
      <3>1. d.pointer = Device(b.pointer, g.pointer, FALSE)
            /\ d.keyboard = Device(b.keyboard, g.keyboard, FALSE)
        BY <1>3 DEF IsProxies, ProxyFields, ReleaseSeat, Devices
      <3>2. /\ g.pointer \in BOOLEAN /\ g.keyboard \in BOOLEAN
            /\ b.pointer = g.pointer /\ b.keyboard = g.keyboard
        BY <1>3, <1>6 DEF KnownSeat, SameDevices
      <3> HIDE DEF d
      <3> QED BY <3>1, <3>2 DEF Device
    <2>3. d.failed = FALSE
      BY <1>3 DEF IsProxies, ProxyFields, SameDevices, ReleaseSeat, Devices, Device
    <2>4. v = [b |-> d, s |-> w.s]
      BY <1>1, <1>6 DEF Release, b
    <2> HIDE DEF d
    <2>5. v.b = d /\ v.s = w.s BY <2>4
    <2> HIDE DEF v
    <2>6. Attached(d)
      BY <1>1, <1>2, <1>3, <1>6, <2>1 DEF Attached, HasDevice, Kinds
    <2> QED
      BY <1>1, <1>3, <1>6, <2>1, <2>2, <2>3, <2>4, <2>5, <2>6
      DEF Replaces, WindowGood, IsWindow, Fits, DevicesLeft, SameDevices, SameSources, bound, v
  <1>7. CASE k \notin {"viewporter", "fractional", "seat"}
    <2> DEFINE device == b.device /\ k # "manager"
               d == [b EXCEPT !.device = device]
    <2>1. IsProxies(d) /\ SameDevices(b, d) /\ d.bound = bound /\ d.device = device
          /\ d.viewport = b.viewport /\ d.fractional = b.fractional
      <3> HIDE DEF device
      <3> QED BY <1>3 DEF IsProxies, ProxyFields, SameDevices
    <2>2. v = [b |-> d, s |-> w.s]
      BY <1>1, <1>3, <1>7 DEF Release, b
    <2> HIDE DEF d
    <2>3. v.b = d /\ v.s = w.s BY <2>2
    <2> HIDE DEF v
    <2>4. Attached(d)
      BY <1>1, <1>2, <1>3, <1>7, <2>1 DEF Attached, HasDevice, Kinds
    <2> QED
      BY <1>1, <1>3, <1>7, <2>1, <2>2, <2>3, <2>4
      DEF Replaces, WindowGood, IsWindow, Fits, DevicesLeft, SameDevices, SameSources, bound, v
  <1> QED BY <1>4, <1>5, <1>6, <1>7

-----------------------------------------------------------------------------
(* What the compositor says of the scale *)

\* Of the scale state with one input changed, what a refresh needs to know.
LEMMA ScaleFollows ==
  ASSUME GlobalsInv, NEW t, IsScale(t), t.pending = scale.pending, t.config = scale.config,
         scale' = Refresh_(t), UNCHANGED applied
  PROVE  IsScale(scale)' /\ Configured(scale, applied)' /\ SameInputs(t, scale')
  <1>1. ~t.pending => applied = t.config
    BY DEF GlobalsInv, Configured
  <1>2. IsScale(Refresh_(t)) /\ SameInputs(t, Refresh_(t)) /\ Configured(Refresh_(t), applied)
    BY <1>1, RefreshConfigures
  <1> QED BY <1>2

LEMMA OutputsAreNamed ==
  ASSUME GlobalsInv, NEW n \in obj.outputs
  PROVE  n \in DOMAIN life.globals /\ n \in Names /\ n <= server.last /\ n \in DOMAIN scale.outputs
  <1>1. Named /\ IsServer(server) /\ Mirrored BY DEF GlobalsInv, Shaped
  <1>2. n \in DOMAIN life.globals /\ n \in 1 .. server.last BY <1>1 DEF Named, NamesOf
  <1>3. server.last \in 0 .. MaxNames BY <1>1 DEF IsServer
  <1>4. n \in DOMAIN scale.outputs BY <1>1 DEF Mirrored
  <1> QED BY <1>2, <1>3, <1>4, GlobalsBounds DEF Names, GlobalsBounds

LEMMA OutputScaleKeeps ==
  ASSUME GlobalsInv, OutputScale
  PROVE  GlobalsInv'
  <1>1. PICK name \in obj.outputs, x \in Scales :
          /\ server' = [server EXCEPT !.scale[name] = x]
          /\ scale' = Refresh_([scale EXCEPT !.outputs[name] = [@ EXCEPT !.scale = x]])
    BY DEF OutputScale
  <1>2. UNCHANGED <<life, obj, applied>> BY DEF OutputScale
  <1> DEFINE outputs == [scale.outputs EXCEPT ![name] = [@ EXCEPT !.scale = x]]
             t == [scale EXCEPT !.outputs = outputs]
  <1>3. /\ IsScale(scale) /\ IsServer(server) /\ Named /\ Mirrored /\ Fits(obj, scale)
    BY DEF GlobalsInv, Shaped
  <1>n. name \in Names /\ name <= server.last /\ name \in DOMAIN scale.outputs
    BY OutputsAreNamed
  <1>4. scale' = Refresh_(t)
    BY <1>1, <1>3 DEF IsScale, ScaleFields
  <1>5. IsScale(t) /\ t.pending = scale.pending /\ t.config = scale.config
        /\ t.outputs = outputs /\ t.preferred = scale.preferred /\ t.fraction = scale.fraction
        /\ t.viewport = scale.viewport /\ t.fractional = scale.fractional /\ t.size = scale.size
    <2> HIDE DEF outputs
    <2> QED BY <1>3 DEF IsScale, ScaleFields
  <1>6. IsServer(server)' /\ server'.scale = [server.scale EXCEPT ![name] = x]
        /\ server'.last = server.last /\ server'.entered = server.entered
        /\ server'.preferred = server.preferred /\ server'.fraction = server.fraction
        /\ server'.pointer = server.pointer /\ server'.keyboard = server.keyboard
        /\ server'.size = server.size
    BY <1>1, <1>3 DEF IsServer, ServerFields
  <1>s. \A n \in Names : server'.scale[n] = IF n = name THEN x ELSE server.scale[n]
    BY <1>3, <1>6 DEF IsServer
  <1> HIDE DEF t
  <1>7. IsScale(scale)' /\ Configured(scale, applied)' /\ SameInputs(t, scale')
    BY <1>2, <1>4, <1>5, ScaleFollows
  <1>8. outputs = [n \in obj.outputs |-> [scale |-> server'.scale[n],
                                          entered |-> n \in server.entered]]
    <2> DEFINE out(n) == [scale |-> server.scale[n], entered |-> n \in server.entered]
    <2>1. scale.outputs = [n \in obj.outputs |-> out(n)]
      BY <1>3 DEF Mirrored
    <2>2. [out(name) EXCEPT !.scale = x] = [scale |-> x, entered |-> name \in server.entered]
      OBVIOUS
    <2> HIDE DEF out
    <2>3. outputs = [n \in obj.outputs |-> IF n = name THEN [out(name) EXCEPT !.scale = x]
                                                      ELSE out(n)]
      BY <2>1
    <2>4. \A n \in obj.outputs : n \in Names BY OutputsAreNamed
    <2> HIDE DEF outputs
    <2>5. \A n \in obj.outputs :
            (IF n = name THEN [out(name) EXCEPT !.scale = x] ELSE out(n))
              = [scale |-> server'.scale[n], entered |-> n \in server.entered]
      BY <1>s, <2>2, <2>4 DEF out
    <2> QED BY <2>3, <2>5
  <1>9. Mirrored'
    BY <1>2, <1>3, <1>5, <1>6, <1>7, <1>8 DEF Mirrored, SameInputs
  <1>10. Named'
    <2>1. \A n \in Names : n > server.last => n # name
      BY <1>3, <1>n DEF IsServer, Names
    <2>2. \A n \in Names : n > server'.last => server'.scale[n] = 1
      BY <1>3, <1>6, <1>s, <2>1 DEF Named
    <2> QED BY <1>2, <1>3, <1>6, <2>2 DEF Named, NamesOf
  <1>11. Fits(obj, scale)'
    BY <1>2, <1>3, <1>5, <1>7 DEF Fits, SameInputs
  <1> QED
    BY <1>2, <1>6, <1>7, <1>9, <1>10, <1>11
    DEF GlobalsInv, Shaped, Bound, SeatsKnown

\* The output that is entered or left keeps its name and kind.
SameKinds(globals, other) ==
    /\ DOMAIN other = DOMAIN globals
    /\ \A n \in DOMAIN globals :
         /\ other[n] \in Global /\ other[n].kind = globals[n].kind
         /\ other[n].pointer = globals[n].pointer /\ other[n].keyboard = globals[n].keyboard

LEMMA SurfaceOutputKeeps ==
  ASSUME GlobalsInv, SurfaceOutput
  PROVE  GlobalsInv'
  <1>1. PICK name \in obj.outputs :
          LET enters == name \notin server.entered IN
          /\ server' = [server EXCEPT !.entered = IF enters THEN @ \cup {name} ELSE @ \ {name}]
          /\ life' = [life EXCEPT !.globals[name] = [@ EXCEPT !.entered = enters]]
          /\ scale' = Refresh_([scale EXCEPT !.outputs[name] = [@ EXCEPT !.entered = enters]])
    BY DEF SurfaceOutput
  <1>2. UNCHANGED <<obj, applied>> BY DEF SurfaceOutput
  <1> DEFINE enters == name \notin server.entered
             entered == IF enters THEN server.entered \cup {name} ELSE server.entered \ {name}
             globals == [life.globals EXCEPT ![name] = [@ EXCEPT !.entered = enters]]
             outputs == [scale.outputs EXCEPT ![name] = [@ EXCEPT !.entered = enters]]
             t == [scale EXCEPT !.outputs = outputs]
  <1>3. /\ IsLife(life) /\ IsScale(scale) /\ IsServer(server) /\ Named /\ Bound /\ SeatsKnown
        /\ Mirrored /\ Fits(obj, scale)
    BY DEF GlobalsInv, Shaped
  <1>4. name \in DOMAIN life.globals /\ name \in DOMAIN scale.outputs
    BY OutputsAreNamed
  <1>5. scale' = Refresh_(t)
    BY <1>1, <1>3 DEF IsScale, ScaleFields
  <1>6. IsScale(t) /\ t.pending = scale.pending /\ t.config = scale.config
        /\ t.outputs = outputs /\ t.preferred = scale.preferred /\ t.fraction = scale.fraction
        /\ t.viewport = scale.viewport /\ t.fractional = scale.fractional /\ t.size = scale.size
    <2> HIDE DEF outputs
    <2> QED BY <1>3 DEF IsScale, ScaleFields
  <1>7. IsServer(server)' /\ server'.scale = server.scale
        /\ server'.last = server.last /\ server'.entered = entered
        /\ server'.preferred = server.preferred /\ server'.fraction = server.fraction
        /\ server'.pointer = server.pointer /\ server'.keyboard = server.keyboard
        /\ server'.size = server.size
    <2>1. server' = [server EXCEPT !.entered = entered]
      BY <1>1, <1>3 DEF IsServer, ServerFields
    <2> HIDE DEF entered
    <2> QED BY <1>3, <2>1 DEF IsServer, ServerFields
  <1>8. life' = [life EXCEPT !.globals = globals]
    BY <1>1, <1>3 DEF IsLife, LifeFields
  <1>9. SameKinds(life.globals, globals)
    <2>1. life.globals[name] \in Global BY <1>3, <1>4 DEF IsLife
    <2>2. LET g == [life.globals[name] EXCEPT !.entered = enters] IN
          /\ g \in Global /\ g.kind = life.globals[name].kind
          /\ g.pointer = life.globals[name].pointer /\ g.keyboard = life.globals[name].keyboard
      <3> HIDE DEF enters
      <3>1. enters \in BOOLEAN BY DEF enters
      <3> QED BY <2>1, <3>1 DEF Global
    <2> QED BY <1>3, <1>4, <2>2 DEF SameKinds, IsLife
  <1> HIDE DEF globals
  <1>10. IsLife(life)' /\ life'.globals = globals /\ life'.bound = life.bound
         /\ life'.force = life.force /\ life'.current = life.current
    BY <1>3, <1>8, <1>9 DEF IsLife, LifeFields, SameKinds
  <1> HIDE DEF t
  <1>11. IsScale(scale)' /\ Configured(scale, applied)' /\ SameInputs(t, scale')
    BY <1>2, <1>5, <1>6, ScaleFollows
  <1>12. outputs = [n \in obj.outputs |-> [scale |-> server.scale[n], entered |-> n \in entered]]
    <2> DEFINE out(n) == [scale |-> server.scale[n], entered |-> n \in server.entered]
    <2>1. scale.outputs = [n \in obj.outputs |-> out(n)]
      BY <1>3 DEF Mirrored
    <2>2. [out(name) EXCEPT !.entered = enters] = [scale |-> server.scale[name], entered |-> enters]
      <3> HIDE DEF enters
      <3> QED OBVIOUS
    <2>3. enters = (name \in entered) /\ \A n : n # name => (n \in entered) = (n \in server.entered)
      OBVIOUS
    <2> HIDE DEF out, enters, entered
    <2>4. outputs = [n \in obj.outputs |-> IF n = name THEN [out(name) EXCEPT !.entered = enters]
                                                      ELSE out(n)]
      BY <2>1
    <2> HIDE DEF outputs
    <2>5. \A n \in obj.outputs :
            (IF n = name THEN [out(name) EXCEPT !.entered = enters] ELSE out(n))
              = [scale |-> server.scale[n], entered |-> n \in entered]
      BY <2>2, <2>3 DEF out
    <2> QED BY <2>4, <2>5
  <1>13. Mirrored'
    BY <1>2, <1>3, <1>6, <1>7, <1>10, <1>11, <1>12 DEF Mirrored, SameInputs
  <1>14. Named'
    <2>1. entered \subseteq obj.outputs BY <1>3 DEF Named
    <2>2. DOMAIN globals = DOMAIN life.globals
          /\ \A n \in DOMAIN globals : globals[n].kind = life.globals[n].kind
      BY <1>9 DEF SameKinds
    <2> QED BY <1>2, <1>3, <1>7, <1>10, <2>1, <2>2 DEF Named, NamesOf
  <1>15. Fits(obj, scale)'
    BY <1>2, <1>3, <1>6, <1>11 DEF Fits, SameInputs
  <1>16. Bound'
    <2>1. \A k \in Kinds : OneHeld(life'.globals, life.bound, k) = OneHeld(life.globals, life.bound, k)
      BY <1>9, <1>10 DEF SameKinds, OneHeld
    <2> QED BY <1>2, <1>3, <1>10, <2>1 DEF Bound
  <1>17. SeatsKnown'
    BY <1>2, <1>3, <1>7, <1>9, <1>10 DEF SeatsKnown, SameKinds
  <1>18. IsProxies(obj)' /\ Attached(obj)'
    BY <1>2 DEF GlobalsInv, Shaped
  <1> QED
    BY <1>7, <1>10, <1>11, <1>13, <1>14, <1>15, <1>16, <1>17, <1>18 DEF GlobalsInv, Shaped

\* Nothing but the scale and what the compositor says of it changes.
LEMMA ScaleOnlyKeeps ==
  ASSUME GlobalsInv, UNCHANGED <<obj, applied>>,
         IsScale(scale)', Configured(scale, applied)', Fits(obj, scale'), Mirrored',
         IsLife(life)', life'.globals = life.globals, life'.bound = life.bound,
         life'.force = life.force,
         IsServer(server)', server'.scale = server.scale, server'.last = server.last,
         server'.entered = server.entered, server'.pointer = server.pointer,
         server'.keyboard = server.keyboard
  PROVE  GlobalsInv'
  <1>1. Named' BY DEF GlobalsInv, Named, NamesOf
  <1>2. Bound' BY DEF GlobalsInv, Bound
  <1>3. SeatsKnown' BY DEF GlobalsInv, SeatsKnown
  <1> QED BY <1>1, <1>2, <1>3 DEF GlobalsInv, Shaped, Fits

LEMMA PreferredScaleKeeps ==
  ASSUME GlobalsInv, PreferredScale
  PROVE  GlobalsInv'
  <1>1. PICK x \in Scales : /\ server' = [server EXCEPT !.preferred = x]
                            /\ scale' = Refresh_([scale EXCEPT !.preferred = x])
    BY DEF PreferredScale
  <1>2. UNCHANGED <<life, obj, applied>> BY DEF PreferredScale
  <1> DEFINE t == [scale EXCEPT !.preferred = x]
  <1>3. IsLife(life) /\ IsScale(scale) /\ IsServer(server) /\ Mirrored /\ Fits(obj, scale)
    BY DEF GlobalsInv, Shaped
  <1>4. IsScale(t) /\ t.pending = scale.pending /\ t.config = scale.config
        /\ t.outputs = scale.outputs /\ t.preferred = x /\ t.fraction = scale.fraction
        /\ t.viewport = scale.viewport /\ t.fractional = scale.fractional /\ t.size = scale.size
    BY <1>3 DEF IsScale, ScaleFields
  <1>5. IsServer(server)' /\ server'.preferred = x /\ server'.fraction = server.fraction
        /\ server'.scale = server.scale /\ server'.last = server.last
        /\ server'.entered = server.entered /\ server'.pointer = server.pointer
        /\ server'.keyboard = server.keyboard /\ server'.size = server.size
    BY <1>1, <1>3 DEF IsServer, ServerFields
  <1> HIDE DEF t
  <1>6. IsScale(scale)' /\ Configured(scale, applied)' /\ SameInputs(t, scale')
    BY <1>1, <1>2, <1>4, ScaleFollows DEF t
  <1>7. Mirrored' /\ Fits(obj, scale')
    BY <1>2, <1>3, <1>4, <1>5, <1>6 DEF Mirrored, Fits, SameInputs
  <1> QED BY <1>2, <1>3, <1>5, <1>6, <1>7, ScaleOnlyKeeps

LEMMA FractionalScaleKeeps ==
  ASSUME GlobalsInv, FractionalScale
  PROVE  GlobalsInv'
  <1>1. /\ server' = [server EXCEPT !.fraction = Fraction]
        /\ scale' = Refresh_([scale EXCEPT !.fraction = Fraction])
        /\ UNCHANGED <<life, obj, applied>>
    BY DEF FractionalScale
  <1> DEFINE t == [scale EXCEPT !.fraction = Fraction]
  <1>3. IsLife(life) /\ IsScale(scale) /\ IsServer(server) /\ Mirrored /\ Fits(obj, scale)
    BY DEF GlobalsInv, Shaped
  <1>4. IsScale(t) /\ t.pending = scale.pending /\ t.config = scale.config
        /\ t.outputs = scale.outputs /\ t.fraction = Fraction /\ t.preferred = scale.preferred
        /\ t.viewport = scale.viewport /\ t.fractional = scale.fractional /\ t.size = scale.size
    BY <1>3 DEF IsScale, ScaleFields
  <1>5. IsServer(server)' /\ server'.fraction = Fraction /\ server'.preferred = server.preferred
        /\ server'.scale = server.scale /\ server'.last = server.last
        /\ server'.entered = server.entered /\ server'.pointer = server.pointer
        /\ server'.keyboard = server.keyboard /\ server'.size = server.size
    BY <1>1, <1>3 DEF IsServer, ServerFields
  <1> HIDE DEF t
  <1>6. IsScale(scale)' /\ Configured(scale, applied)' /\ SameInputs(t, scale')
    BY <1>1, <1>4, ScaleFollows DEF t
  <1>7. Mirrored' /\ Fits(obj, scale')
    BY <1>1, <1>3, <1>4, <1>5, <1>6 DEF Mirrored, Fits, SameInputs
  <1> QED BY <1>1, <1>3, <1>5, <1>6, <1>7, ScaleOnlyKeeps

LEMMA SurfaceConfigureKeeps ==
  ASSUME GlobalsInv, SurfaceConfigure
  PROVE  GlobalsInv'
  <1>1. PICK proposed \in Sizes \cup {0} :
          /\ life' = [life EXCEPT !.current = IF proposed # 0 THEN proposed ELSE @]
          /\ scale' = Refresh_([scale EXCEPT !.size = life'.current])
          /\ server' = [server EXCEPT !.size = life'.current]
    BY DEF SurfaceConfigure
  <1>2. UNCHANGED <<obj, applied>> BY DEF SurfaceConfigure
  <1> DEFINE size == life'.current
             t == [scale EXCEPT !.size = size]
  <1>3. IsLife(life) /\ IsScale(scale) /\ IsServer(server) /\ Mirrored /\ Fits(obj, scale)
    BY DEF GlobalsInv, Shaped
  <1>4. IsLife(life)' /\ life'.globals = life.globals /\ life'.bound = life.bound
        /\ life'.force = life.force
    BY <1>1, <1>3 DEF IsLife, LifeFields
  <1> HIDE DEF size
  <1>5. IsScale(t) /\ t.pending = scale.pending /\ t.config = scale.config
        /\ t.outputs = scale.outputs /\ t.fraction = scale.fraction /\ t.size = size
        /\ t.viewport = scale.viewport /\ t.fractional = scale.fractional
        /\ t.preferred = scale.preferred
    BY <1>3 DEF IsScale, ScaleFields
  <1>6. server' = [server EXCEPT !.size = size] /\ scale' = Refresh_(t) BY <1>1 DEF size
  <1>7. IsServer(server)' /\ server'.size = size /\ server'.preferred = server.preferred
        /\ server'.scale = server.scale /\ server'.last = server.last
        /\ server'.entered = server.entered /\ server'.pointer = server.pointer
        /\ server'.keyboard = server.keyboard /\ server'.fraction = server.fraction
    BY <1>3, <1>6 DEF IsServer, ServerFields
  <1> HIDE DEF t
  <1>8. IsScale(scale)' /\ Configured(scale, applied)' /\ SameInputs(t, scale')
    BY <1>2, <1>5, <1>6, ScaleFollows
  <1>9. Mirrored' /\ Fits(obj, scale')
    BY <1>2, <1>3, <1>5, <1>7, <1>8 DEF Mirrored, Fits, SameInputs, size
  <1> QED BY <1>2, <1>4, <1>7, <1>8, <1>9, ScaleOnlyKeeps

LEMMA TakeScaleKeeps ==
  ASSUME GlobalsInv, TakeScale
  PROVE  GlobalsInv'
  <1>1. /\ applied' = scale.config /\ scale' = [scale EXCEPT !.pending = FALSE]
        /\ UNCHANGED <<life, obj, server>>
    BY DEF TakeScale
  <1>2. IsScale(scale) /\ Mirrored /\ Fits(obj, scale) /\ scale.config = Calculate(scale)
    BY DEF GlobalsInv, Shaped, Configured
  <1>3. IsScale(scale)' /\ SameInputs(scale, scale') /\ scale'.config = scale.config
    BY <1>1, <1>2 DEF IsScale, ScaleFields, SameInputs
  <1>4. Calculate(scale') = Calculate(scale)
    BY <1>3 DEF SameInputs, Calculate
  <1>5. Mirrored' /\ Fits(obj, scale)' /\ Configured(scale, applied)'
    BY <1>1, <1>2, <1>3, <1>4 DEF Mirrored, Fits, Configured, SameInputs
  <1>6. Named' /\ Bound' /\ SeatsKnown' /\ Attached(obj)'
    BY <1>1 DEF GlobalsInv, Named, NamesOf, Bound, SeatsKnown
  <1> QED BY <1>1, <1>3, <1>5, <1>6 DEF GlobalsInv, Shaped

-----------------------------------------------------------------------------
(* Seats *)

LEMMA SeatCapabilitiesKeeps ==
  ASSUME GlobalsInv, SeatCapabilities
  PROVE  GlobalsInv'
  <1> DEFINE seat == life.bound["seat"]
  <1>1. PICK p \in BOOLEAN, k \in BOOLEAN :
          /\ life' = [life EXCEPT !.globals[seat] = [@ EXCEPT !.pointer = p, !.keyboard = k]]
          /\ obj' = Devices(obj, life.globals[seat], p, k)
          /\ server' = [server EXCEPT !.pointer = p, !.keyboard = k]
    BY DEF SeatCapabilities
  <1>2. UNCHANGED <<scale, applied>> /\ seat # Unbound BY DEF SeatCapabilities
  <1> DEFINE g == life.globals[seat]
             globals == [life.globals EXCEPT ![seat] = [@ EXCEPT !.pointer = p, !.keyboard = k]]
  <1>3. /\ IsLife(life) /\ IsProxies(obj) /\ IsScale(scale) /\ IsServer(server) /\ Named /\ Bound
        /\ SeatsKnown /\ Mirrored /\ Fits(obj, scale) /\ Attached(obj) /\ Configured(scale, applied)
    BY DEF GlobalsInv, Shaped
  <1>4. seat \in DOMAIN life.globals /\ g.kind = "seat"
    BY <1>2, <1>3 DEF Bound, OneHeld, Kinds
  <1>5. g \in Global /\ g.pointer = obj.pointer /\ g.keyboard = obj.keyboard
        /\ obj.pointer \in BOOLEAN /\ obj.keyboard \in BOOLEAN /\ ~obj.failed
    BY <1>3, <1>4 DEF IsLife, SeatsKnown
  <1>6. life' = [life EXCEPT !.globals = globals]
    BY <1>1, <1>3 DEF IsLife, LifeFields
  <1>7. /\ DOMAIN globals = DOMAIN life.globals /\ globals[seat] \in Global
        /\ globals[seat].kind = "seat" /\ globals[seat].pointer = p /\ globals[seat].keyboard = k
        /\ \A n \in DOMAIN globals \ {seat} : globals[n] = life.globals[n]
    <2> HIDE DEF g
    <2>1. globals[seat] = [g EXCEPT !.pointer = p, !.keyboard = k]
      BY <1>4 DEF g
    <2>2. [g EXCEPT !.pointer = p, !.keyboard = k] \in Global
      BY <1>5 DEF Global
    <2>3. LET h == [g EXCEPT !.pointer = p, !.keyboard = k] IN
          h.kind = g.kind /\ h.pointer = p /\ h.keyboard = k
      BY <1>5 DEF Global
    <2> QED BY <1>4, <2>1, <2>2, <2>3
  <1> HIDE DEF globals
  <1>8. IsLife(life)' /\ life'.globals = globals /\ life'.bound = life.bound
        /\ life'.force = life.force /\ life'.current = life.current
    BY <1>3, <1>4, <1>6, <1>7 DEF IsLife, LifeFields
  <1>9. IsServer(server)' /\ server'.pointer = p /\ server'.keyboard = k
        /\ server'.scale = server.scale /\ server'.last = server.last
        /\ server'.entered = server.entered /\ server'.preferred = server.preferred
        /\ server'.fraction = server.fraction /\ server'.size = server.size
    BY <1>1, <1>3 DEF IsServer, ServerFields
  <1>10. IsProxies(obj)' /\ obj'.bound = obj.bound /\ obj'.outputs = obj.outputs
         /\ obj'.viewport = obj.viewport /\ obj'.fractional = obj.fractional
         /\ obj'.device = obj.device
    <2> HIDE DEF g
    <2> QED BY <1>1, <1>3 DEF IsProxies, ProxyFields, Devices, g
  <1>11. obj'.pointer = p /\ obj'.keyboard = k
    <2> HIDE DEF g
    <2>1. Device(obj.pointer, g.pointer, p) = p /\ Device(obj.keyboard, g.keyboard, k) = k
      BY <1>5 DEF Device
    <2>2. /\ obj'.pointer = Device(obj.pointer, g.pointer, p)
          /\ obj'.keyboard = Device(obj.keyboard, g.keyboard, k)
      BY <1>1, <1>3 DEF IsProxies, ProxyFields, Devices, g
    <2> QED BY <2>1, <2>2
  <1>12. obj'.failed = FALSE
    <2> HIDE DEF g
    <2> DEFINE failed == \/ obj.failed \/ (~g.pointer /\ p /\ obj.pointer)
                         \/ (~g.keyboard /\ k /\ obj.keyboard)
    <2>1. failed = FALSE BY <1>5
    <2>2. obj'.failed = failed
      BY <1>1, <1>3 DEF IsProxies, ProxyFields, Devices, g
    <2> QED BY <2>1, <2>2
  <1>13. Named'
    BY <1>3, <1>4, <1>7, <1>8, <1>9, <1>10 DEF Named, NamesOf
  <1>14. Bound'
    <2>1. \A n \in DOMAIN globals : globals[n].kind = life.globals[n].kind BY <1>4, <1>7
    <2>2. \A j \in Kinds : OneHeld(globals, life.bound, j) = OneHeld(life.globals, life.bound, j)
      BY <1>7, <2>1 DEF OneHeld
    <2> QED BY <1>3, <1>8, <1>10, <2>2 DEF Bound
  <1>15. SeatsKnown'
    BY <1>1, <1>2, <1>3, <1>7, <1>8, <1>9, <1>11, <1>12 DEF SeatsKnown
  <1>16. Mirrored' /\ Fits(obj, scale)' /\ Attached(obj)' /\ Configured(scale, applied)'
    BY <1>2, <1>3, <1>8, <1>9, <1>10 DEF Mirrored, Fits, Attached, Configured
  <1> QED
    BY <1>2, <1>3, <1>8, <1>9, <1>10, <1>13, <1>14, <1>15, <1>16 DEF GlobalsInv, Shaped

-----------------------------------------------------------------------------
(* Globals that come *)

\* Nothing is held yet of the name the compositor gives next.
LEMMA NewName ==
  ASSUME GlobalsInv, server.last < MaxNames
  PROVE  LET name == server.last + 1 IN
         /\ name \in Names /\ name \in Nat /\ name # Unbound
         /\ name \notin DOMAIN life.globals
         /\ name \notin obj.outputs /\ name \notin server.entered /\ server.scale[name] = 1
         /\ \A n \in DOMAIN life.globals : n # Unbound
  <1>1. Named /\ server.last \in 0 .. MaxNames BY DEF GlobalsInv, Shaped, IsServer
  <1>2. server.last + 1 \in 1 .. MaxNames /\ server.last + 1 \notin 1 .. server.last
        /\ server.last + 1 > server.last /\ 0 \notin 1 .. server.last
    BY <1>1, GlobalsBounds DEF GlobalsBounds
  <1> QED BY <1>1, <1>2 DEF Named, NamesOf, Names, Unbound

Fresh(kind) == [kind |-> kind, entered |-> FALSE, pointer |-> FALSE, keyboard |-> FALSE]

LEMMA AddGlobalKeeps ==
  ASSUME GlobalsInv, AddGlobal
  PROVE  GlobalsInv'
  <1> DEFINE name == server.last + 1
  <1>1. PICK kind \in Kinds \cup {"output"} :
          LET first == kind # "output" /\ life.bound[kind] = Unbound IN
          /\ server' = [server EXCEPT !.last = name]
          /\ life' = [life EXCEPT !.globals = With(@, name, Fresh(kind)),
                          !.bound = IF first THEN [@ EXCEPT ![kind] = name] ELSE @]
          /\ IF kind = "output"
             THEN Keep([b |-> [obj EXCEPT !.outputs = @ \cup {name}],
                        s |-> [scale EXCEPT !.outputs =
                                  With(@, name, [scale |-> 1, entered |-> FALSE])]])
             ELSE Keep(IF first THEN Bind(Window, kind, name) ELSE Window)
    BY DEF AddGlobal, Fresh
  <1>2. UNCHANGED applied /\ server.last < MaxNames /\ ~life.force BY DEF AddGlobal
  <1> DEFINE first == kind # "output" /\ life.bound[kind] = Unbound
             globals == With(life.globals, name, Fresh(kind))
             bound == IF first THEN [life.bound EXCEPT ![kind] = name] ELSE life.bound
  <1>3. /\ IsLife(life) /\ IsProxies(obj) /\ IsScale(scale) /\ IsServer(server) /\ Named /\ Bound
        /\ SeatsKnown /\ Mirrored /\ Fits(obj, scale) /\ Attached(obj) /\ Configured(scale, applied)
    BY DEF GlobalsInv, Shaped
  <1>4. /\ name \in Names /\ name \in Nat /\ name # Unbound
        /\ name \notin DOMAIN life.globals
        /\ name \notin obj.outputs /\ name \notin server.entered /\ server.scale[name] = 1
        /\ \A n \in DOMAIN life.globals : n # Unbound
    BY <1>2, NewName
  <1>5. /\ DOMAIN globals = DOMAIN life.globals \cup {name} /\ globals[name] = Fresh(kind)
        /\ \A n \in DOMAIN life.globals : globals[n] = life.globals[n]
    BY <1>4 DEF With
  <1>6. Fresh(kind) \in Global /\ Fresh(kind).kind = kind /\ ~Fresh(kind).pointer
        /\ ~Fresh(kind).keyboard
    BY DEF Global, Fresh
  <1>7. life' = [life EXCEPT !.globals = globals, !.bound = bound]
    BY <1>1, <1>3 DEF IsLife, LifeFields
  <1>8. bound \in Bindings
        /\ \A j \in Kinds : bound[j] = IF first /\ j = kind THEN name ELSE life.bound[j]
    BY <1>3, <1>4 DEF IsLife, Bindings
  <1>9. IsServer(server)' /\ server'.last = name /\ server'.scale = server.scale
        /\ server'.entered = server.entered /\ server'.preferred = server.preferred
        /\ server'.fraction = server.fraction /\ server'.pointer = server.pointer
        /\ server'.keyboard = server.keyboard /\ server'.size = server.size
    <2>1. name \in 0 .. MaxNames BY <1>4 DEF Names
    <2> HIDE DEF name
    <2> QED BY <1>1, <1>3, <2>1 DEF IsServer, ServerFields
  <1> HIDE DEF globals, bound, first, name
  <1>10. IsLife(life)' /\ life'.globals = globals /\ life'.bound = bound
         /\ life'.force = life.force /\ life'.current = life.current
    <2>1. \A n \in DOMAIN globals : globals[n] \in Global
      BY <1>3, <1>5, <1>6 DEF IsLife
    <2> QED BY <1>3, <1>7, <1>8, <2>1 DEF IsLife, LifeFields
  <1>11. \A j : {n \in DOMAIN globals : globals[n].kind = j}
                  = {n \in DOMAIN life.globals : life.globals[n].kind = j}
                      \cup (IF j = kind THEN {name} ELSE {})
    BY <1>4, <1>5, <1>6
  <1>12. /\ obj'.bound = bound /\ IsProxies(obj)' /\ Attached(obj)' /\ IsScale(scale)'
         /\ Fits(obj, scale)' /\ Configured(scale, applied)'
         /\ obj'.pointer = obj.pointer /\ obj'.keyboard = obj.keyboard
         /\ obj'.failed = obj.failed
         /\ obj'.outputs = IF kind = "output" THEN obj.outputs \cup {name} ELSE obj.outputs
         /\ scale'.outputs = IF kind = "output"
                             THEN With(scale.outputs, name, [scale |-> 1, entered |-> FALSE])
                             ELSE scale.outputs
         /\ scale'.preferred = scale.preferred /\ scale'.size = scale.size
         /\ scale'.fraction = scale.fraction
    <2>1. CASE kind = "output"
      <3> DEFINE outputs == obj.outputs \cup {name}
                 seen == With(scale.outputs, name, [scale |-> 1, entered |-> FALSE])
      <3>1. obj' = [obj EXCEPT !.outputs = outputs] /\ scale' = [scale EXCEPT !.outputs = seen]
        BY <1>1, <2>1 DEF Keep
      <3>2. DOMAIN scale.outputs = obj.outputs
        BY <1>3 DEF Mirrored
      <3>3. /\ DOMAIN seen = DOMAIN scale.outputs \cup {name}
            /\ seen[name] = [scale |-> 1, entered |-> FALSE]
            /\ \A n \in DOMAIN scale.outputs : seen[n] = scale.outputs[n]
        BY <1>4, <3>2 DEF With
      <3> HIDE DEF outputs, seen
      <3>4. IsProxies(obj)' /\ obj'.outputs = outputs /\ obj'.bound = obj.bound
            /\ obj'.pointer = obj.pointer /\ obj'.keyboard = obj.keyboard
            /\ obj'.failed = obj.failed /\ obj'.viewport = obj.viewport
            /\ obj'.fractional = obj.fractional /\ obj'.device = obj.device
        BY <1>3, <3>1 DEF IsProxies, ProxyFields
      <3>5. IsScale(scale)' /\ scale'.outputs = seen /\ scale'.preferred = scale.preferred
            /\ scale'.size = scale.size /\ scale'.fraction = scale.fraction
            /\ scale'.viewport = scale.viewport /\ scale'.fractional = scale.fractional
            /\ scale'.pending = scale.pending /\ scale'.config = scale.config
        BY <1>3, <3>1 DEF IsScale, ScaleFields
      <3>6. {seen[n].scale : n \in {m \in DOMAIN seen : seen[m].entered}}
              = {scale.outputs[n].scale :
                    n \in {m \in DOMAIN scale.outputs : scale.outputs[m].entered}}
        BY <1>4, <3>2, <3>3
      <3>7. Calculate(scale') = Calculate(scale)
        BY <3>5, <3>6 DEF Calculate
      <3>8. bound = life.bound BY <2>1 DEF bound, first
      <3> QED
        BY <1>2, <1>3, <2>1, <3>4, <3>5, <3>7, <3>8
        DEF Attached, Fits, Configured, Bound, outputs, seen
    <2>2. CASE kind # "output" /\ ~first
      <3>1. obj' = obj /\ scale' = scale
        BY <1>1, <2>2 DEF Keep, Window, first
      <3>2. bound = life.bound BY <2>2 DEF bound
      <3> QED BY <1>2, <1>3, <2>2, <3>1, <3>2 DEF Attached, Fits, Configured, Bound
    <2>3. CASE kind # "output" /\ first
      <3> DEFINE v == Bind(Window, kind, name)
      <3>1. obj' = v.b /\ scale' = v.s
        BY <1>1, <2>3 DEF Keep, first
      <3>2. WindowGood(Window, applied) /\ Window.b = obj /\ Window.s = scale
        BY <1>3 DEF WindowGood, IsWindow, Window, Configured
      <3>3. obj.bound[kind] = Unbound /\ obj.failed \in BOOLEAN /\ kind \in Kinds
        <4>1. obj.failed = FALSE
          BY <1>3 DEF SeatsKnown
        <4> QED BY <1>3, <2>3, <4>1 DEF Bound, first
      <3>4. /\ WindowGood(v, applied) /\ v.b.bound = [obj.bound EXCEPT ![kind] = name]
            /\ SameDevices(obj, v.b)
            /\ SameSources(scale, v.s) /\ v.s.fraction = scale.fraction
        <4>1. Binds(Window, v, applied, kind, name)
          BY <1>4, <3>2, <3>3, BindGood
        <4> QED BY <3>2, <4>1 DEF Binds
      <3> HIDE DEF v
      <3>5. bound = [obj.bound EXCEPT ![kind] = name] BY <1>3, <2>3 DEF bound, Bound
      <3> QED
        BY <1>2, <2>3, <3>1, <3>4, <3>5
        DEF WindowGood, IsWindow, SameDevices, SameSources
    <2> QED BY <2>1, <2>2, <2>3
  <1>13. Named'
    <2>1. 1 .. server.last \subseteq 1 .. name /\ name \in 1 .. name
          /\ \A n \in Names : n > name => n > server.last
      BY <1>3, <1>4 DEF IsServer, name, Names
    <2>2. NamesOf("output")' = obj'.outputs
      <3>1. obj.outputs = {n \in DOMAIN life.globals : life.globals[n].kind = "output"}
        BY <1>3 DEF Named, NamesOf
      <3>2. NamesOf("output")' = {n \in DOMAIN globals : globals[n].kind = "output"}
        BY <1>10 DEF NamesOf
      <3> QED BY <1>11, <1>12, <3>1, <3>2
    <2>3. DOMAIN globals \subseteq 1 .. name BY <1>3, <1>5, <2>1 DEF Named
    <2>4. server.entered \subseteq obj'.outputs BY <1>3, <1>12 DEF Named
    <2> QED BY <1>3, <1>9, <1>10, <2>1, <2>2, <2>3, <2>4 DEF Named
  <1>14. Bound'
    <2>1. \A j \in Kinds : OneHeld(globals, bound, j)
      <3> TAKE j \in Kinds
      <3>1. OneHeld(life.globals, life.bound, j) BY <1>2, <1>3 DEF Bound
      <3> DEFINE names == {n \in DOMAIN globals : globals[n].kind = j}
                 old == {n \in DOMAIN life.globals : life.globals[n].kind = j}
      <3>2. names = old \cup (IF j = kind THEN {name} ELSE {}) BY <1>11
      <3>3. IF old = {} THEN life.bound[j] = Unbound ELSE life.bound[j] \in old
        BY <3>1 DEF OneHeld
      <3>4. bound[j] = IF first /\ j = kind THEN name ELSE life.bound[j] BY <1>8
      <3>5. j = kind /\ ~first => life.bound[j] # Unbound
        <4>1. "output" \notin Kinds BY DEF Kinds
        <4> QED BY <4>1 DEF first
      <3> HIDE DEF names, old
      <3>6. IF names = {} THEN bound[j] = Unbound ELSE bound[j] \in names
        BY <3>2, <3>3, <3>4, <3>5
      <3> QED BY <3>6 DEF OneHeld, names
    <2> QED BY <1>10, <1>12, <2>1 DEF Bound
  <1>15. SeatsKnown'
    <2> DEFINE seat == life.bound["seat"]
               seen == bound["seat"]
    <2>1. "seat" \in Kinds BY DEF Kinds
    <2>2. seen = IF first /\ kind = "seat" THEN name ELSE seat BY <1>8, <2>1
    <2>3. first /\ kind = "seat" => seat = Unbound BY DEF first
    <2>4. seat # name
      BY <1>2, <1>3, <1>4, <2>1 DEF Bound, OneHeld
    <2>5. /\ \A n \in DOMAIN life.globals :
              LET g == life.globals[n] IN
              IF n = seat THEN g.pointer = obj.pointer /\ g.keyboard = obj.keyboard
              ELSE ~g.pointer /\ ~g.keyboard
          /\ seat = Unbound => ~obj.pointer /\ ~obj.keyboard
          /\ obj.pointer = server.pointer /\ obj.keyboard = server.keyboard
          /\ obj.pointer \in BOOLEAN /\ obj.keyboard \in BOOLEAN /\ ~obj.failed
      BY <1>3 DEF SeatsKnown
    <2> HIDE DEF seat, seen
    <2>6. \A n \in DOMAIN globals :
             LET g == globals[n] IN
             IF n = seen THEN g.pointer = obj.pointer /\ g.keyboard = obj.keyboard
             ELSE ~g.pointer /\ ~g.keyboard
      <3> TAKE n \in DOMAIN globals
      <3>1. CASE n = name
        <4>1. globals[n].pointer = FALSE /\ globals[n].keyboard = FALSE
          BY <1>5, <3>1 DEF Fresh
        <4>2. n = seen => obj.pointer = FALSE /\ obj.keyboard = FALSE
          BY <2>2, <2>3, <2>4, <2>5, <3>1
        <4> QED BY <4>1, <4>2
      <3>2. CASE n # name
        <4>1. n \in DOMAIN life.globals /\ globals[n] = life.globals[n] BY <1>5, <3>2
        <4>2. n = seen <=> n = seat BY <1>4, <2>2, <2>3, <3>2, <4>1
        <4> QED BY <2>5, <4>1, <4>2
      <3> QED BY <3>1, <3>2
    <2>7. seen = Unbound => ~obj.pointer /\ ~obj.keyboard
      BY <1>4, <2>2, <2>5
    <2> QED BY <1>9, <1>10, <1>12, <2>5, <2>6, <2>7 DEF SeatsKnown, seen
  <1>16. Mirrored'
    <2> DEFINE out(n) == [scale |-> server.scale[n], entered |-> n \in server.entered]
    <2>1. scale.outputs = [n \in obj.outputs |-> out(n)]
      BY <1>3 DEF Mirrored
    <2>2. out(name) = [scale |-> 1, entered |-> FALSE]
      <3>1. (name \in server.entered) = FALSE /\ server.scale[name] = 1 BY <1>4
      <3> QED BY <3>1
    <2> HIDE DEF out
    <2>3. With(scale.outputs, name, [scale |-> 1, entered |-> FALSE])
            = [n \in obj.outputs \cup {name} |-> out(n)]
      BY <1>4, <2>1, <2>2 DEF With
    <2>4. scale'.outputs = [n \in obj'.outputs |-> out(n)]
      BY <1>12, <2>1, <2>3
    <2> QED BY <1>3, <1>9, <1>10, <1>12, <2>4 DEF Mirrored, out
  <1> QED
    BY <1>9, <1>10, <1>12, <1>13, <1>14, <1>15, <1>16 DEF GlobalsInv, Shaped

-----------------------------------------------------------------------------
(* Globals that go *)

\* A nonempty set of natural numbers has a least element.
LEMMA LeastNatural ==
  ASSUME NEW T, T \subseteq Nat, T # {}
  PROVE  \E m \in T : \A n \in T : m <= n
  <1> DEFINE R == OpToRel(<, Nat)
  <1>1. IsWellFoundedOn(R, Nat) BY NatLessThanWellFounded, Zenon
  <1>2. \A x, y \in Nat : <<x, y>> \in R <=> x < y BY DEF OpToRel
  <1> HIDE DEF R
  <1>3. PICK x \in T : \A y \in T : ~ (<<y, x>> \in R) BY <1>1, WFMin
  <1>4. \A n \in T : ~ (n < x) BY <1>2, <1>3
  <1> QED BY <1>4

\* A nonempty set of natural numbers has a least element, which Min is.
LEMMA LeastOfNames ==
  ASSUME NEW T, T \subseteq Nat, T # {}
  PROVE  Min(T) \in T
  <1>1. \E m \in T : \A n \in T : m =< n BY LeastNatural
  <1>2. (CHOOSE m \in T : \A n \in T : m =< n) \in T BY <1>1
  <1> QED BY <1>2 DEF Min

\* What replaces a removed proxy is a global of its kind, while there is one.
LEMMA ReplacementIsAnnounced ==
  ASSUME NEW globals, NEW kind, DOMAIN globals \subseteq Nat, 0 \notin DOMAIN globals
  PROVE  LET names == {n \in DOMAIN globals : globals[n].kind = kind}
             new == Replacement(globals, kind)
         IN /\ new \in Nat
            /\ IF names = {} THEN new = Unbound ELSE new \in names /\ new # Unbound
  <1> DEFINE names == {n \in DOMAIN globals : globals[n].kind = kind}
  <1>1. Replacement(globals, kind) = IF names = {} THEN Unbound ELSE Min(names)
    BY DEF Replacement
  <1>2. names \subseteq Nat /\ 0 \notin names OBVIOUS
  <1> HIDE DEF names
  <1>3. names # {} => Min(names) \in names BY <1>2, LeastOfNames
  <1> QED BY <1>1, <1>2, <1>3 DEF Unbound, names

LEMMA ReplacedGood ==
  ASSUME NEW w, NEW a, WindowGood(w, a), NEW g, g.kind \in Kinds, NEW new \in Nat,
         w.b.failed = FALSE, KnownSeat(w.b, g)
  PROVE  Replaces(w, Replaced(w, g, new), a, g.kind, new)
  <1> DEFINE u == Release(w, g)
             v == Replaced(w, g, new)
  <1>r. Replaces(w, u, a, g.kind, Unbound)
    BY ReleaseGood
  <1>1. /\ WindowGood(u, a) /\ u.b.bound = [w.b.bound EXCEPT ![g.kind] = Unbound]
        /\ DevicesLeft(w.b, u.b, g.kind) /\ SameSources(w.s, u.s)
        /\ u.s.fraction = IF g.kind = "fractional" THEN 0 ELSE w.s.fraction
    BY <1>r DEF Replaces
  <1>2. w.b.bound \in Bindings /\ DOMAIN w.b.bound = Kinds
    BY DEF WindowGood, IsWindow, IsProxies, Bindings
  <1>3. CASE new = Unbound
    BY <1>r, <1>3 DEF Replaced
  <1>4. CASE new # Unbound
    <2>1. v = Bind(u, g.kind, new) BY <1>4 DEF Replaced
    <2> HIDE DEF u, v
    <2>2. u.b.bound[g.kind] = Unbound BY <1>1, <1>2
    <2>3. u.b.failed = FALSE BY <1>1 DEF DevicesLeft, SameDevices
    <2>4. /\ WindowGood(v, a) /\ v.b.bound = [u.b.bound EXCEPT ![g.kind] = new]
          /\ SameDevices(u.b, v.b)
          /\ SameSources(u.s, v.s) /\ v.s.fraction = u.s.fraction
      <3>1. Binds(u, v, a, g.kind, new)
        BY <1>1, <1>4, <2>1, <2>2, <2>3, BindGood
      <3> QED BY <3>1 DEF Binds
    <2>5. v.b.bound = [w.b.bound EXCEPT ![g.kind] = new]
      <3> DEFINE bound == w.b.bound
      <3>1. bound = [k \in Kinds |-> bound[k]] BY <1>2 DEF Bindings
      <3>2. v.b.bound = [[bound EXCEPT ![g.kind] = Unbound] EXCEPT ![g.kind] = new]
        BY <1>1, <2>4
      <3> HIDE DEF bound
      <3>3. [[bound EXCEPT ![g.kind] = Unbound] EXCEPT ![g.kind] = new]
              = [bound EXCEPT ![g.kind] = new]
        BY <3>1
      <3> QED BY <3>2, <3>3 DEF bound
    <2>6. DevicesLeft(w.b, v.b, g.kind)
      BY <1>1, <2>4 DEF DevicesLeft, SameDevices
    <2>7. SameSources(w.s, v.s)
      BY <1>1, <2>4 DEF SameSources
    <2> QED BY <1>1, <2>4, <2>5, <2>6, <2>7 DEF Replaces, v
  <1> QED BY <1>3, <1>4

\* The names and kinds that a removal leaves.
LEMMA RestOfGlobals ==
  ASSUME GlobalsInv, NEW name \in DOMAIN life.globals
  PROVE  LET rest == Without(life.globals, name) IN
         /\ DOMAIN rest = DOMAIN life.globals \ {name}
         /\ \A n \in DOMAIN rest : rest[n] = life.globals[n] /\ rest[n] \in Global
         /\ DOMAIN rest \subseteq Nat /\ 0 \notin DOMAIN rest
         /\ DOMAIN rest \subseteq 1 .. server.last
         /\ \A k : {n \in DOMAIN rest : rest[n].kind = k}
                     = {n \in DOMAIN life.globals : life.globals[n].kind = k} \ {name}
  <1>1. IsLife(life) /\ DOMAIN life.globals \subseteq 1 .. server.last
        /\ server.last \in 0 .. MaxNames
    BY DEF GlobalsInv, Shaped, IsServer, Named
  <1>2. /\ DOMAIN Without(life.globals, name) = DOMAIN life.globals \ {name}
        /\ \A n \in DOMAIN life.globals \ {name} :
             Without(life.globals, name)[n] = life.globals[n]
    BY DEF Without, Restrict
  <1>3. \A n \in DOMAIN life.globals \ {name} : life.globals[n] \in Global
    BY <1>1 DEF IsLife
  <1> QED BY <1>1, <1>2, <1>3

\* A removed global that is not bound is only forgotten, and so is a bound compositor:
\* the window is about to close.
LEMMA ForgottenKeeps ==
  ASSUME GlobalsInv, NEW name \in DOMAIN life.globals, NEW force \in BOOLEAN,
         life' = [life EXCEPT !.globals = Without(@, name), !.force = force],
         UNCHANGED <<obj, scale, server, applied>>,
         life.globals[name].kind # "output",
         force = life.force \/ force = TRUE,
         \/ life.globals[name].kind = "compositor" /\ force = TRUE
         \/ life.bound[life.globals[name].kind] # name
  PROVE  GlobalsInv'
  <1> DEFINE rest == Without(life.globals, name)
  <1>1. /\ DOMAIN rest = DOMAIN life.globals \ {name}
        /\ \A n \in DOMAIN rest : rest[n] = life.globals[n] /\ rest[n] \in Global
        /\ DOMAIN rest \subseteq 1 .. server.last
        /\ \A k : {n \in DOMAIN rest : rest[n].kind = k}
                    = {n \in DOMAIN life.globals : life.globals[n].kind = k} \ {name}
    BY RestOfGlobals
  <1>2. life' = [life EXCEPT !.globals = rest, !.force = force]
        /\ IsLife(life) /\ Named /\ Bound /\ SeatsKnown /\ Mirrored
    BY DEF GlobalsInv, Shaped, IsLife, LifeFields
  <1> HIDE DEF rest
  <1>3. IsLife(life)' /\ life'.globals = rest /\ life'.bound = life.bound
        /\ life'.force = force /\ life'.current = life.current
    BY <1>1, <1>2 DEF IsLife, LifeFields
  <1>4. Named'
    <2>1. NamesOf("output")' = NamesOf("output")
      BY <1>1, <1>3 DEF NamesOf
    <2> QED BY <1>1, <1>2, <1>3, <2>1 DEF Named
  <1>5. Bound'
    <2>1. ASSUME NEW k \in Kinds, k = "compositor" => force # TRUE
          PROVE  OneHeld(rest, life.bound, k)
      <3>1. OneHeld(life.globals, life.bound, k)
        BY <1>2, <2>1 DEF Bound
      <3>2. k = life.globals[name].kind => life.bound[k] # name BY <2>1
      <3> DEFINE names == {n \in DOMAIN rest : rest[n].kind = k}
                 old == {n \in DOMAIN life.globals : life.globals[n].kind = k}
      <3>3. names = old \ {name} BY <1>1
      <3>4. IF old = {} THEN life.bound[k] = Unbound ELSE life.bound[k] \in old
        BY <3>1 DEF OneHeld
      <3>5. k # life.globals[name].kind => name \notin old OBVIOUS
      <3> HIDE DEF names, old
      <3>6. IF names = {} THEN life.bound[k] = Unbound ELSE life.bound[k] \in names
        <4>1. CASE name \in old
          BY <3>2, <3>3, <3>4, <3>5, <4>1
        <4>2. CASE name \notin old
          BY <3>3, <3>4, <4>2
        <4> QED BY <4>1, <4>2
      <3> QED BY <3>6 DEF OneHeld, names
    <2>2. \A k \in Kinds : (k = "compositor" => ~force) => OneHeld(rest, life.bound, k)
      BY <2>1
    <2> QED BY <1>2, <1>3, <2>2 DEF Bound
  <1>6. SeatsKnown'
    BY <1>1, <1>2, <1>3 DEF SeatsKnown
  <1>7. Mirrored' BY <1>2, <1>3 DEF Mirrored
  <1> QED
    BY <1>3, <1>4, <1>5, <1>6, <1>7 DEF GlobalsInv, Shaped, Attached, Fits, Configured

\* What depended on a removed service goes with it, or moves to the one that waits.
LEMMA ReplacedKeeps ==
  ASSUME GlobalsInv, NEW name \in DOMAIN life.globals,
         life.globals[name].kind \notin {"compositor", "output"},
         life.bound[life.globals[name].kind] = name,
         LET g == life.globals[name]
             rest == Without(life.globals, name)
             new == Replacement(rest, g.kind) IN
         /\ life' = [life EXCEPT !.globals = rest, !.bound[g.kind] = new]
         /\ Keep(Replaced(Window, g, new))
         /\ server' = IF g.kind = "seat"
                      THEN [server EXCEPT !.pointer = FALSE, !.keyboard = FALSE]
                      ELSE IF g.kind = "fractional" THEN [server EXCEPT !.fraction = 0]
                      ELSE server,
         UNCHANGED applied
  PROVE  GlobalsInv'
  <1> DEFINE g == life.globals[name]
             kind == g.kind
             rest == Without(life.globals, name)
             new == Replacement(rest, kind)
             bound == [life.bound EXCEPT ![kind] = new]
             v == Replaced(Window, g, new)
  <1>1. /\ life' = [life EXCEPT !.globals = rest, !.bound[kind] = new]
        /\ obj' = v.b /\ scale' = v.s
        /\ server' = IF kind = "seat"
                     THEN [server EXCEPT !.pointer = FALSE, !.keyboard = FALSE]
                     ELSE IF kind = "fractional" THEN [server EXCEPT !.fraction = 0]
                     ELSE server
        /\ kind \notin {"compositor", "output"} /\ life.bound[kind] = name /\ applied' = applied
    BY DEF Keep
  <1>2. /\ IsLife(life) /\ IsProxies(obj) /\ IsScale(scale) /\ IsServer(server) /\ Named /\ Bound
        /\ SeatsKnown /\ Mirrored /\ Fits(obj, scale) /\ Attached(obj) /\ Configured(scale, applied)
    BY DEF GlobalsInv, Shaped
  <1>3. g \in Global /\ kind \in Kinds
    BY <1>1, <1>2 DEF IsLife, Global
  <1>4. /\ DOMAIN rest = DOMAIN life.globals \ {name}
        /\ \A n \in DOMAIN rest : rest[n] = life.globals[n] /\ rest[n] \in Global
        /\ DOMAIN rest \subseteq Nat /\ 0 \notin DOMAIN rest
        /\ DOMAIN rest \subseteq 1 .. server.last
        /\ \A k : {n \in DOMAIN rest : rest[n].kind = k}
                    = {n \in DOMAIN life.globals : life.globals[n].kind = k} \ {name}
    BY RestOfGlobals
  <1> HIDE DEF rest
  <1>5. /\ new \in Nat
        /\ IF {n \in DOMAIN rest : rest[n].kind = kind} = {} THEN new = Unbound
           ELSE new \in {n \in DOMAIN rest : rest[n].kind = kind} /\ new # Unbound
    BY <1>4, ReplacementIsAnnounced
  <1> HIDE DEF new
  <1>6. KnownSeat(obj, g)
    BY <1>1, <1>2, <1>3 DEF SeatsKnown, Global, KnownSeat
  <1>7. obj.failed = FALSE BY <1>2 DEF SeatsKnown
  <1>8. WindowGood(Window, applied) /\ Window.b = obj /\ Window.s = scale
    BY <1>2 DEF WindowGood, IsWindow, Window, Configured
  <1>9. /\ WindowGood(v, applied) /\ v.b.bound = [obj.bound EXCEPT ![kind] = new]
        /\ DevicesLeft(obj, v.b, kind) /\ SameSources(scale, v.s)
        /\ v.s.fraction = IF kind = "fractional" THEN 0 ELSE scale.fraction
    <2>1. Replaces(Window, v, applied, kind, new)
      <3> HIDE DEF g
      <3> QED BY <1>3, <1>5, <1>6, <1>7, <1>8, ReplacedGood
    <2> QED BY <1>8, <2>1 DEF Replaces
  <1>10. obj'.bound = bound
    BY <1>1, <1>2, <1>9 DEF Bound
  <1> HIDE DEF g, kind, v, bound
  <1>11. bound \in Bindings
         /\ \A j \in Kinds : bound[j] = IF j = kind THEN new ELSE life.bound[j]
    BY <1>2, <1>3, <1>5 DEF IsLife, Bindings, bound
  <1>12. life' = [life EXCEPT !.globals = rest, !.bound = bound]
    BY <1>1, <1>2 DEF IsLife, LifeFields, bound
  <1>13. IsLife(life)' /\ life'.globals = rest /\ life'.bound = bound
         /\ life'.force = life.force /\ life'.current = life.current
    BY <1>2, <1>4, <1>11, <1>12 DEF IsLife, LifeFields
  <1>14. IsServer(server)' /\ server'.scale = server.scale /\ server'.last = server.last
         /\ server'.entered = server.entered /\ server'.preferred = server.preferred
         /\ server'.size = server.size
         /\ server'.fraction = (IF kind = "fractional" THEN 0 ELSE server.fraction)
         /\ (kind = "seat" => server'.pointer = FALSE /\ server'.keyboard = FALSE)
         /\ (kind # "seat" => server'.pointer = server.pointer
                              /\ server'.keyboard = server.keyboard)
    BY <1>1, <1>2 DEF IsServer, ServerFields
  <1>15. IsProxies(obj)' /\ Attached(obj)' /\ IsScale(scale)' /\ Fits(obj, scale)'
         /\ Configured(scale, applied)'
    BY <1>1, <1>9 DEF WindowGood, IsWindow
  <1>16. obj'.outputs = obj.outputs /\ obj'.failed = FALSE
         /\ (kind = "seat" => obj'.pointer = FALSE /\ obj'.keyboard = FALSE)
         /\ (kind # "seat" => obj'.pointer = obj.pointer /\ obj'.keyboard = obj.keyboard)
    <2>1. DevicesLeft(obj, obj', kind) BY <1>1, <1>9
    <2>2. IF kind = "seat" THEN ~obj'.pointer /\ ~obj'.keyboard /\ obj'.failed = obj.failed
          ELSE SameDevices(obj, obj')
      BY <2>1 DEF DevicesLeft
    <2>3. obj'.outputs = obj.outputs BY <2>1 DEF DevicesLeft
    <2>4. CASE kind # "seat" BY <1>7, <2>2, <2>3, <2>4 DEF SameDevices
    <2>5. CASE kind = "seat"
      BY <1>7, <2>2, <2>3, <2>5
    <2> QED BY <2>4, <2>5
  <1>17. Mirrored'
    BY <1>1, <1>2, <1>9, <1>13, <1>14, <1>16 DEF Mirrored, SameSources
  <1>18. Named'
    <2>1. NamesOf("output")' = NamesOf("output")
      BY <1>1, <1>4, <1>13 DEF NamesOf, kind, g
    <2> QED BY <1>2, <1>4, <1>13, <1>14, <1>16, <2>1 DEF Named
  <1>19. Bound'
    <2>1. ASSUME NEW k \in Kinds, k = "compositor" => ~life.force
          PROVE  OneHeld(rest, bound, k)
      <3>1. OneHeld(life.globals, life.bound, k)
        BY <1>2, <2>1 DEF Bound
      <3> DEFINE names == {n \in DOMAIN rest : rest[n].kind = k}
                 old == {n \in DOMAIN life.globals : life.globals[n].kind = k}
      <3>2. names = old \ {name} /\ (k # kind => name \notin old) BY <1>4 DEF kind, g
      <3>3. IF old = {} THEN life.bound[k] = Unbound ELSE life.bound[k] \in old
        BY <3>1 DEF OneHeld
      <3>4. k = kind => IF names = {} THEN new = Unbound ELSE new \in names
        BY <1>5
      <3>5. bound[k] = IF k = kind THEN new ELSE life.bound[k] BY <1>11
      <3> HIDE DEF names, old
      <3>6. IF names = {} THEN bound[k] = Unbound ELSE bound[k] \in names
        <4>1. k # kind => names = old BY <3>2
        <4> QED BY <3>3, <3>4, <3>5, <4>1
      <3> QED BY <3>6 DEF OneHeld, names
    <2> QED BY <1>10, <1>13, <2>1 DEF Bound
  <1>20. SeatsKnown'
    <2> DEFINE seat == life.bound["seat"]
               seen == bound["seat"]
    <2>1. "seat" \in Kinds BY DEF Kinds
    <2>2. seen = IF kind = "seat" THEN new ELSE seat BY <1>11, <2>1
    <2>3. kind = "seat" => seat = name BY <1>1
    <2>4. /\ \A n \in DOMAIN life.globals :
              LET h == life.globals[n] IN
              IF n = seat THEN h.pointer = obj.pointer /\ h.keyboard = obj.keyboard
              ELSE ~h.pointer /\ ~h.keyboard
          /\ seat = Unbound => ~obj.pointer /\ ~obj.keyboard
          /\ obj.pointer = server.pointer /\ obj.keyboard = server.keyboard
          /\ obj.pointer \in BOOLEAN /\ obj.keyboard \in BOOLEAN
      BY <1>2 DEF SeatsKnown
    <2> HIDE DEF seat, seen
    <2>5. CASE kind = "seat"
      <3>1. \A n \in DOMAIN rest : ~rest[n].pointer /\ ~rest[n].keyboard
        BY <1>4, <2>3, <2>4, <2>5
      <3>2. \A n \in DOMAIN rest : rest[n].pointer = FALSE /\ rest[n].keyboard = FALSE
        <4> TAKE n \in DOMAIN rest
        <4>1. rest[n].pointer \in BOOLEAN /\ rest[n].keyboard \in BOOLEAN
          BY <1>4 DEF Global
        <4> QED BY <3>1, <4>1
      <3> QED BY <1>13, <1>14, <1>16, <2>5, <3>2 DEF SeatsKnown
    <2>6. CASE kind # "seat"
      <3>1. seen = seat /\ obj'.pointer = obj.pointer /\ obj'.keyboard = obj.keyboard
            /\ server'.pointer = server.pointer /\ server'.keyboard = server.keyboard
        BY <1>14, <1>16, <2>2, <2>6
      <3>2. \A n \in DOMAIN rest :
              LET h == rest[n] IN
              IF n = seen THEN h.pointer = obj'.pointer /\ h.keyboard = obj'.keyboard
              ELSE ~h.pointer /\ ~h.keyboard
        BY <1>4, <2>4, <3>1
      <3> QED BY <1>13, <1>16, <2>4, <3>1, <3>2 DEF SeatsKnown, seen
    <2> QED BY <2>5, <2>6
  <1> QED
    BY <1>13, <1>14, <1>15, <1>17, <1>18, <1>19, <1>20, <1>10 DEF GlobalsInv, Shaped

\* An output that goes takes with it what it said of the scale.
LEMMA OutputGoesKeeps ==
  ASSUME GlobalsInv, NEW name \in DOMAIN life.globals, life.globals[name].kind = "output",
         life' = [life EXCEPT !.globals = Without(@, name)],
         Keep([b |-> [obj EXCEPT !.outputs = @ \ {name}], s |-> WithoutOutput(scale, name)]),
         server' = [server EXCEPT !.entered = @ \ {name}],
         UNCHANGED applied
  PROVE  GlobalsInv'
  <1> DEFINE rest == Without(life.globals, name)
             left == obj.outputs \ {name}
             entered == server.entered \ {name}
             outputs == Without(scale.outputs, name)
             t == [scale EXCEPT !.outputs = outputs]
  <1>1. /\ IsLife(life) /\ IsProxies(obj) /\ IsScale(scale) /\ IsServer(server) /\ Named /\ Bound
        /\ SeatsKnown /\ Mirrored /\ Fits(obj, scale) /\ Attached(obj) /\ Configured(scale, applied)
    BY DEF GlobalsInv, Shaped
  <1>2. /\ obj' = [obj EXCEPT !.outputs = left] /\ server' = [server EXCEPT !.entered = entered]
        /\ scale' = Refresh_(t) /\ life' = [life EXCEPT !.globals = rest]
    BY DEF Keep, WithoutOutput
  <1>3. /\ DOMAIN rest = DOMAIN life.globals \ {name}
        /\ \A n \in DOMAIN rest : rest[n] = life.globals[n] /\ rest[n] \in Global
        /\ DOMAIN rest \subseteq 1 .. server.last
        /\ \A k : {n \in DOMAIN rest : rest[n].kind = k}
                    = {n \in DOMAIN life.globals : life.globals[n].kind = k} \ {name}
    BY RestOfGlobals
  <1>4. outputs = [n \in left |-> [scale |-> server.scale[n], entered |-> n \in entered]]
    <2> DEFINE out(n) == [scale |-> server.scale[n], entered |-> n \in server.entered]
    <2>1. scale.outputs = [n \in obj.outputs |-> out(n)]
      BY <1>1 DEF Mirrored
    <2>2. \A n \in left : (n \in entered) = (n \in server.entered) OBVIOUS
    <2>3. \A n \in left : out(n) = [scale |-> server.scale[n], entered |-> n \in entered]
      BY <2>2
    <2> HIDE DEF out
    <2>4. outputs = [n \in left |-> out(n)] BY <2>1 DEF Without, Restrict
    <2> HIDE DEF outputs, left, entered
    <2> QED BY <2>3, <2>4
  <1> HIDE DEF rest, left, entered, outputs
  <1>5. IsProxies(obj)' /\ obj'.outputs = left /\ obj'.bound = obj.bound
        /\ obj'.pointer = obj.pointer /\ obj'.keyboard = obj.keyboard
        /\ obj'.failed = obj.failed /\ obj'.viewport = obj.viewport
        /\ obj'.fractional = obj.fractional /\ obj'.device = obj.device
    BY <1>1, <1>2 DEF IsProxies, ProxyFields
  <1>6. IsScale(t) /\ t.pending = scale.pending /\ t.config = scale.config
        /\ t.outputs = outputs /\ t.preferred = scale.preferred /\ t.fraction = scale.fraction
        /\ t.viewport = scale.viewport /\ t.fractional = scale.fractional /\ t.size = scale.size
    BY <1>1 DEF IsScale, ScaleFields
  <1>7. IsServer(server)' /\ server'.scale = server.scale
        /\ server'.last = server.last /\ server'.entered = entered
        /\ server'.preferred = server.preferred /\ server'.fraction = server.fraction
        /\ server'.pointer = server.pointer /\ server'.keyboard = server.keyboard
        /\ server'.size = server.size
    BY <1>1, <1>2 DEF IsServer, ServerFields
  <1>8. IsLife(life)' /\ life'.globals = rest /\ life'.bound = life.bound
        /\ life'.force = life.force /\ life'.current = life.current
    BY <1>1, <1>2, <1>3 DEF IsLife, LifeFields
  <1> HIDE DEF t
  <1>9. IsScale(scale)' /\ Configured(scale, applied)' /\ SameInputs(t, scale')
    BY <1>2, <1>6, ScaleFollows
  <1>10. Mirrored'
    BY <1>1, <1>4, <1>5, <1>6, <1>7, <1>8, <1>9 DEF Mirrored, SameInputs
  <1>11. Named'
    <2>1. NamesOf("output")' = NamesOf("output") \ {name}
      BY <1>3, <1>8 DEF NamesOf
    <2>2. entered \subseteq left BY <1>1 DEF Named, entered, left
    <2> QED BY <1>1, <1>3, <1>5, <1>7, <1>8, <2>1, <2>2 DEF Named, left
  <1>12. Bound'
    <2>1. \A k \in Kinds : k # "output" BY DEF Kinds
    <2>2. \A k \in Kinds : {n \in DOMAIN rest : rest[n].kind = k}
                             = {n \in DOMAIN life.globals : life.globals[n].kind = k}
      BY <1>3, <2>1
    <2>3. \A k \in Kinds : OneHeld(rest, life.bound, k) = OneHeld(life.globals, life.bound, k)
      BY <2>2 DEF OneHeld
    <2> QED BY <1>1, <1>5, <1>8, <2>3 DEF Bound
  <1>13. SeatsKnown'
    BY <1>1, <1>3, <1>5, <1>7, <1>8 DEF SeatsKnown
  <1>14. Fits(obj, scale)' /\ Attached(obj)'
    BY <1>1, <1>5, <1>6, <1>9 DEF Fits, Attached, SameInputs
  <1> QED
    BY <1>5, <1>7, <1>8, <1>9, <1>10, <1>11, <1>12, <1>13, <1>14 DEF GlobalsInv, Shaped

LEMMA RemoveGlobalKeeps ==
  ASSUME GlobalsInv, RemoveGlobal
  PROVE  GlobalsInv'
  <1>1. PICK name \in DOMAIN life.globals :
          LET g == life.globals[name]
              rest == Without(life.globals, name)
          IN \/ /\ g.kind = "compositor" /\ life.bound[g.kind] = name
                /\ life' = [life EXCEPT !.globals = rest, !.force = TRUE]
                /\ UNCHANGED <<obj, scale, server>>
             \/ /\ g.kind = "output"
                /\ life' = [life EXCEPT !.globals = rest]
                /\ Keep([b |-> [obj EXCEPT !.outputs = @ \ {name}],
                         s |-> WithoutOutput(scale, name)])
                /\ server' = [server EXCEPT !.entered = @ \ {name}]
             \/ /\ g.kind \notin {"compositor", "output"} /\ life.bound[g.kind] = name
                /\ LET new == Replacement(rest, g.kind) IN
                   /\ life' = [life EXCEPT !.globals = rest, !.bound[g.kind] = new]
                   /\ Keep(Replaced(Window, g, new))
                /\ server' = IF g.kind = "seat"
                             THEN [server EXCEPT !.pointer = FALSE, !.keyboard = FALSE]
                             ELSE IF g.kind = "fractional" THEN [server EXCEPT !.fraction = 0]
                             ELSE server
             \/ /\ g.kind # "output" /\ life.bound[g.kind] # name
                /\ life' = [life EXCEPT !.globals = rest]
                /\ UNCHANGED <<obj, scale, server>>
    BY DEF RemoveGlobal
  <1>2. UNCHANGED applied BY DEF RemoveGlobal
  <1> DEFINE g == life.globals[name]
  <1>3. IsLife(life) BY DEF GlobalsInv, Shaped
  <1>4. CASE /\ g.kind = "compositor"
             /\ life' = [life EXCEPT !.globals = Without(@, name), !.force = TRUE]
             /\ UNCHANGED <<obj, scale, server>>
    BY <1>2, <1>4, ForgottenKeeps
  <1>5. CASE /\ g.kind = "output"
             /\ life' = [life EXCEPT !.globals = Without(@, name)]
             /\ Keep([b |-> [obj EXCEPT !.outputs = @ \ {name}], s |-> WithoutOutput(scale, name)])
             /\ server' = [server EXCEPT !.entered = @ \ {name}]
    BY <1>2, <1>5, OutputGoesKeeps
  <1>6. CASE /\ g.kind \notin {"compositor", "output"} /\ life.bound[g.kind] = name
             /\ LET rest == Without(life.globals, name)
                    new == Replacement(rest, g.kind) IN
                /\ life' = [life EXCEPT !.globals = rest, !.bound[g.kind] = new]
                /\ Keep(Replaced(Window, g, new))
                /\ server' = IF g.kind = "seat"
                             THEN [server EXCEPT !.pointer = FALSE, !.keyboard = FALSE]
                             ELSE IF g.kind = "fractional" THEN [server EXCEPT !.fraction = 0]
                             ELSE server
    BY <1>2, <1>6, ReplacedKeeps
  <1>7. CASE /\ g.kind # "output" /\ life.bound[g.kind] # name
             /\ life' = [life EXCEPT !.globals = Without(@, name)]
             /\ UNCHANGED <<obj, scale, server>>
    <2> DEFINE force == life.force
    <2>1. life' = [life EXCEPT !.globals = Without(@, name), !.force = force]
          /\ force \in BOOLEAN
      BY <1>3, <1>7 DEF IsLife, LifeFields
    <2> HIDE DEF force
    <2>2. force = life.force \/ force = TRUE BY DEF force
    <2> QED BY <1>2, <1>7, <2>1, <2>2, ForgottenKeeps
  <1> QED BY <1>1, <1>4, <1>5, <1>6, <1>7

-----------------------------------------------------------------------------
(* The invariant *)

LEMMA GlobalsInvInit ==
  ASSUME GlobalsInit
  PROVE  GlobalsInv
  <1>1. /\ life = [globals |-> Nothing, bound |-> [k \in Kinds |-> Unbound], force |-> FALSE,
                   current |-> First]
        /\ obj = [bound |-> [k \in Kinds |-> Unbound], outputs |-> {}, viewport |-> FALSE,
                  fractional |-> FALSE, device |-> FALSE, pointer |-> FALSE,
                  keyboard |-> FALSE, failed |-> FALSE]
        /\ applied = [size |-> First, scale |-> 1, fractional |-> FALSE]
        /\ scale = [outputs |-> Nothing, preferred |-> 0, fraction |-> 0, viewport |-> FALSE,
                    fractional |-> FALSE, size |-> First, pending |-> TRUE, config |-> applied]
        /\ server = [last |-> 0, scale |-> [n \in Names |-> 1], entered |-> {},
                     preferred |-> 0, fraction |-> 0, pointer |-> FALSE, keyboard |-> FALSE,
                     size |-> First]
    BY DEF GlobalsInit
  <1>2. DOMAIN Nothing = {} BY DEF Nothing
  <1>3. Shaped
    <2>1. IsLife(life) BY <1>1, <1>2 DEF IsLife, LifeFields, Bindings, Unbound
    <2>2. IsProxies(obj) BY <1>1 DEF IsProxies, ProxyFields, Bindings, Unbound
    <2>3. IsScale(scale) BY <1>1 DEF IsScale, ScaleFields
    <2>4. IsServer(server)
      <3>1. server = [f \in ServerFields |-> server[f]] BY <1>1 DEF ServerFields
      <3>2. server.last = 0 /\ server.scale = [n \in Names |-> 1] BY <1>1
      <3>3. 0 \in 0 .. MaxNames BY GlobalsBounds DEF GlobalsBounds
      <3> QED BY <3>1, <3>2, <3>3 DEF IsServer
    <2> QED BY <2>1, <2>2, <2>3, <2>4 DEF Shaped
  <1>4. Named BY <1>1, <1>2 DEF Named, NamesOf
  <1>5. Bound BY <1>1, <1>2 DEF Bound, OneHeld
  <1>6. Attached(obj) BY <1>1 DEF Attached, HasDevice, Kinds
  <1>7. SeatsKnown BY <1>1, <1>2 DEF SeatsKnown
  <1>8. Mirrored BY <1>1, <1>2 DEF Mirrored, Nothing
  <1>9. Fits(obj, scale) BY <1>1 DEF Fits
  <1>10. Configured(scale, applied)
    <2>1. {scale.outputs[n].scale : n \in {m \in DOMAIN scale.outputs : scale.outputs[m].entered}} = {}
      BY <1>1, <1>2
    <2>2. Max({} \cup {1}) = 1
      <3>1. {} \cup {1} = {1} OBVIOUS
      <3>2. \A x : x \in {1} /\ (\A y \in {1} : x >= y) <=> x = 1 OBVIOUS
      <3> QED BY <3>1, <3>2 DEF Max
    <2>3. Calculate(scale) = [size |-> First, fractional |-> FALSE, scale |-> 1]
      BY <1>1, <2>1, <2>2 DEF Calculate
    <2> QED BY <1>1, <2>3 DEF Configured
  <1> QED BY <1>3, <1>4, <1>5, <1>6, <1>7, <1>8, <1>9, <1>10 DEF GlobalsInv

LEMMA GlobalsInvNext ==
  ASSUME GlobalsInv, [GlobalsNext]_globalVars
  PROVE  GlobalsInv'
  <1>1. CASE AddGlobal BY <1>1, AddGlobalKeeps
  <1>2. CASE RemoveGlobal BY <1>2, RemoveGlobalKeeps
  <1>3. CASE SeatCapabilities BY <1>3, SeatCapabilitiesKeeps
  <1>4. CASE SurfaceOutput BY <1>4, SurfaceOutputKeeps
  <1>5. CASE OutputScale BY <1>5, OutputScaleKeeps
  <1>6. CASE PreferredScale BY <1>6, PreferredScaleKeeps
  <1>7. CASE FractionalScale BY <1>7, FractionalScaleKeeps
  <1>8. CASE SurfaceConfigure BY <1>8, SurfaceConfigureKeeps
  <1>9. CASE TakeScale BY <1>9, TakeScaleKeeps
  <1>10. CASE UNCHANGED globalVars
    BY <1>10 DEF globalVars, GlobalsInv, Shaped, Named, NamesOf, Bound, Attached, SeatsKnown,
                 Mirrored, Fits, Configured
  <1> QED
    BY <1>1, <1>2, <1>3, <1>4, <1>5, <1>6, <1>7, <1>8, <1>9, <1>10 DEF GlobalsNext

\* The invariant says of the window what it should be.
LEMMA InvAgrees ==
  ASSUME GlobalsInv
  PROVE  GlobalsAgree
  <1>1. /\ IsLife(life) /\ IsProxies(obj) /\ IsScale(scale) /\ IsServer(server) /\ Named /\ Bound
        /\ SeatsKnown /\ Mirrored /\ Fits(obj, scale) /\ Attached(obj) /\ Configured(scale, applied)
    BY DEF GlobalsInv, Shaped
  <1>2. GlobalsTypeOK
    BY <1>1 DEF GlobalsTypeOK, Named, SeatsKnown, Mirrored, Configured
  <1>3. ServicesAreBound
    <2>1. \A k \in Kinds : (k = "compositor" => ~life.force) =>
            IF NamesOf(k) = {} THEN life.bound[k] = Unbound ELSE life.bound[k] \in NamesOf(k)
      BY <1>1 DEF Bound, OneHeld, NamesOf
    <2> QED BY <1>1, <2>1 DEF ServicesAreBound, Bound
  <1>4. DependentsFollow
    BY <1>1 DEF DependentsFollow, Attached, SeatsKnown
  <1>5. ScaleIsCurrent
    <2> DEFINE entered == {server.scale[n] : n \in server.entered \cap NamesOf("output")}
               whole == IF server.preferred # 0 THEN server.preferred ELSE Max(entered \cup {1})
               fractional == /\ NamesOf("viewporter") # {} /\ NamesOf("fractional") # {}
                             /\ server.fraction # 0
    <2>1. {scale.outputs[n].scale : n \in {m \in DOMAIN scale.outputs : scale.outputs[m].entered}}
            = entered
      <3>1. DOMAIN scale.outputs = obj.outputs
            /\ \A n \in obj.outputs : /\ scale.outputs[n].scale = server.scale[n]
                                      /\ scale.outputs[n].entered = (n \in server.entered)
        BY <1>1 DEF Mirrored
      <3>2. obj.outputs = NamesOf("output") /\ server.entered \subseteq obj.outputs
        BY <1>1 DEF Named
      <3>3. {m \in DOMAIN scale.outputs : scale.outputs[m].entered}
              = server.entered \cap NamesOf("output")
        BY <3>1, <3>2
      <3> QED BY <3>1, <3>2, <3>3
    <2>2. \A k \in {"viewporter", "fractional"} :
            (obj.bound[k] # Unbound) = (NamesOf(k) # {})
      <3>1. \A n \in DOMAIN life.globals : n # Unbound
        BY <1>1 DEF Named, Unbound, IsServer
      <3>2. \A k \in {"viewporter", "fractional"} :
              IF NamesOf(k) = {} THEN obj.bound[k] = Unbound ELSE obj.bound[k] \in NamesOf(k)
        BY <1>1 DEF Bound, OneHeld, NamesOf, Kinds
      <3> QED BY <3>1, <3>2 DEF NamesOf
    <2>3. (scale.viewport /\ scale.fractional /\ scale.fraction # 0) = fractional
      BY <1>1, <2>2 DEF Fits, Attached, Mirrored
    <2>4. scale.config = Calculate(scale) /\ (~scale.pending => applied = scale.config)
      BY <1>1 DEF Configured
    <2>5. scale.preferred = server.preferred /\ scale.fraction = server.fraction
          /\ scale.size = server.size
      BY <1>1 DEF Mirrored
    <2> HIDE DEF entered, fractional
    <2>6. Calculate(scale) = [size |-> server.size, fractional |-> fractional,
                              scale |-> IF fractional THEN server.fraction ELSE whole]
      <3>1. CASE fractional
        <4>1. fractional = TRUE BY <3>1 DEF fractional
        <4> QED BY <2>1, <2>3, <2>5, <4>1 DEF Calculate
      <3>2. CASE ~fractional
        <4>1. fractional = FALSE BY <3>2 DEF fractional
        <4> QED BY <2>1, <2>3, <2>5, <4>1 DEF Calculate
      <3> QED BY <3>1, <3>2
    <2> QED BY <2>4, <2>6 DEF ScaleIsCurrent, entered, fractional
  <1> QED BY <1>2, <1>3, <1>4, <1>5 DEF GlobalsAgree

\* Whatever the compositor announces, removes and says: the window holds a proxy of each
\* service that is there and none of another, with the objects that depend on it, none is
\* made over one that is held, and the surface has, or is about to have, the scale and size
\* that follow from what was said last.
THEOREM ObjectsFollowGlobals == GlobalsSpec => []GlobalsAgree
  <1>1. GlobalsInit => GlobalsInv BY GlobalsInvInit
  <1>2. GlobalsInv /\ [GlobalsNext]_globalVars => GlobalsInv' BY GlobalsInvNext
  <1>3. GlobalsInv => GlobalsAgree BY InvAgrees
  <1> QED BY <1>1, <1>2, <1>3, PTL DEF GlobalsSpec

(* Frames. *)

(* Rectangles, and sets of them that are within the limit. *)
Rects == {r \in Cells \X Cells : r[1] <= r[2]}
Damages == {rs \in SUBSET Rects : Cardinality(rs) <= MaxRectangles}

\* Induction up to n, over the set of the numbers a fact holds of.
LEMMA Inductive ==
  ASSUME NEW n \in Nat, NEW H, 0 \in H, \A i \in 1 .. n : i - 1 \in H => i \in H
  PROVE  \A i \in 0 .. n : i \in H
  <1> DEFINE T == {i \in 0 .. n : i \notin H}
  <1> SUFFICES ASSUME T # {} PROVE FALSE OBVIOUS
  <1>1. T \subseteq Nat OBVIOUS
  <1>2. PICK m \in T : \A i \in T : m <= i BY <1>1, LeastNatural
  <1>3. m \in 1 .. n /\ m - 1 \in 0 .. n BY <1>2
  <1>4. m - 1 \in H BY <1>2, <1>3
  <1> QED BY <1>2, <1>3, <1>4

LEMMA InCells ==
  ASSUME NEW rs, rs \subseteq Rects, NEW c
  PROVE  c \in CellsOf(rs) <=> \E r \in rs : c \in Int /\ r[1] <= c /\ c <= r[2]
  BY FrameBounds DEF CellsOf, Rects, Cells

LEMMA CellsOfUnion ==
  ASSUME NEW rs, NEW ss
  PROVE  CellsOf(rs \cup ss) = CellsOf(rs) \cup CellsOf(ss)
  BY DEF CellsOf

LEMMA CellsOfNone == CellsOf({}) = {}
  BY DEF CellsOf

\* The whole window is a rectangle that holds every cell.
LEMMA WholeIsAll == Whole \in Rects /\ CellsOf({Whole}) = Cells
  BY FrameBounds DEF Whole, Rects, Cells, CellsOf

LEMMA RectsAreFinite ==
  ASSUME NEW rs, rs \subseteq Rects
  PROVE  IsFiniteSet(rs) /\ Cardinality(rs) \in Nat
  <1>1. IsFiniteSet(Cells) BY FS_Interval, FrameBounds DEF Cells
  <1>2. IsFiniteSet(Cells \X Cells) BY <1>1, FS_Product
  <1>3. rs \subseteq Cells \X Cells BY DEF Rects
  <1>4. IsFiniteSet(rs) BY <1>2, <1>3, FS_Subset
  <1> QED BY <1>4, FS_CardinalityType

LEMMA FewAreDamage ==
  /\ {} \in Damages
  /\ \A r \in Rects : {r} \in Damages
  BY FS_EmptySet, FS_Singleton, FrameBounds DEF Damages

\* The bounds of damage hold all of it.
LEMMA BoundsHold ==
  ASSUME NEW rs, rs \subseteq Rects, rs # {}
  PROVE  Bounds(rs) \in Rects /\ CellsOf(rs) \subseteq CellsOf({Bounds(rs)})
  <1> DEFINE lows == {r[1] : r \in rs}
             highs == {r[2] : r \in rs}
             l == CHOOSE x \in lows : \A r \in rs : x <= r[1]
             h == CHOOSE x \in highs : \A r \in rs : x >= r[2]
  <1>0. \A r \in rs : r[1] \in Cells /\ r[2] \in Cells /\ r[1] <= r[2]
    BY DEF Rects
  <1>1. l \in lows /\ \A r \in rs : l <= r[1]
    <2>1. lows \subseteq Nat /\ lows # {} BY <1>0, FrameBounds DEF Cells
    <2> HIDE DEF lows
    <2>2. PICK m \in lows : \A n \in lows : m <= n BY <2>1, LeastNatural
    <2>3. \A r \in rs : m <= r[1] BY <2>2 DEF lows
    <2> QED BY <2>2, <2>3
  <1>2. h \in highs /\ \A r \in rs : h >= r[2]
    <2> DEFINE below == {Height - x : x \in highs}
    <2>1. below \subseteq Nat /\ below # {} BY <1>0, FrameBounds DEF Cells
    <2>2. PICK m \in below : \A n \in below : m <= n BY <2>1, LeastNatural
    <2>3. PICK x \in highs : m = Height - x BY <2>2
    <2>4. \A r \in rs : x >= r[2]
      <3> TAKE r \in rs
      <3>1. m <= Height - r[2] BY <2>2
      <3>2. x \in Nat /\ r[2] \in Nat BY <1>0, FrameBounds DEF Cells
      <3> HIDE DEF below, highs
      <3> QED BY <2>3, <3>1, <3>2, FrameBounds
    <2> HIDE DEF highs
    <2> QED BY <2>3, <2>4
  <1>3. Bounds(rs) = <<l, h>> BY DEF Bounds
  <1>4. l \in Cells /\ h \in Cells BY <1>0, <1>1, <1>2
  <1> HIDE DEF l, h
  <1>5. l <= h
    <2>1. PICK r \in rs : TRUE OBVIOUS
    <2> QED BY <1>0, <1>1, <1>2, <1>4, <2>1 DEF Cells
  <1>6. Bounds(rs) \in Rects BY <1>3, <1>4, <1>5 DEF Rects
  <1>7. ASSUME NEW c \in CellsOf(rs) PROVE c \in CellsOf({Bounds(rs)})
    <2>1. PICK r \in rs : c \in Int /\ r[1] <= c /\ c <= r[2] BY InCells
    <2>2. l <= c /\ c <= h BY <1>0, <1>1, <1>2, <1>4, <2>1 DEF Cells
    <2> QED BY <1>3, <1>6, <2>1, <2>2, InCells
  <1> QED BY <1>6, <1>7

\* Damage within the limit is kept, and merged damage still holds it.
LEMMA LimitedHolds ==
  ASSUME NEW rs, rs \subseteq Rects
  PROVE  Limited(rs) \in Damages /\ CellsOf(rs) \subseteq CellsOf(Limited(rs))
  <1>1. Cardinality(rs) \in Nat BY RectsAreFinite
  <1>2. CASE Cardinality(rs) > MaxRectangles
    <2>1. rs # {} BY <1>2, FS_EmptySet, FrameBounds
    <2> QED BY <1>2, <2>1, BoundsHold, FewAreDamage DEF Limited
  <1>3. CASE ~(Cardinality(rs) > MaxRectangles)
    BY <1>1, <1>3, FrameBounds DEF Limited, Damages
  <1> QED BY <1>2, <1>3

LEMMA AppendHolds ==
  ASSUME NEW rs \in Damages, NEW ss \in Damages
  PROVE  /\ AppendDamage(rs, ss) \in Damages
         /\ CellsOf(rs) \cup CellsOf(ss) \subseteq CellsOf(AppendDamage(rs, ss))
  <1>1. rs \cup ss \subseteq Rects BY DEF Damages
  <1> QED BY <1>1, LimitedHolds, CellsOfUnion DEF AppendDamage

LEMMA InvalidateHolds ==
  ASSUME NEW rs \in Damages, NEW r \in Rects
  PROVE  /\ Limited(rs \cup {r}) \in Damages
         /\ CellsOf(rs) \cup CellsOf({r}) \subseteq CellsOf(Limited(rs \cup {r}))
  <1>1. rs \cup {r} \subseteq Rects BY DEF Damages
  <1> QED BY <1>1, LimitedHolds, CellsOfUnion

\* The loop over the history is defined for every history, whatever its length: it
\* starts from the damage to submit and appends that of a frame at each turn.
LEMMA AccumulatedUnfolds ==
  ASSUME NEW damage, NEW history, NEW n \in Nat
  PROVE  \E g : /\ g = [i \in 0 .. n |->
                          IF i = 0 THEN damage ELSE AppendDamage(g[i - 1], history[i])]
                /\ Accumulated(damage, history, n) = g[n]
  <1> DEFINE Turns(g, m) == g = [i \in 0 .. m |->
                  IF i = 0 THEN damage ELSE AppendDamage(g[i - 1], history[i])]
             H == {m \in 0 .. n : \E g : Turns(g, m)}
  <1>1. 0 \in H
    <2>1. Turns([i \in 0 .. 0 |-> damage], 0) OBVIOUS
    <2> HIDE DEF Turns
    <2> QED BY <2>1
  <1>2. ASSUME NEW m \in 1 .. n, m - 1 \in H PROVE m \in H
    <2>1. PICK g : Turns(g, m - 1) BY <1>2
    <2> DEFINE f == [i \in 0 .. m |->
                       IF i = m THEN AppendDamage(g[m - 1], history[m]) ELSE g[i]]
    <2>2. ASSUME NEW i \in 0 .. m
          PROVE  f[i] = IF i = 0 THEN damage ELSE AppendDamage(f[i - 1], history[i])
      <3>1. CASE i = m
        <4>1. m - 1 \in 0 .. m /\ m - 1 # m BY <1>2
        <4> QED BY <1>2, <3>1, <4>1
      <3>2. CASE i # m
        <4>1. i \in 0 .. m - 1 BY <3>2
        <4>2. g[i] = IF i = 0 THEN damage ELSE AppendDamage(g[i - 1], history[i])
          BY <2>1, <4>1
        <4>3. i # 0 => i - 1 \in 0 .. m /\ i - 1 # m BY <3>2
        <4> QED BY <3>2, <4>2, <4>3
      <3> QED BY <3>1, <3>2
    <2>3. Turns(f, m)
      <3> DEFINE e == [i \in 0 .. m |->
                         IF i = 0 THEN damage ELSE AppendDamage(f[i - 1], history[i])]
      <3>1. \A i \in 0 .. m : f[i] = e[i] BY <2>2
      <3> QED BY <3>1
    <2> HIDE DEF Turns, f
    <2> QED BY <2>3
  <1> HIDE DEF H
  <1>3. n \in H BY <1>1, <1>2, Inductive
  <1>4. PICK g : g = [i \in 0 .. n |->
                   IF i = 0 THEN damage ELSE AppendDamage(g[i - 1], history[i])]
    BY <1>3 DEF H
  <1> QED BY <1>4, Zenon DEF Accumulated

\* What it makes of damage and history is damage that holds all of both.
LEMMA AccumulatedHolds ==
  ASSUME NEW damage \in Damages, NEW history \in Seq(Damages), NEW n \in 0 .. Len(history)
  PROVE  /\ Accumulated(damage, history, n) \in Damages
         /\ CellsOf(damage) \subseteq CellsOf(Accumulated(damage, history, n))
         /\ \A i \in 1 .. n :
              CellsOf(history[i]) \subseteq CellsOf(Accumulated(damage, history, n))
  <1>0. n \in Nat OBVIOUS
  <1>1. PICK g : /\ g = [i \in 0 .. n |->
                           IF i = 0 THEN damage ELSE AppendDamage(g[i - 1], history[i])]
                 /\ Accumulated(damage, history, n) = g[n]
    BY <1>0, AccumulatedUnfolds
  <1> DEFINE Holds(m) == /\ g[m] \in Damages /\ CellsOf(damage) \subseteq CellsOf(g[m])
                         /\ \A i \in 1 .. m : CellsOf(history[i]) \subseteq CellsOf(g[m])
             H == {m \in 0 .. n : Holds(m)}
  <1>2. g[0] = damage BY <1>0, <1>1
  <1>3. \A m \in 1 .. n : g[m] = AppendDamage(g[m - 1], history[m]) BY <1>0, <1>1
  <1>4. 0 \in H BY <1>0, <1>2
  <1>5. ASSUME NEW m \in 1 .. n, m - 1 \in H PROVE m \in H
    <2>1. Holds(m - 1) BY <1>5
    <2>2. history[m] \in Damages BY <1>5
    <2>3. g[m] \in Damages /\ CellsOf(g[m - 1]) \cup CellsOf(history[m]) \subseteq CellsOf(g[m])
      BY <1>3, <2>1, <2>2, AppendHolds
    <2>4. \A i \in 1 .. m : i = m \/ i \in 1 .. m - 1 OBVIOUS
    <2>5. Holds(m) BY <2>1, <2>3, <2>4
    <2> QED BY <2>5
  <1> HIDE DEF H
  <1>6. n \in H BY <1>0, <1>4, <1>5, Inductive
  <1> QED BY <1>1, <1>6 DEF H

-----------------------------------------------------------------------------
(* Feedback *)

Distinct(s) == \A i, j \in 1 .. Len(s) : s[i] = s[j] => i = j

\* Every element of such a sequence has one place.
LEMMA DistinctPlaces ==
  ASSUME NEW s, Distinct(s), NEW i \in 1 .. Len(s), NEW j \in 1 .. Len(s), s[i] = s[j]
  PROVE  i = j
  BY DEF Distinct

\* Erasing the feedback of a submission leaves that of the others, in order.
LEMMA RemoveFirstErases ==
  ASSUME NEW s \in Seq(Nat), Distinct(s), NEW x
  PROVE  /\ RemoveFirst(s, x) \in Seq(Nat) /\ Distinct(RemoveFirst(s, x))
         /\ Len(RemoveFirst(s, x)) <= Len(s)
         /\ ToSet(RemoveFirst(s, x)) = ToSet(s) \ {x}
  <1>1. CASE ~ \E i \in 1 .. Len(s) : s[i] = x
    BY <1>1 DEF RemoveFirst, ToSet
  <1>2. CASE \E i \in 1 .. Len(s) : s[i] = x
    <2> DEFINE I == {i \in 1 .. Len(s) : s[i] = x}
               k == SelectInSeq(s, LAMBDA v : v = x)
               t == RemoveAt(s, k)
    <2>1. I # {} /\ I \subseteq Nat BY <1>2
    <2>2. k = Min(I) BY <2>1 DEF SelectInSeq
    <2>3. \E m \in I : \A n \in I : m <= n BY <2>1, LeastNatural
    <2> HIDE DEF I
    <2>4. Min(I) \in I BY <2>3 DEF Min
    <2>5. k \in 1 .. Len(s) /\ s[k] = x BY <2>2, <2>4 DEF I
    <2>0. Len(s) \in Nat /\ k \in Nat /\ 1 <= k /\ k <= Len(s) BY <2>5
    <2>6. RemoveFirst(s, x) = t BY <1>2 DEF RemoveFirst
    <2> HIDE DEF k
    <2> DEFINE a == SubSeq(s, 1, k - 1)
               b == SubSeq(s, k + 1, Len(s))
    <2>7. /\ a \in Seq(Nat) /\ Len(a) = k - 1 /\ \A i \in 1 .. k - 1 : a[i] = s[i]
          /\ b \in Seq(Nat) /\ Len(b) = Len(s) - k
          /\ \A i \in 1 .. Len(s) - k : b[i] = s[k + i]
      BY <2>5
    <2>8. t = a \o b BY DEF RemoveAt
    <2> HIDE DEF t, a, b
    <2>9. /\ t \in Seq(Nat) /\ Len(t) = Len(s) - 1
          /\ \A i \in 1 .. Len(s) - 1 : t[i] = IF i < k THEN s[i] ELSE s[i + 1]
      <3>1. t \in Seq(Nat) /\ Len(t) = Len(a) + Len(b) BY <2>7, <2>8
      <3>2. Len(t) = Len(s) - 1 BY <2>5, <2>7, <3>1
      <3>3. \A i \in 1 .. Len(a) + Len(b) :
              t[i] = IF i <= Len(a) THEN a[i] ELSE b[i - Len(a)]
        BY <2>7, <2>8
      <3>4. ASSUME NEW i \in 1 .. Len(s) - 1
            PROVE  t[i] = IF i < k THEN s[i] ELSE s[i + 1]
        <4>0. i \in 1 .. Len(a) + Len(b) BY <2>0, <2>7
        <4>1. CASE i < k
          <5>1. i \in 1 .. k - 1 /\ i <= Len(a) BY <2>0, <2>7, <4>1
          <5>2. t[i] = a[i] BY <3>3, <4>0, <5>1
          <5> QED BY <2>7, <4>1, <5>1, <5>2
        <4>2. CASE ~(i < k)
          <5>1. i - (k - 1) \in 1 .. Len(s) - k /\ k + (i - (k - 1)) = i + 1 BY <2>0, <4>2
          <5>2. ~(i <= Len(a)) /\ i - Len(a) = i - (k - 1) BY <2>0, <2>7, <4>2
          <5>3. t[i] = b[i - Len(a)] BY <3>3, <4>0, <5>2
          <5> QED BY <2>7, <4>2, <5>1, <5>2, <5>3
        <4> QED BY <4>1, <4>2
      <3> QED BY <3>1, <3>2, <3>4
    <2>10. Distinct(t)
      <3> SUFFICES ASSUME NEW i \in 1 .. Len(t), NEW j \in 1 .. Len(t), t[i] = t[j]
                   PROVE  i = j
        BY <2>9 DEF Distinct
      <3> DEFINE from(n) == IF n < k THEN n ELSE n + 1
      <3>0. i \in 1 .. Len(s) - 1 /\ j \in 1 .. Len(s) - 1 BY <2>9
      <3>1. from(i) \in 1 .. Len(s) /\ from(j) \in 1 .. Len(s) BY <2>0, <3>0
      <3>2. s[from(i)] = s[from(j)] BY <2>9, <3>0
      <3>3. from(i) = from(j) BY <3>1, <3>2 DEF Distinct
      <3> QED BY <2>0, <3>0, <3>3
    <2>11. ToSet(t) = ToSet(s) \ {x}
      <3>1. ASSUME NEW y \in ToSet(t) PROVE y \in ToSet(s) \ {x}
        <4>1. PICK i \in 1 .. Len(t) : y = t[i] BY <2>9 DEF ToSet
        <4> DEFINE n == IF i < k THEN i ELSE i + 1
        <4>2. n \in 1 .. Len(s) /\ n # k /\ y = s[n]
          <5>1. i \in 1 .. Len(s) - 1 /\ y = s[n] BY <2>9, <4>1
          <5>2. k \in 1 .. Len(s) /\ Len(s) \in Nat BY <2>5
          <5>3. n \in 1 .. Len(s) /\ n # k BY <5>1, <5>2
          <5> QED BY <5>1, <5>3
        <4> HIDE DEF n
        <4>3. k \in 1 .. Len(s) /\ s[k] = x BY <2>5
        <4>4. s[n] # s[k] BY <4>2, <4>3, DistinctPlaces
        <4> QED BY <4>2, <4>3, <4>4 DEF ToSet
      <3>2. ASSUME NEW y \in ToSet(s), y # x PROVE y \in ToSet(t)
        <4>1. PICK n \in 1 .. Len(s) : y = s[n] BY DEF ToSet
        <4>2. n # k BY <2>5, <3>2, <4>1
        <4> DEFINE i == IF n < k THEN n ELSE n - 1
        <4>3. i \in 1 .. Len(s) - 1 /\ n = IF i < k THEN i ELSE i + 1
          BY <2>0, <4>2
        <4>4. t[i] = s[n] BY <2>9, <4>3
        <4>5. i \in 1 .. Len(t) /\ t[i] = y BY <2>9, <4>1, <4>3, <4>4
        <4> QED BY <2>9, <4>5 DEF ToSet
      <3> QED BY <3>1, <3>2
    <2> QED BY <2>6, <2>9, <2>10, <2>11
  <1> QED BY <1>1, <1>2

\* The feedback of a new submission is told apart from every other.
LEMMA AppendIsDistinct ==
  ASSUME NEW s \in Seq(Nat), Distinct(s), NEW x \in Nat, x \notin ToSet(s)
  PROVE  /\ Append(s, x) \in Seq(Nat) /\ Distinct(Append(s, x))
         /\ Len(Append(s, x)) = Len(s) + 1 /\ ToSet(Append(s, x)) = ToSet(s) \cup {x}
  <1> DEFINE t == Append(s, x)
  <1>1. /\ t \in Seq(Nat) /\ Len(t) = Len(s) + 1 /\ t[Len(s) + 1] = x
        /\ \A i \in 1 .. Len(s) : t[i] = s[i]
    OBVIOUS
  <1> HIDE DEF t
  <1>2. \A i \in 1 .. Len(s) : s[i] # x BY DEF ToSet
  <1>3. Distinct(t)
    <2> SUFFICES ASSUME NEW i \in 1 .. Len(t), NEW j \in 1 .. Len(t), t[i] = t[j]
                 PROVE  i = j
      BY <1>1 DEF Distinct
    <2>1. CASE i \in 1 .. Len(s) /\ j \in 1 .. Len(s)
      <3>1. t[i] = s[i] /\ t[j] = s[j] BY <1>1, <2>1
      <3> QED BY <2>1, <3>1, DistinctPlaces
    <2>2. CASE i = Len(s) + 1 /\ j \in 1 .. Len(s)
      <3>1. t[j] # x BY <1>1, <1>2, <2>2
      <3> QED BY <1>1, <2>2, <3>1
    <2>3. CASE i \in 1 .. Len(s) /\ j = Len(s) + 1
      <3>1. t[i] # x BY <1>1, <1>2, <2>3
      <3> QED BY <1>1, <2>3, <3>1
    <2>4. Len(t) = Len(s) + 1 /\ Len(s) \in Nat BY <1>1
    <2> QED BY <2>1, <2>2, <2>3, <2>4
  <1>4. ToSet(t) = ToSet(s) \cup {x}
    <2>1. \A i \in 1 .. Len(t) : i \in 1 .. Len(s) \/ i = Len(s) + 1 BY <1>1
    <2>2. \A y \in ToSet(t) : y \in ToSet(s) \cup {x}
      BY <1>1, <2>1 DEF ToSet
    <2>3. \A y \in ToSet(s) : y \in ToSet(t)
      <3>1. \A i \in 1 .. Len(s) : i \in 1 .. Len(t) BY <1>1
      <3> QED BY <1>1, <3>1 DEF ToSet
    <2>4. x \in ToSet(t)
      <3>1. Len(s) + 1 \in 1 .. Len(t) BY <1>1
      <3> QED BY <1>1, <3>1 DEF ToSet
    <2> QED BY <2>2, <2>3, <2>4
  <1> QED BY <1>1, <1>3, <1>4 DEF t

LEMMA TailDropsHead ==
  ASSUME NEW s \in Seq(Nat), Distinct(s), s # <<>>
  PROVE  /\ Tail(s) \in Seq(Nat) /\ Distinct(Tail(s)) /\ Len(Tail(s)) = Len(s) - 1
         /\ Head(s) \in ToSet(s) /\ ToSet(Tail(s)) = ToSet(s) \ {Head(s)}
  <1> DEFINE t == Tail(s)
  <1>1. /\ t \in Seq(Nat) /\ Len(t) = Len(s) - 1 /\ \A i \in 1 .. Len(t) : t[i] = s[i + 1]
        /\ Head(s) = s[1] /\ 1 \in 1 .. Len(s)
    OBVIOUS
  <1> HIDE DEF t
  <1>2. Distinct(t)
    <2> SUFFICES ASSUME NEW i \in 1 .. Len(t), NEW j \in 1 .. Len(t), t[i] = t[j]
                 PROVE  i = j
      BY <1>1 DEF Distinct
    <2>1. t[i] = s[i + 1] /\ t[j] = s[j + 1] BY <1>1
    <2>2. Len(t) = Len(s) - 1 /\ Len(s) \in Nat BY <1>1
    <2>3. i + 1 \in 1 .. Len(s) /\ j + 1 \in 1 .. Len(s) BY <2>2
    <2>4. i + 1 = j + 1 BY <2>1, <2>3, DistinctPlaces
    <2> QED BY <2>4
  <1>3. \A y \in ToSet(t) : y \in ToSet(s) \ {Head(s)}
    <2>0. ToSet(t) = {t[i] : i \in 1 .. Len(t)} BY <1>1 DEF ToSet
    <2> SUFFICES ASSUME NEW i \in 1 .. Len(t) PROVE t[i] \in ToSet(s) \ {s[1]}
      BY <1>1, <2>0
    <2>1. i + 1 \in 1 .. Len(s) /\ i + 1 # 1 /\ t[i] = s[i + 1] BY <1>1
    <2>2. s[i + 1] # s[1] BY <1>1, <2>1 DEF Distinct
    <2> QED BY <2>1, <2>2 DEF ToSet
  <1>4. \A y \in ToSet(s) : y # Head(s) => y \in ToSet(t)
    <2>0. ToSet(s) = {s[i] : i \in 1 .. Len(s)} BY DEF ToSet
    <2> SUFFICES ASSUME NEW n \in 1 .. Len(s), s[n] # s[1] PROVE s[n] \in ToSet(t)
      BY <1>1, <2>0
    <2>1. n - 1 \in 1 .. Len(t) /\ t[n - 1] = s[n] BY <1>1
    <2> QED BY <1>1, <2>1 DEF ToSet
  <1>5. Head(s) \in ToSet(s)
    <2>1. Head(s) = s[1] /\ 1 \in 1 .. Len(s) BY <1>1
    <2>2. ToSet(s) = {s[i] : i \in 1 .. Len(s)} BY DEF ToSet
    <2> QED BY <2>1, <2>2, Zenon
  <1> QED BY <1>1, <1>2, <1>3, <1>4, <1>5 DEF t

-----------------------------------------------------------------------------
(* The inductive invariant *)

FrameStates ==
    [invalidated : BOOLEAN, painting : BOOLEAN, prepared : BOOLEAN, callback : BOOLEAN,
     next : Nat, active : Nat, pending : Damages, damage : Damages,
     history : Seq(Damages), feedback : Seq(Nat)]

FrameShaped ==
    /\ frame \in FrameStates /\ repaint \in Damages
    /\ window \in [callback : BOOLEAN, prepared : Nat, feedback : SUBSET Nat]
    /\ buffers \in [age : [Buffers -> Nat], stale : [Buffers -> SUBSET Cells], back : Buffers]

(* A paint has a submission, the newest, and nothing changes under it. *)
Painted ==
    /\ frame.next > frame.active /\ Len(frame.history) <= MaxHistory
    /\ frame.painting = (frame.active # 0) /\ (frame.prepared => frame.painting)
    /\ frame.painting => /\ frame.pending = {}
                         /\ buffers.stale[buffers.back] \subseteq CellsOf(repaint)
    /\ ~frame.painting => frame.damage = {}
    /\ window.callback = frame.callback
    /\ window.prepared = (IF frame.prepared THEN frame.active ELSE 0)
    /\ screen = {}

(* What the last n frames submitted, with what is still to be. *)
Since(f, n) ==
    CellsOf(f.pending) \cup CellsOf(f.damage) \cup UNION {CellsOf(f.history[i]) : i \in 1 .. n}

(* A buffer lacks no more than what was damaged since it was on the screen, if the
   history goes back that far. *)
Behind(f, b) ==
    \A x \in Buffers : b.age[x] > 0 /\ b.age[x] - 1 <= Len(f.history) =>
        b.stale[x] \subseteq Since(f, b.age[x] - 1)

(* Feedback is for submissions begun, and for the one in hand once it is prepared. *)
Listed ==
    /\ window.feedback = ToSet(frame.feedback) /\ Distinct(frame.feedback)
    /\ Len(frame.feedback) <= MaxFeedback
    /\ \A s \in ToSet(frame.feedback) :
          0 < s /\ s < frame.next /\ (s = frame.active => frame.prepared)

FrameInv == FrameShaped /\ Painted /\ Behind(frame, buffers) /\ Listed

LEMMA FrameInvInit == ASSUME FrameInit(TRUE) PROVE FrameInv
  <1>1. {} \in Damages /\ {Whole} \in Damages BY FewAreDamage, WholeIsAll
  <1>2. (CHOOSE b \in Buffers : TRUE) \in Buffers BY FrameBounds
  <1>3. <<>> \in Seq(Damages) /\ <<>> \in Seq(Nat) /\ Len(<<>>) = 0 OBVIOUS
  <1>4. FrameShaped BY <1>1, <1>2, <1>3 DEF FrameInit, FrameShaped, FrameStates
  <1>5. Painted
    <2>1. /\ frame.next = 1 /\ frame.active = 0 /\ frame.history = <<>>
          /\ frame.painting = FALSE /\ frame.prepared = FALSE /\ frame.damage = {}
          /\ frame.callback = FALSE /\ window.callback = FALSE /\ window.prepared = 0
          /\ screen = {}
      BY DEF FrameInit
    <2>2. Len(frame.history) <= MaxHistory BY <1>3, <2>1, FrameBounds
    <2>3. 1 > 0 OBVIOUS
    <2> QED BY <2>1, <2>2, <2>3 DEF Painted
  <1>6. Behind(frame, buffers) BY DEF FrameInit, Behind
  <1>7. Listed BY <1>3, FrameBounds DEF FrameInit, Listed, Distinct, ToSet
  <1> QED BY <1>4, <1>5, <1>6, <1>7 DEF FrameInv

\* More damage that is kept is more that a buffer may lack.
LEMMA SinceGrows ==
  ASSUME NEW f, NEW g, g.history = f.history,
         CellsOf(f.pending) \cup CellsOf(f.damage)
            \subseteq CellsOf(g.pending) \cup CellsOf(g.damage)
  PROVE  \A n : Since(f, n) \subseteq Since(g, n)
  BY DEF Since

LEMMA ChangeKeeps == ASSUME FrameInv, Change PROVE FrameInv'
  <1> USE DEF FrameInv
  <1>1. PICK c \in Cells :
          /\ frame' = Invalidate(frame, <<c, c>>)
          /\ buffers' = [buffers EXCEPT !.stale = [b \in Buffers |-> @[b] \cup {c}]]
    BY DEF Change
  <1>2. <<c, c>> \in Rects /\ c \in CellsOf({<<c, c>>})
    <2>1. <<c, c>> \in Rects BY FrameBounds DEF Rects, Cells
    <2>2. c \in Int /\ c <= c BY FrameBounds DEF Cells
    <2> QED BY <2>1, <2>2, InCells
  <1> DEFINE more == Limited(frame.pending \cup {<<c, c>>})
  <1>3. frame.pending \in Damages BY DEF FrameShaped, FrameStates
  <1>4. more \in Damages /\ CellsOf(frame.pending) \cup CellsOf({<<c, c>>}) \subseteq CellsOf(more)
    BY <1>2, <1>3, InvalidateHolds
  <1> HIDE DEF more
  <1>5. frame' = [frame EXCEPT !.invalidated = TRUE, !.pending = more]
    BY <1>1 DEF Invalidate, more
  <1>6. /\ frame'.pending = more /\ frame'.damage = frame.damage
        /\ frame'.history = frame.history /\ frame'.next = frame.next
        /\ frame'.active = frame.active /\ frame'.painting = frame.painting
        /\ frame'.prepared = frame.prepared /\ frame'.feedback = frame.feedback
        /\ frame'.callback = frame.callback
    BY <1>5 DEF FrameShaped, FrameStates
  <1>7. FrameShaped'
    BY <1>1, <1>4, <1>5 DEF Change, FrameShaped, FrameStates
  <1>8. Painted' BY <1>6 DEF Change, Painted
  <1>9. Behind(frame', buffers')
    <2> SUFFICES ASSUME NEW x \in Buffers, buffers'.age[x] > 0,
                        buffers'.age[x] - 1 <= Len(frame'.history)
                 PROVE  buffers'.stale[x] \subseteq Since(frame', buffers'.age[x] - 1)
      BY DEF Behind
    <2>1. buffers'.age = buffers.age /\ buffers'.stale[x] = buffers.stale[x] \cup {c}
      BY <1>1 DEF FrameShaped
    <2>2. buffers.stale[x] \subseteq Since(frame, buffers.age[x] - 1)
      BY <1>6, <2>1 DEF Behind
    <2>3. Since(frame, buffers.age[x] - 1) \subseteq Since(frame', buffers.age[x] - 1)
      BY <1>4, <1>6, SinceGrows
    <2>4. c \in Since(frame', buffers.age[x] - 1) BY <1>2, <1>4, <1>6 DEF Since
    <2> QED BY <2>1, <2>2, <2>3, <2>4
  <1>10. Listed' BY <1>6 DEF Change, Listed
  <1> QED BY <1>7, <1>8, <1>9, <1>10

\* The plan of a frame holds everything the back buffer lacks.
LEMMA PlanHolds ==
  ASSUME FrameInv, ~frame.painting
  PROVE  LET plan == Plan(buffers.age[buffers.back])
         IN plan \in Damages /\ buffers.stale[buffers.back] \subseteq CellsOf(plan)
  <1> DEFINE b == buffers.back
             age == buffers.age[b]
  <1>1. /\ b \in Buffers /\ age \in Nat /\ buffers.stale[b] \subseteq Cells
        /\ frame.pending \in Damages /\ frame.history \in Seq(Damages)
        /\ Behind(frame, buffers) /\ frame.damage = {}
    BY DEF FrameInv, FrameShaped, FrameStates, Painted
  <1>2. CASE ~ValidAge(age)
    BY <1>1, <1>2, FewAreDamage, WholeIsAll DEF Plan
  <1>3. CASE ValidAge(age)
    <2>1. age > 0 /\ age - 1 <= Len(frame.history) /\ age - 1 \in 0 .. Len(frame.history)
      BY <1>1, <1>3 DEF ValidAge
    <2> DEFINE plan == Accumulated(frame.pending, frame.history, age - 1)
    <2>2. Plan(age) = plan BY <1>3 DEF Plan, Repaint
    <2>3. /\ plan \in Damages /\ CellsOf(frame.pending) \subseteq CellsOf(plan)
          /\ \A i \in 1 .. age - 1 : CellsOf(frame.history[i]) \subseteq CellsOf(plan)
      BY <1>1, <2>1, AccumulatedHolds
    <2>4. buffers.stale[b] \subseteq Since(frame, age - 1) BY <1>1, <2>1 DEF Behind
    <2> HIDE DEF plan
    <2>5. Since(frame, age - 1) \subseteq CellsOf(plan)
      BY <1>1, <2>3, CellsOfNone DEF Since
    <2> QED BY <2>2, <2>3, <2>4, <2>5
  <1> QED BY <1>2, <1>3

LEMMA BeginFrameKeeps == ASSUME FrameInv, BeginFrame PROVE FrameInv'
  <1>1. /\ ~frame.painting /\ repaint' = Plan(buffers.age[buffers.back])
        /\ frame' = [frame EXCEPT !.pending = {}, !.invalidated = FALSE, !.damage = frame.pending,
                              !.active = frame.next, !.next = @ + 1, !.painting = TRUE]
        /\ UNCHANGED <<window, buffers, screen>>
    BY DEF BeginFrame, CanSubmit
  <1>2. repaint' \in Damages /\ buffers.stale[buffers.back] \subseteq CellsOf(repaint')
    BY <1>1, PlanHolds
  <1> USE DEF FrameInv
  <1>3. /\ frame'.pending = {} /\ frame'.damage = frame.pending
        /\ frame'.history = frame.history /\ frame'.next = frame.next + 1
        /\ frame'.active = frame.next /\ frame'.painting = TRUE
        /\ frame'.prepared = frame.prepared /\ frame'.feedback = frame.feedback
        /\ frame'.callback = frame.callback
    BY <1>1 DEF FrameShaped, FrameStates
  <1>5. frame.next \in Nat /\ frame.active \in Nat /\ frame.next > frame.active
    BY DEF FrameShaped, FrameStates, Painted
  <1>4. FrameShaped'
    <2>1. {} \in Damages /\ frame.next + 1 \in Nat BY <1>5, FewAreDamage
    <2>2. frame' \in FrameStates BY <1>1, <2>1 DEF FrameShaped, FrameStates
    <2> QED BY <1>1, <1>2, <2>2 DEF FrameShaped
  <1>6. Painted'
    <2>1. frame.next # 0 /\ frame.next + 1 > frame.next BY <1>5
    <2>2. frame.prepared = FALSE BY <1>1 DEF Painted, FrameShaped, FrameStates
    <2> QED BY <1>1, <1>2, <1>3, <2>1, <2>2 DEF Painted
  <1>7. frame.damage = {} BY <1>1 DEF Painted
  <1>8. \A n : Since(frame, n) \subseteq Since(frame', n)
    BY <1>3, <1>7, CellsOfNone, SinceGrows
  <1>9. Behind(frame', buffers') BY <1>1, <1>3, <1>8 DEF Behind
  <1>10. Listed'
    <2>1. \A s \in ToSet(frame.feedback) : s \in Nat
      BY DEF FrameShaped, FrameStates, ToSet
    <2> QED BY <1>1, <1>3, <1>5, <2>1 DEF Listed
  <1> QED BY <1>4, <1>6, <1>9, <1>10

LEMMA PrepareFrameKeeps == ASSUME FrameInv, PrepareFrame PROVE FrameInv'
  <1> USE DEF FrameInv
  <1> DEFINE expired(on) == IF on THEN Expired(frame) ELSE {}
             kept(on) == IF expired(on) = {} THEN frame.feedback ELSE Tail(frame.feedback)
             list(on) == IF on THEN Append(kept(on), frame.active) ELSE kept(on)
  <1>1. PICK on \in BOOLEAN :
          /\ frame' = [frame EXCEPT !.prepared = TRUE, !.callback = TRUE, !.feedback = list(on)]
          /\ window' = [callback |-> TRUE, prepared |-> frame.active,
                 feedback |-> (window.feedback \ expired(on)) \cup
                              (IF on THEN {frame.active} ELSE {})]
    BY DEF PrepareFrame
  <1>2. frame.painting /\ ~frame.prepared /\ UNCHANGED <<repaint, buffers, screen>>
    BY DEF PrepareFrame
  <1>3. /\ frame.feedback \in Seq(Nat) /\ frame.active \in Nat /\ frame.active # 0
        /\ frame.next \in Nat /\ Len(frame.feedback) <= MaxFeedback
        /\ Distinct(frame.feedback) /\ frame.active \notin ToSet(frame.feedback)
        /\ window.feedback = ToSet(frame.feedback)
    BY <1>2 DEF FrameShaped, FrameStates, Painted, Listed
  <1>4. /\ kept(on) \in Seq(Nat) /\ Distinct(kept(on))
        /\ ToSet(kept(on)) = ToSet(frame.feedback) \ expired(on)
        /\ (on => Len(kept(on)) < MaxFeedback) /\ Len(kept(on)) <= MaxFeedback
    <2>1. CASE on /\ Len(frame.feedback) = MaxFeedback
      <3>1. frame.feedback # <<>> BY <1>3, <2>1, FrameBounds
      <3>2. expired(on) = {Head(frame.feedback)} /\ kept(on) = Tail(frame.feedback)
        BY <2>1 DEF Expired
      <3> QED BY <1>3, <2>1, <3>1, <3>2, TailDropsHead, FrameBounds
    <2>2. CASE ~(on /\ Len(frame.feedback) = MaxFeedback)
      <3>1. expired(on) = {} /\ kept(on) = frame.feedback BY <2>2 DEF Expired
      <3> QED BY <1>3, <2>2, <3>1, FrameBounds
    <2> QED BY <2>1, <2>2
  <1> HIDE DEF kept, expired
  <1>5. /\ list(on) \in Seq(Nat) /\ Distinct(list(on)) /\ Len(list(on)) <= MaxFeedback
        /\ ToSet(list(on)) = (ToSet(frame.feedback) \ expired(on)) \cup
                               (IF on THEN {frame.active} ELSE {})
    <2>1. CASE on
      <3>1. frame.active \notin ToSet(kept(on)) BY <1>3, <1>4
      <3>2. /\ Append(kept(on), frame.active) \in Seq(Nat)
            /\ Distinct(Append(kept(on), frame.active))
            /\ Len(Append(kept(on), frame.active)) = Len(kept(on)) + 1
            /\ ToSet(Append(kept(on), frame.active)) = ToSet(kept(on)) \cup {frame.active}
        BY <1>3, <1>4, <3>1, AppendIsDistinct
      <3>3. Len(kept(on)) \in Nat BY <1>4
      <3>4. list(on) = Append(kept(on), frame.active) BY <2>1
      <3> HIDE DEF list
      <3>5. Len(kept(on)) < MaxFeedback BY <1>4, <2>1, Zenon
      <3>6. Len(kept(on)) + 1 <= MaxFeedback BY <3>3, <3>5, FrameBounds
      <3>7. Len(list(on)) <= MaxFeedback BY <3>2, <3>4, <3>6
      <3> QED BY <1>4, <2>1, <3>2, <3>4, <3>7
    <2>2. CASE ~on BY <1>4, <2>2
    <2> QED BY <2>1, <2>2
  <1> HIDE DEF list
  <1>6. /\ frame'.pending = frame.pending /\ frame'.damage = frame.damage
        /\ frame'.history = frame.history /\ frame'.next = frame.next
        /\ frame'.active = frame.active /\ frame'.painting = frame.painting
        /\ frame'.prepared = TRUE /\ frame'.feedback = list(on)
        /\ frame'.callback = TRUE
    BY <1>1 DEF FrameShaped, FrameStates
  <1>7. ToSet(list(on)) \subseteq Nat BY <1>5 DEF ToSet
  <1>8. window'.feedback = ToSet(list(on)) /\ window'.prepared = frame.active
        /\ window'.callback = TRUE
    BY <1>1, <1>3, <1>5
  <1>9. FrameShaped'
    <2>1. frame' \in FrameStates BY <1>1, <1>5 DEF FrameShaped, FrameStates
    <2>2. window' \in [callback : BOOLEAN, prepared : Nat, feedback : SUBSET Nat]
      BY <1>1, <1>3, <1>7, <1>8
    <2> QED BY <1>2, <2>1, <2>2 DEF FrameShaped
  <1>10. Painted' BY <1>2, <1>3, <1>6, <1>8 DEF Painted
  <1>11. Behind(frame', buffers')
    <2>1. \A n : Since(frame, n) \subseteq Since(frame', n) BY <1>6, SinceGrows
    <2> QED BY <1>2, <1>6, <2>1 DEF Behind
  <1>12. Listed'
    <2>1. \A s \in ToSet(list(on)) : s \in ToSet(frame.feedback) \/ s = frame.active
      BY <1>5
    <2>2. frame.next > frame.active BY DEF Painted
    <2> QED BY <1>3, <1>5, <1>6, <1>8, <2>1, <2>2 DEF Listed
  <1> QED BY <1>9, <1>10, <1>11, <1>12

\* The history takes the newest damage in front, and forgets the oldest at its limit.
LEMMA HistoryShifts ==
  ASSUME NEW h \in Seq(Damages), Len(h) <= MaxHistory, NEW d \in Damages
  PROVE  LET n == IF Len(h) < MaxHistory THEN Len(h) + 1 ELSE MaxHistory
             s == SubSeq(<<d>> \o h, 1, n)
         IN /\ s \in Seq(Damages) /\ Len(s) = n /\ n <= MaxHistory /\ n <= Len(h) + 1
            /\ \A i \in 1 .. n : s[i] = IF i = 1 THEN d ELSE h[i - 1]
  <1> DEFINE n == IF Len(h) < MaxHistory THEN Len(h) + 1 ELSE MaxHistory
             l == <<d>> \o h
  <1>1. n \in Nat /\ n <= MaxHistory /\ n <= Len(h) + 1 BY FrameBounds
  <1>2. /\ l \in Seq(Damages) /\ Len(l) = Len(h) + 1
        /\ \A i \in 1 .. Len(h) + 1 : l[i] = IF i = 1 THEN d ELSE h[i - 1]
    OBVIOUS
  <1> HIDE DEF l, n
  <1>3. /\ SubSeq(l, 1, n) \in Seq(Damages) /\ Len(SubSeq(l, 1, n)) = n
        /\ \A i \in 1 .. n : SubSeq(l, 1, n)[i] = l[i]
    BY <1>1, <1>2
  <1>4. \A i \in 1 .. n : i \in 1 .. Len(h) + 1 BY <1>1
  <1> QED BY <1>1, <1>2, <1>3, <1>4 DEF l, n

LEMMA SubmitFrameKeeps == ASSUME FrameInv, SubmitFrame PROVE FrameInv'
  <1> USE DEF FrameInv
  <1> DEFINE h == frame.history
             n == IF Len(h) < MaxHistory THEN Len(h) + 1 ELSE MaxHistory
             s == SubSeq(<<frame.damage>> \o h, 1, n)
             painted == buffers.stale[buffers.back] \ CellsOf(repaint)
  <1>1. /\ frame.prepared
        /\ frame' = [frame EXCEPT !.painting = FALSE, !.prepared = FALSE, !.active = 0,
                    !.damage = {}, !.history = s]
        /\ window' = [window EXCEPT !.prepared = 0]
        /\ screen' = painted /\ repaint' = {}
    BY DEF SubmitFrame
  <1>2. PICK b \in Buffers :
          buffers' = [age |-> [x \in Buffers |-> Age(x)],
                      stale |-> [buffers.stale EXCEPT ![buffers.back] = painted],
                      back |-> b]
    BY DEF SubmitFrame
  <1>3. /\ h \in Seq(Damages) /\ Len(h) <= MaxHistory /\ frame.damage \in Damages
        /\ frame.painting /\ frame.pending = {} /\ painted = {}
        /\ frame.next > frame.active /\ frame.next \in Nat /\ frame.active \in Nat
        /\ buffers.back \in Buffers /\ buffers.age \in [Buffers -> Nat]
        /\ buffers.stale \in [Buffers -> SUBSET Cells]
    BY <1>1 DEF FrameShaped, FrameStates, Painted
  <1>4. /\ s \in Seq(Damages) /\ Len(s) = n /\ n <= MaxHistory /\ n <= Len(h) + 1 /\ n \in Nat
        /\ \A i \in 1 .. n : s[i] = IF i = 1 THEN frame.damage ELSE h[i - 1]
    BY <1>3, HistoryShifts, FrameBounds
  <1> HIDE DEF s, painted, n
  <1>5. /\ frame'.pending = {} /\ frame'.damage = {} /\ frame'.history = s
        /\ frame'.next = frame.next /\ frame'.active = 0 /\ frame'.painting = FALSE
        /\ frame'.prepared = FALSE /\ frame'.feedback = frame.feedback
        /\ frame'.callback = frame.callback
    BY <1>1, <1>3 DEF FrameShaped, FrameStates
  <1>6. /\ buffers'.age = [x \in Buffers |-> Age(x)] /\ buffers'.back = b
        /\ buffers'.stale = [buffers.stale EXCEPT ![buffers.back] = {}]
    BY <1>2, <1>3
  <1>7. \A x \in Buffers : Age(x) \in Nat BY <1>3 DEF Age
  <1>8. window'.feedback = window.feedback /\ window'.prepared = 0
        /\ window'.callback = window.callback
    BY <1>1 DEF FrameShaped
  <1>9. FrameShaped'
    <2>1. frame' \in FrameStates BY <1>1, <1>4, FewAreDamage DEF FrameShaped, FrameStates
    <2>2. window' \in [callback : BOOLEAN, prepared : Nat, feedback : SUBSET Nat]
      BY <1>1 DEF FrameShaped
    <2>3. buffers' \in [age : [Buffers -> Nat], stale : [Buffers -> SUBSET Cells],
                        back : Buffers]
      BY <1>2, <1>3, <1>7
    <2> QED BY <1>1, <2>1, <2>2, <2>3, FewAreDamage DEF FrameShaped
  <1>10. Painted'
    <2>1. frame.next > 0 BY <1>3
    <2> QED BY <1>1, <1>3, <1>4, <1>5, <1>8, <2>1 DEF Painted
  <1>11. Behind(frame', buffers')
    <2> SUFFICES ASSUME NEW x \in Buffers, buffers'.age[x] > 0,
                        buffers'.age[x] - 1 <= Len(frame'.history)
                 PROVE  buffers'.stale[x] \subseteq Since(frame', buffers'.age[x] - 1)
      BY DEF Behind
    <2>1. CASE x = buffers.back BY <1>3, <1>6, <2>1
    <2>2. CASE x # buffers.back
      <3>1. /\ buffers'.stale[x] = buffers.stale[x] /\ buffers.age[x] > 0
            /\ buffers'.age[x] = buffers.age[x] + 1
        BY <1>3, <1>6, <2>2 DEF Age
      <3> DEFINE a == buffers.age[x]
      <3>2. a \in Nat /\ a > 0 /\ a <= n /\ a - 1 <= Len(h)
        BY <1>3, <1>4, <1>5, <3>1
      <3>3. buffers.stale[x] \subseteq Since(frame, a - 1) BY <3>2 DEF Behind
      <3> HIDE DEF a
      <3>4. 1 \in 1 .. a /\ s[1] = frame.damage BY <1>4, <3>2
      <3>5. \A i \in 1 .. a - 1 : i + 1 \in 1 .. a /\ s[i + 1] = h[i] BY <1>4, <3>2
      <3>6. Since(frame, a - 1) \subseteq Since(frame', a)
        <4> SUFFICES ASSUME NEW c \in Since(frame, a - 1)
                     PROVE  c \in UNION {CellsOf(s[i]) : i \in 1 .. a}
          BY <1>5 DEF Since
        <4>1. \/ c \in CellsOf(frame.damage)
              \/ \E i \in 1 .. a - 1 : c \in CellsOf(h[i])
          BY <1>3, CellsOfNone DEF Since
        <4> QED BY <3>4, <3>5, <4>1
      <3>7. buffers'.age[x] - 1 = a BY <3>1, <3>2 DEF a
      <3> QED BY <3>1, <3>3, <3>6, <3>7
    <2> QED BY <2>1, <2>2
  <1>12. Listed'
    <2>1. \A x \in ToSet(frame.feedback) : 0 < x /\ x < frame.next /\ x \in Nat
      BY DEF Listed, FrameShaped, FrameStates, ToSet
    <2>2. \A x \in ToSet(frame.feedback) : x # 0 BY <2>1
    <2> QED BY <1>5, <1>8, <2>1, <2>2 DEF Listed
  <1> QED BY <1>9, <1>10, <1>11, <1>12

\* A paint taken back: what it was to submit is pending again, its feedback is gone.
LEMMA CancelPaintRestores ==
  ASSUME FrameInv, frame.painting
  PROVE  LET f == WithoutCallback(CancelPaint(frame)) IN
         /\ f \in FrameStates /\ f.history = frame.history /\ f.next = frame.next
         /\ f.active = 0 /\ f.painting = FALSE /\ f.prepared = FALSE /\ f.damage = {}
         /\ f.callback = FALSE
         /\ CellsOf(frame.damage) \subseteq CellsOf(f.pending)
         /\ Distinct(f.feedback) /\ Len(f.feedback) <= MaxFeedback
         /\ ToSet(f.feedback) = ToSet(frame.feedback) \ {frame.active}
  <1> DEFINE f == WithoutCallback(CancelPaint(frame))
             more == AppendDamage(frame.pending, frame.damage)
             list == RemoveFirst(frame.feedback, frame.active)
  <1>1. /\ frame \in FrameStates /\ frame.pending \in Damages /\ frame.damage \in Damages
        /\ frame.feedback \in Seq(Nat) /\ Distinct(frame.feedback)
        /\ Len(frame.feedback) <= MaxFeedback /\ window.callback = frame.callback
        /\ frame.callback \in BOOLEAN
    BY DEF FrameInv, FrameShaped, FrameStates, Painted, Listed
  <1>2. more \in Damages /\ CellsOf(frame.damage) \subseteq CellsOf(more)
    BY <1>1, AppendHolds
  <1>3. /\ list \in Seq(Nat) /\ Distinct(list) /\ Len(list) <= Len(frame.feedback)
        /\ ToSet(list) = ToSet(frame.feedback) \ {frame.active}
    BY <1>1, RemoveFirstErases
  <1>4. Len(list) <= MaxFeedback
    <2>1. Len(list) \in Nat /\ Len(frame.feedback) \in Nat BY <1>1, <1>3
    <2> HIDE DEF list
    <2> QED BY <1>1, <1>3, <2>1, FrameBounds
  <1>5. f = [frame EXCEPT !.pending = more, !.invalidated = TRUE, !.feedback = list,
                          !.damage = {}, !.active = 0, !.prepared = FALSE,
                          !.painting = FALSE, !.callback = FALSE]
    <2> HIDE DEF more, list
    <2>1. CancelPaint(frame) =
            [frame EXCEPT !.pending = more, !.invalidated = TRUE, !.feedback = list,
                          !.damage = {}, !.active = 0, !.prepared = FALSE, !.painting = FALSE]
      BY DEF CancelPaint, more, list
    <2>2. CancelPaint(frame).callback = frame.callback
      BY <1>1, <2>1 DEF FrameStates
    <2> QED BY <1>1, <2>1, <2>2 DEF WithoutCallback, FrameStates
  <1> HIDE DEF f, more, list
  <1>6. /\ f \in FrameStates /\ f.history = frame.history /\ f.next = frame.next
        /\ f.active = 0 /\ f.painting = FALSE /\ f.prepared = FALSE /\ f.damage = {}
        /\ f.callback = FALSE /\ f.pending = more /\ f.feedback = list
    BY <1>1, <1>2, <1>3, <1>5, FewAreDamage DEF FrameStates
  <1> QED BY <1>2, <1>3, <1>4, <1>6 DEF f

LEMMA CancelFrameKeeps == ASSUME FrameInv, CancelFrame PROVE FrameInv'
  <1> USE DEF FrameInv
  <1> DEFINE f == WithoutCallback(CancelPaint(frame))
  <1>1. /\ frame.painting /\ repaint' = {} /\ screen' = screen
        /\ window' = [callback |-> FALSE, prepared |-> 0,
                      feedback |-> window.feedback \ {window.prepared}]
        /\ \/ frame' = f /\ UNCHANGED buffers
           \/ /\ frame.prepared /\ frame' = Abandoned(f)
              /\ buffers' = [buffers EXCEPT !.stale[buffers.back] = @ \cup CellsOf(repaint)]
    BY DEF CancelFrame
  <1>2. /\ f \in FrameStates /\ f.history = frame.history /\ f.next = frame.next
        /\ f.active = 0 /\ f.painting = FALSE /\ f.prepared = FALSE /\ f.damage = {}
        /\ f.callback = FALSE
        /\ CellsOf(frame.damage) \subseteq CellsOf(f.pending)
        /\ Distinct(f.feedback) /\ Len(f.feedback) <= MaxFeedback
        /\ ToSet(f.feedback) = ToSet(frame.feedback) \ {frame.active}
    BY <1>1, CancelPaintRestores
  <1> HIDE DEF f
  <1>3. /\ frame.pending = {} /\ screen = {} /\ Len(frame.history) <= MaxHistory
        /\ frame.next \in Nat /\ frame.active \in Nat /\ frame.next > frame.active
        /\ window.feedback \subseteq Nat
        /\ buffers.back \in Buffers /\ buffers.stale \in [Buffers -> SUBSET Cells]
    BY <1>1 DEF FrameShaped, FrameStates, Painted
  <1>4. ToSet(f.feedback) = window.feedback \ {window.prepared}
    <2>1. window.feedback = ToSet(frame.feedback) BY DEF Listed
    <2>2. CASE frame.prepared BY <1>2, <2>1, <2>2 DEF Painted
    <2>3. CASE ~frame.prepared
      <3>1. window.prepared = 0 BY <2>3 DEF Painted
      <3>2. \A s \in ToSet(frame.feedback) : s # 0 /\ s # frame.active
        BY <2>3 DEF Listed
      <3> QED BY <1>2, <2>1, <3>1, <3>2
    <2> QED BY <2>2, <2>3
  <1>5. Abandoned(f) = [f EXCEPT !.invalidated = TRUE, !.pending = Limited(f.pending \cup {Whole})]
    BY <1>2 DEF Abandoned, Invalidate, FrameStates
  <1>6. /\ Limited(f.pending \cup {Whole}) \in Damages
        /\ CellsOf(f.pending) \cup Cells \subseteq CellsOf(Limited(f.pending \cup {Whole}))
    <2>1. f.pending \in Damages BY <1>2 DEF FrameStates
    <2> QED BY <2>1, WholeIsAll, InvalidateHolds
  <1>7. /\ frame' \in FrameStates /\ frame'.history = frame.history /\ frame'.next = frame.next
        /\ frame'.active = 0 /\ frame'.painting = FALSE /\ frame'.prepared = FALSE
        /\ frame'.damage = {} /\ frame'.callback = FALSE /\ frame'.feedback = f.feedback
        /\ CellsOf(frame.damage) \subseteq CellsOf(frame'.pending)
    <2>1. CASE frame' = f BY <1>2, <2>1
    <2>2. CASE frame' = Abandoned(f)
      <3> DEFINE all == Limited(f.pending \cup {Whole})
      <3>1. frame' = [f EXCEPT !.invalidated = TRUE, !.pending = all] BY <1>5, <2>2
      <3>2. all \in Damages /\ CellsOf(f.pending) \subseteq CellsOf(all) BY <1>6
      <3> HIDE DEF all
      <3>3. frame' \in FrameStates /\ frame'.pending = all BY <1>2, <3>1, <3>2 DEF FrameStates
      <3>4. /\ frame'.history = f.history /\ frame'.next = f.next /\ frame'.active = f.active
            /\ frame'.painting = f.painting /\ frame'.prepared = f.prepared
            /\ frame'.damage = f.damage /\ frame'.callback = f.callback
            /\ frame'.feedback = f.feedback
        BY <1>2, <3>1 DEF FrameStates
      <3> QED BY <1>2, <3>2, <3>3, <3>4
    <2> QED BY <1>1, <2>1, <2>2
  <1>8. window'.feedback = ToSet(f.feedback) /\ window'.prepared = 0 /\ window'.callback = FALSE
    BY <1>1, <1>4
  <1>9. /\ buffers' \in [age : [Buffers -> Nat], stale : [Buffers -> SUBSET Cells],
                         back : Buffers]
        /\ buffers'.age = buffers.age
        /\ \A x \in Buffers : \/ buffers'.stale[x] = buffers.stale[x]
                              \/ Cells \subseteq CellsOf(frame'.pending)
    <2>1. CASE frame' = f /\ UNCHANGED buffers BY <2>1 DEF FrameShaped
    <2>2. CASE /\ frame' = Abandoned(f)
               /\ buffers' = [buffers EXCEPT !.stale[buffers.back] = @ \cup CellsOf(repaint)]
      <3>1. CellsOf(repaint) \subseteq Cells
        <4>1. repaint \subseteq Rects BY DEF FrameShaped, Damages
        <4> QED BY <4>1, InCells, FrameBounds DEF Rects, Cells
      <3>2. frame'.pending = Limited(f.pending \cup {Whole})
        BY <1>2, <1>5, <2>2 DEF FrameStates
      <3> QED BY <1>3, <1>6, <2>2, <3>1, <3>2 DEF FrameShaped
    <2> QED BY <1>1, <2>1, <2>2
  <1>10. FrameShaped'
    <2>1. window' \in [callback : BOOLEAN, prepared : Nat, feedback : SUBSET Nat]
      BY <1>1, <1>3
    <2> QED BY <1>1, <1>7, <1>9, <2>1, FewAreDamage DEF FrameShaped
  <1>11. Painted'
    <2>1. frame.next > 0 BY <1>3
    <2> QED BY <1>1, <1>3, <1>7, <1>8, <2>1 DEF Painted
  <1>12. Behind(frame', buffers')
    <2> SUFFICES ASSUME NEW x \in Buffers, buffers'.age[x] > 0,
                        buffers'.age[x] - 1 <= Len(frame'.history)
                 PROVE  buffers'.stale[x] \subseteq Since(frame', buffers'.age[x] - 1)
      BY DEF Behind
    <2> DEFINE n == buffers.age[x] - 1
    <2>1. CASE buffers'.stale[x] = buffers.stale[x]
      <3>1. buffers.stale[x] \subseteq Since(frame, n) BY <1>7, <1>9 DEF Behind
      <3>2. Since(frame, n) \subseteq Since(frame', n)
        BY <1>3, <1>7, CellsOfNone, SinceGrows
      <3> QED BY <1>9, <2>1, <3>1, <3>2
    <2>2. CASE Cells \subseteq CellsOf(frame'.pending)
      BY <1>9, <2>2 DEF Since
    <2> QED BY <1>9, <2>1, <2>2
  <1>13. Listed'
    <2>1. \A s \in ToSet(f.feedback) : 0 < s /\ s < frame.next /\ s \in Nat
      BY <1>2 DEF Listed, FrameShaped, FrameStates, ToSet
    <2>2. \A s \in ToSet(f.feedback) : s # 0 BY <2>1
    <2> QED BY <1>2, <1>7, <1>8, <2>1, <2>2 DEF Listed
  <1> QED BY <1>10, <1>11, <1>12, <1>13

LEMMA ApplyScaleConfigurationKeeps ==
  ASSUME FrameInv, ApplyScaleConfiguration PROVE FrameInv'
  <1> USE DEF FrameInv
  <1> DEFINE more == Limited(frame.pending \cup {Whole})
  <1>1. /\ ~frame.painting /\ repaint' = repaint /\ screen' = screen
        /\ frame' = Invalidate(ResetDamageHistory(WithoutCallback(frame)), Whole)
        /\ window' = [window EXCEPT !.callback = FALSE]
    BY DEF ApplyScaleConfiguration
  <1>2. PICK anew \in BOOLEAN :
          buffers' = [buffers EXCEPT !.stale = [b \in Buffers |-> Cells],
                                     !.age = IF anew THEN [b \in Buffers |-> 0] ELSE @]
    BY DEF ApplyScaleConfiguration
  <1>3. /\ frame \in FrameStates /\ frame.pending \in Damages /\ Len(frame.history) <= MaxHistory
        /\ window.callback = frame.callback /\ frame.callback \in BOOLEAN
    BY DEF FrameShaped, FrameStates, Painted
  <1>4. more \in Damages /\ Cells \subseteq CellsOf(more)
    BY <1>3, WholeIsAll, InvalidateHolds
  <1>5. frame' = [frame EXCEPT !.callback = FALSE, !.history = <<>>, !.invalidated = TRUE,
                               !.pending = more]
    <2> HIDE DEF more
    <2> DEFINE f == [frame EXCEPT !.callback = FALSE]
               g == [f EXCEPT !.history = <<>>]
    <2>1. WithoutCallback(frame) = f BY <1>3 DEF WithoutCallback, FrameStates
    <2>2. ResetDamageHistory(f) = g BY DEF ResetDamageHistory
    <2>3. g.pending = frame.pending BY <1>3 DEF FrameStates
    <2>4. Invalidate(g, Whole) = [g EXCEPT !.invalidated = TRUE, !.pending = more]
      BY <2>3 DEF Invalidate, more
    <2> QED BY <1>1, <1>3, <2>1, <2>2, <2>4 DEF FrameStates
  <1> HIDE DEF more
  <1>6. /\ frame' \in FrameStates /\ frame'.pending = more /\ frame'.damage = frame.damage
        /\ frame'.history = <<>> /\ frame'.next = frame.next
        /\ frame'.active = frame.active /\ frame'.painting = frame.painting
        /\ frame'.prepared = frame.prepared /\ frame'.feedback = frame.feedback
        /\ frame'.callback = FALSE
    <2>1. <<>> \in Seq(Damages) OBVIOUS
    <2> QED BY <1>3, <1>4, <1>5, <2>1 DEF FrameStates
  <1>7. window'.feedback = window.feedback /\ window'.prepared = window.prepared
        /\ window'.callback = FALSE
    BY <1>1 DEF FrameShaped
  <1>8. FrameShaped'
    <2>1. window' \in [callback : BOOLEAN, prepared : Nat, feedback : SUBSET Nat]
      BY <1>1 DEF FrameShaped
    <2>2. buffers' \in [age : [Buffers -> Nat], stale : [Buffers -> SUBSET Cells],
                        back : Buffers]
      BY <1>2 DEF FrameShaped
    <2> QED BY <1>1, <1>6, <2>1, <2>2 DEF FrameShaped
  <1>9. Painted'
    <2>1. Len(frame'.history) <= MaxHistory BY <1>6, FrameBounds
    <2> QED BY <1>1, <1>6, <1>7, <2>1 DEF Painted
  <1>10. Behind(frame', buffers')
    <2>1. \A x \in Buffers : buffers'.stale[x] = Cells BY <1>2 DEF FrameShaped
    <2> QED BY <1>4, <1>6, <2>1 DEF Behind, Since
  <1>11. Listed' BY <1>6, <1>7 DEF Listed
  <1> QED BY <1>8, <1>9, <1>10, <1>11

LEMMA FrameDoneKeeps == ASSUME FrameInv, FrameDone PROVE FrameInv'
  <1> USE DEF FrameInv
  <1>1. /\ frame' = [frame EXCEPT !.callback = FALSE]
        /\ window' = [window EXCEPT !.callback = FALSE]
        /\ UNCHANGED <<repaint, buffers, screen>>
    BY DEF FrameDone
  <1>2. /\ frame' \in FrameStates /\ frame'.pending = frame.pending
        /\ frame'.damage = frame.damage
        /\ frame'.history = frame.history /\ frame'.next = frame.next
        /\ frame'.active = frame.active /\ frame'.painting = frame.painting
        /\ frame'.prepared = frame.prepared /\ frame'.feedback = frame.feedback
        /\ frame'.callback = FALSE
    BY <1>1 DEF FrameShaped, FrameStates
  <1>3. /\ window'.feedback = window.feedback /\ window'.prepared = window.prepared
        /\ window'.callback = FALSE
        /\ window' \in [callback : BOOLEAN, prepared : Nat, feedback : SUBSET Nat]
    BY <1>1 DEF FrameShaped
  <1>4. FrameShaped' BY <1>1, <1>2, <1>3 DEF FrameShaped
  <1>5. Painted' BY <1>1, <1>2, <1>3 DEF Painted
  <1>6. Behind(frame', buffers') BY <1>1, <1>2 DEF Behind, Since
  <1>7. Listed' BY <1>2, <1>3 DEF Listed
  <1> QED BY <1>4, <1>5, <1>6, <1>7

LEMMA PresentedKeeps == ASSUME FrameInv, Presented PROVE FrameInv'
  <1> USE DEF FrameInv
  <1>1. PICK s \in window.feedback :
          /\ window' = [window EXCEPT !.feedback = @ \ {s}]
          /\ frame' = [frame EXCEPT !.feedback = RemoveFirst(@, s)]
    BY DEF Presented
  <1>2. UNCHANGED <<repaint, buffers, screen>> BY DEF Presented
  <1> DEFINE list == RemoveFirst(frame.feedback, s)
  <1>3. /\ frame.feedback \in Seq(Nat) /\ Distinct(frame.feedback)
        /\ Len(frame.feedback) <= MaxFeedback /\ window.feedback = ToSet(frame.feedback)
    BY DEF FrameShaped, FrameStates, Listed
  <1>4. /\ list \in Seq(Nat) /\ Distinct(list) /\ Len(list) <= Len(frame.feedback)
        /\ ToSet(list) = ToSet(frame.feedback) \ {s}
    BY <1>3, RemoveFirstErases
  <1> HIDE DEF list
  <1>5. Len(list) <= MaxFeedback
    <2>1. Len(list) \in Nat /\ Len(frame.feedback) \in Nat BY <1>3, <1>4
    <2> QED BY <1>3, <1>4, <2>1, FrameBounds
  <1>6. /\ frame' \in FrameStates /\ frame'.pending = frame.pending
        /\ frame'.damage = frame.damage
        /\ frame'.history = frame.history /\ frame'.next = frame.next
        /\ frame'.active = frame.active /\ frame'.painting = frame.painting
        /\ frame'.prepared = frame.prepared /\ frame'.feedback = list
        /\ frame'.callback = frame.callback
    <2>1. frame' = [frame EXCEPT !.feedback = list] BY <1>1 DEF list
    <2> QED BY <1>4, <2>1 DEF FrameShaped, FrameStates
  <1>7. /\ window'.feedback = ToSet(list) /\ window'.prepared = window.prepared
        /\ window'.callback = window.callback
        /\ window' \in [callback : BOOLEAN, prepared : Nat, feedback : SUBSET Nat]
    BY <1>1, <1>3, <1>4 DEF FrameShaped
  <1>8. FrameShaped' BY <1>2, <1>6, <1>7 DEF FrameShaped
  <1>9. Painted' BY <1>2, <1>6, <1>7 DEF Painted
  <1>10. Behind(frame', buffers') BY <1>2, <1>6 DEF Behind, Since
  <1>11. Listed' BY <1>4, <1>5, <1>6, <1>7 DEF Listed
  <1> QED BY <1>8, <1>9, <1>10, <1>11

LEMMA FrameInvNext == FrameInv /\ [FrameNext]_frameVars => FrameInv'
  <1> SUFFICES ASSUME FrameInv, [FrameNext]_frameVars PROVE FrameInv'
    OBVIOUS
  <1>1. CASE Change BY <1>1, ChangeKeeps
  <1>2. CASE BeginFrame BY <1>2, BeginFrameKeeps
  <1>3. CASE PrepareFrame BY <1>3, PrepareFrameKeeps
  <1>4. CASE SubmitFrame BY <1>4, SubmitFrameKeeps
  <1>5. CASE CancelFrame BY <1>5, CancelFrameKeeps
  <1>6. CASE ApplyScaleConfiguration BY <1>6, ApplyScaleConfigurationKeeps
  <1>7. CASE FrameDone BY <1>7, FrameDoneKeeps
  <1>8. CASE Presented BY <1>8, PresentedKeeps
  <1>9. CASE UNCHANGED frameVars
    BY <1>9 DEF frameVars, FrameInv, FrameShaped, Painted, Behind, Since, Listed
  <1> QED BY <1>1, <1>2, <1>3, <1>4, <1>5, <1>6, <1>7, <1>8, <1>9 DEF FrameNext

LEMMA FrameInvAgrees == FrameInv => FramesAgree
  <1> SUFFICES ASSUME FrameInv PROVE FramesAgree OBVIOUS
  <1>1. FrameTypeOK
    BY DEF FrameInv, FrameShaped, FrameStates, Painted, Listed, Damages, FrameTypeOK
  <1>2. FramesAreWhole BY DEF FrameInv, Painted, FramesAreWhole
  <1>3. DamageIsKept
    <2> SUFFICES ASSUME ~frame.painting, NEW b \in Buffers, buffers.age[b] = 1
                 PROVE  buffers.stale[b] \subseteq CellsOf(frame.pending)
      BY DEF DamageIsKept
    <2>1. frame.damage = {} /\ frame.history \in Seq(Damages)
      BY DEF FrameInv, Painted, FrameShaped, FrameStates
    <2>2. 1 > 0 /\ 1 - 1 <= Len(frame.history) /\ 1 - 1 = 0 BY <2>1
    <2>3. buffers.stale[b] \subseteq Since(frame, 0) BY <2>2 DEF FrameInv, Behind
    <2>4. Since(frame, 0) = CellsOf(frame.pending) BY <2>1, CellsOfNone DEF Since
    <2> QED BY <2>3, <2>4
  <1>4. FeedbackAgrees BY DEF FrameInv, Listed, FeedbackAgrees
  <1> QED BY <1>1, <1>2, <1>3, <1>4 DEF FramesAgree

\* Whatever buffer is handed out and however many frames it has missed, were abandoned
\* in it or lie behind a resize: what is put on the screen is whole, no damage is
\* forgotten between frames, and feedback is kept for the same submissions twice.
THEOREM FramesAreComplete == FrameSpec => []FramesAgree
  <1>1. FrameInit(TRUE) => FrameInv BY FrameInvInit
  <1>2. FrameInv /\ [FrameNext]_frameVars => FrameInv' BY FrameInvNext
  <1>3. FrameInv => FramesAgree BY FrameInvAgrees
  <1> QED BY <1>1, <1>2, <1>3, PTL DEF FrameSpec

-----------------------------------------------------------------------------
(* Inputs: what is known of what the window's devices recorded. *)

Apps == [focused : BOOLEAN, over : Surfaces \cup {"none"}, down : BOOLEAN, steps : Nat,
         slipped : BOOLEAN, erased : BOOLEAN]
KeyboardInputs == [kind : {"focus", "unfocus"}, surface : Surfaces]
PointerInputs ==
    [kind : {"move", "leave", "press", "release"}, surface : Surfaces]
        \cup [kind : {"scroll"}, surface : Surfaces, steps : Nat]
Inputs == KeyboardInputs \cup PointerInputs

(* Handling inputs one after another. *)
Takes(g, a, inputs) ==
    g = [n \in 0 .. Len(inputs) |-> IF n = 0 THEN a ELSE HandleInput(g[n - 1], inputs[n])]

\* The application is told as many times as there are inputs.
LEMMA TakenIs ==
  ASSUME NEW a, NEW inputs \in Seq(Inputs)
  PROVE  \E g : Takes(g, a, inputs) /\ Taken(a, inputs) = g[Len(inputs)]
  <1> DEFINE Turns(g, m) == g = [n \in 0 .. m |-> IF n = 0 THEN a ELSE HandleInput(g[n - 1], inputs[n])]
             H == {m \in 0 .. Len(inputs) : \E g : Turns(g, m)}
  <1>0. Len(inputs) \in Nat OBVIOUS
  <1>1. 0 \in H
    <2>1. Turns([n \in 0 .. 0 |-> a], 0) OBVIOUS
    <2> HIDE DEF Turns
    <2> QED BY <1>0, <2>1
  <1>2. ASSUME NEW m \in 1 .. Len(inputs), m - 1 \in H PROVE m \in H
    <2>1. PICK g : Turns(g, m - 1) BY <1>2
    <2> DEFINE f == [n \in 0 .. m |-> IF n = m THEN HandleInput(g[m - 1], inputs[m]) ELSE g[n]]
    <2>2. ASSUME NEW n \in 0 .. m
          PROVE  f[n] = IF n = 0 THEN a ELSE HandleInput(f[n - 1], inputs[n])
      <3>1. CASE n = m
        <4>1. m - 1 \in 0 .. m /\ m - 1 # m BY <1>2
        <4> QED BY <1>2, <3>1, <4>1
      <3>2. CASE n # m
        <4>1. n \in 0 .. m - 1 BY <3>2
        <4>2. g[n] = IF n = 0 THEN a ELSE HandleInput(g[n - 1], inputs[n]) BY <2>1, <4>1
        <4>3. n # 0 => n - 1 \in 0 .. m /\ n - 1 # m BY <3>2
        <4> QED BY <3>2, <4>2, <4>3
      <3> QED BY <3>1, <3>2
    <2>3. Turns(f, m)
      <3> DEFINE e == [n \in 0 .. m |-> IF n = 0 THEN a ELSE HandleInput(f[n - 1], inputs[n])]
      <3>1. \A n \in 0 .. m : f[n] = e[n] BY <2>2
      <3> QED BY <3>1
    <2> HIDE DEF Turns, f
    <2> QED BY <2>3
  <1> HIDE DEF H
  <1>3. Len(inputs) \in H
    <2>1. \A m \in 1 .. Len(inputs) : m - 1 \in H => m \in H BY <1>2
    <2>2. \A m \in 0 .. Len(inputs) : m \in H BY <1>0, <1>1, <2>1, Inductive, Zenon
    <2> QED BY <1>0, <2>2
  <1>4. PICK g : g = [n \in 0 .. Len(inputs) |->
                        IF n = 0 THEN a ELSE HandleInput(g[n - 1], inputs[n])]
    BY <1>3 DEF H
  <1> QED BY <1>4, Zenon DEF Taken, Takes

\* What is handled first is handled first.
LEMMA TakenNone ==
  ASSUME NEW a
  PROVE  Taken(a, <<>>) = a
  <1>1. <<>> \in Seq(Inputs) /\ Len(<<>>) = 0 OBVIOUS
  <1>2. PICK g : Takes(g, a, <<>>) /\ Taken(a, <<>>) = g[Len(<<>>)] BY <1>1, TakenIs
  <1>3. g[0] = a BY <1>1, <1>2 DEF Takes
  <1> QED BY <1>1, <1>2, <1>3

\* An input more is handled last.
LEMMA TakenMore ==
  ASSUME NEW a, NEW inputs \in Seq(Inputs), NEW i \in Inputs
  PROVE  Taken(a, Append(inputs, i)) = HandleInput(Taken(a, inputs), i)
  <1>1. PICK q : q = Append(inputs, i) OBVIOUS
  <1>2. PICK l : l = Len(inputs) OBVIOUS
  <1>3. /\ q \in Seq(Inputs) /\ Len(q) = l + 1 /\ q[l + 1] = i /\ l \in Nat
        /\ \A n \in 1 .. l : q[n] = inputs[n]
    BY <1>1, <1>2
  <1>4. PICK f : Takes(f, a, inputs) /\ Taken(a, inputs) = f[l] BY <1>2, TakenIs
  <1>5. PICK g : Takes(g, a, q) /\ Taken(a, q) = g[l + 1] BY <1>3, TakenIs
  <1>6. \A n \in 0 .. l : f[n] = IF n = 0 THEN a ELSE HandleInput(f[n - 1], inputs[n])
    BY <1>2, <1>4 DEF Takes
  <1>7. \A n \in 0 .. l + 1 : g[n] = IF n = 0 THEN a ELSE HandleInput(g[n - 1], q[n])
    BY <1>3, <1>5 DEF Takes
  <1> DEFINE H == {n \in 0 .. l : g[n] = f[n]}
  <1>8. 0 \in H BY <1>3, <1>6, <1>7
  <1>9. ASSUME NEW n \in 1 .. l, n - 1 \in H PROVE n \in H
    <2>1. g[n] = HandleInput(g[n - 1], q[n]) BY <1>3, <1>7
    <2>2. f[n] = HandleInput(f[n - 1], inputs[n]) BY <1>3, <1>6
    <2> QED BY <1>3, <1>9, <2>1, <2>2
  <1> HIDE DEF H
  <1>10. l \in H
    <2>0. l \in Nat BY <1>3
    <2>1. \A n \in 1 .. l : n - 1 \in H => n \in H BY <1>9
    <2>2. \A n \in 0 .. l : n \in H BY <1>8, <2>0, <2>1, Inductive, Zenon
    <2> QED BY <2>0, <2>2
  <1>11. g[l] = f[l] BY <1>10 DEF H
  <1>12. g[l + 1] = HandleInput(g[l], i)
    <2>1. l + 1 \in 0 .. l + 1 /\ l + 1 # 0 /\ (l + 1) - 1 = l BY <1>3
    <2> QED BY <1>3, <1>7, <2>1
  <1> QED BY <1>1, <1>4, <1>5, <1>11, <1>12, Zenon

\* No input tells of a leave that slipped.
LEMMA TakenSlips ==
  ASSUME NEW a \in Apps, NEW inputs \in Seq(Inputs), NEW slipped \in BOOLEAN
  PROVE  Taken([a EXCEPT !.slipped = slipped], inputs)
            = [Taken(a, inputs) EXCEPT !.slipped = slipped]
  <1>1. PICK b : b = [a EXCEPT !.slipped = slipped] OBVIOUS
  <1>2. PICK l : l = Len(inputs) OBVIOUS
  <1>3. PICK f : Takes(f, a, inputs) /\ Taken(a, inputs) = f[l] BY <1>2, TakenIs
  <1>4. PICK g : Takes(g, b, inputs) /\ Taken(b, inputs) = g[l] BY <1>2, TakenIs
  <1>5. l \in Nat /\ \A n \in 1 .. l : inputs[n] \in Inputs BY <1>2
  <1>6. \A n \in 0 .. l : f[n] = IF n = 0 THEN a ELSE HandleInput(f[n - 1], inputs[n])
    BY <1>2, <1>3 DEF Takes
  <1>7. \A n \in 0 .. l : g[n] = IF n = 0 THEN b ELSE HandleInput(g[n - 1], inputs[n])
    BY <1>2, <1>4 DEF Takes
  <1> DEFINE H == {n \in 0 .. l : f[n] \in Apps /\ g[n] = [f[n] EXCEPT !.slipped = slipped]}
  <1>8. 0 \in H BY <1>1, <1>5, <1>6, <1>7
  <1>9. ASSUME NEW n \in 1 .. l, n - 1 \in H PROVE n \in H
    <2>1. PICK x \in Apps : x = f[n - 1] /\ g[n - 1] = [x EXCEPT !.slipped = slipped] BY <1>9
    <2>2. PICK i \in Inputs : i = inputs[n] BY <1>5
    <2>3. g[n] = HandleInput([x EXCEPT !.slipped = slipped], i) BY <1>5, <1>7, <2>1, <2>2
    <2>4. f[n] = HandleInput(x, i) BY <1>5, <1>6, <2>1, <2>2
    <2>5. /\ HandleInput(x, i) \in Apps
          /\ HandleInput([x EXCEPT !.slipped = slipped], i)
               = [HandleInput(x, i) EXCEPT !.slipped = slipped]
      <3>1. CASE i.kind \in {"focus", "unfocus"} BY <3>1 DEF HandleInput, Apps
      <3>2. CASE i.kind = "move"
        BY <3>2 DEF HandleInput, Apps, Inputs, KeyboardInputs, PointerInputs
      <3>3. CASE i.kind = "leave" BY <3>3 DEF HandleInput, Apps
      <3>4. CASE i.kind \in {"press", "release"} BY <3>4 DEF HandleInput, Apps
      <3>5. CASE i.kind = "scroll"
        <4>1. i.steps \in Nat BY <3>5 DEF Inputs, KeyboardInputs, PointerInputs
        <4>2. \A y : HandleInput(y, i) = [y EXCEPT !.steps = @ + i.steps]
          BY <3>5 DEF HandleInput
        <4>3. PICK s \in Nat : s = i.steps BY <4>1
        <4>4. x.steps + s \in Nat BY DEF Apps
        <4>5. PICK z \in Nat : z = x.steps + s BY <4>4
        <4>6. HandleInput(x, i) = [x EXCEPT !.steps = z] BY <4>2, <4>3, <4>5
        <4>7. HandleInput([x EXCEPT !.slipped = slipped], i)
                = [[x EXCEPT !.slipped = slipped] EXCEPT !.steps = z]
          BY <4>2, <4>3, <4>5 DEF Apps
        <4> QED BY <4>6, <4>7 DEF Apps
      <3> QED BY <3>1, <3>2, <3>3, <3>4, <3>5 DEF Inputs, KeyboardInputs, PointerInputs
    <2> QED BY <2>3, <2>4, <2>5
  <1> HIDE DEF H
  <1>10. l \in H
    <2>0. l \in Nat BY <1>5
    <2>1. \A n \in 1 .. l : n - 1 \in H => n \in H BY <1>9
    <2>2. \A n \in 0 .. l : n \in H BY <1>8, <2>0, <2>1, Inductive, Zenon
    <2> QED BY <2>0, <2>2
  <1> QED BY <1>1, <1>3, <1>4, <1>10 DEF H

\* Of the inputs of one device, none are of the other.
LEMMA NoneOf ==
  ASSUME queue \in Seq(Inputs), NEW keyboard \in BOOLEAN,
         \A n \in 1 .. Len(queue) : IsKeyboard(queue[n]) # keyboard
  PROVE  InputsOf(keyboard) = <<>>
  <1> DEFINE Turns(g, m) == g = [n \in 0 .. m |->
                IF n = 0 THEN <<>>
                ELSE IF IsKeyboard(queue[n]) = keyboard THEN Append(g[n - 1], queue[n])
                ELSE g[n - 1]]
  <1>0. Len(queue) \in Nat OBVIOUS
  <1> DEFINE f == [n \in 0 .. Len(queue) |-> <<>>]
  <1>1. Turns(f, Len(queue))
    <2> DEFINE e == [n \in 0 .. Len(queue) |->
                IF n = 0 THEN <<>>
                ELSE IF IsKeyboard(queue[n]) = keyboard THEN Append(f[n - 1], queue[n])
                ELSE f[n - 1]]
    <2>1. ASSUME NEW n \in 0 .. Len(queue) PROVE f[n] = e[n]
      <3>1. CASE n = 0 BY <3>1
      <3>2. CASE n # 0
        <4>1. n \in 1 .. Len(queue) /\ n - 1 \in 0 .. Len(queue) BY <3>2
        <4>2. IsKeyboard(queue[n]) # keyboard BY <4>1
        <4> QED BY <3>2, <4>1, <4>2
      <3> QED BY <3>1, <3>2
    <2> QED BY <2>1
  <1>2. PICK g : g = [n \in 0 .. Len(queue) |->
                IF n = 0 THEN <<>>
                ELSE IF IsKeyboard(queue[n]) = keyboard THEN Append(g[n - 1], queue[n])
                ELSE g[n - 1]]
    BY <1>1
  <1>3. \E k : k = [n \in 0 .. Len(queue) |->
                IF n = 0 THEN <<>>
                ELSE IF IsKeyboard(queue[n]) = keyboard THEN Append(k[n - 1], queue[n])
                ELSE k[n - 1]] /\ InputsOf(keyboard) = k[Len(queue)]
    BY <1>2, Zenon DEF InputsOf
  <1>4. PICK k : k = [n \in 0 .. Len(queue) |->
                IF n = 0 THEN <<>>
                ELSE IF IsKeyboard(queue[n]) = keyboard THEN Append(k[n - 1], queue[n])
                ELSE k[n - 1]] /\ InputsOf(keyboard) = k[Len(queue)]
    BY <1>3
  <1> DEFINE H == {n \in 0 .. Len(queue) : k[n] = <<>>}
  <1>5. 0 \in H BY <1>0, <1>4
  <1>6. \A n \in 1 .. Len(queue) : n - 1 \in H => n \in H
    <2> TAKE n \in 1 .. Len(queue)
    <2>1. k[n] = k[n - 1] BY <1>0, <1>4
    <2> QED BY <1>0, <2>1
  <1> HIDE DEF H
  <1>7. \A n \in 0 .. Len(queue) : n \in H BY <1>0, <1>5, <1>6, Inductive, Zenon
  <1>8. Len(queue) \in H BY <1>0, <1>7
  <1> QED BY <1>4, <1>8 DEF H

-----------------------------------------------------------------------------
(* Events: what the compositor will have told when all it sent has arrived. *)

Forms == {"continuous", "discrete", "value120"}
Frames == [continuous : 0 .. 1, discrete : 0 .. 1, value120 : 0 .. 1]
Events ==
    [kind : {"attach", "detach", "keymap", "popupDone", "frame"}]
        \cup [kind : {"rate"}, rate : Nat]
        \cup [kind : {"enter", "leave", "press", "release"}, surface : Surfaces,
              to : Surfaces \cup {"none"}]
        \cup [kind : {"keyDown", "keyUp"}, key : Keys]
        \cup [kind : {"axis"}, form : Forms]

(* A device as its events make it out to be; "moving" is between a leave and the
   enter that comes with it.                                                     *)
Views ==
    [device : BOOLEAN, focus : Surfaces \cup {"none"}, moving : BOOLEAN, held : SUBSET Keys,
     down : BOOLEAN, frame : Frames, clicks : Nat]

(* What an event makes of it, *)
Step(v, e) ==
    CASE e.kind = "attach"  -> [v EXCEPT !.device = TRUE]
      [] e.kind = "detach"  -> [v EXCEPT !.device = FALSE, !.focus = "none", !.moving = FALSE,
                                         !.held = {}, !.down = FALSE, !.frame = NoFrame]
      [] e.kind = "enter"   -> [v EXCEPT !.focus = e.surface, !.moving = FALSE]
      [] e.kind = "leave"   -> [v EXCEPT !.focus = "none", !.moving = e.to # "none",
                                         !.held = IF e.to = "none" THEN {} ELSE @]
      [] e.kind = "keyDown" -> [v EXCEPT !.held = @ \cup {e.key}]
      [] e.kind = "keyUp"   -> [v EXCEPT !.held = @ \ {e.key}]
      [] e.kind = "press"   -> [v EXCEPT !.down = TRUE]
      [] e.kind = "release" -> [v EXCEPT !.down = FALSE]
      [] e.kind = "axis"    -> [v EXCEPT !.frame[e.form] = 1]
      [] e.kind = "frame"   -> [v EXCEPT !.frame = NoFrame, !.clicks = @ + 1]
      [] OTHER -> v

(* and when it may come. *)
Legal(seat, v, e) ==
    /\ v.moving => e.kind = "enter"
    /\ e.kind \in {"enter", "leave", "keyDown", "keyUp", "press", "release"} => v.device
    /\ e.kind \in {"keyDown", "keyUp"} => v.focus # "none"
    /\ e.kind = "enter" /\ e.surface = "popup" => v.focus = "none"
    /\ e.kind \in {"keymap", "rate", "keyDown", "keyUp"} => seat = "keyboard"
    /\ e.kind \in {"press", "release", "axis", "frame"} => seat = "pointer"
    /\ e.kind = "axis" => v.frame[e.form] = 0

Path(h, seat, v, events, u) ==
    /\ h \in [0 .. Len(events) -> Views] /\ h[0] = v /\ h[Len(events)] = u
    /\ \A i \in 1 .. Len(events) :
          Legal(seat, h[i - 1], events[i]) /\ h[i] = Step(h[i - 1], events[i])
Leads(seat, v, events, u) == \E h : Path(h, seat, v, events, u)

\* Without events nothing changes.
LEMMA LeadsNowhere ==
  ASSUME NEW seat, NEW v \in Views, NEW u
  PROVE  Leads(seat, v, <<>>, u) <=> v = u
  <1>1. ASSUME Leads(seat, v, <<>>, u) PROVE v = u
    BY <1>1 DEF Leads, Path
  <1>2. Path([i \in 0 .. 0 |-> v], seat, v, <<>>, v)
    <2>1. Len(<<>>) = 0 /\ 1 .. 0 = {} OBVIOUS
    <2> QED BY <2>1 DEF Path
  <1> QED BY <1>1, <1>2 DEF Leads

\* One event leads to what it makes of the device.
LEMMA LeadsOne ==
  ASSUME NEW seat, NEW v \in Views, NEW e, Legal(seat, v, e), Step(v, e) \in Views
  PROVE  Leads(seat, v, <<e>>, Step(v, e))
  <1>1. PICK u \in Views : u = Step(v, e) OBVIOUS
  <1> DEFINE h == [i \in 0 .. 1 |-> IF i = 0 THEN v ELSE u]
  <1>2. Len(<<e>>) = 1 /\ <<e>>[1] = e OBVIOUS
  <1>3. Path(h, seat, v, <<e>>, u)
    <2>1. h \in [0 .. 1 -> Views] /\ h[0] = v /\ h[1] = u OBVIOUS
    <2>2. ASSUME NEW i \in 1 .. 1 PROVE i = 1 /\ i - 1 = 0 OBVIOUS
    <2> HIDE DEF h
    <2> QED BY <1>1, <1>2, <2>1, <2>2 DEF Path
  <1> QED BY <1>1, <1>3 DEF Leads

\* One path after another.
LEMMA LeadsOn ==
  ASSUME NEW seat, NEW v, NEW u, NEW w, NEW s \in Seq(Events), NEW t \in Seq(Events),
         Leads(seat, v, s, u), Leads(seat, u, t, w)
  PROVE  Leads(seat, v, s \o t, w)
  <1>1. PICK f : Path(f, seat, v, s, u) BY DEF Leads
  <1>2. PICK g : Path(g, seat, u, t, w) BY DEF Leads
  <1>3. PICK k : k = Len(s) OBVIOUS
  <1>4. PICK l : l = Len(t) OBVIOUS
  <1>5. PICK r : r = s \o t OBVIOUS
  <1>6. /\ k \in Nat /\ l \in Nat /\ Len(r) = k + l
        /\ \A i \in 1 .. k + l : r[i] = IF i <= k THEN s[i] ELSE t[i - k]
    <2>1. /\ Len(s \o t) = Len(s) + Len(t)
          /\ \A i \in 1 .. Len(s) + Len(t) : (s \o t)[i] = IF i <= Len(s) THEN s[i] ELSE t[i - Len(s)]
      BY ConcatProperties, Zenon
    <2>2. k \in Nat /\ l \in Nat BY <1>3, <1>4
    <2> QED BY <1>3, <1>4, <1>5, <2>1, <2>2, Zenon
  <1>7. /\ f \in [0 .. k -> Views] /\ f[0] = v /\ f[k] = u
        /\ \A i \in 1 .. k : Legal(seat, f[i - 1], s[i]) /\ f[i] = Step(f[i - 1], s[i])
    BY <1>1, <1>3 DEF Path
  <1>8. /\ g \in [0 .. l -> Views] /\ g[0] = u /\ g[l] = w
        /\ \A i \in 1 .. l : Legal(seat, g[i - 1], t[i]) /\ g[i] = Step(g[i - 1], t[i])
    BY <1>2, <1>4 DEF Path
  <1> DEFINE h == [i \in 0 .. k + l |-> IF i <= k THEN f[i] ELSE g[i - k]]
  <1>9. h \in [0 .. k + l -> Views]
    <2>1. ASSUME NEW i \in 0 .. k + l PROVE (IF i <= k THEN f[i] ELSE g[i - k]) \in Views
      BY <1>6, <1>7, <1>8
    <2> QED BY <2>1
  <1>10. h[0] = v BY <1>6, <1>7
  <1>11. h[k + l] = w
    <2>1. CASE l = 0 BY <1>6, <1>7, <1>8, <2>1
    <2>2. CASE l # 0
      <3>1. k + l \in 0 .. k + l /\ ~(k + l <= k) /\ (k + l) - k = l BY <1>6, <2>2
      <3> QED BY <1>8, <3>1
    <2> QED BY <2>1, <2>2
  <1>12. ASSUME NEW i \in 1 .. k + l
         PROVE  Legal(seat, h[i - 1], r[i]) /\ h[i] = Step(h[i - 1], r[i])
    <2>0. i \in 0 .. k + l /\ i - 1 \in 0 .. k + l BY <1>6
    <2>1. CASE i <= k
      <3>1. i \in 1 .. k /\ i - 1 <= k BY <1>6, <2>1
      <3>2. h[i] = f[i] /\ h[i - 1] = f[i - 1] BY <2>0, <2>1, <3>1
      <3>3. r[i] = s[i] BY <1>6, <2>1
      <3> QED BY <1>7, <3>1, <3>2, <3>3
    <2>2. CASE ~(i <= k)
      <3>1. i - k \in 1 .. l /\ (i - 1) - k = (i - k) - 1 BY <1>6, <2>2
      <3>2. h[i] = g[i - k] BY <2>0, <2>2
      <3>3. h[i - 1] = g[(i - k) - 1]
        <4>1. CASE i - 1 = k
          <5>1. h[i - 1] = f[k] /\ (i - k) - 1 = 0 BY <1>6, <2>0, <4>1
          <5> QED BY <1>7, <1>8, <5>1
        <4>2. CASE i - 1 # k
          <5>1. ~(i - 1 <= k) BY <1>6, <2>2, <4>2
          <5> QED BY <2>0, <3>1, <5>1
        <4> QED BY <4>1, <4>2
      <3>4. r[i] = t[i - k] BY <1>6, <2>2
      <3> HIDE DEF h
      <3> QED BY <1>8, <3>1, <3>2, <3>3, <3>4
    <2> QED BY <2>1, <2>2
  <1> HIDE DEF h
  <1>13. Path(h, seat, v, r, w) BY <1>6, <1>9, <1>10, <1>11, <1>12, Zenon DEF Path
  <1> QED BY <1>5, <1>13, Zenon DEF Leads

\* When the first event has arrived the others lead on.
LEMMA LeadsOff ==
  ASSUME NEW seat, NEW v, NEW u, NEW s \in Seq(Events), s # <<>>, Leads(seat, v, s, u)
  PROVE  /\ v \in Views /\ Head(s) \in Events /\ Legal(seat, v, Head(s))
         /\ Step(v, Head(s)) \in Views /\ Leads(seat, Step(v, Head(s)), Tail(s), u)
  <1>1. PICK f : Path(f, seat, v, s, u) BY DEF Leads
  <1>2. PICK t : t = Tail(s) OBVIOUS
  <1>3. PICK l : l = Len(t) OBVIOUS
  <1>4. /\ l \in Nat /\ Len(s) = l + 1 /\ Head(s) = s[1] /\ Head(s) \in Events
        /\ \A i \in 1 .. l : t[i] = s[i + 1]
    BY <1>2, <1>3
  <1>5. /\ f \in [0 .. l + 1 -> Views] /\ f[0] = v /\ f[l + 1] = u
        /\ \A i \in 1 .. l + 1 : Legal(seat, f[i - 1], s[i]) /\ f[i] = Step(f[i - 1], s[i])
    BY <1>1, <1>4 DEF Path
  <1>6. Legal(seat, v, Head(s)) /\ f[1] = Step(v, Head(s)) /\ f[1] \in Views /\ v \in Views
    <2>1. 1 \in 1 .. l + 1 /\ 1 - 1 = 0 /\ 0 \in 0 .. l + 1 BY <1>4
    <2> QED BY <1>4, <1>5, <2>1
  <1> DEFINE h == [i \in 0 .. l |-> f[i + 1]]
  <1>7. h \in [0 .. l -> Views] /\ h[0] = f[1] /\ h[l] = u
    <2>1. \A i \in 0 .. l : i + 1 \in 0 .. l + 1 BY <1>4
    <2> QED BY <1>4, <1>5, <2>1
  <1>8. ASSUME NEW i \in 1 .. l PROVE Legal(seat, h[i - 1], t[i]) /\ h[i] = Step(h[i - 1], t[i])
    <2>1. i + 1 \in 1 .. l + 1 /\ (i + 1) - 1 = i /\ i - 1 \in 0 .. l /\ (i - 1) + 1 = i BY <1>4
    <2>2. h[i] = f[i + 1] /\ h[i - 1] = f[i] BY <1>4, <2>1
    <2> HIDE DEF h
    <2> QED BY <1>4, <1>5, <2>1, <2>2
  <1> HIDE DEF h
  <1>9. Path(h, seat, f[1], t, u) BY <1>3, <1>7, <1>8, Zenon DEF Path
  <1> QED BY <1>2, <1>4, <1>6, <1>9, Zenon DEF Leads

-----------------------------------------------------------------------------
(* The invariant. *)

InputShaped ==
    /\ kbd \in [keymap : BOOLEAN, focused : BOOLEAN, composing : BOOLEAN, rate : Nat,
                active : BOOLEAN, key : Keys \cup {NoKey}, due : Int]
    /\ ptr \in [focused : BOOLEAN, surface : Surfaces, down : BOOLEAN, frame : Frames]
    /\ win \in [seat : {"keyboard", "pointer"}, device : BOOLEAN, popup : BOOLEAN, done : BOOLEAN]
    /\ queue \in Seq(IF win.seat = "keyboard" THEN KeyboardInputs ELSE PointerInputs)
    /\ app \in Apps /\ Told \in Apps
    /\ kbd.active => kbd.keymap /\ kbd.rate # 0 /\ kbd.key \in Keys

CompositorShaped ==
    /\ shell \in [device : BOOLEAN, focus : Surfaces \cup {"none"}, popup : BOOLEAN,
                  held : SUBSET Keys, down : BOOLEAN, clicks : Nat]
    /\ shell.focus = "popup" => shell.popup
    /\ ~shell.device => shell.focus = "none"
    /\ shell.focus = "none" => ~shell.down
    /\ win.seat = "keyboard" => (shell.popup => shell.focus # "toplevel")
ShellShaped == CompositorShaped /\ wire \in Seq(Events)

Queued(kind) == \E i \in 1 .. Len(queue) : queue[i].kind = kind

(* What the application will be told is what the devices recorded; what it was told
   and is no longer so has its end in the queue.                                    *)
Over == IF ptr.focused THEN ptr.surface ELSE "none"
RecordsAgree ==
    /\ Told.focused = kbd.focused /\ Told.over = Over
    /\ Told.down = ptr.down \/ Told.erased
    /\ app.steps <= Told.steps /\ Told.slipped = app.slipped /\ Told.erased = app.erased
    /\ kbd.focused \/ Queued("unfocus") \/ ~app.focused
    /\ ptr.focused \/ Queued("leave") \/ app.over = "none"
    /\ ptr.down \/ Queued("release") \/ ~app.down \/ app.erased

(* What the devices recorded is what arrived, *)
HasArrived(v) ==
    /\ v.device = win.device /\ v.down = ptr.down /\ v.frame = ptr.frame
    /\ ~v.device => v.focus = "none" /\ ~v.down /\ ~v.moving
    /\ Told.steps <= v.clicks

(* but for a leave that slipped, or that comes with an enter, *)
KeyboardFollows(v) ==
    /\ ~v.device => ~kbd.active /\ ~kbd.focused
    /\ ~v.moving /\ v.focus # "none" => kbd.focused
    /\ ~v.moving /\ v.focus = "none" => ~kbd.focused \/ app.slipped
    /\ kbd.active => app.slipped \/ (kbd.key \in v.held /\ (v.moving \/ v.focus # "none"))
    /\ ~ptr.focused /\ ~ptr.down /\ ptr.frame = NoFrame

(* and where the pointer is, a popup that is gone included. *)
PointerFollows(v) ==
    /\ Over = v.focus
    /\ ~kbd.active /\ ~kbd.focused

Follows(v) ==
    /\ HasArrived(v)
    /\ IF win.seat = "keyboard" THEN KeyboardFollows(v) ELSE PointerFollows(v)

ShellView ==
    [device |-> shell.device, focus |-> shell.focus, moving |-> FALSE, held |-> shell.held,
     down |-> shell.down, frame |-> NoFrame, clicks |-> shell.clicks]

InputInv ==
    /\ InputShaped /\ ShellShaped /\ RecordsAgree
    /\ \E v : Follows(v) /\ Leads(win.seat, v, wire, ShellView)

-----------------------------------------------------------------------------

\* What is queued last is told last.
LEMMA ToldMore ==
  ASSUME queue \in Seq(Inputs), NEW i \in Inputs, queue' = Append(queue, i), app' = app
  PROVE  Told' = HandleInput(Told, i)
  BY TakenMore DEF Told

\* The application will be told the same when neither it nor the queue changes.
LEMMA ToldSame ==
  ASSUME queue' = queue, app' = app
  PROVE  Told' = Told
  BY DEF Told

\* No input tells of a leave that slipped.
LEMMA ToldSlips ==
  ASSUME queue \in Seq(Inputs), app \in Apps, NEW slipped \in BOOLEAN, queue' = queue,
         app' = [app EXCEPT !.slipped = slipped]
  PROVE  Told' = [Told EXCEPT !.slipped = slipped]
  BY TakenSlips, Zenon DEF Told

\* An input that is queued while a leave slips, or no longer does, is told last all the same.
LEMMA ToldMoreSlips ==
  ASSUME queue \in Seq(Inputs), app \in Apps, NEW slipped \in BOOLEAN, NEW i \in Inputs,
         queue' = Append(queue, i), app' = [app EXCEPT !.slipped = slipped]
  PROVE  Told' = HandleInput([Told EXCEPT !.slipped = slipped], i)
  <1>1. Told' = Taken(app', Append(queue, i)) BY DEF Told
  <1>2. Told' = HandleInput(Taken(app', queue), i) BY <1>1, TakenMore
  <1>3. Taken(app', queue) = [Taken(app, queue) EXCEPT !.slipped = slipped] BY TakenSlips, Zenon
  <1> QED BY <1>2, <1>3, Zenon DEF Told

\* What is queued is what was queued and what is added.
LEMMA QueuedMore ==
  ASSUME queue \in Seq(Inputs), NEW i \in Inputs, queue' = Append(queue, i), NEW kind
  PROVE  Queued(kind)' <=> Queued(kind) \/ i.kind = kind
  <1>1. PICK q : q = Append(queue, i) OBVIOUS
  <1>2. PICK l \in Nat : l = Len(queue) OBVIOUS
  <1>3. Len(q) = l + 1 /\ q[l + 1] = i /\ \A n \in 1 .. l : q[n] = queue[n] BY <1>1, <1>2
  <1>4. Queued(kind)' <=> \E n \in 1 .. l + 1 : q[n].kind = kind BY <1>1, <1>3 DEF Queued
  <1>5. Queued(kind) <=> \E n \in 1 .. l : queue[n].kind = kind BY <1>2 DEF Queued
  <1>6. \A n \in 1 .. l + 1 : n \in 1 .. l \/ n = l + 1 BY <1>2
  <1>7. \A n \in 1 .. l : n \in 1 .. l + 1 BY <1>2
  <1>8. l + 1 \in 1 .. l + 1 BY <1>2
  <1> QED BY <1>3, <1>4, <1>5, <1>6, <1>7, <1>8

\* The queue holds inputs.
LEMMA QueueShaped ==
  ASSUME InputShaped
  PROVE  queue \in Seq(Inputs)
  BY DEF InputShaped, Inputs

\* An empty queue holds none.
LEMMA QueuedNothing ==
  ASSUME NEW kind, queue' = <<>>
  PROVE  ~ Queued(kind)'
  BY DEF Queued

\* Nothing changes for the application when neither it nor what is queued does.
LEMMA QueuedSame ==
  ASSUME queue' = queue, NEW kind
  PROVE  Queued(kind)' = Queued(kind)
  BY DEF Queued

-----------------------------------------------------------------------------
(* What arrives. *)

\* A sequence of one,
LEMMA OneOf ==
  ASSUME NEW S, NEW x \in S
  PROVE  <<x>> \in Seq(S)
  OBVIOUS

\* and of one more.
LEMMA OneMore ==
  ASSUME NEW S, NEW q \in Seq(S), NEW x \in S
  PROVE  Append(q, x) \in Seq(S)
  OBVIOUS

\* The queue holds one device's inputs.
LEMMA KeyboardsAlone ==
  ASSUME InputShaped, win.seat = "keyboard"
  PROVE  /\ queue \in Seq(Inputs) /\ queue \in Seq(KeyboardInputs) /\ InputsOf(FALSE) = <<>>
         /\ ~Queued("leave") /\ ~Queued("release")
         /\ LossReported <=> kbd.focused \/ Queued("unfocus")
  <1>1. queue \in Seq(Inputs) /\ queue \in Seq(KeyboardInputs)
    BY QueueShaped DEF InputShaped
  <1>2. \A n \in 1 .. Len(queue) : queue[n].kind \in {"focus", "unfocus"}
    <2>1. \A n \in 1 .. Len(queue) : queue[n] \in KeyboardInputs BY <1>1
    <2> QED BY <2>1 DEF KeyboardInputs
  <1>3. \A n \in 1 .. Len(queue) : IsKeyboard(queue[n]) # FALSE BY <1>2 DEF IsKeyboard
  <1>4. InputsOf(FALSE) = <<>> BY <1>1, <1>3, NoneOf
  <1>5. LossReported <=> kbd.focused \/ Queued("unfocus") BY <1>1 DEF LossReported, Queued
  <1> QED BY <1>1, <1>2, <1>4, <1>5 DEF Queued

\* The same of the pointer's.
LEMMA PointersAlone ==
  ASSUME InputShaped, win.seat = "pointer"
  PROVE  /\ queue \in Seq(Inputs) /\ queue \in Seq(PointerInputs) /\ InputsOf(TRUE) = <<>>
         /\ ~Queued("unfocus")
         /\ LeaveReported <=> ptr.focused \/ Queued("leave")
  <1>1. queue \in Seq(Inputs) /\ queue \in Seq(PointerInputs)
    BY QueueShaped DEF InputShaped
  <1>2. \A n \in 1 .. Len(queue) : queue[n].kind \notin {"focus", "unfocus"}
    <2>1. \A n \in 1 .. Len(queue) : queue[n] \in PointerInputs BY <1>1
    <2> QED BY <2>1 DEF PointerInputs
  <1>3. \A n \in 1 .. Len(queue) : IsKeyboard(queue[n]) # TRUE BY <1>2 DEF IsKeyboard
  <1>4. InputsOf(TRUE) = <<>> BY <1>1, <1>3, NoneOf
  <1>5. LeaveReported <=> ptr.focused \/ Queued("leave") BY <1>1 DEF LeaveReported, Queued
  <1> QED BY <1>1, <1>2, <1>4, <1>5 DEF Queued

\* What the keyboard queues,
LEMMA FocusInputIs ==
  ASSUME NEW on \in BOOLEAN
  PROVE  /\ FocusInput(on) \in KeyboardInputs /\ FocusInput(on) \in Inputs
         /\ FocusInput(on).kind = IF on THEN "focus" ELSE "unfocus"
  <1>1. FocusInput(on) = [kind |-> IF on THEN "focus" ELSE "unfocus", surface |-> "toplevel"]
    BY DEF FocusInput
  <1>2. FocusInput(on) \in KeyboardInputs BY <1>1 DEF KeyboardInputs, Surfaces
  <1> QED BY <1>1, <1>2 DEF Inputs

\* The device comes.
LEMMA AttachArrives ==
  ASSUME InputShaped, RecordsAgree, NEW v \in Views, Follows(v), NEW e \in Events,
         Legal(win.seat, v, e), NEW u \in Views, u = Step(v, e),
         e.kind = "attach", win' = [win EXCEPT !.device = TRUE],
         UNCHANGED <<kbd, ptr, queue, app>>
  PROVE  InputShaped' /\ RecordsAgree' /\ Follows(u)'
  <1>1. Told' = Told BY ToldSame
  <1>2. InputShaped' BY <1>1 DEF InputShaped
  <1>3. RecordsAgree' BY <1>1, QueuedSame DEF RecordsAgree, Over
  <1>4. u = [v EXCEPT !.device = TRUE] BY DEF Step
  <1>5. ~v.moving BY DEF Legal
  <1>6. Follows(u)'
    BY <1>1, <1>4, <1>5 DEF Follows, HasArrived, KeyboardFollows, PointerFollows, Over, Views, InputShaped
  <1> QED BY <1>2, <1>3, <1>6

\* The popup's end.
LEMMA PopupDoneArrives ==
  ASSUME InputShaped, RecordsAgree, NEW v \in Views, Follows(v), NEW e \in Events,
         Legal(win.seat, v, e), NEW u \in Views, u = Step(v, e),
         e.kind = "popupDone", win' = [win EXCEPT !.done = win.popup],
         UNCHANGED <<kbd, ptr, queue, app>>
  PROVE  InputShaped' /\ RecordsAgree' /\ Follows(u)'
  <1>1. Told' = Told BY ToldSame
  <1>2. InputShaped' BY <1>1 DEF InputShaped
  <1>3. RecordsAgree' BY <1>1, QueuedSame DEF RecordsAgree, Over
  <1>4. u = v BY DEF Step
  <1>6. Follows(u)'
    BY <1>1, <1>4 DEF Follows, HasArrived, KeyboardFollows, PointerFollows, Over, Views, InputShaped
  <1> QED BY <1>2, <1>3, <1>6

\* The keyboard goes.
LEMMA KeyboardDetaches ==
  ASSUME InputShaped, RecordsAgree, NEW v \in Views, Follows(v), NEW e \in Events,
         Legal(win.seat, v, e), NEW u \in Views, u = Step(v, e), win.seat = "keyboard",
         e.kind = "detach", win' = [win EXCEPT !.device = FALSE], ResetKeyboardDevice
  PROVE  InputShaped' /\ RecordsAgree' /\ Follows(u)'
  <1>0. UNCHANGED ptr BY DEF ResetKeyboardDevice
  <1>1. PICK i \in Inputs : i = FocusInput(FALSE) /\ i \in KeyboardInputs /\ i.kind = "unfocus"
    BY FocusInputIs
  <1>2. /\ queue \in Seq(Inputs) /\ ~Queued("leave") /\ ~Queued("release")
        /\ queue' = <<>> \o (IF kbd.focused \/ Queued("unfocus") THEN <<i>> ELSE <<>>)
    BY <1>1, KeyboardsAlone DEF ResetKeyboardDevice
  <1>3. PICK a \in Apps : a = [app EXCEPT !.slipped = FALSE] /\ app' = a
    BY DEF ResetKeyboardDevice, InputShaped, Apps
  <1>4. /\ kbd' = [kbd EXCEPT !.focused = FALSE, !.composing = FALSE, !.active = FALSE,
                              !.key = NoKey, !.keymap = FALSE]
    BY DEF ResetKeyboardDevice, Unfocus, StopRepeat, ResetCompose, InputShaped
  <1>5. app.over = "none" /\ ~ptr.focused /\ ~ptr.down /\ (~app.down \/ app.erased)
        /\ app.steps <= v.clicks
    BY <1>2 DEF RecordsAgree, Follows, KeyboardFollows, HasArrived, Apps, InputShaped, Views
  <1>6. /\ Told' \in Apps /\ queue' \in Seq(KeyboardInputs) /\ Told'.focused = FALSE
        /\ Told'.over = a.over /\ Told'.down = a.down /\ Told'.steps = a.steps
        /\ Told'.slipped = a.slipped /\ Told'.erased = a.erased
        /\ Queued("unfocus")' \/ ~a.focused
    <2>1. CASE kbd.focused \/ Queued("unfocus")
      <3>1. queue' = <<i>> BY <1>2, <2>1
      <3>2. Taken(a, Append(<<>>, i)) = HandleInput(Taken(a, <<>>), i)
        <4>1. <<>> \in Seq(Inputs) OBVIOUS
        <4> QED BY <4>1, TakenMore
      <3>3. Told' = HandleInput(a, i)
        <4>1. <<i>> = Append(<<>>, i) OBVIOUS
        <4> QED BY <1>3, <3>1, <3>2, <4>1, TakenNone DEF Told
      <3>4. i.kind = "unfocus" BY <1>1
      <3>5. Told' = [a EXCEPT !.focused = FALSE] BY <3>3, <3>4 DEF HandleInput
      <3>6. Queued("unfocus")' BY <3>1, <3>4 DEF Queued
      <3>7. queue' \in Seq(KeyboardInputs) BY <1>1, <3>1, OneOf, Zenon
      <3> QED BY <3>5, <3>6, <3>7 DEF Apps
    <2>2. CASE ~(kbd.focused \/ Queued("unfocus"))
      <3>1. queue' = <<>> BY <1>2, <2>2
      <3>2. Told' = a BY <1>3, <3>1, TakenNone DEF Told
      <3>3. ~a.focused BY <1>3, <2>2 DEF RecordsAgree, InputShaped, Apps
      <3> QED BY <3>1, <3>2, <3>3 DEF Apps
    <2> QED BY <2>1, <2>2
  <1>7. /\ a.over = "none" /\ a.steps = app.steps /\ a.slipped = FALSE /\ a.erased = app.erased
        /\ a.down = app.down
    BY <1>3, <1>5 DEF InputShaped, Apps
  <1>8. InputShaped' BY <1>0, <1>3, <1>4, <1>6 DEF InputShaped
  <1>9. kbd'.focused = FALSE BY <1>4 DEF InputShaped
  <1>10. RecordsAgree'
    <2>1. Told'.focused = kbd'.focused /\ Told'.over = Over' BY <1>0, <1>5, <1>6, <1>7, <1>9 DEF Over
    <2>2. Told'.down = ptr'.down \/ Told'.erased
      BY <1>0, <1>5, <1>6, <1>7 DEF InputShaped, Apps
    <2>3. app'.steps <= Told'.steps BY <1>3, <1>6 DEF Apps
    <2> QED BY <1>0, <1>3, <1>5, <1>6, <1>7, <2>1, <2>2, <2>3 DEF RecordsAgree
  <1>11. u = [v EXCEPT !.device = FALSE, !.focus = "none", !.moving = FALSE,
                       !.held = {}, !.down = FALSE, !.frame = NoFrame]
    BY DEF Step
  <1>12. Follows(u)'
    <2>1. ptr.frame = NoFrame BY DEF Follows, KeyboardFollows
    <2> QED BY <1>0, <1>4, <1>5, <1>6, <1>7, <1>9, <1>11, <2>1
      DEF Follows, HasArrived, KeyboardFollows, Over, Views, InputShaped
  <1> QED BY <1>8, <1>10, <1>12

\* The keyboard's focus comes.
LEMMA KeyboardEnterArrives ==
  ASSUME InputShaped, RecordsAgree, NEW v \in Views, Follows(v), NEW e \in Events,
         Legal(win.seat, v, e), NEW u \in Views, u = Step(v, e), win.seat = "keyboard",
         e.kind = "enter", KeyboardEnter
  PROVE  InputShaped' /\ RecordsAgree' /\ Follows(u)'
  <1>0. /\ kbd' = [kbd EXCEPT !.focused = TRUE] /\ ptr' = ptr /\ win' = win /\ app' = app
        /\ queue' = IF kbd.focused THEN queue ELSE Append(queue, FocusInput(TRUE))
    BY DEF KeyboardEnter, FocusChanged, InputShaped
  <1>1. PICK i \in Inputs : i = FocusInput(TRUE) /\ i \in KeyboardInputs /\ i.kind = "focus"
    BY FocusInputIs
  <1>2. queue \in Seq(Inputs) /\ queue \in Seq(KeyboardInputs) BY KeyboardsAlone
  <1>3. /\ Told' = [Told EXCEPT !.focused = TRUE] /\ queue' \in Seq(KeyboardInputs)
        /\ \A kind \in {"leave", "release"} : Queued(kind) => Queued(kind)'
    <2>1. CASE kbd.focused
      <3>1. queue' = queue BY <1>0, <2>1
      <3>2. Told' = Told BY <1>0, <3>1, ToldSame
      <3>3. Told = [Told EXCEPT !.focused = TRUE] BY <2>1 DEF RecordsAgree, InputShaped, Apps
      <3> QED BY <1>2, <3>1, <3>2, <3>3, QueuedSame
    <2>2. CASE ~kbd.focused
      <3>1. queue' = Append(queue, i) BY <1>0, <1>1, <2>2
      <3>2. Told' = HandleInput(Told, i) BY <1>0, <1>2, <3>1, ToldMore
      <3>3. Told' = [Told EXCEPT !.focused = TRUE] BY <1>1, <3>2 DEF HandleInput
      <3>4. queue' \in Seq(KeyboardInputs) BY <1>1, <1>2, <3>1, OneMore, Zenon
      <3> QED BY <1>2, <3>1, <3>3, <3>4, QueuedMore
    <2> QED BY <2>1, <2>2
  <1>4. kbd'.focused = TRUE BY <1>0 DEF InputShaped
  <1>5. InputShaped'
    <2>1. Told' \in Apps /\ app' \in Apps BY <1>0, <1>3 DEF InputShaped, Apps
    <2>2. kbd'.active = kbd.active /\ kbd'.keymap = kbd.keymap /\ kbd'.rate = kbd.rate
          /\ kbd'.key = kbd.key
      BY <1>0 DEF InputShaped
    <2> QED BY <1>0, <1>3, <2>1, <2>2 DEF InputShaped
  <1>6. RecordsAgree' BY <1>0, <1>3, <1>4 DEF RecordsAgree, Over, InputShaped, Apps
  <1>7. u = [v EXCEPT !.focus = e.surface, !.moving = FALSE] BY DEF Step
  <1>8. u.focus # "none" /\ u.moving = FALSE /\ v.device /\ u.device
    BY <1>7 DEF Events, Surfaces, Legal, Views
  <1>9. Follows(u)'
    BY <1>0, <1>3, <1>4, <1>7, <1>8
    DEF Follows, HasArrived, KeyboardFollows, Over, Views, InputShaped, Apps
  <1> QED BY <1>5, <1>6, <1>9

\* The keyboard goes to another surface, or the toplevel's loss of it slips.
LEMMA KeyboardLeaveArrives ==
  ASSUME InputShaped, RecordsAgree, NEW v \in Views, Follows(v), NEW e \in Events,
         Legal(win.seat, v, e), NEW u \in Views, u = Step(v, e), win.seat = "keyboard",
         e.kind = "leave", KeyboardLeave(e)
  PROVE  InputShaped' /\ RecordsAgree' /\ Follows(u)'
  <1>0. ptr' = ptr /\ win' = win BY DEF KeyboardLeave
  <1>1. PICK i \in Inputs : i = FocusInput(FALSE) /\ i \in KeyboardInputs /\ i.kind = "unfocus"
    BY FocusInputIs
  <1>2. queue \in Seq(Inputs) /\ queue \in Seq(KeyboardInputs) /\ app \in Apps /\ Told \in Apps
    BY KeyboardsAlone DEF InputShaped
  <1>3. u = [v EXCEPT !.focus = "none", !.moving = e.to # "none",
                      !.held = IF e.to = "none" THEN {} ELSE @]
    BY DEF Step
  <1>4. ~v.moving BY DEF Legal
  <1>5. CASE e.surface = "toplevel" /\ win.popup
    <2>1. /\ kbd' = kbd /\ queue' = queue
          /\ app' = [app EXCEPT !.slipped = app.slipped \/ e.to = "none"]
      BY <1>5 DEF KeyboardLeave
    <2>2. PICK x \in BOOLEAN : x = (app.slipped \/ e.to = "none") BY <1>2 DEF Apps
    <2>3. Told' = [Told EXCEPT !.slipped = x]
      <3>1. app' = [app EXCEPT !.slipped = x] BY <2>1, <2>2
      <3> QED BY <1>2, <2>1, <3>1, ToldSlips
    <2>4. app' = [app EXCEPT !.slipped = x] BY <2>1, <2>2
    <2>5. InputShaped' BY <1>0, <2>1, <2>3, <2>4 DEF InputShaped, Apps
    <2>6. RecordsAgree'
      BY <1>0, <1>2, <2>1, <2>3, <2>4, QueuedSame DEF RecordsAgree, Over, Apps
    <2>7. app'.slipped = (app.slipped \/ e.to = "none") /\ Told'.steps = Told.steps
      BY <1>2, <2>2, <2>3, <2>4 DEF Apps
    <2>8. /\ u.device = v.device /\ u.down = v.down /\ u.frame = v.frame /\ u.clicks = v.clicks
          /\ u.focus = "none" /\ u.moving = (e.to # "none")
          /\ u.held = IF e.to = "none" THEN {} ELSE v.held
      BY <1>3 DEF Views
    <2>9. HasArrived(u)'
      <3>1. v.device BY DEF Legal
      <3> QED BY <1>0, <2>7, <2>8, <3>1 DEF Follows, HasArrived
    <2>10. KeyboardFollows(u)'
      BY <1>0, <1>4, <2>1, <2>7, <2>8 DEF Follows, KeyboardFollows, HasArrived
    <2> QED BY <1>0, <2>5, <2>6, <2>9, <2>10 DEF Follows
  <1>6. CASE ~(e.surface = "toplevel" /\ win.popup)
    <2>1. /\ kbd' = [kbd EXCEPT !.focused = FALSE, !.composing = FALSE, !.active = FALSE,
                                !.key = NoKey]
          /\ queue' = IF kbd.focused THEN Append(queue, i) ELSE queue
          /\ app' = [app EXCEPT !.slipped = FALSE]
      BY <1>1, <1>6
      DEF KeyboardLeave, FocusChanged, Unfocus, StopRepeat, ResetCompose, InputShaped
    <2>2. /\ Told' = [Told EXCEPT !.slipped = FALSE, !.focused = FALSE]
          /\ queue' \in Seq(KeyboardInputs)
          /\ \A kind \in {"leave", "release"} : Queued(kind) => Queued(kind)'
          /\ Queued("unfocus")' \/ ~app.focused
      <3>1. CASE kbd.focused
        <4>1. queue' = Append(queue, i) BY <2>1, <3>1
        <4>2. Told' = HandleInput([Told EXCEPT !.slipped = FALSE], i)
          BY <1>2, <2>1, <4>1, ToldMoreSlips
        <4>3. Told' = [Told EXCEPT !.slipped = FALSE, !.focused = FALSE]
          BY <1>1, <4>2 DEF HandleInput
        <4>4. queue' \in Seq(KeyboardInputs) BY <1>1, <1>2, <4>1, OneMore, Zenon
        <4> QED BY <1>1, <1>2, <4>1, <4>3, <4>4, QueuedMore
      <3>2. CASE ~kbd.focused
        <4>1. queue' = queue BY <2>1, <3>2
        <4>2. Told' = [Told EXCEPT !.slipped = FALSE] BY <1>2, <2>1, <4>1, ToldSlips
        <4>3. Told' = [Told EXCEPT !.slipped = FALSE, !.focused = FALSE]
          BY <1>2, <3>2, <4>2 DEF RecordsAgree, Apps, InputShaped
        <4> QED BY <1>2, <3>2, <4>1, <4>3, QueuedSame DEF RecordsAgree
      <3> QED BY <3>1, <3>2
    <2>3. kbd'.focused = FALSE /\ kbd'.active = FALSE BY <2>1 DEF InputShaped
    <2>4. InputShaped' BY <1>0, <1>2, <2>1, <2>2 DEF InputShaped, Apps
    <2>5. RecordsAgree'
      BY <1>0, <1>2, <2>1, <2>2, <2>3 DEF RecordsAgree, Over, Apps
    <2>6. Told'.steps = Told.steps BY <1>2, <2>2 DEF Apps
    <2>7. /\ u.device = v.device /\ u.down = v.down /\ u.frame = v.frame /\ u.clicks = v.clicks
          /\ u.focus = "none" /\ u.moving = (e.to # "none")
      BY <1>3 DEF Views
    <2>8. HasArrived(u)'
      <3>1. v.device BY DEF Legal
      <3> QED BY <1>0, <2>6, <2>7, <3>1 DEF Follows, HasArrived
    <2>9. KeyboardFollows(u)'
      BY <1>0, <2>3, <2>7 DEF Follows, KeyboardFollows
    <2> QED BY <1>0, <2>4, <2>5, <2>8, <2>9 DEF Follows
  <1> QED BY <1>5, <1>6

KeyboardRecords ==
    [keymap : BOOLEAN, focused : BOOLEAN, composing : BOOLEAN, rate : Nat, active : BOOLEAN,
     key : Keys \cup {NoKey}, due : Int]

\* What a keymap, a rate or a key changes is the keyboard's repeat and compose.
LEMMA KeyboardKeeps ==
  ASSUME InputShaped, RecordsAgree, win.seat = "keyboard", NEW k \in KeyboardRecords,
         kbd' = k, k.focused = kbd.focused,
         k.active => k.keymap /\ k.rate # 0 /\ k.key \in Keys,
         NEW x \in BOOLEAN, app' = [app EXCEPT !.slipped = x], UNCHANGED <<ptr, queue, win>>
  PROVE  InputShaped' /\ RecordsAgree' /\ Told'.steps = Told.steps /\ app'.slipped = x
  <1>0. queue \in Seq(Inputs) /\ app \in Apps /\ Told \in Apps
    BY QueueShaped DEF InputShaped
  <1>1. Told' = [Told EXCEPT !.slipped = x] BY <1>0, ToldSlips
  <1>2. Told' \in Apps /\ app' \in Apps BY <1>0, <1>1 DEF Apps
  <1>3. InputShaped' BY <1>2 DEF InputShaped, KeyboardRecords
  <1>4. RecordsAgree' BY <1>0, <1>1, QueuedSame DEF RecordsAgree, Over, Apps
  <1> QED BY <1>0, <1>1, <1>3, <1>4 DEF Apps

\* A repeat starts with its key, or none does.
LEMMA RepeatsStart ==
  ASSUME NEW k \in KeyboardRecords, NEW key \in Keys
  PROVE  LET s == StartRepeat(k, key) IN
         /\ s \in KeyboardRecords /\ s.focused = k.focused /\ s.keymap = k.keymap
         /\ s.active => s.rate # 0 /\ s.key = key
  <1>1. Delay \in Int BY InputBounds
  <1>2. CASE k.rate = 0 \/ key = Shift
    BY <1>2 DEF StartRepeat, StopRepeat, KeyboardRecords
  <1>3. CASE ~(k.rate = 0 \/ key = Shift)
    BY <1>1, <1>3 DEF StartRepeat, KeyboardRecords
  <1> QED BY <1>2, <1>3

\* After a press what repeats is the pressed key, if anything.
LEMMA KeyPressedIs ==
  ASSUME NEW k \in KeyboardRecords, k.active => k.keymap, NEW key \in Keys
  PROVE  LET s == RecordKey(k, key, TRUE) IN
         /\ s \in KeyboardRecords /\ s.focused = k.focused /\ s.keymap = k.keymap
         /\ s.active => s.keymap /\ s.rate # 0 /\ s.key = key
  <1>1. CASE ~k.keymap BY <1>1 DEF RecordKey
  <1>2. CASE k.keymap
    <2>1. PICK f : f = Feed(k, key) OBVIOUS
    <2>2. f \in KeyboardRecords /\ f.focused = k.focused /\ f.keymap = k.keymap
      <3>1. CASE key = Shift BY <2>1, <3>1 DEF Feed
      <3>2. CASE key # Shift /\ key = Dead BY <2>1, <3>2 DEF Feed, KeyboardRecords
      <3>3. CASE key # Shift /\ key # Dead BY <2>1, <3>3 DEF Feed, ResetCompose, KeyboardRecords
      <3> QED BY <3>1, <3>2, <3>3
    <2>3. RecordKey(k, key, TRUE) = IF f.composing THEN StopRepeat(f) ELSE StartRepeat(f, key)
      BY <1>2, <2>1 DEF RecordKey
    <2>4. CASE f.composing
      BY <2>2, <2>3, <2>4 DEF StopRepeat, KeyboardRecords
    <2>5. CASE ~f.composing
      <3>1. RecordKey(k, key, TRUE) = StartRepeat(f, key) BY <2>3, <2>5
      <3>2. LET s == StartRepeat(f, key) IN
            /\ s \in KeyboardRecords /\ s.focused = f.focused /\ s.keymap = f.keymap
            /\ s.active => s.rate # 0 /\ s.key = key
        BY <2>2, RepeatsStart, Zenon
      <3> QED BY <1>2, <2>2, <3>1, <3>2
    <2> QED BY <2>4, <2>5
  <1> QED BY <1>1, <1>2

\* After a release the released key does not repeat.
LEMMA KeyReleasedIs ==
  ASSUME NEW k \in KeyboardRecords, k.active => k.keymap /\ k.rate # 0 /\ k.key \in Keys,
         NEW key \in Keys
  PROVE  LET s == RecordKey(k, key, FALSE) IN
         /\ s \in KeyboardRecords /\ s.focused = k.focused /\ s.keymap = k.keymap
         /\ s.active => /\ k.active /\ s.keymap /\ s.rate # 0 /\ s.key \in Keys
                        /\ s.key = k.key /\ s.key # key
  <1>1. CASE ~k.keymap BY <1>1 DEF RecordKey
  <1>2. CASE k.keymap /\ k.active /\ k.key = key
    <2>1. RecordKey(k, key, FALSE) = StopRepeat(k) BY <1>2 DEF RecordKey
    <2> QED BY <2>1 DEF StopRepeat, KeyboardRecords
  <1>3. CASE k.keymap /\ ~(k.active /\ k.key = key)
    <2>1. RecordKey(k, key, FALSE) = k BY <1>3 DEF RecordKey
    <2> QED BY <1>3, <2>1
  <1> QED BY <1>1, <1>2, <1>3

\* A keymap, a rate, or a key.
LEMMA KeyboardArrives ==
  ASSUME InputShaped, RecordsAgree, NEW v \in Views, Follows(v), NEW e \in Events,
         Legal(win.seat, v, e), NEW u \in Views, u = Step(v, e), win.seat = "keyboard",
         e.kind \in {"keymap", "rate", "keyDown", "keyUp"}, Keyboard(e)
  PROVE  InputShaped' /\ RecordsAgree' /\ Follows(u)'
  <1>1. /\ kbd \in KeyboardRecords /\ app \in Apps
        /\ kbd.active => kbd.keymap /\ kbd.rate # 0 /\ kbd.key \in Keys
    BY DEF InputShaped, KeyboardRecords
  <1>2. UNCHANGED <<ptr, queue, win>> /\ ~v.moving BY DEF Keyboard, Legal
  <1>3. ptr' = ptr /\ win' = win BY <1>2
  <1>4. /\ HasArrived(v) /\ KeyboardFollows(v) BY DEF Follows
  <1>5. CASE e.kind = "keymap"
    <2>1. PICK k : k = StopRepeat(ResetCompose([kbd EXCEPT !.keymap = TRUE])) OBVIOUS
    <2>2. k \in KeyboardRecords /\ k.focused = kbd.focused /\ k.active = FALSE
      BY <1>1, <2>1 DEF StopRepeat, ResetCompose, KeyboardRecords
    <2>3. kbd' = k /\ app' = [app EXCEPT !.slipped = app.slipped]
      BY <1>1, <1>5, <2>1 DEF Keyboard, Apps
    <2>4. /\ InputShaped' /\ RecordsAgree' /\ Told'.steps = Told.steps
          /\ app'.slipped = app.slipped
      BY <1>1, <1>2, <2>2, <2>3, KeyboardKeeps DEF Apps
    <2>5. u = v BY <1>5 DEF Step
    <2>6. HasArrived(u)' BY <1>3, <1>4, <2>4, <2>5 DEF HasArrived
    <2>7. KeyboardFollows(u)' BY <1>3, <1>4, <2>2, <2>3, <2>4, <2>5 DEF KeyboardFollows
    <2> QED BY <1>3, <2>4, <2>6, <2>7 DEF Follows
  <1>6. CASE e.kind = "rate"
    <2>0. e.rate \in Nat BY <1>6 DEF Events
    <2>1. PICK k : k = SetRepeatInfo(kbd, e.rate) OBVIOUS
    <2>2. /\ k \in KeyboardRecords /\ k.focused = kbd.focused /\ k.keymap = kbd.keymap
          /\ k.active => kbd.active /\ k.rate # 0 /\ k.key = kbd.key
      <3>1. CASE e.rate = 0
        BY <1>1, <2>1, <3>1 DEF SetRepeatInfo, StopRepeat, KeyboardRecords
      <3>2. CASE e.rate # 0
        <4>1. PICK r \in Nat : r = e.rate /\ r # 0 BY <2>0, <3>2
        <4>2. PICK m \in Int : m = IF kbd.active THEN Delay ELSE kbd.due
          BY <1>1, InputBounds DEF KeyboardRecords
        <4>3. k = [kbd EXCEPT !.rate = r, !.due = m]
          BY <2>1, <4>1, <4>2 DEF SetRepeatInfo
        <4> QED BY <1>1, <4>1, <4>3 DEF KeyboardRecords
      <3> QED BY <3>1, <3>2
    <2>3. kbd' = k /\ app' = [app EXCEPT !.slipped = app.slipped]
      BY <1>1, <1>6, <2>1 DEF Keyboard, Apps
    <2>4. /\ InputShaped' /\ RecordsAgree' /\ Told'.steps = Told.steps
          /\ app'.slipped = app.slipped
      BY <1>1, <1>2, <2>2, <2>3, KeyboardKeeps DEF Apps
    <2>5. u = v BY <1>6 DEF Step
    <2>6. HasArrived(u)' BY <1>3, <1>4, <2>4, <2>5 DEF HasArrived
    <2>7. KeyboardFollows(u)' BY <1>1, <1>3, <1>4, <2>2, <2>3, <2>4, <2>5 DEF KeyboardFollows
    <2> QED BY <1>3, <2>4, <2>6, <2>7 DEF Follows
  <1>7. CASE e.kind = "keyDown"
    <2>0. e.key \in Keys /\ v.device /\ v.focus # "none" BY <1>7 DEF Events, Legal
    <2>1. PICK k : k = RecordKey(kbd, e.key, TRUE) OBVIOUS
    <2>2. /\ k \in KeyboardRecords /\ k.focused = kbd.focused
          /\ k.active => k.keymap /\ k.rate # 0 /\ k.key = e.key
      BY <1>1, <2>0, <2>1, KeyPressedIs
    <2>3. kbd' = k /\ app' = [app EXCEPT !.slipped = FALSE]
      BY <1>1, <1>7, <2>1 DEF Keyboard, Apps
    <2>4. InputShaped' /\ RecordsAgree' /\ Told'.steps = Told.steps
      BY <1>1, <1>2, <2>0, <2>2, <2>3, KeyboardKeeps
    <2>5. u = [v EXCEPT !.held = v.held \cup {e.key}] BY <1>7 DEF Step
    <2>6. /\ u.device = v.device /\ u.down = v.down /\ u.frame = v.frame /\ u.clicks = v.clicks
          /\ u.focus = v.focus /\ u.moving = v.moving /\ e.key \in u.held
      BY <2>5 DEF Views
    <2>7. HasArrived(u)' BY <1>3, <1>4, <2>4, <2>6 DEF HasArrived
    <2>8. KeyboardFollows(u)'
      BY <1>2, <1>3, <1>4, <2>0, <2>2, <2>3, <2>6 DEF KeyboardFollows
    <2> QED BY <1>3, <2>4, <2>7, <2>8 DEF Follows
  <1>8. CASE e.kind = "keyUp"
    <2>0. e.key \in Keys /\ v.device /\ v.focus # "none" BY <1>8 DEF Events, Legal
    <2>1. PICK k : k = RecordKey(kbd, e.key, FALSE) OBVIOUS
    <2>2. /\ k \in KeyboardRecords /\ k.focused = kbd.focused /\ k.keymap = kbd.keymap
          /\ k.active => /\ kbd.active /\ k.keymap /\ k.rate # 0 /\ k.key \in Keys
                         /\ k.key = kbd.key /\ k.key # e.key
      BY <1>1, <2>0, <2>1, KeyReleasedIs
    <2>3. kbd' = k /\ app' = [app EXCEPT !.slipped = app.slipped]
      BY <1>1, <1>8, <2>1 DEF Keyboard, Apps
    <2>4. /\ InputShaped' /\ RecordsAgree' /\ Told'.steps = Told.steps
          /\ app'.slipped = app.slipped
      BY <1>1, <1>2, <2>2, <2>3, KeyboardKeeps DEF Apps
    <2>5. u = [v EXCEPT !.held = v.held \ {e.key}] BY <1>8 DEF Step
    <2>6. /\ u.device = v.device /\ u.down = v.down /\ u.frame = v.frame /\ u.clicks = v.clicks
          /\ u.focus = v.focus /\ u.moving = v.moving /\ u.held = v.held \ {e.key}
      BY <2>5 DEF Views
    <2>7. HasArrived(u)' BY <1>3, <1>4, <2>4, <2>6 DEF HasArrived
    <2>8. KeyboardFollows(u)'
      BY <1>2, <1>3, <1>4, <2>0, <2>2, <2>3, <2>4, <2>6 DEF KeyboardFollows
    <2> QED BY <1>3, <2>4, <2>7, <2>8 DEF Follows
  <1> QED BY <1>5, <1>6, <1>7, <1>8

\* What a pointer's event adds to the queue, when it adds an input.
LEMMA PointerKeeps ==
  ASSUME InputShaped, win.seat = "pointer", NEW i \in PointerInputs,
         queue' = Append(queue, i), UNCHANGED <<kbd, app, win>>,
         ptr' \in [focused : BOOLEAN, surface : Surfaces, down : BOOLEAN, frame : Frames]
  PROVE  /\ Told' = HandleInput(Told, i) /\ Told \in Apps
         /\ Told' \in Apps /\ InputShaped'
         /\ \A kind : Queued(kind)' <=> Queued(kind) \/ i.kind = kind
  <1>1. queue \in Seq(Inputs) /\ queue \in Seq(PointerInputs) /\ i \in Inputs
    BY PointersAlone DEF Inputs
  <1>2. Told' = HandleInput(Told, i) BY <1>1, ToldMore
  <1>3. \A kind : Queued(kind)' <=> Queued(kind) \/ i.kind = kind BY <1>1, QueuedMore
  <1>4. Told \in Apps BY DEF InputShaped
  <1>5. HandleInput(Told, i) \in Apps
    <2>1. PICK a \in Apps : a = Told BY <1>4
    <2>2. CASE i.kind = "scroll"
      <3>1. i.steps \in Nat BY <2>2 DEF PointerInputs
      <3>2. PICK s \in Nat : s = i.steps BY <3>1
      <3>3. PICK z \in Nat : z = a.steps + s BY DEF Apps
      <3>4. HandleInput(a, i) = [a EXCEPT !.steps = z] BY <2>2, <3>2, <3>3 DEF HandleInput
      <3> QED BY <2>1, <3>4 DEF Apps
    <2>3. CASE i.kind # "scroll"
      <3>1. i.kind \in {"move", "leave", "press", "release"} /\ i.surface \in Surfaces
        BY <2>3 DEF PointerInputs
      <3>2. HandleInput(a, i) \in Apps
        <4>1. CASE i.kind = "move" BY <3>1, <4>1 DEF HandleInput, Apps
        <4>2. CASE i.kind = "leave" BY <4>2 DEF HandleInput, Apps
        <4>3. CASE i.kind \in {"press", "release"} BY <4>3 DEF HandleInput, Apps
        <4> QED BY <3>1, <4>1, <4>2, <4>3
      <3> QED BY <2>1, <3>2
    <2> QED BY <2>2, <2>3
  <1>6. queue' \in Seq(PointerInputs) BY <1>1, OneMore, Zenon
  <1>7. InputShaped' BY <1>2, <1>5, <1>6 DEF InputShaped
  <1> QED BY <1>2, <1>3, <1>4, <1>5, <1>7, Zenon

\* What the pointer queues.
LEMMA PointerInputIs ==
  ASSUME NEW kind \in {"move", "leave", "press", "release"}, NEW surface \in Surfaces
  PROVE  /\ PointerInput(kind, surface) \in PointerInputs
         /\ PointerInput(kind, surface).kind = kind
         /\ PointerInput(kind, surface).surface = surface
  <1>1. PointerInput(kind, surface) = [kind |-> kind, surface |-> surface] BY DEF PointerInput
  <1> QED BY <1>1 DEF PointerInputs

\* The pointer comes to a surface, a popup that is gone included.
LEMMA PointerEnterArrives ==
  ASSUME InputShaped, RecordsAgree, NEW v \in Views, Follows(v), NEW e \in Events,
         Legal(win.seat, v, e), NEW u \in Views, u = Step(v, e), win.seat = "pointer",
         e.kind = "enter", PointerEnter(e)
  PROVE  InputShaped' /\ RecordsAgree' /\ Follows(u)'
  <1>1. e.surface \in Surfaces /\ v.device BY DEF Events, Legal
  <1>2. PICK i \in PointerInputs : i = PointerInput("move", e.surface) /\ i.kind = "move"
                                   /\ i.surface = e.surface
    BY <1>1, PointerInputIs
  <1>3. /\ ptr' = [ptr EXCEPT !.focused = TRUE, !.surface = e.surface]
        /\ queue' = Append(queue, i) /\ UNCHANGED <<kbd, app, win>>
    BY <1>2 DEF PointerEnter
  <1>4. /\ ptr' \in [focused : BOOLEAN, surface : Surfaces, down : BOOLEAN, frame : Frames]
        /\ ptr'.focused = TRUE /\ ptr'.surface = e.surface /\ ptr'.down = ptr.down
        /\ ptr'.frame = ptr.frame
    BY <1>1, <1>3 DEF InputShaped
  <1>5. /\ Told' = HandleInput(Told, i) /\ Told \in Apps /\ InputShaped'
        /\ \A kind : Queued(kind)' <=> Queued(kind) \/ i.kind = kind
    BY <1>3, <1>4, PointerKeeps
  <1>6. Told' = [Told EXCEPT !.over = e.surface] BY <1>2, <1>5 DEF HandleInput
  <1>7. Over' = e.surface BY <1>4 DEF Over
  <1>8. RecordsAgree' BY <1>3, <1>4, <1>5, <1>6, <1>7 DEF RecordsAgree, Apps
  <1>9. u = [v EXCEPT !.focus = e.surface, !.moving = FALSE] BY DEF Step
  <1>10. HasArrived(u)'
    BY <1>1, <1>3, <1>4, <1>5, <1>6, <1>9 DEF Follows, HasArrived, Views, Apps
  <1>11. PointerFollows(u)' BY <1>3, <1>7, <1>9 DEF Follows, PointerFollows, Views
  <1> QED BY <1>3, <1>5, <1>8, <1>10, <1>11 DEF Follows

\* The pointer leaves.
LEMMA PointerLeaveArrives ==
  ASSUME InputShaped, RecordsAgree, NEW v \in Views, Follows(v), NEW e \in Events,
         Legal(win.seat, v, e), NEW u \in Views, u = Step(v, e), win.seat = "pointer",
         e.kind = "leave", RecordPointerLeave, UNCHANGED <<kbd, app, win>>
  PROVE  InputShaped' /\ RecordsAgree' /\ Follows(u)'
  <1>1. u = [v EXCEPT !.focus = "none", !.moving = e.to # "none",
                      !.held = IF e.to = "none" THEN {} ELSE @]
    BY DEF Step
  <1>2. /\ u.device = v.device /\ u.down = v.down /\ u.frame = v.frame /\ u.clicks = v.clicks
        /\ u.focus = "none" /\ v.device
    BY <1>1 DEF Views, Legal
  <1>3. CASE ptr.focused
    <2>0. ptr.surface \in Surfaces BY DEF InputShaped
    <2>1. PICK i \in PointerInputs : i = PointerInput("leave", ptr.surface) /\ i.kind = "leave"
      BY <2>0, PointerInputIs
    <2>2. /\ ptr' = [ptr EXCEPT !.focused = FALSE, !.surface = "toplevel"]
          /\ queue' = Append(queue, i)
      BY <1>3, <2>1 DEF RecordPointerLeave
    <2>3. /\ ptr' \in [focused : BOOLEAN, surface : Surfaces, down : BOOLEAN, frame : Frames]
          /\ ptr'.focused = FALSE /\ ptr'.down = ptr.down /\ ptr'.frame = ptr.frame
      BY <2>2 DEF InputShaped, Surfaces
    <2>4. /\ Told' = HandleInput(Told, i) /\ Told \in Apps /\ InputShaped'
          /\ \A kind : Queued(kind)' <=> Queued(kind) \/ i.kind = kind
      BY <2>2, <2>3, PointerKeeps
    <2>5. Told' = [Told EXCEPT !.over = "none"] BY <2>1, <2>4 DEF HandleInput
    <2>6. Over' = "none" BY <2>3 DEF Over
    <2>7. RecordsAgree' BY <2>1, <2>3, <2>4, <2>5, <2>6 DEF RecordsAgree, Apps
    <2>8. HasArrived(u)' BY <1>2, <2>3, <2>4, <2>5 DEF Follows, HasArrived, Apps
    <2>9. PointerFollows(u)' BY <1>2, <2>6 DEF Follows, PointerFollows
    <2> QED BY <2>4, <2>7, <2>8, <2>9 DEF Follows
  <1>4. CASE ~ptr.focused
    <2>1. UNCHANGED <<ptr, queue>> BY <1>4 DEF RecordPointerLeave
    <2>2. Told' = Told /\ Over' = Over /\ Over = "none" BY <1>4, <2>1, ToldSame DEF Over
    <2>3. InputShaped' BY <2>1, <2>2 DEF InputShaped
    <2>4. RecordsAgree' BY <2>1, <2>2, QueuedSame DEF RecordsAgree
    <2>5. HasArrived(u)' BY <1>2, <2>1, <2>2 DEF Follows, HasArrived
    <2>6. PointerFollows(u)' BY <1>2, <2>2 DEF Follows, PointerFollows
    <2> QED BY <2>3, <2>4, <2>5, <2>6 DEF Follows
  <1> QED BY <1>3, <1>4

\* A button goes down or up.
LEMMA ButtonArrives ==
  ASSUME InputShaped, RecordsAgree, NEW v \in Views, Follows(v), NEW e \in Events,
         Legal(win.seat, v, e), NEW u \in Views, u = Step(v, e),
         e.kind \in {"press", "release"}, PointerButton(e)
  PROVE  InputShaped' /\ RecordsAgree' /\ Follows(u)'
  <1>0. win.seat = "pointer" /\ v.device BY DEF Legal
  <1>1. ptr.surface \in Surfaces BY DEF InputShaped
  <1>2. PICK i \in PointerInputs : i = PointerInput(e.kind, ptr.surface) /\ i.kind = e.kind
    BY <1>1, PointerInputIs
  <1>3. PICK down \in BOOLEAN : down = (e.kind = "press") OBVIOUS
  <1>4. /\ ptr' = [ptr EXCEPT !.down = down]
        /\ queue' = Append(queue, i) /\ UNCHANGED <<kbd, app, win>>
    BY <1>2, <1>3 DEF PointerButton
  <1>5. /\ ptr' \in [focused : BOOLEAN, surface : Surfaces, down : BOOLEAN, frame : Frames]
        /\ ptr'.focused = ptr.focused /\ ptr'.down = down /\ ptr'.frame = ptr.frame
        /\ ptr'.surface = ptr.surface
    BY <1>4 DEF InputShaped
  <1>6. /\ Told' = HandleInput(Told, i) /\ Told \in Apps /\ InputShaped'
        /\ \A kind : Queued(kind)' <=> Queued(kind) \/ i.kind = kind
    BY <1>0, <1>4, <1>5, PointerKeeps
  <1>7. Told' = [Told EXCEPT !.down = down]
    BY <1>2, <1>3, <1>6 DEF HandleInput
  <1>8. Over' = Over BY <1>5 DEF Over
  <1>9. RecordsAgree'
    <2>1. down \/ i.kind = "release" BY <1>2, <1>3
    <2> QED BY <1>4, <1>5, <1>6, <1>7, <1>8, <2>1 DEF RecordsAgree, Apps
  <1>10. u = [v EXCEPT !.down = down] BY <1>3 DEF Step
  <1>11. HasArrived(u)'
    BY <1>0, <1>4, <1>5, <1>6, <1>7, <1>10 DEF Follows, HasArrived, Views, Apps
  <1>12. PointerFollows(u)' BY <1>0, <1>4, <1>8, <1>10 DEF Follows, PointerFollows, Views
  <1> QED BY <1>0, <1>4, <1>6, <1>9, <1>11, <1>12 DEF Follows

\* One form of a click of the wheel.
LEMMA AxisArrives ==
  ASSUME InputShaped, RecordsAgree, NEW v \in Views, Follows(v), NEW e \in Events,
         Legal(win.seat, v, e), NEW u \in Views, u = Step(v, e),
         e.kind = "axis", PointerAxis(e)
  PROVE  InputShaped' /\ RecordsAgree' /\ Follows(u)'
  <1>0. win.seat = "pointer" BY DEF Legal
  <1>1. /\ ptr' = [ptr EXCEPT !.frame[e.form] = ptr.frame[e.form] + 1]
        /\ UNCHANGED <<kbd, queue, app, win>>
    BY DEF PointerAxis
  <1>2. v.frame = ptr.frame /\ v.frame[e.form] = 0 BY DEF Follows, HasArrived, Legal
  <1>3. u = [v EXCEPT !.frame[e.form] = 1] BY DEF Step
  <1>4. u.frame = [v.frame EXCEPT ![e.form] = 1] /\ u.frame \in Frames BY <1>3 DEF Views
  <1>5. ptr' = [ptr EXCEPT !.frame = u.frame]
    BY <1>1, <1>2, <1>4 DEF InputShaped
  <1>6. Told' = Told BY <1>1, ToldSame
  <1>7. /\ ptr' \in [focused : BOOLEAN, surface : Surfaces, down : BOOLEAN, frame : Frames]
        /\ ptr'.focused = ptr.focused /\ ptr'.down = ptr.down /\ ptr'.frame = u.frame
        /\ ptr'.surface = ptr.surface
    BY <1>4, <1>5 DEF InputShaped
  <1>8. Over' = Over BY <1>7 DEF Over
  <1>9. InputShaped' BY <1>1, <1>6, <1>7 DEF InputShaped
  <1>10. RecordsAgree' BY <1>1, <1>6, <1>7, <1>8, QueuedSame DEF RecordsAgree
  <1>11. HasArrived(u)' BY <1>1, <1>3, <1>6, <1>7 DEF Follows, HasArrived, Views
  <1>12. PointerFollows(u)' BY <1>0, <1>1, <1>3, <1>8 DEF Follows, PointerFollows, Views
  <1> QED BY <1>0, <1>1, <1>9, <1>10, <1>11, <1>12 DEF Follows

\* The frame that ends the click.
LEMMA FrameArrives ==
  ASSUME InputShaped, RecordsAgree, NEW v \in Views, Follows(v), NEW e \in Events,
         Legal(win.seat, v, e), NEW u \in Views, u = Step(v, e),
         e.kind = "frame", RecordPointerFrame
  PROVE  InputShaped' /\ RecordsAgree' /\ Follows(u)'
  <1>0. win.seat = "pointer" BY DEF Legal
  <1>1. NoFrame \in Frames BY DEF NoFrame, Frames
  <1>2. PICK s \in 0 .. 1 : s = Steps(ptr.frame)
    BY DEF InputShaped, Frames, Steps
  <1>3. ptr' = [ptr EXCEPT !.frame = NoFrame] /\ UNCHANGED <<kbd, app, win>>
    BY DEF RecordPointerFrame
  <1>4. /\ ptr' \in [focused : BOOLEAN, surface : Surfaces, down : BOOLEAN, frame : Frames]
        /\ ptr'.focused = ptr.focused /\ ptr'.down = ptr.down /\ ptr'.frame = NoFrame
        /\ ptr'.surface = ptr.surface
    BY <1>1, <1>3 DEF InputShaped
  <1>5. /\ Told' \in Apps /\ Told \in Apps /\ InputShaped' /\ Told'.steps = Told.steps + s
        /\ Told' = [Told EXCEPT !.steps = Told'.steps]
        /\ \A kind \in {"unfocus", "leave", "release"} : Queued(kind)' <=> Queued(kind)
    <2>1. CASE s = 0
      <3>1. queue' = queue BY <1>2, <2>1 DEF RecordPointerFrame
      <3>2. Told' = Told BY <1>3, <3>1, ToldSame
      <3>3. InputShaped' BY <1>3, <1>4, <3>1, <3>2 DEF InputShaped
      <3> QED BY <2>1, <3>1, <3>2, <3>3, QueuedSame DEF InputShaped, Apps
    <2>2. CASE s # 0
      <3>1. PICK i \in PointerInputs :
              i = [kind |-> "scroll", surface |-> ptr.surface, steps |-> s]
        <4>1. ptr.surface \in Surfaces /\ s \in Nat BY DEF InputShaped
        <4> QED BY <4>1 DEF PointerInputs
      <3>2. queue' = Append(queue, i) BY <1>2, <2>2, <3>1 DEF RecordPointerFrame
      <3>3. /\ Told' = HandleInput(Told, i) /\ Told \in Apps /\ Told' \in Apps /\ InputShaped'
            /\ \A kind : Queued(kind)' <=> Queued(kind) \/ i.kind = kind
        BY <1>0, <1>3, <1>4, <3>2, PointerKeeps
      <3>4. Told' = [Told EXCEPT !.steps = Told.steps + s] BY <3>1, <3>3 DEF HandleInput
      <3>5. Told'.steps = Told.steps + s BY <3>3, <3>4 DEF Apps
      <3> QED BY <3>1, <3>3, <3>4, <3>5
    <2> QED BY <2>1, <2>2
  <1>6. Over' = Over BY <1>4 DEF Over
  <1>7. RecordsAgree' BY <1>3, <1>4, <1>5, <1>6 DEF RecordsAgree, Apps, InputShaped
  <1>8. u = [v EXCEPT !.frame = NoFrame, !.clicks = v.clicks + 1] BY DEF Step
  <1>9. HasArrived(u)'
    BY <1>3, <1>4, <1>5, <1>8 DEF Follows, HasArrived, Views, Apps
  <1>10. PointerFollows(u)' BY <1>0, <1>3, <1>6, <1>8 DEF Follows, PointerFollows, Views
  <1> QED BY <1>0, <1>3, <1>5, <1>7, <1>9, <1>10 DEF Follows

\* The pointer goes, and what was down is released.
LEMMA PointerDetaches ==
  ASSUME InputShaped, RecordsAgree, NEW v \in Views, Follows(v), NEW e \in Events,
         Legal(win.seat, v, e), NEW u \in Views, u = Step(v, e), win.seat = "pointer",
         e.kind = "detach", win' = [win EXCEPT !.device = FALSE], ResetPointerDevice
  PROVE  InputShaped' /\ RecordsAgree' /\ Follows(u)'
  <1>0. kbd' = kbd BY DEF ResetPointerDevice
  <1>1. ptr.surface \in Surfaces /\ app \in Apps /\ Told \in Apps BY DEF InputShaped
  <1>2. PICK i \in PointerInputs : i = PointerInput("release", ptr.surface) /\ i.kind = "release"
    BY <1>1, PointerInputIs
  <1>3. PICK j \in PointerInputs : j = PointerInput("leave", ptr.surface) /\ j.kind = "leave"
    BY <1>1, PointerInputIs
  <1>4. i \in Inputs /\ j \in Inputs /\ <<>> \in Seq(Inputs) BY DEF Inputs
  <1>5. /\ queue \in Seq(Inputs) /\ ~Queued("unfocus")
        /\ LeaveReported <=> ptr.focused \/ Queued("leave")
    BY PointersAlone
  <1>6. PICK r : r = IF ptr.down THEN <<i>> ELSE <<>> OBVIOUS
  <1>7. PICK l : l = IF LeaveReported THEN <<j>> ELSE <<>> OBVIOUS
  <1>8. queue' = r \o l
    <2>1. queue' = (<<>> \o r) \o l
      BY <1>2, <1>3, <1>6, <1>7, PointersAlone DEF ResetPointerDevice, Releases
    <2>2. <<>> \o r = r BY <1>6
    <2> QED BY <2>1, <2>2, Zenon
  <1>9. PICK x \in BOOLEAN :
          x = (app.erased \/ (~ptr.down /\ \E n \in DOMAIN queue : queue[n].kind = "release"))
    BY <1>1 DEF Apps
  <1>10. PICK a \in Apps : a = [app EXCEPT !.erased = x] /\ app' = a
    BY <1>1, <1>9 DEF ResetPointerDevice, Apps
  <1>11. x <=> app.erased \/ (~ptr.down /\ Queued("release"))
    <2>1. DOMAIN queue = 1 .. Len(queue) BY <1>5
    <2>2. Queued("release") <=> \E n \in DOMAIN queue : queue[n].kind = "release"
      BY <2>1, Zenon DEF Queued
    <2> QED BY <1>9, <2>2, Zenon
  <1>12. PICK b \in Apps : b = (IF ptr.down THEN [a EXCEPT !.down = FALSE] ELSE a)
                           /\ Taken(a, r) = b /\ r \in Seq(Inputs) /\ r \in Seq(PointerInputs)
    <2>1. CASE ptr.down
      <3>1. r = <<i>> /\ <<i>> = Append(<<>>, i) BY <1>6, <2>1
      <3>2. Taken(a, Append(<<>>, i)) = HandleInput(Taken(a, <<>>), i) BY <1>4, TakenMore
      <3>3. Taken(a, r) = HandleInput(a, i) BY <3>1, <3>2, TakenNone
      <3>4. Taken(a, r) = [a EXCEPT !.down = FALSE] BY <1>2, <3>3 DEF HandleInput
      <3>5. r \in Seq(Inputs) /\ r \in Seq(PointerInputs) BY <1>2, <1>4, <3>1, OneOf, Zenon
      <3>6. PICK b \in Apps : b = [a EXCEPT !.down = FALSE] BY <1>10 DEF Apps
      <3>7. b = (IF ptr.down THEN [a EXCEPT !.down = FALSE] ELSE a) BY <2>1, <3>6, Zenon
      <3> QED BY <3>4, <3>5, <3>6, <3>7, Zenon
    <2>2. CASE ~ptr.down
      <3>1. r = <<>> BY <1>6, <2>2
      <3>2. Taken(a, r) = a BY <3>1, TakenNone
      <3>3. r \in Seq(Inputs) /\ r \in Seq(PointerInputs) BY <3>1
      <3> QED BY <2>2, <3>2, <3>3
    <2> QED BY <2>1, <2>2
  <1>13. /\ Told' = IF LeaveReported THEN [b EXCEPT !.over = "none"] ELSE b
         /\ queue' \in Seq(PointerInputs)
         /\ LeaveReported => Queued("leave")'
         /\ ptr.down => Queued("release")'
    <2>1. CASE LeaveReported
      <3>1. r \o <<j>> = Append(r, j) BY <1>12
      <3>2. queue' = Append(r, j) BY <1>7, <1>8, <2>1, <3>1
      <3>3. Taken(a, Append(r, j)) = HandleInput(Taken(a, r), j) BY <1>4, <1>12, TakenMore
      <3>4. Told' = HandleInput(b, j) BY <1>10, <1>12, <3>2, <3>3 DEF Told
      <3>5. Told' = [b EXCEPT !.over = "none"] BY <1>3, <3>4 DEF HandleInput
      <3>6. queue' \in Seq(PointerInputs) BY <1>3, <1>12, <3>2, OneMore, Zenon
      <3>7. Len(r) \in Nat /\ Len(Append(r, j)) = Len(r) + 1 /\ Append(r, j)[Len(r) + 1] = j
        BY <1>12
      <3>8. Len(r) + 1 \in 1 .. Len(r) + 1 BY <3>7
      <3>9. Queued("leave")' BY <1>3, <3>2, <3>7, <3>8 DEF Queued
      <3>10. ptr.down => Queued("release")'
        <4>1. CASE ptr.down
          <5>1. r = <<i>> BY <1>6, <4>1
          <5>2. Append(r, j)[1] = i /\ Len(Append(r, j)) = 2 BY <5>1
          <5> QED BY <1>2, <3>2, <5>2 DEF Queued
        <4> QED BY <4>1
      <3> QED BY <2>1, <3>5, <3>6, <3>9, <3>10
    <2>2. CASE ~LeaveReported
      <3>1. queue' = r
        <4>1. r \o <<>> = r BY <1>12
        <4> QED BY <1>7, <1>8, <2>2, <4>1
      <3>2. Told' = b BY <1>10, <1>12, <3>1 DEF Told
      <3>3. ptr.down => Queued("release")'
        <4>1. CASE ptr.down
          <5>1. r = <<i>> BY <1>6, <4>1
          <5> QED BY <1>2, <3>1, <5>1 DEF Queued
        <4> QED BY <4>1
      <3> QED BY <1>12, <2>2, <3>1, <3>2, <3>3
    <2> QED BY <2>1, <2>2
  <1>14. /\ ptr' \in [focused : BOOLEAN, surface : Surfaces, down : BOOLEAN, frame : Frames]
         /\ ptr'.focused = FALSE /\ ptr'.down = FALSE /\ ptr'.frame = NoFrame
    BY <1>1 DEF ResetPointerDevice, Surfaces, NoFrame, Frames
  <1>15. /\ Told' \in Apps /\ Told'.focused = app.focused /\ Told'.steps = app.steps
         /\ Told'.slipped = app.slipped /\ Told'.erased = x
         /\ Told'.over = (IF LeaveReported THEN "none" ELSE app.over)
         /\ Told'.down = (~ptr.down /\ app.down)
    BY <1>1, <1>10, <1>12, <1>13 DEF Apps
  <1>16. /\ a.focused = app.focused /\ a.steps = app.steps /\ a.slipped = app.slipped
         /\ a.erased = x /\ a.over = app.over /\ a.down = app.down
    BY <1>1, <1>10 DEF Apps
  <1>17. Over' = "none" BY <1>14 DEF Over
  <1>18. ~kbd.active /\ ~kbd.focused BY DEF Follows, PointerFollows
  <1>19. InputShaped' BY <1>0, <1>10, <1>13, <1>14, <1>15 DEF InputShaped
  <1>20. RecordsAgree'
    <2>1. ~app.focused BY <1>5, <1>18 DEF RecordsAgree
    <2>2. ~LeaveReported => app.over = "none" BY <1>5 DEF RecordsAgree
    <2>3. ~ptr.down => ~app.down \/ x BY <1>11 DEF RecordsAgree
    <2>4. Told'.focused = kbd'.focused /\ Told'.over = Over'
      BY <1>0, <1>15, <1>17, <1>18, <2>1, <2>2 DEF InputShaped, Apps
    <2>5. Told'.down = ptr'.down \/ Told'.erased
      BY <1>14, <1>15, <2>3
    <2>6. /\ app'.steps <= Told'.steps /\ Told'.slipped = app'.slipped
          /\ Told'.erased = app'.erased
      BY <1>1, <1>10, <1>15, <1>16 DEF Apps
    <2>7. ~app'.focused BY <1>10, <1>16, <2>1
    <2>8. Queued("leave")' \/ app'.over = "none" BY <1>10, <1>13, <1>16, <2>2
    <2>9. Queued("release")' \/ ~app'.down \/ app'.erased BY <1>10, <1>13, <1>16, <2>3
    <2> QED BY <2>4, <2>5, <2>6, <2>7, <2>8, <2>9 DEF RecordsAgree
  <1>21. u = [v EXCEPT !.device = FALSE, !.focus = "none", !.moving = FALSE,
                       !.held = {}, !.down = FALSE, !.frame = NoFrame]
    BY DEF Step
  <1>22. /\ u.device = FALSE /\ u.focus = "none" /\ u.moving = FALSE /\ u.down = FALSE
         /\ u.frame = NoFrame /\ u.clicks = v.clicks /\ v.clicks \in Nat
    BY <1>21 DEF Views
  <1>23. HasArrived(u)'
    <2>1. app.steps <= v.clicks
      BY <1>1, <1>22 DEF RecordsAgree, Follows, HasArrived, Apps
    <2>2. win'.device = FALSE BY DEF InputShaped
    <2> QED BY <1>14, <1>15, <1>22, <2>1, <2>2 DEF HasArrived
  <1>24. PointerFollows(u)' BY <1>0, <1>17, <1>18, <1>22 DEF PointerFollows
  <1>25. win'.seat = "pointer" BY DEF InputShaped
  <1> QED BY <1>19, <1>20, <1>23, <1>24, <1>25 DEF Follows

-----------------------------------------------------------------------------
(* The steps. *)

\* The first event arrives.
LEMMA InputArrivesStep ==
  ASSUME InputInv, InputArrives
  PROVE  InputInv'
  <1>0. InputShaped /\ ShellShaped /\ RecordsAgree /\ wire \in Seq(Events)
    BY DEF InputInv, ShellShaped
  <1>1. PICK v : Follows(v) /\ Leads(win.seat, v, wire, ShellView) BY DEF InputInv
  <1>2. wire # <<>> /\ wire' = Tail(wire) /\ UNCHANGED shell BY DEF InputArrives
  <1>3. PICK e : e = Head(wire) OBVIOUS
  <1>4. PICK u : u = Step(v, e) OBVIOUS
  <1>5. /\ v \in Views /\ e \in Events /\ Legal(win.seat, v, e) /\ u \in Views
        /\ Leads(win.seat, u, wire', ShellView)
    BY <1>0, <1>1, <1>2, <1>3, <1>4, LeadsOff, Zenon
  <1>6. win.seat \in {"keyboard", "pointer"} BY <1>0 DEF InputShaped
  <1>7. InputShaped' /\ RecordsAgree' /\ Follows(u)' /\ win'.seat = win.seat
    <2> USE <1>0, <1>1, <1>4, <1>5
    <2>1. CASE e.kind = "attach" /\ win' = [win EXCEPT !.device = TRUE]
                 /\ UNCHANGED <<kbd, ptr, queue, app>>
      <3>1. win'.seat = win.seat BY <2>1 DEF InputShaped
      <3> QED BY <2>1, <3>1, AttachArrives
    <2>2. CASE e.kind = "detach" /\ win' = [win EXCEPT !.device = FALSE]
                 /\ IF win.seat = "keyboard" THEN ResetKeyboardDevice ELSE ResetPointerDevice
      <3>1. win'.seat = win.seat BY <2>2 DEF InputShaped
      <3> QED BY <1>6, <2>2, <3>1, KeyboardDetaches, PointerDetaches
    <2>3. CASE e.kind = "popupDone" /\ win' = [win EXCEPT !.done = win.popup]
                 /\ UNCHANGED <<kbd, ptr, queue, app>>
      <3>1. win'.seat = win.seat BY <2>3 DEF InputShaped
      <3> QED BY <2>3, <3>1, PopupDoneArrives
    <2>4. CASE e.kind = "enter" /\ win.seat = "keyboard" /\ KeyboardEnter
      <3>1. win' = win BY <2>4 DEF KeyboardEnter
      <3> QED BY <2>4, <3>1, KeyboardEnterArrives
    <2>5. CASE e.kind = "leave" /\ win.seat = "keyboard" /\ KeyboardLeave(e)
      <3>1. win' = win BY <2>5 DEF KeyboardLeave
      <3> QED BY <2>5, <3>1, KeyboardLeaveArrives
    <2>6. CASE e.kind \in {"keymap", "rate", "keyDown", "keyUp"} /\ Keyboard(e)
      <3>1. win' = win BY <2>6 DEF Keyboard
      <3>2. win.seat = "keyboard" BY <2>6 DEF Legal
      <3> QED BY <2>6, <3>1, <3>2, KeyboardArrives
    <2>7. CASE e.kind = "enter" /\ win.seat = "pointer" /\ PointerEnter(e)
      <3>1. win' = win BY <2>7 DEF PointerEnter
      <3> QED BY <2>7, <3>1, PointerEnterArrives
    <2>8. CASE e.kind = "leave" /\ win.seat = "pointer" /\ RecordPointerLeave
                 /\ UNCHANGED <<kbd, app, win>>
      BY <2>8, PointerLeaveArrives
    <2>9. CASE e.kind \in {"press", "release"} /\ PointerButton(e)
      <3>1. win' = win BY <2>9 DEF PointerButton
      <3> QED BY <2>9, <3>1, ButtonArrives
    <2>10. CASE e.kind = "axis" /\ PointerAxis(e)
      <3>1. win' = win BY <2>10 DEF PointerAxis
      <3> QED BY <2>10, <3>1, AxisArrives
    <2>11. CASE e.kind = "frame" /\ RecordPointerFrame
      <3>1. win' = win BY <2>11 DEF RecordPointerFrame
      <3> QED BY <2>11, <3>1, FrameArrives
    <2> QED
      BY <1>3, <2>1, <2>2, <2>3, <2>4, <2>5, <2>6, <2>7, <2>8, <2>9, <2>10, <2>11,
         Zenon DEF InputArrives
  <1>8. ShellView' = ShellView BY <1>2 DEF ShellView
  <1>9. ShellShaped'
    <2>1. wire' \in Seq(Events) BY <1>0, <1>2
    <2> QED BY <1>0, <1>2, <1>7, <2>1 DEF ShellShaped, CompositorShaped
  <1>10. Leads(win'.seat, u, wire', ShellView') BY <1>5, <1>7, <1>8, Zenon
  <1> QED BY <1>7, <1>9, <1>10, Zenon DEF InputInv

\* A path starts and ends in views.
LEMMA LeadsFrom ==
  ASSUME NEW seat, NEW v, NEW u, NEW s \in Seq(Events), Leads(seat, v, s, u)
  PROVE  v \in Views /\ u \in Views
  <1>1. PICK f : Path(f, seat, v, s, u) BY DEF Leads
  <1>2. PICK k \in Nat : k = Len(s) OBVIOUS
  <1>3. f \in [0 .. k -> Views] /\ f[0] = v /\ f[k] = u BY <1>1, <1>2 DEF Path
  <1> QED BY <1>2, <1>3

\* What is due is never in the past once it has run.
LEMMA RepeatsRun ==
  ASSUME NEW k \in KeyboardRecords, k.active => k.rate # 0, NEW ticks \in 0 .. MaxStall,
         InputBounds
  PROVE  LET s == RunKeyRepeat([k EXCEPT !.due = @ - ticks])
             r == IF k.active THEN s ELSE k
         IN  /\ r \in KeyboardRecords /\ r.focused = k.focused /\ r.keymap = k.keymap
             /\ r.active = k.active /\ r.key = k.key /\ r.rate = k.rate
             /\ r.active => r.due > 0
  <1> DEFINE late == [k EXCEPT !.due = @ - ticks]
             s == RunKeyRepeat(late)
             r == IF k.active THEN s ELSE k
  <1>1. ticks \in Nat /\ Second \in Nat /\ MaxBurst \in Nat /\ k.rate \in Nat /\ k.due \in Int
    BY DEF InputBounds, KeyboardRecords
  <1>2. CASE ~k.active BY <1>2
  <1>3. CASE k.active
    <2>1. PICK w \in Nat \ {0} : w = Interval(k.rate)
      <3>1. Second \div k.rate \in Int BY <1>1, <1>3
      <3> QED BY <3>1 DEF Interval
    <2>2. PICK d \in Int : d = k.due - ticks BY <1>1
    <2>3. late = [k EXCEPT !.due = d] /\ late.due = d /\ late.rate = k.rate /\ late.active
      BY <1>3, <2>2 DEF KeyboardRecords
    <2>4. PICK n \in Int : n = Emitted(late)
      <3>1. (0 - d) \div w \in Int BY <2>1, <2>2
      <3>2. Emitted(late) = LET l == IF d > 0 THEN 0 ELSE 1 + (0 - d) \div w
                            IN  IF l < MaxBurst THEN l ELSE MaxBurst
        BY <1>3, <2>1, <2>3 DEF Emitted
      <3> QED BY <1>1, <2>2, <3>1, <3>2
    <2>5. PICK x \in Int : x = d + n * w BY <2>1, <2>2, <2>4
    <2>6. PICK z \in Nat \ {0} : z = IF x > 0 THEN x ELSE w BY <2>1, <2>5
    <2>7. PICK c \in BOOLEAN :
             c = IF k.key = Dead THEN (k.composing # (n % 2 = 1)) ELSE k.composing
      BY DEF KeyboardRecords
    <2>8. s = [late EXCEPT !.due = z, !.composing = c]
      <3>1. late.key = k.key /\ late.composing = k.composing BY <2>3 DEF KeyboardRecords
      <3> QED BY <1>3, <2>1, <2>3, <2>4, <2>5, <2>6, <2>7, <3>1 DEF RunKeyRepeat, KeyboardRecords
    <2>9. s = [k EXCEPT !.due = z, !.composing = c] BY <2>3, <2>8 DEF KeyboardRecords
    <2>10. PICK t \in KeyboardRecords : t = [k EXCEPT !.due = z, !.composing = c]
      <3>1. z \in Int /\ c \in BOOLEAN BY <2>6, <2>7
      <3> HIDE <2>6, <2>7
      <3> QED BY <3>1 DEF KeyboardRecords
    <2>11. /\ t.focused = k.focused /\ t.keymap = k.keymap /\ t.active = k.active
           /\ t.key = k.key /\ t.rate = k.rate /\ t.due > 0
      BY <2>10 DEF KeyboardRecords
    <2>12. r = t BY <1>3, <2>9, <2>10, Zenon
    <2> QED BY <2>11, <2>12, Zenon
  <1> QED BY <1>2, <1>3

\* A turn: the application takes what is queued.
LEMMA TurnStep ==
  ASSUME InputInv, Turn, InputBounds
  PROVE  InputInv' /\ (kbd'.active => kbd'.due > 0)
  <1>0. InputShaped /\ ShellShaped /\ RecordsAgree /\ wire \in Seq(Events)
    BY DEF InputInv, ShellShaped
  <1>1. PICK v : Follows(v) /\ Leads(win.seat, v, wire, ShellView) BY DEF InputInv
  <1>2. queue' = <<>> /\ UNCHANGED <<ptr, shell, wire>> BY DEF Turn
  <1>3. PICK ticks \in 0 .. MaxStall :
           kbd' = IF kbd.active THEN RunKeyRepeat([kbd EXCEPT !.due = @ - ticks]) ELSE kbd
    BY DEF Turn
  <1>4. /\ kbd' \in KeyboardRecords /\ kbd'.focused = kbd.focused /\ kbd'.keymap = kbd.keymap
        /\ kbd'.active = kbd.active /\ kbd'.key = kbd.key /\ kbd'.rate = kbd.rate
        /\ kbd'.active => kbd'.due > 0
    <2>1. kbd \in KeyboardRecords /\ (kbd.active => kbd.rate # 0)
      BY <1>0 DEF InputShaped, KeyboardRecords
    <2> QED BY <1>3, <2>1, RepeatsRun
  <1>5. /\ app' = Told
        /\ \E open \in BOOLEAN, keep \in BOOLEAN, more \in BOOLEAN :
              /\ win' = [win EXCEPT !.done = FALSE,
                     !.popup = open /\ (keep \/ (~win.popup /\ ~shell.popup /\ win.device
                          /\ wire = <<>> /\ more))]
              /\ keep => win.popup
    <2>1. \E t \in 0 .. MaxStall, open \in BOOLEAN :
            LET lost == app.focused /\ ~Told.focused
                keep == win.popup /\ ~win.done /\ ~lost
            IN /\ app' = Told
               /\ win' = [win EXCEPT !.done = FALSE,
                     !.popup = open /\ (keep \/ (~win.popup /\ ~shell.popup /\ win.device
                          /\ wire = <<>> /\ (Told.focused \/ Told.over = "toplevel")))]
      BY Zenon DEF Turn
    <2>2. PICK open \in BOOLEAN :
            LET lost == app.focused /\ ~Told.focused
                keep == win.popup /\ ~win.done /\ ~lost
            IN /\ app' = Told
               /\ win' = [win EXCEPT !.done = FALSE,
                     !.popup = open /\ (keep \/ (~win.popup /\ ~shell.popup /\ win.device
                          /\ wire = <<>> /\ (Told.focused \/ Told.over = "toplevel")))]
      BY <2>1
    <2>3. PICK keep \in BOOLEAN :
             keep <=> win.popup /\ ~win.done /\ ~(app.focused /\ ~Told.focused)
      OBVIOUS
    <2>4. PICK more \in BOOLEAN : more <=> Told.focused \/ Told.over = "toplevel" OBVIOUS
    <2>5. win' = [win EXCEPT !.done = FALSE,
                     !.popup = open /\ (keep \/ (~win.popup /\ ~shell.popup /\ win.device
                          /\ wire = <<>> /\ more))]
      BY <2>2, <2>3, <2>4
    <2> QED BY <2>2, <2>3, <2>5
  <1>6. /\ win' \in [seat : {"keyboard", "pointer"}, device : BOOLEAN, popup : BOOLEAN, done : BOOLEAN]
        /\ win'.seat = win.seat /\ win'.device = win.device
        /\ win'.popup => win.popup \/ (~shell.popup /\ wire = <<>>)
    BY <1>0, <1>5 DEF InputShaped
  <1>7. Told' = Told BY <1>2, <1>5, TakenNone DEF Told
  <1>8. InputShaped'
    <2>1. <<>> \in Seq(KeyboardInputs) /\ <<>> \in Seq(PointerInputs) OBVIOUS
    <2> QED BY <1>0, <1>2, <1>4, <1>5, <1>6, <1>7, <2>1 DEF InputShaped, KeyboardRecords
  <1>9. ShellShaped' BY <1>0, <1>2, <1>6 DEF ShellShaped, CompositorShaped
  <1>10. RecordsAgree'
    <2>1. Over' = Over BY <1>2 DEF Over
    <2>2. Told.steps \in Nat BY <1>0 DEF InputShaped, Apps
    <2> QED BY <1>0, <1>2, <1>4, <1>5, <1>7, <2>1, <2>2 DEF RecordsAgree, Over
  <1>11. Follows(v)'
    <2>1. Over' = Over BY <1>2 DEF Over
    <2>2. app'.slipped = app.slipped BY <1>0, <1>5 DEF RecordsAgree
    <2>3. HasArrived(v)' BY <1>1, <1>2, <1>6, <1>7 DEF Follows, HasArrived
    <2>4. win.seat = "keyboard" => KeyboardFollows(v)'
      BY <1>1, <1>2, <1>4, <2>2 DEF Follows, KeyboardFollows
    <2>5. win.seat # "keyboard" => PointerFollows(v)'
      BY <1>1, <1>4, <2>1 DEF Follows, PointerFollows
    <2> QED BY <1>6, <2>3, <2>4, <2>5 DEF Follows
  <1>12. Leads(win'.seat, v, wire', ShellView')
    BY <1>1, <1>2, <1>6 DEF ShellView
  <1> QED BY <1>4, <1>8, <1>9, <1>10, <1>11, <1>12, Zenon DEF InputInv

-----------------------------------------------------------------------------
(* What the compositor sends leads from what it was to what it is. *)

\* Two events, one after the other.
LEMMA LeadsTwo ==
  ASSUME NEW seat, NEW v \in Views, NEW u \in Views, NEW w \in Views,
         NEW e \in Events, NEW f \in Events,
         Legal(seat, v, e), u = Step(v, e), Legal(seat, u, f), w = Step(u, f)
  PROVE  <<e, f>> \in Seq(Events) /\ Leads(seat, v, <<e, f>>, w)
  <1>1. <<e>> \in Seq(Events) /\ <<f>> \in Seq(Events) BY OneOf, Zenon
  <1>2. <<e, f>> = <<e>> \o <<f>>
    <2>1. <<e>> \o <<f>> = Append(<<e>>, f) BY <1>1
    <2>2. <<e, f>> = Append(<<e>>, f) OBVIOUS
    <2> QED BY <2>1, <2>2, Zenon
  <1>3. Leads(seat, v, <<e>>, u) BY LeadsOne, Zenon
  <1>4. Leads(seat, u, <<f>>, w) BY LeadsOne, Zenon
  <1>5. Leads(seat, v, <<e>> \o <<f>>, w) BY <1>1, <1>3, <1>4, LeadsOn, Zenon
  <1>6. <<e, f>> \in Seq(Events) OBVIOUS
  <1> QED BY <1>2, <1>5, <1>6, Zenon

\* What the compositor is, as a view,
LEMMA ShellViewIs ==
  ASSUME CompositorShaped
  PROVE  ShellView \in Views
  BY DEF CompositorShaped, ShellView, Views, Frames, NoFrame

\* and after a step.
LEMMA ShellViewIsNext ==
  ASSUME CompositorShaped'
  PROVE  ShellView' \in Views
  BY DEF CompositorShaped, ShellView, Views, Frames, NoFrame

\* Then what is on its way leads to what it is.
LEMMA SentStep ==
  ASSUME InputInv, NEW sent \in Seq(Events), Send(sent), CompositorShaped',
         UNCHANGED <<kbd, ptr, queue, win, app>>, Leads(win.seat, ShellView, sent, ShellView')
  PROVE  InputInv'
  <1>1. InputShaped /\ ShellShaped /\ RecordsAgree /\ wire \in Seq(Events)
    BY DEF InputInv, ShellShaped
  <1>2. PICK v : Follows(v) /\ Leads(win.seat, v, wire, ShellView) BY DEF InputInv
  <1>3. Leads(win.seat, v, wire \o sent, ShellView') BY <1>1, <1>2, LeadsOn, Zenon
  <1>4. wire' = wire \o sent /\ wire \o sent \in Seq(Events) BY <1>1 DEF Send
  <1>5. Told' = Told BY ToldSame
  <1>6. InputShaped' BY <1>1, <1>5 DEF InputShaped
  <1>7. RecordsAgree' BY <1>1, <1>5, QueuedSame DEF RecordsAgree, Over
  <1>8. Follows(v)'
    BY <1>2, <1>5 DEF Follows, HasArrived, KeyboardFollows, PointerFollows, Over
  <1>9. ShellShaped' BY <1>4 DEF ShellShaped
  <1>10. Leads(win'.seat, v, wire', ShellView') BY <1>3, <1>4, Zenon
  <1> QED BY <1>6, <1>7, <1>8, <1>9, <1>10, Zenon DEF InputInv

\* The device comes or goes.
LEMMA CompDeviceStep ==
  ASSUME InputInv, CompDevice, InputBounds
  PROVE  InputInv'
  <1>1. CompositorShaped /\ ShellView \in Views BY ShellViewIs DEF InputInv, ShellShaped
  <1>2. UNCHANGED <<kbd, ptr, queue, win, app>> BY DEF CompDevice
  <1>3. CASE shell.device
    <2>1. Send(<<Ev("detach")>>) BY <1>3 DEF CompDevice
    <2>2. shell' = [shell EXCEPT !.device = FALSE, !.focus = "none", !.held = {}, !.down = FALSE]
      BY <1>3 DEF CompDevice
    <2>3. PICK e \in Events : e = Ev("detach") BY DEF Ev, Events
    <2>4. e.kind = "detach" BY <2>3 DEF Ev
    <2>5. CompositorShaped' BY <1>1, <1>2, <2>2 DEF CompositorShaped
    <2>6. ShellView' \in Views BY <2>5, ShellViewIsNext
    <2>7. ShellView' = Step(ShellView, e) BY <1>1, <2>2, <2>4 DEF CompositorShaped, Step, ShellView
    <2>8. Legal(win.seat, ShellView, e) BY <2>4 DEF Legal, ShellView
    <2>9. Leads(win.seat, ShellView, <<e>>, ShellView') BY <1>1, <2>6, <2>7, <2>8, LeadsOne
    <2>10. <<e>> \in Seq(Events) BY OneOf
    <2> QED BY <1>2, <2>1, <2>3, <2>5, <2>9, <2>10, SentStep, Zenon
  <1>4. CASE ~shell.device
    <2>1. PICK rate \in Rates :
             Send(<<Ev("attach")>> \o
                  (IF win.seat = "keyboard"
                   THEN <<Ev("keymap"), [kind |-> "rate", rate |-> rate]>> ELSE <<>>))
      BY <1>4 DEF CompDevice
    <2>2. shell' = [shell EXCEPT !.device = TRUE] BY <1>4 DEF CompDevice
    <2>3. CompositorShaped' BY <1>1, <1>2, <2>2 DEF CompositorShaped
    <2>4. PICK w \in Views : w = ShellView' BY <2>3, ShellViewIsNext
    <2>5. PICK e \in Events : e = Ev("attach") BY DEF Ev, Events
    <2>6. PICK f \in Events : f = Ev("keymap") BY DEF Ev, Events
    <2>7. PICK g \in Events : g = [kind |-> "rate", rate |-> rate] BY DEF Events, InputBounds
    <2>8. e.kind = "attach" /\ f.kind = "keymap" /\ g.kind = "rate" BY <2>5, <2>6, <2>7 DEF Ev
    <2>9. w = Step(ShellView, e) BY <1>1, <2>2, <2>4, <2>8 DEF CompositorShaped, Step, ShellView
    <2>10. Legal(win.seat, ShellView, e) BY <2>8 DEF Legal, ShellView
    <2>11. Leads(win.seat, ShellView, <<e>>, w) /\ <<e>> \in Seq(Events)
      BY <1>1, <2>9, <2>10, LeadsOne, OneOf
    <2>12. PICK t : t = IF win.seat = "keyboard" THEN <<f, g>> ELSE <<>> OBVIOUS
    <2>13. t \in Seq(Events) /\ Leads(win.seat, w, t, w)
      <3>1. CASE win.seat = "keyboard"
        <4>1. Legal(win.seat, w, f) /\ Legal(win.seat, w, g)
          BY <2>4, <2>8, <3>1 DEF Legal, ShellView
        <4>2. w = Step(w, f) /\ w = Step(w, g) BY <2>8 DEF Step
        <4>3. <<f, g>> \in Seq(Events) /\ Leads(win.seat, w, <<f, g>>, w)
          BY <4>1, <4>2, LeadsTwo, Zenon
        <4> QED BY <2>12, <3>1, <4>3
      <3>2. CASE win.seat # "keyboard"
        <4>1. t = <<>> BY <2>12, <3>2
        <4>2. Leads(win.seat, w, <<>>, w) BY LeadsNowhere
        <4> QED BY <4>1, <4>2
      <3> QED BY <3>1, <3>2
    <2>14. Leads(win.seat, ShellView, <<e>> \o t, ShellView')
      BY <2>4, <2>11, <2>13, LeadsOn, Zenon
    <2>15. Send(<<e>> \o t) BY <2>1, <2>5, <2>6, <2>7, <2>12, Zenon
    <2>16. <<e>> \o t \in Seq(Events) BY <2>11, <2>13
    <2> QED BY <1>2, <2>3, <2>14, <2>15, <2>16, SentStep, Zenon
  <1> QED BY <1>3, <1>4

\* An event that crosses, as the compositor sends it.
LEMMA CrossingIs ==
  ASSUME NEW kind \in {"enter", "leave", "press", "release"}, NEW surface \in Surfaces,
         NEW to \in Surfaces \cup {"none"}
  PROVE  /\ At(kind, surface, to) \in Events /\ At(kind, surface, to).kind = kind
         /\ At(kind, surface, to).surface = surface /\ At(kind, surface, to).to = to
  BY DEF At, Events

\* The end of a popup says nothing of the device.
LEMMA PopupDoneLeads ==
  ASSUME NEW seat, NEW v \in Views, ~v.moving
  PROVE  <<Ev("popupDone")>> \in Seq(Events) /\ Leads(seat, v, <<Ev("popupDone")>>, v)
  <1>0. PICK e \in Events : e = Ev("popupDone") BY DEF Ev, Events
  <1>1. e = Ev("popupDone") /\ e.kind = "popupDone" BY <1>0 DEF Ev
  <1>2. Legal(seat, v, e) BY <1>1 DEF Legal
  <1>3. v = Step(v, e) BY <1>1 DEF Step
  <1>4. <<e>> \in Seq(Events) BY OneOf
  <1>5. Leads(seat, v, <<e>>, v) BY <1>2, <1>3, LeadsOne
  <1> QED BY <1>1, <1>4, <1>5, Zenon

\* A leave, alone or before an enter,
LEMMA LeaveLeads ==
  ASSUME NEW seat, NEW v \in Views, ~v.moving, v.device, v.focus # "none",
         NEW to \in Surfaces \cup {"none"}
  PROVE  LET u == [v EXCEPT !.focus = "none", !.moving = to # "none",
                            !.held = IF to = "none" THEN {} ELSE @]
             sent == <<At("leave", v.focus, to)>>
         IN  u \in Views /\ sent \in Seq(Events) /\ Leads(seat, v, sent, u)
  <1>1. v.focus \in Surfaces BY DEF Views
  <1>2. PICK e \in Events : e = At("leave", v.focus, to) /\ e.kind = "leave" /\ e.to = to
    BY <1>1, CrossingIs
  <1>3. Legal(seat, v, e) BY <1>2 DEF Legal
  <1>4. PICK u \in Views : u = [v EXCEPT !.focus = "none", !.moving = to # "none",
                                         !.held = IF to = "none" THEN {} ELSE @]
    BY DEF Views
  <1>5. u = Step(v, e) BY <1>2, <1>4 DEF Step
  <1>6. Leads(seat, v, <<e>>, u) /\ <<e>> \in Seq(Events) BY <1>3, <1>5, LeadsOne, OneOf
  <1> QED BY <1>2, <1>4, <1>6, Zenon

\* and an enter.
LEMMA EnterLeads ==
  ASSUME NEW seat, NEW v \in Views, v.device, NEW to \in Surfaces,
         to = "popup" => v.focus = "none"
  PROVE  LET u == [v EXCEPT !.focus = to, !.moving = FALSE]
             sent == <<At("enter", to, to)>>
         IN  u \in Views /\ sent \in Seq(Events) /\ Leads(seat, v, sent, u)
  <1>1. PICK e \in Events : e = At("enter", to, to) /\ e.kind = "enter" /\ e.surface = to
    BY CrossingIs
  <1>2. Legal(seat, v, e) BY <1>1 DEF Legal
  <1>3. PICK u \in Views : u = [v EXCEPT !.focus = to, !.moving = FALSE] BY DEF Views
  <1>4. u = Step(v, e) BY <1>1, <1>3 DEF Step
  <1>5. Leads(seat, v, <<e>>, u) /\ <<e>> \in Seq(Events) BY <1>2, <1>4, LeadsOne, OneOf
  <1> QED BY <1>1, <1>3, <1>5, Zenon

\* Nothing sent leads nowhere.
LEMMA NothingLeads ==
  ASSUME NEW seat, NEW v \in Views
  PROVE  <<>> \in Seq(Events) /\ Leads(seat, v, <<>>, v)
  BY LeadsNowhere

\* Focus moves.
LEMMA CompFocusStep ==
  ASSUME InputInv, CompFocus
  PROVE  InputInv'
  <1>1. CompositorShaped /\ ShellView \in Views BY ShellViewIs DEF InputInv, ShellShaped
  <1>2. UNCHANGED <<kbd, ptr, queue, win, app>> /\ shell.device /\ ~shell.down BY DEF CompFocus
  <1>3. PICK to \in {"none", "toplevel"} \cup (IF shell.popup THEN {"popup"} ELSE {}) :
        /\ to # shell.focus
        /\ win.seat = "keyboard" => (shell.popup => to = "none")
        /\ Send((IF shell.focus = "none" THEN <<>> ELSE <<At("leave", shell.focus, to)>>)
             \o (IF to = "none" THEN <<>> ELSE <<At("enter", to, to)>>)
             \o (IF shell.popup /\ to = "none" THEN <<Ev("popupDone")>> ELSE <<>>))
        /\ shell' = [shell EXCEPT !.focus = to, !.popup = @ /\ to # "none",
                       !.held = IF to = "none" THEN {} ELSE @]
    BY DEF CompFocus
  <1>4. to \in Surfaces \cup {"none"} /\ (to = "popup" => shell.popup) BY <1>3 DEF Surfaces
  <1>5. CompositorShaped' BY <1>1, <1>2, <1>3, <1>4 DEF CompositorShaped, Surfaces
  <1>6. PICK v \in Views : v = ShellView BY <1>1
  <1>7. ~v.moving /\ v.device /\ v.focus = shell.focus /\ v.held = shell.held
    BY <1>2, <1>6 DEF ShellView
  <1>8. PICK a : a = IF shell.focus = "none" THEN <<>> ELSE <<At("leave", shell.focus, to)>> OBVIOUS
  <1>9. PICK b : b = IF to = "none" THEN <<>> ELSE <<At("enter", to, to)>> OBVIOUS
  <1>10. PICK c : c = IF shell.popup /\ to = "none" THEN <<Ev("popupDone")>> ELSE <<>> OBVIOUS
  <1>11. PICK u : u = IF shell.focus = "none" THEN v
                      ELSE [v EXCEPT !.focus = "none", !.moving = to # "none",
                                     !.held = IF to = "none" THEN {} ELSE @]
    OBVIOUS
  <1>12. u \in Views /\ a \in Seq(Events) /\ Leads(win.seat, v, a, u)
    <2>1. CASE shell.focus = "none" BY <1>8, <1>11, <2>1, NothingLeads
    <2>2. CASE shell.focus # "none" BY <1>4, <1>7, <1>8, <1>11, <2>2, LeaveLeads, Zenon
    <2> QED BY <2>1, <2>2
  <1>13. (u.device /\ u.focus = "none") \/ (shell.focus = "none" /\ u = v) BY <1>7, <1>11 DEF Views
  <1>14. PICK w : w = IF to = "none" THEN u ELSE [u EXCEPT !.focus = to, !.moving = FALSE] OBVIOUS
  <1>15. w \in Views /\ b \in Seq(Events) /\ Leads(win.seat, u, b, w)
    <2>1. CASE to = "none" BY <1>9, <1>12, <1>14, <2>1, NothingLeads
    <2>2. CASE to # "none"
      <3>1. u.device /\ u.focus = "none" BY <1>7, <1>13
      <3>2. to \in Surfaces BY <1>4, <2>2
      <3> QED BY <1>9, <1>12, <1>14, <2>2, <3>1, <3>2, EnterLeads, Zenon
    <2> QED BY <2>1, <2>2
  <1>16. w = ShellView'
    <2>1. w = [v EXCEPT !.focus = to, !.held = IF to = "none" THEN {} ELSE @]
      <3>1. v.focus = shell.focus /\ v.moving = FALSE BY <1>6 DEF ShellView
      <3>2. CASE to = "none" BY <1>3, <1>11, <1>14, <3>1, <3>2 DEF Views
      <3>3. CASE to # "none" BY <1>3, <1>11, <1>14, <3>1, <3>3 DEF Views
      <3> QED BY <3>2, <3>3
    <2> QED BY <1>1, <1>3, <1>6, <2>1 DEF ShellView, CompositorShaped
  <1>17. c \in Seq(Events) /\ Leads(win.seat, w, c, w)
    <2>1. ~w.moving BY <1>16 DEF ShellView
    <2> QED BY <1>10, <1>15, <2>1, PopupDoneLeads, NothingLeads
  <1>18. Leads(win.seat, v, a \o b, w) BY <1>12, <1>15, LeadsOn, Zenon
  <1>19. a \o b \in Seq(Events) BY <1>12, <1>15
  <1>20. Leads(win.seat, v, (a \o b) \o c, w) BY <1>17, <1>18, <1>19, LeadsOn, Zenon
  <1>21. (a \o b) \o c \in Seq(Events) BY <1>17, <1>19
  <1>22. Send((a \o b) \o c) BY <1>3, <1>8, <1>9, <1>10, Zenon
  <1>23. Leads(win.seat, ShellView, (a \o b) \o c, ShellView') BY <1>6, <1>16, <1>20, Zenon
  <1> QED BY <1>2, <1>5, <1>21, <1>22, <1>23, SentStep, Zenon

\* The popup takes the focus, or is dismissed.
LEMMA CompPopupStep ==
  ASSUME InputInv, CompPopup
  PROVE  InputInv'
  <1>1. CompositorShaped /\ ShellView \in Views BY ShellViewIs DEF InputInv, ShellShaped
  <1>2. UNCHANGED <<kbd, ptr, queue, win, app>> BY DEF CompPopup
  <1>3. ~ShellView.moving /\ ShellView.focus = shell.focus /\ ShellView.held = shell.held
    BY DEF ShellView
  <1>4. CASE shell.focus = "none"
    <2>1. Send(<<Ev("popupDone")>>) /\ shell' = shell BY <1>4 DEF CompPopup
    <2>2. ShellView' = ShellView /\ CompositorShaped'
      BY <1>1, <1>2, <2>1 DEF ShellView, CompositorShaped
    <2>3. <<Ev("popupDone")>> \in Seq(Events)
            /\ Leads(win.seat, ShellView, <<Ev("popupDone")>>, ShellView)
      BY <1>1, <1>3, PopupDoneLeads
    <2> QED BY <1>2, <2>1, <2>2, <2>3, SentStep, Zenon
  <1>5. CASE shell.focus # "none" /\ win.seat = "keyboard"
    <2>1. shell' = [shell EXCEPT !.popup = TRUE, !.focus = "popup"] BY <1>5 DEF CompPopup
    <2>2. wire' = wire \o <<At("leave", "toplevel", "popup"), At("enter", "popup", "popup")>>
      BY <1>5 DEF CompPopup, Send
    <2>3. shell.device /\ ShellView.device BY <1>1, <1>5 DEF CompositorShaped, ShellView
    <2>4. CompositorShaped' BY <1>1, <1>2, <2>1, <2>3 DEF CompositorShaped, Surfaces
    <2>5. PICK v \in Views : v = ShellView BY <1>1
    <2>6. PICK w \in Views : w = ShellView' BY <2>4, ShellViewIsNext
    <2>7. PICK e \in Events : e = At("leave", "toplevel", "popup") /\ e.kind = "leave"
                                 /\ e.to = "popup"
      BY CrossingIs DEF Surfaces
    <2>8. PICK f \in Events : f = At("enter", "popup", "popup") /\ f.kind = "enter"
                                 /\ f.surface = "popup"
      BY CrossingIs DEF Surfaces
    <2>9. PICK u \in Views : u = [v EXCEPT !.focus = "none", !.moving = TRUE] BY DEF Views
    <2>10. u = Step(v, e) BY <2>7, <2>9 DEF Step, Views
    <2>11. u.focus = "none" /\ u.device BY <2>3, <2>5, <2>9 DEF Views
    <2>12. Legal(win.seat, v, e) /\ Legal(win.seat, u, f)
      BY <1>3, <2>3, <2>5, <2>7, <2>8, <2>11 DEF Legal
    <2>13. w = Step(u, f)
      <3>1. Step(u, f) = [u EXCEPT !.focus = "popup", !.moving = FALSE] BY <2>8 DEF Step
      <3>2. w = [v EXCEPT !.focus = "popup", !.moving = FALSE]
        <4>1. PICK x : x = [v EXCEPT !.focus = "popup", !.moving = FALSE] OBVIOUS
        <4>2. x = ShellView' BY <1>1, <2>1, <2>5, <4>1 DEF ShellView, CompositorShaped
        <4> QED BY <2>6, <4>1, <4>2
      <3> QED BY <2>9, <3>1, <3>2 DEF Views
    <2>14. <<e, f>> \in Seq(Events) /\ Leads(win.seat, v, <<e, f>>, w)
      BY <2>10, <2>12, <2>13, LeadsTwo, Zenon
    <2>15. Send(<<e, f>>) BY <2>2, <2>7, <2>8, Zenon DEF Send
    <2>16. Leads(win.seat, ShellView, <<e, f>>, ShellView') BY <2>5, <2>6, <2>14, Zenon
    <2> QED BY <1>2, <2>4, <2>14, <2>15, <2>16, SentStep, Zenon
  <1>6. CASE shell.focus # "none" /\ win.seat # "keyboard"
    <2>1. shell' = [shell EXCEPT !.popup = TRUE, !.focus = @] /\ wire' = wire
      BY <1>6 DEF CompPopup
    <2>2. ShellView' = ShellView /\ CompositorShaped'
      BY <1>1, <1>2, <1>6, <2>1 DEF ShellView, CompositorShaped
    <2>3. Send(<<>>)
      <3>1. wire \in Seq(Events) BY DEF InputInv, ShellShaped
      <3>2. wire \o <<>> = wire BY <3>1
      <3> QED BY <2>1, <3>2 DEF Send
    <2> QED BY <1>1, <1>2, <2>2, <2>3, NothingLeads, SentStep, Zenon
  <1> QED BY <1>4, <1>5, <1>6

\* The popup's surface is destroyed under the focus.
LEMMA CompUnmapStep ==
  ASSUME InputInv, CompUnmap
  PROVE  InputInv'
  <1>1. CompositorShaped /\ ShellView \in Views BY ShellViewIs DEF InputInv, ShellShaped
  <1>2. /\ UNCHANGED <<kbd, ptr, queue, win, app>>
        /\ shell' = [shell EXCEPT !.popup = FALSE,
                                  !.focus = IF @ = "popup" THEN "toplevel" ELSE @]
    BY DEF CompUnmap
  <1>3. PICK told \in BOOLEAN :
          Send(IF shell.focus # "popup" THEN <<>>
               ELSE (IF told THEN <<At("leave", "popup", "toplevel")>> ELSE <<>>)
                      \o <<At("enter", "toplevel", "toplevel")>>)
    BY DEF CompUnmap
  <1>4. CompositorShaped' BY <1>1, <1>2 DEF CompositorShaped, Surfaces
  <1>5. CASE shell.focus # "popup"
    <2>1. ShellView' = ShellView BY <1>1, <1>2, <1>5 DEF ShellView, CompositorShaped
    <2>2. Send(<<>>) BY <1>3, <1>5
    <2> QED BY <1>1, <1>2, <1>4, <2>1, <2>2, NothingLeads, SentStep, Zenon
  <1>6. CASE shell.focus = "popup"
    <2>1. PICK v \in Views : v = ShellView BY <1>1
    <2>2. ~v.moving /\ v.device /\ v.focus = "popup"
      BY <1>1, <1>6, <2>1 DEF ShellView, CompositorShaped
    <2>3. PICK a : a = IF told THEN <<At("leave", "popup", "toplevel")>> ELSE <<>> OBVIOUS
    <2>4. PICK b : b = <<At("enter", "toplevel", "toplevel")>> OBVIOUS
    <2>5. Send(a \o b) BY <1>3, <1>6, <2>3, <2>4
    <2>6. PICK u : u = IF told THEN [v EXCEPT !.focus = "none", !.moving = TRUE] ELSE v OBVIOUS
    <2>7. u \in Views /\ a \in Seq(Events) /\ Leads(win.seat, v, a, u) /\ u.device
      <3>1. CASE told
        <4>1. u = [v EXCEPT !.focus = "none", !.moving = "toplevel" # "none",
                            !.held = IF "toplevel" = "none" THEN {} ELSE @]
          BY <2>6, <3>1 DEF Views
        <4>2. a = <<At("leave", v.focus, "toplevel")>> BY <2>2, <2>3, <3>1
        <4>3. "toplevel" \in Surfaces \cup {"none"} BY DEF Surfaces
        <4>4. u \in Views /\ a \in Seq(Events) /\ Leads(win.seat, v, a, u)
          <5>1. v.focus # "none" BY <2>2
          <5> QED BY <2>2, <4>1, <4>2, <4>3, <5>1, LeaveLeads, Zenon
        <4>5. u.device BY <2>2, <2>6 DEF Views
        <4> QED BY <4>4, <4>5
      <3>2. CASE ~told BY <2>2, <2>3, <2>6, <3>2, NothingLeads
      <3> QED BY <3>1, <3>2
    <2>8. PICK w : w = [u EXCEPT !.focus = "toplevel", !.moving = FALSE] OBVIOUS
    <2>9. w \in Views /\ b \in Seq(Events) /\ Leads(win.seat, u, b, w)
      <3>1. "toplevel" \in Surfaces /\ "toplevel" # "popup" BY DEF Surfaces
      <3> QED BY <2>4, <2>7, <2>8, <3>1, EnterLeads, Zenon
    <2>10. w = ShellView'
      <3>1. w = [v EXCEPT !.focus = "toplevel", !.moving = FALSE] BY <2>6, <2>8 DEF Views
      <3> QED BY <1>1, <1>2, <1>6, <2>1, <3>1 DEF ShellView, CompositorShaped
    <2>11. Leads(win.seat, ShellView, a \o b, ShellView')
      BY <2>1, <2>7, <2>9, <2>10, LeadsOn, Zenon
    <2>12. a \o b \in Seq(Events) BY <2>7, <2>9
    <2> QED BY <1>2, <1>4, <2>5, <2>11, <2>12, SentStep, Zenon
  <1> QED BY <1>5, <1>6

\* A key goes down or up.
LEMMA CompKeyStep ==
  ASSUME InputInv, CompKey
  PROVE  InputInv'
  <1>1. CompositorShaped /\ ShellView \in Views BY ShellViewIs DEF InputInv, ShellShaped
  <1>2. UNCHANGED <<kbd, ptr, queue, win, app>> /\ win.seat = "keyboard" /\ shell.focus # "none"
    BY DEF CompKey
  <1>3. PICK key \in Keys :
        /\ Send(<<AtKey(IF key \in shell.held THEN "keyUp" ELSE "keyDown", key)>>)
        /\ shell' = [shell EXCEPT !.held = IF key \in @ THEN @ \ {key} ELSE @ \cup {key}]
    BY DEF CompKey
  <1>4. CompositorShaped' BY <1>1, <1>2, <1>3 DEF CompositorShaped
  <1>5. PICK e \in Events :
          /\ e = AtKey(IF key \in shell.held THEN "keyUp" ELSE "keyDown", key)
    BY <1>3 DEF AtKey, Events
  <1>6. e.kind = (IF key \in shell.held THEN "keyUp" ELSE "keyDown") /\ e.key = key
    BY <1>5 DEF AtKey
  <1>7. PICK v \in Views : v = ShellView BY <1>1
  <1>8. ~v.moving /\ v.device /\ v.focus # "none" /\ v.held = shell.held
    BY <1>1, <1>2, <1>7 DEF ShellView, CompositorShaped
  <1>9. Legal(win.seat, v, e) BY <1>2, <1>6, <1>8 DEF Legal
  <1>10. PICK h : h = IF key \in shell.held THEN shell.held \ {key} ELSE shell.held \cup {key}
    OBVIOUS
  <1>11. Step(v, e) = [v EXCEPT !.held = h]
    BY <1>6, <1>8, <1>10 DEF Step, Views
  <1>12. ShellView' = [v EXCEPT !.held = h]
    <2>1. PICK x : x = [v EXCEPT !.held = h] OBVIOUS
    <2>2. x = ShellView' BY <1>1, <1>3, <1>7, <1>10, <2>1 DEF ShellView, CompositorShaped
    <2> QED BY <2>1, <2>2
  <1>13. ShellView' \in Views BY <1>4, ShellViewIsNext
  <1>14. Leads(win.seat, v, <<e>>, ShellView') /\ <<e>> \in Seq(Events)
    BY <1>9, <1>11, <1>12, <1>13, LeadsOne, OneOf
  <1> QED BY <1>2, <1>3, <1>4, <1>5, <1>7, <1>14, SentStep, Zenon

\* A button goes down or up.
LEMMA CompButtonStep ==
  ASSUME InputInv, CompButton
  PROVE  InputInv'
  <1>1. CompositorShaped /\ ShellView \in Views BY ShellViewIs DEF InputInv, ShellShaped
  <1>2. /\ UNCHANGED <<kbd, ptr, queue, win, app>> /\ win.seat = "pointer" /\ shell.focus # "none"
        /\ Send(<<At(IF shell.down THEN "release" ELSE "press", shell.focus, shell.focus)>>)
        /\ shell' = [shell EXCEPT !.down = ~@]
    BY DEF CompButton
  <1>3. shell.focus \in Surfaces BY <1>1, <1>2 DEF CompositorShaped
  <1>4. CompositorShaped' BY <1>1, <1>2 DEF CompositorShaped
  <1>5. PICK e \in Events :
          /\ e = At(IF shell.down THEN "release" ELSE "press", shell.focus, shell.focus)
          /\ e.kind = IF shell.down THEN "release" ELSE "press"
    BY <1>3, CrossingIs
  <1>6. PICK v \in Views : v = ShellView BY <1>1
  <1>7. ~v.moving /\ v.device /\ v.focus # "none" /\ v.down = shell.down
    BY <1>1, <1>2, <1>6 DEF ShellView, CompositorShaped
  <1>8. Legal(win.seat, v, e) BY <1>2, <1>5, <1>7 DEF Legal
  <1>9. Step(v, e) = [v EXCEPT !.down = ~shell.down] BY <1>5 DEF Step
  <1>10. ShellView' = [v EXCEPT !.down = ~shell.down]
    <2>1. PICK x : x = [v EXCEPT !.down = ~shell.down] OBVIOUS
    <2>2. x = ShellView' BY <1>1, <1>2, <1>6, <2>1 DEF ShellView, CompositorShaped
    <2> QED BY <2>1, <2>2
  <1>11. ShellView' \in Views BY <1>4, ShellViewIsNext
  <1>12. Leads(win.seat, v, <<e>>, ShellView') /\ <<e>> \in Seq(Events)
    BY <1>8, <1>9, <1>10, <1>11, LeadsOne, OneOf
  <1> QED BY <1>2, <1>4, <1>5, <1>6, <1>12, SentStep, Zenon

\* A click of the wheel, in one form of axis events or in several.
LEMMA AxisLeads ==
  ASSUME NEW v \in Views, ~v.moving, NEW form \in Forms, v.frame[form] = 0
  PROVE  LET u == [v EXCEPT !.frame[form] = 1]
             sent == <<[kind |-> "axis", form |-> form]>>
         IN  /\ u \in Views /\ ~u.moving /\ sent \in Seq(Events)
             /\ Leads("pointer", v, sent, u)
  <1>1. PICK e \in Events : e = [kind |-> "axis", form |-> form] BY DEF Events
  <1>2. e.kind = "axis" /\ e.form = form BY <1>1
  <1>3. Legal("pointer", v, e) BY <1>2 DEF Legal
  <1>4. PICK u \in Views : u = [v EXCEPT !.frame[form] = 1]
    <2>1. PICK f \in Frames : f = [v.frame EXCEPT ![form] = 1]
      <3>1. v.frame \in Frames BY DEF Views
      <3>2. \A g \in Frames : [g EXCEPT ![form] = 1] \in Frames
        <4>1. CASE form = "continuous" BY <4>1 DEF Frames
        <4>2. CASE form = "discrete" BY <4>2 DEF Frames
        <4>3. CASE form = "value120" BY <4>3 DEF Frames
        <4> QED BY <4>1, <4>2, <4>3 DEF Forms
      <3> QED BY <3>1, <3>2
    <2>2. [v EXCEPT !.frame[form] = 1] = [v EXCEPT !.frame = f] BY <2>1
    <2>3. [v EXCEPT !.frame = f] \in Views BY DEF Views
    <2> QED BY <2>2, <2>3
  <1>5. u = Step(v, e) BY <1>2, <1>4 DEF Step
  <1>6. Leads("pointer", v, <<e>>, u) /\ <<e>> \in Seq(Events) BY <1>3, <1>5, LeadsOne, OneOf
  <1>7. ~u.moving BY <1>4 DEF Views
  <1> QED BY <1>1, <1>4, <1>6, <1>7, Zenon

\* The wheel turns.
LEMMA CompWheelStep ==
  ASSUME InputInv, CompWheel
  PROVE  InputInv'
  <1>1. CompositorShaped /\ ShellView \in Views BY ShellViewIs DEF InputInv, ShellShaped
  <1>2. /\ UNCHANGED <<kbd, ptr, queue, win, app>> /\ win.seat = "pointer" /\ shell.focus # "none"
        /\ shell' = [shell EXCEPT !.clicks = @ + 1]
    BY DEF CompWheel
  <1>3. PICK more \in {<<>>, <<"discrete">>, <<"value120">>, <<"discrete", "value120">>} :
        Send([i \in 1 .. 1 + Len(more) |-> [kind |-> "axis",
                 form |-> IF i = 1 THEN "continuous" ELSE more[i - 1]]] \o <<Ev("frame")>>)
    BY DEF CompWheel
  <1>4. PICK axes : axes = [i \in 1 .. 1 + Len(more) |-> [kind |-> "axis",
                               form |-> IF i = 1 THEN "continuous" ELSE more[i - 1]]]
    OBVIOUS
  <1>5. PICK v \in Views : v = ShellView BY <1>1
  <1>6. ~v.moving /\ v.frame = NoFrame /\ v.clicks = shell.clicks /\ shell.clicks \in Nat
    BY <1>1, <1>5 DEF ShellView, CompositorShaped
  <1> DEFINE A(form) == <<[kind |-> "axis", form |-> form]>>
  <1>7. "continuous" \in Forms /\ "discrete" \in Forms /\ "value120" \in Forms BY DEF Forms
  <1>8. PICK c \in Views : c = [v EXCEPT !.frame["continuous"] = 1] /\ ~c.moving
             /\ A("continuous") \in Seq(Events) /\ Leads("pointer", v, A("continuous"), c)
    <2>1. v.frame["continuous"] = 0 BY <1>6 DEF NoFrame
    <2> QED BY <1>6, <1>7, <2>1, AxisLeads, Zenon
  <1>9. c.frame = [NoFrame EXCEPT !["continuous"] = 1] BY <1>6, <1>8 DEF Views
  <1>10. c.frame["discrete"] = 0 /\ c.frame["value120"] = 0 BY <1>9 DEF NoFrame
  <1>11. PICK d \in Views : d = [c EXCEPT !.frame["discrete"] = 1] /\ ~d.moving
             /\ A("discrete") \in Seq(Events) /\ Leads("pointer", c, A("discrete"), d)
    BY <1>7, <1>8, <1>10, AxisLeads, Zenon
  <1>12. d.frame["value120"] = 0 BY <1>9, <1>11 DEF Views, NoFrame
  <1>13. \E u \in Views :
            /\ axes \in Seq(Events) /\ Leads("pointer", v, axes, u) /\ ~u.moving
            /\ u = [v EXCEPT !.frame = u.frame]
    <2>1. CASE more = <<>>
      <3>1. axes = A("continuous")
        <4>1. Len(more) = 0 BY <2>1
        <4>2. axes = [i \in 1 .. 1 |-> [kind |-> "axis",
                         form |-> IF i = 1 THEN "continuous" ELSE more[i - 1]]]
          BY <1>4, <4>1
        <4> QED BY <4>2
      <3>2. c = [v EXCEPT !.frame = c.frame] BY <1>8 DEF Views
      <3> QED BY <1>8, <3>1, <3>2
    <2>2. CASE more = <<"discrete">>
      <3>1. axes = A("continuous") \o A("discrete")
        <4>1. Len(more) = 1 /\ more[1] = "discrete" BY <2>2
        <4> QED BY <1>4, <4>1
      <3>2. Leads("pointer", v, A("continuous") \o A("discrete"), d)
        BY <1>8, <1>11, LeadsOn, Zenon
      <3>3. A("continuous") \o A("discrete") \in Seq(Events) BY <1>8, <1>11
      <3>4. d = [v EXCEPT !.frame = d.frame] BY <1>8, <1>11 DEF Views
      <3> QED BY <1>11, <3>1, <3>2, <3>3, <3>4, Zenon
    <2>3. CASE more = <<"value120">>
      <3>1. axes = A("continuous") \o A("value120")
        <4>1. Len(more) = 1 /\ more[1] = "value120" BY <2>3
        <4> QED BY <1>4, <4>1
      <3>2. PICK u \in Views : u = [c EXCEPT !.frame["value120"] = 1] /\ ~u.moving
               /\ A("value120") \in Seq(Events) /\ Leads("pointer", c, A("value120"), u)
        BY <1>7, <1>8, <1>10, AxisLeads, Zenon
      <3>3. Leads("pointer", v, A("continuous") \o A("value120"), u)
        BY <1>8, <3>2, LeadsOn, Zenon
      <3>4. A("continuous") \o A("value120") \in Seq(Events) BY <1>8, <3>2
      <3>5. u = [v EXCEPT !.frame = u.frame] BY <1>8, <3>2 DEF Views
      <3> QED BY <3>1, <3>2, <3>3, <3>4, <3>5, Zenon
    <2>4. CASE more = <<"discrete", "value120">>
      <3>1. axes = (A("continuous") \o A("discrete")) \o A("value120")
        <4>1. Len(more) = 2 /\ more[1] = "discrete" /\ more[2] = "value120" BY <2>4
        <4> QED BY <1>4, <4>1
      <3>2. PICK u \in Views : u = [d EXCEPT !.frame["value120"] = 1] /\ ~u.moving
               /\ A("value120") \in Seq(Events) /\ Leads("pointer", d, A("value120"), u)
        BY <1>7, <1>11, <1>12, AxisLeads, Zenon
      <3> HIDE DEF A
      <3>3. PICK two : two = A("continuous") \o A("discrete") OBVIOUS
      <3>4. two \in Seq(Events) /\ Leads("pointer", v, two, d)
        <4>1. Leads("pointer", v, A("continuous") \o A("discrete"), d)
          BY <1>8, <1>11, LeadsOn, Zenon
        <4>2. A("continuous") \o A("discrete") \in Seq(Events) BY <1>8, <1>11
        <4> QED BY <3>3, <4>1, <4>2, Zenon
      <3>5. Leads("pointer", v, axes, u)
        <4>1. Leads("pointer", v, two \o A("value120"), u) BY <3>2, <3>4, LeadsOn, Zenon
        <4> QED BY <3>1, <3>3, <4>1, Zenon
      <3>6. axes \in Seq(Events)
        <4>1. two \o A("value120") \in Seq(Events) BY <3>2, <3>4
        <4> QED BY <3>1, <3>3, <4>1, Zenon
      <3>7. u = [v EXCEPT !.frame = u.frame] BY <1>8, <1>11, <3>2 DEF Views
      <3> QED BY <3>2, <3>5, <3>6, <3>7, Zenon
    <2> QED BY <1>3, <2>1, <2>2, <2>3, <2>4
  <1> HIDE DEF A
  <1>14. PICK u \in Views : axes \in Seq(Events) /\ Leads("pointer", v, axes, u) /\ ~u.moving
            /\ u = [v EXCEPT !.frame = u.frame]
    BY <1>13
  <1>15. PICK e \in Events : e = Ev("frame") BY DEF Ev, Events
  <1>16. e.kind = "frame" BY <1>15 DEF Ev
  <1>17. Legal("pointer", u, e) BY <1>14, <1>16 DEF Legal
  <1>18. CompositorShaped' BY <1>1, <1>2 DEF CompositorShaped
  <1>19. PICK w \in Views : w = ShellView' BY <1>18, ShellViewIsNext
  <1>20. w = Step(u, e)
    <2>1. u.clicks = shell.clicks BY <1>6, <1>14 DEF Views
    <2>2. PICK n \in Nat : n = shell.clicks + 1 BY <1>6
    <2>3. Step(u, e) = [u EXCEPT !.frame = NoFrame, !.clicks = n] BY <1>16, <2>1, <2>2 DEF Step
    <2>4. Step(u, e) = [v EXCEPT !.frame = NoFrame, !.clicks = n] BY <1>14, <2>3 DEF Views
    <2>5. PICK x : x = [v EXCEPT !.frame = NoFrame, !.clicks = n] OBVIOUS
    <2>6. x = ShellView' BY <1>1, <1>2, <1>5, <2>2, <2>5 DEF ShellView, CompositorShaped
    <2> QED BY <1>19, <2>4, <2>5, <2>6
  <1>21. Leads("pointer", u, <<e>>, w) /\ <<e>> \in Seq(Events)
    BY <1>17, <1>20, LeadsOne, OneOf
  <1>22. Leads("pointer", v, axes \o <<e>>, w) BY <1>14, <1>21, LeadsOn, Zenon
  <1>23. axes \o <<e>> \in Seq(Events) BY <1>14, <1>21
  <1>24. Send(axes \o <<e>>) BY <1>3, <1>4, <1>15, Zenon
  <1>25. Leads(win.seat, ShellView, axes \o <<e>>, ShellView')
    BY <1>2, <1>5, <1>19, <1>22, Zenon
  <1> QED BY <1>2, <1>18, <1>23, <1>24, <1>25, SentStep, Zenon

-----------------------------------------------------------------------------
(* At first, and always. *)

\* At first nothing has been told and nothing is on its way.
LEMMA InputStarts ==
  ASSUME NEW device \in {"keyboard", "pointer"}, InputInit(device)
  PROVE  InputInv
  <1>1. queue = <<>> /\ wire = <<>> BY DEF InputInit
  <1>2. Told = app BY <1>1, TakenNone DEF Told
  <1>3. app \in Apps BY DEF InputInit, Apps
  <1>4. InputShaped
    <2>1. <<>> \in Seq(KeyboardInputs) /\ <<>> \in Seq(PointerInputs) OBVIOUS
    <2> QED BY <1>1, <1>2, <1>3, <2>1 DEF InputInit, InputShaped, Surfaces, Frames, NoFrame
  <1>5. CompositorShaped BY DEF InputInit, CompositorShaped
  <1>6. ShellShaped
    <2>1. <<>> \in Seq(Events) OBVIOUS
    <2> QED BY <1>1, <1>5, <2>1 DEF ShellShaped
  <1>7. RecordsAgree BY <1>2 DEF InputInit, RecordsAgree, Over
  <1>8. Follows(ShellView)
    BY <1>2 DEF InputInit, Follows, HasArrived, KeyboardFollows, PointerFollows, Over, ShellView
  <1>9. Leads(win.seat, ShellView, wire, ShellView)
    BY <1>1, <1>5, ShellViewIs, NothingLeads
  <1> QED BY <1>4, <1>6, <1>7, <1>8, <1>9 DEF InputInv

\* The clicks of the wheel are counted along the way.
LEMMA ClicksGrow ==
  ASSUME NEW seat, NEW v, NEW u, NEW s \in Seq(Events), Leads(seat, v, s, u)
  PROVE  v.clicks <= u.clicks
  <1>1. PICK f : Path(f, seat, v, s, u) BY DEF Leads
  <1>2. PICK k \in Nat : k = Len(s) OBVIOUS
  <1>3. /\ f \in [0 .. k -> Views] /\ f[0] = v /\ f[k] = u
        /\ \A i \in 1 .. k : f[i] = Step(f[i - 1], s[i])
    BY <1>1, <1>2 DEF Path
  <1> DEFINE H == {i \in 0 .. k : v.clicks <= f[i].clicks}
  <1>4. \A i \in 0 .. k : f[i].clicks \in Nat BY <1>3 DEF Views
  <1>5. 0 \in H
    <2>1. v.clicks \in Nat BY <1>2, <1>3, <1>4
    <2> QED BY <1>2, <1>3, <2>1
  <1>6. ASSUME NEW i \in 1 .. k, i - 1 \in H PROVE i \in H
    <2>1. PICK x \in Views : x = f[i - 1] /\ v.clicks <= x.clicks BY <1>2, <1>3, <1>6
    <2>2. f[i] = Step(x, s[i]) BY <1>3, <2>1
    <2>3. Step(x, s[i]).clicks = x.clicks \/ Step(x, s[i]).clicks = x.clicks + 1
      BY DEF Step, Views
    <2>4. x.clicks \in Nat /\ v.clicks \in Nat /\ f[i].clicks \in Nat
      BY <1>2, <1>3, <1>4 DEF Views
    <2> QED BY <1>2, <2>1, <2>2, <2>3, <2>4
  <1> HIDE DEF H
  <1>7. \A i \in 1 .. k : i - 1 \in H => i \in H BY <1>6
  <1>8. \A i \in 0 .. k : i \in H BY <1>2, <1>5, <1>7, Inductive, Zenon
  <1>9. k \in H BY <1>2, <1>8
  <1> QED BY <1>3, <1>9 DEF H

\* What the runs check follows.
LEMMA InputInvAgrees ==
  ASSUME InputInv
  PROVE  InputAgrees
  <1>1. InputShaped /\ RecordsAgree /\ CompositorShaped /\ wire \in Seq(Events)
    BY DEF InputInv, ShellShaped
  <1>2. PICK v : Follows(v) /\ Leads(win.seat, v, wire, ShellView) BY DEF InputInv
  <1>3. wire = <<>> => v = ShellView
    <2>1. v \in Views BY <1>1, <1>2, LeadsFrom
    <2> QED BY <1>2, <2>1, LeadsNowhere
  <1>4. InputTypeOK
    <2>1. v.device = win.device /\ v.down = ptr.down
          /\ (~v.device => v.focus = "none" /\ ~v.down)
      BY <1>2 DEF Follows, HasArrived
    <2>2. ~win.device => ~kbd.active /\ ~kbd.focused /\ ~ptr.focused /\ ~ptr.down
      <3>1. CASE win.seat = "keyboard" BY <1>2, <2>1, <3>1 DEF Follows, KeyboardFollows
      <3>2. CASE win.seat # "keyboard"
        <4>1. PointerFollows(v) BY <1>2, <3>2 DEF Follows
        <4>2. ptr.surface # "none" BY <1>1 DEF InputShaped, Surfaces
        <4> QED BY <2>1, <4>1, <4>2 DEF PointerFollows, Over
      <3> QED BY <3>1, <3>2
    <2>3. ptr.surface \in Surfaces /\ app.over \in Surfaces \cup {"none"}
      BY <1>1 DEF InputShaped, Apps
    <2>4. kbd.active => kbd.keymap /\ kbd.rate # 0 /\ kbd.key \in Keys BY <1>1 DEF InputShaped
    <2> QED BY <2>2, <2>3, <2>4 DEF InputTypeOK
  <1>5. RepeatsAreHeld
    BY <1>1, <1>2, <1>3
      DEF RepeatsAreHeld, InputShaped, Follows, KeyboardFollows, PointerFollows, ShellView
  <1>6. FocusIsKnown
    <2>1. Told.slipped = app.slipped /\ Told.focused = kbd.focused /\ Told.over = Over
      BY <1>1 DEF RecordsAgree
    <2>2. kbd.focused \in BOOLEAN BY <1>1 DEF InputShaped
    <2> QED BY <1>2, <1>3, <2>1, <2>2
      DEF FocusIsKnown, Follows, KeyboardFollows, PointerFollows, ShellView
  <1>7. ButtonsAreReleased
    BY <1>1, <1>2, <1>3 DEF ButtonsAreReleased, RecordsAgree, Follows, HasArrived, ShellView
  <1>8. ScrollsOnce
    <2>1. Told.steps <= v.clicks BY <1>2 DEF Follows, HasArrived
    <2>2. v.clicks <= shell.clicks BY <1>1, <1>2, ClicksGrow DEF ShellView
    <2>3. v.clicks \in Nat /\ shell.clicks \in Nat /\ Told.steps \in Nat
      BY <1>1, <1>2, LeadsFrom DEF InputShaped, Apps, Views, CompositorShaped
    <2> QED BY <2>1, <2>2, <2>3 DEF ScrollsOnce
  <1> QED BY <1>4, <1>5, <1>6, <1>7, <1>8 DEF InputAgrees

\* Without a step nothing changes.
LEMMA InputStays ==
  ASSUME InputInv, UNCHANGED inputVars
  PROVE  InputInv'
  <1>1. Told' = Told BY ToldSame DEF inputVars
  <1>2. InputShaped' BY <1>1 DEF InputInv, InputShaped, inputVars
  <1>3. ShellShaped' BY DEF InputInv, ShellShaped, CompositorShaped, inputVars
  <1>4. RecordsAgree' BY <1>1, QueuedSame DEF InputInv, RecordsAgree, Over, inputVars
  <1>5. PICK v : Follows(v) /\ Leads(win.seat, v, wire, ShellView) BY DEF InputInv
  <1>6. Follows(v)'
    BY <1>1, <1>5 DEF Follows, HasArrived, KeyboardFollows, PointerFollows, Over, inputVars
  <1>7. Leads(win'.seat, v, wire', ShellView') BY <1>5 DEF ShellView, inputVars
  <1> QED BY <1>2, <1>3, <1>4, <1>6, <1>7, Zenon DEF InputInv

\* No step breaks the invariant.
LEMMA InputStep ==
  ASSUME InputInv, [InputNext]_inputVars, InputBounds
  PROVE  InputInv'
  <1>1. CASE InputArrives BY <1>1, InputArrivesStep
  <1>2. CASE Turn BY <1>2, TurnStep
  <1>3. CASE CompDevice BY <1>3, CompDeviceStep
  <1>4. CASE CompFocus BY <1>4, CompFocusStep
  <1>5. CASE CompPopup BY <1>5, CompPopupStep
  <1>6. CASE CompUnmap BY <1>6, CompUnmapStep
  <1>7. CASE CompKey BY <1>7, CompKeyStep
  <1>8. CASE CompButton BY <1>8, CompButtonStep
  <1>9. CASE CompWheel BY <1>9, CompWheelStep
  <1>10. CASE UNCHANGED inputVars BY <1>10, InputStays
  <1> QED BY <1>1, <1>2, <1>3, <1>4, <1>5, <1>6, <1>7, <1>8, <1>9, <1>10, Zenon DEF InputNext

\* The invariant holds in every behaviour.
LEMMA InputInvariant == InputSpec => []InputInv
  <1>1. (\E device \in {"keyboard", "pointer"} : InputInit(device)) => InputInv
    BY InputStarts
  <1>2. InputInv /\ [InputNext]_inputVars => InputInv' BY InputStep, InputBounds
  <1> QED BY <1>1, <1>2, PTL DEF InputSpec

(* What is held, focused, pressed and scrolled is what the devices did: whatever the
   compositor sends, however many of its events are on their way, and whatever the
   popup does meanwhile. *)
THEOREM InputsAgree == InputSpec => []InputAgrees
  <1>1. InputInv => InputAgrees BY InputInvAgrees
  <1> QED BY <1>1, InputInvariant, PTL

(* After a turn that ran them the next repeat is in the future, however late the
   turn was, so that the loop's deadline never makes it spin. *)
THEOREM RepeatsNeverSpin == InputSpec => RepeatsDoNotSpin
  <1>1. InputInv => [Turn /\ kbd'.active => kbd'.due > 0]_inputVars
    BY TurnStep, InputBounds
  <1> QED BY <1>1, InputInvariant, PTL DEF RepeatsDoNotSpin

-----------------------------------------------------------------------------
(* Text input: the invariant. *)

Typed == {"preedit", "commit", "invalid"}
Clients ==
    [attached : BOOLEAN, entered : BOOLEAN, focused : BOOLEAN, enabled : BOOLEAN,
     accepts : BOOLEAN, dirty : BOOLEAN, reset : BOOLEAN, serial : 0 .. SerialModulus - 1,
     client : Texts \cup {NoClient}, pending : SUBSET Typed]
Batches == [input : SUBSET Typed, refresh : BOOLEAN, cancel : BOOLEAN]
Requests == [kind : {"enable", "disable", "state"}, client : Texts \cup {NoClient}]
Arrivals ==
    [kind : {"enter", "leave", "focus", "unfocus", "done"} \cup Typed,
     serial : 0 .. SerialModulus - 1]
FieldStates ==
    [focus : Fields, text : Texts, preedit : Fields \cup {"none"}, dirty : BOOLEAN,
     lost : BOOLEAN]
Compositors ==
    [entered : BOOLEAN, on : BOOLEAN, seen : 0 .. SerialModulus - 1,
     client : Texts \cup {NoClient}]

TextInputShaped ==
    /\ ti \in Clients /\ batches \in Seq(Batches) /\ field \in FieldStates
    /\ toC \in Seq(Requests) /\ toE \in Seq(Arrivals) /\ comp \in Compositors

(* Text input is on exactly where it may be, *)
Wanted(t) == t.attached /\ t.entered /\ t.focused /\ t.client # NoClient

(* the events on their way enter and leave in turn, *)
Crossing(b, e, c) ==
    /\ e.kind = "enter" => ~b /\ c
    /\ e.kind = "leave" => b /\ ~c
    /\ e.kind \notin {"enter", "leave"} => b = c
Crosses(b, events, c) ==
    \E h \in [0 .. Len(events) -> BOOLEAN] :
        /\ h[0] = b /\ h[Len(events)] = c
        /\ \A i \in 1 .. Len(events) : Crossing(h[i - 1], events[i], h[i])
Uncrossed(events) == \A i \in 1 .. Len(events) : events[i].kind \notin {"enter", "leave"}

(* and the requests on their way leave the compositor on, *)
TurnsOn(on, requests) ==
    \/ on /\ \A i \in 1 .. Len(requests) : requests[i].kind = "state"
    \/ \E i \in 1 .. Len(requests) :
          /\ requests[i].kind = "enable"
          /\ \A j \in i + 1 .. Len(requests) : requests[j].kind = "state"
(* with the last client. *)
Latest(client, requests) ==
    IF requests = <<>> THEN client ELSE requests[Len(requests)].client

ChannelsAgree ==
    /\ ti.enabled <=> Wanted(ti)
    /\ ~ti.attached => toC = <<>> /\ toE = <<>> /\ ~ti.entered
    /\ ti.attached => ti.serial = (comp.seen + Len(toC)) % SerialModulus
    /\ comp.on => comp.entered
    /\ comp.on \/ toC # <<>> => ti.client # NoClient
    /\ Crosses(ti.entered, toE, comp.entered)
    /\ ti.enabled /\ ~ti.dirty => Latest(comp.client, toC) = ti.client
    /\ ti.enabled /\ Uncrossed(toE) => TurnsOn(comp.on, toC)

FieldFollows ==
    /\ ti.enabled /\ ti.dirty /\ ti.accepts =>
          field.dirty \/ field.lost \/ \E i \in 1 .. Len(batches) : batches[i].refresh
    /\ field.preedit \in {"none", field.focus}
    /\ field.focus = "chrome" => field.preedit = "none"
    /\ ~ti.entered => Given(field, batches).preedit = "none"

TextInputInv == TextInputShaped /\ ChannelsAgree /\ FieldFollows

-----------------------------------------------------------------------------
(* Counting commits. *)

\* Remainders are unique.
LEMMA RemainderIs ==
  ASSUME NEW m \in Nat \ {0}, NEW x \in Nat, NEW q \in Nat, NEW r \in 0 .. m - 1, x = m * q + r
  PROVE  x % m = r
  OBVIOUS

\* One commit more.
LEMMA RemainderOfNext ==
  ASSUME NEW m \in Nat \ {0}, NEW x \in Nat
  PROVE  ((x % m) + 1) % m = (x + 1) % m
  <1>1. PICK q \in Nat : q = x \div m OBVIOUS
  <1>2. PICK r \in 0 .. m - 1 : r = x % m OBVIOUS
  <1>3. x = m * q + r BY <1>1, <1>2
  <1>4. CASE r + 1 < m
    <2>1. r + 1 \in 0 .. m - 1 BY <1>4
    <2>2. x + 1 = m * q + (r + 1) /\ x + 1 \in Nat BY <1>3
    <2>3. (x + 1) % m = r + 1 BY <2>1, <2>2, RemainderIs
    <2>4. (r + 1) % m = r + 1 BY <2>1
    <2> QED BY <1>2, <2>3, <2>4
  <1>5. CASE ~(r + 1 < m)
    <2>1. r + 1 = m BY <1>5
    <2>2. q + 1 \in Nat /\ x + 1 \in Nat /\ 0 \in 0 .. m - 1 OBVIOUS
    <2>3. m * (q + 1) = m * q + m BY <2>2
    <2>4. x + 1 = m * (q + 1) + 0 BY <1>3, <2>1, <2>3
    <2>5. (x + 1) % m = 0 BY <2>2, <2>4, RemainderIs
    <2>6. m = m * 1 + 0 OBVIOUS
    <2>7. m % m = 0 BY <2>2, <2>6, RemainderIs
    <2> QED BY <1>2, <2>1, <2>5, <2>7
  <1> QED BY <1>4, <1>5

\* A commit that has arrived is counted by the compositor.
LEMMA RemainderMoves ==
  ASSUME NEW m \in Nat \ {0}, NEW s \in 0 .. m - 1, NEW l \in Nat
  PROVE  (((s + 1) % m) + l) % m = (s + (l + 1)) % m
  <1>1. CASE s + 1 < m
    <2>1. (s + 1) % m = s + 1 BY <1>1
    <2> QED BY <2>1
  <1>2. CASE ~(s + 1 < m)
    <2>1. s + 1 = m BY <1>2
    <2>2. m = m * 1 + 0 /\ 0 \in 0 .. m - 1 OBVIOUS
    <2>3. m % m = 0 BY <2>2, RemainderIs
    <2>4. PICK q \in Nat : q = l \div m OBVIOUS
    <2>5. PICK r \in 0 .. m - 1 : r = l % m OBVIOUS
    <2>6. l = m * q + r BY <2>4, <2>5
    <2>7. q + 1 \in Nat /\ m + l \in Nat OBVIOUS
    <2>8. m * (q + 1) = m * q + m BY <2>7
    <2>9. m + l = m * (q + 1) + r BY <2>6, <2>8
    <2>10. (m + l) % m = r BY <2>7, <2>9, RemainderIs
    <2>11. s + (l + 1) = m + l BY <2>1
    <2>12. 0 + l = l OBVIOUS
    <2> QED BY <2>1, <2>3, <2>5, <2>10, <2>11, <2>12
  <1> QED BY <1>1, <1>2

-----------------------------------------------------------------------------
(* What the application makes of its batches. *)

Gives(g, f, bs) ==
    g = [n \in 0 .. Len(bs) |-> IF n = 0 THEN f ELSE ApplyBatch(g[n - 1], bs[n])]

\* What is given follows the batches one by one.
LEMMA GivenIs ==
  ASSUME NEW f, NEW bs \in Seq(Batches)
  PROVE  \E g : Gives(g, f, bs) /\ Given(f, bs) = g[Len(bs)]
  <1> DEFINE Turns(g, m) == g = [n \in 0 .. m |-> IF n = 0 THEN f ELSE ApplyBatch(g[n - 1], bs[n])]
             H == {m \in 0 .. Len(bs) : \E g : Turns(g, m)}
  <1>0. Len(bs) \in Nat OBVIOUS
  <1>1. 0 \in H
    <2>1. Turns([n \in 0 .. 0 |-> f], 0) OBVIOUS
    <2> HIDE DEF Turns
    <2> QED BY <1>0, <2>1
  <1>2. ASSUME NEW m \in 1 .. Len(bs), m - 1 \in H PROVE m \in H
    <2>1. PICK g : Turns(g, m - 1) BY <1>2
    <2> DEFINE k == [n \in 0 .. m |-> IF n = m THEN ApplyBatch(g[m - 1], bs[m]) ELSE g[n]]
    <2>2. ASSUME NEW n \in 0 .. m
          PROVE  k[n] = IF n = 0 THEN f ELSE ApplyBatch(k[n - 1], bs[n])
      <3>1. CASE n = m
        <4>1. m - 1 \in 0 .. m /\ m - 1 # m BY <1>2
        <4> QED BY <1>2, <3>1, <4>1
      <3>2. CASE n # m
        <4>1. n \in 0 .. m - 1 BY <3>2
        <4>2. g[n] = IF n = 0 THEN f ELSE ApplyBatch(g[n - 1], bs[n]) BY <2>1, <4>1
        <4>3. n # 0 => n - 1 \in 0 .. m /\ n - 1 # m BY <3>2
        <4> QED BY <3>2, <4>2, <4>3
      <3> QED BY <3>1, <3>2
    <2>3. Turns(k, m)
      <3> DEFINE e == [n \in 0 .. m |-> IF n = 0 THEN f ELSE ApplyBatch(k[n - 1], bs[n])]
      <3>1. \A n \in 0 .. m : k[n] = e[n] BY <2>2
      <3> QED BY <3>1
    <2> HIDE DEF Turns, k
    <2> QED BY <2>3
  <1> HIDE DEF H
  <1>3. Len(bs) \in H
    <2>1. \A m \in 1 .. Len(bs) : m - 1 \in H => m \in H BY <1>2
    <2>2. \A m \in 0 .. Len(bs) : m \in H BY <1>0, <1>1, <2>1, Inductive, Zenon
    <2> QED BY <1>0, <2>2
  <1>4. PICK g : g = [n \in 0 .. Len(bs) |-> IF n = 0 THEN f ELSE ApplyBatch(g[n - 1], bs[n])]
    BY <1>3 DEF H
  <1> QED BY <1>4, Zenon DEF Given, Gives

\* No batch changes nothing.
LEMMA GivenNone ==
  ASSUME NEW f
  PROVE  Given(f, <<>>) = f
  <1>1. <<>> \in Seq(Batches) /\ Len(<<>>) = 0 OBVIOUS
  <1>2. PICK g : Gives(g, f, <<>>) /\ Given(f, <<>>) = g[Len(<<>>)] BY <1>1, GivenIs
  <1>3. g[0] = f BY <1>1, <1>2 DEF Gives
  <1> QED BY <1>1, <1>2, <1>3

\* A batch more is given last.
LEMMA GivenMore ==
  ASSUME NEW f, NEW bs \in Seq(Batches), NEW b \in Batches
  PROVE  Given(f, Append(bs, b)) = ApplyBatch(Given(f, bs), b)
  <1>1. PICK q : q = Append(bs, b) OBVIOUS
  <1>2. PICK l : l = Len(bs) OBVIOUS
  <1>3. /\ q \in Seq(Batches) /\ Len(q) = l + 1 /\ q[l + 1] = b /\ l \in Nat
        /\ \A n \in 1 .. l : q[n] = bs[n]
    BY <1>1, <1>2
  <1>4. PICK k : Gives(k, f, bs) /\ Given(f, bs) = k[l] BY <1>2, GivenIs
  <1>5. PICK g : Gives(g, f, q) /\ Given(f, q) = g[l + 1] BY <1>3, GivenIs
  <1>6. \A n \in 0 .. l : k[n] = IF n = 0 THEN f ELSE ApplyBatch(k[n - 1], bs[n])
    BY <1>2, <1>4 DEF Gives
  <1>7. \A n \in 0 .. l + 1 : g[n] = IF n = 0 THEN f ELSE ApplyBatch(g[n - 1], q[n])
    BY <1>3, <1>5 DEF Gives
  <1> DEFINE H == {n \in 0 .. l : g[n] = k[n]}
  <1>8. 0 \in H BY <1>3, <1>6, <1>7
  <1>9. ASSUME NEW n \in 1 .. l, n - 1 \in H PROVE n \in H
    <2>1. g[n] = ApplyBatch(g[n - 1], q[n]) BY <1>3, <1>7
    <2>2. k[n] = ApplyBatch(k[n - 1], bs[n]) BY <1>3, <1>6
    <2> QED BY <1>3, <1>9, <2>1, <2>2
  <1> HIDE DEF H
  <1>10. l \in H
    <2>0. l \in Nat BY <1>3
    <2>1. \A n \in 1 .. l : n - 1 \in H => n \in H BY <1>9
    <2>2. \A n \in 0 .. l : n \in H BY <1>8, <2>0, <2>1, Inductive, Zenon
    <2> QED BY <2>0, <2>2
  <1>11. g[l] = k[l] BY <1>10 DEF H
  <1>12. g[l + 1] = ApplyBatch(g[l], b)
    <2>1. l + 1 \in 0 .. l + 1 /\ l + 1 # 0 /\ (l + 1) - 1 = l BY <1>3
    <2> QED BY <1>3, <1>7, <2>1
  <1> QED BY <1>1, <1>4, <1>5, <1>11, <1>12, Zenon

(* A field whose preedit is its own. *)
Owned(f) ==
    /\ f \in FieldStates /\ f.preedit \in {"none", f.focus}
    /\ f.focus = "chrome" => f.preedit = "none"

\* A batch says nothing of the focus or the text, and forgets no refresh.
LEMMA BatchApplied ==
  ASSUME NEW f, Owned(f), NEW b \in Batches
  PROVE  LET g == ApplyBatch(f, b) IN
         /\ Owned(g) /\ g.focus = f.focus /\ g.text = f.text
         /\ f.dirty \/ f.lost \/ b.refresh => g.dirty \/ g.lost
         /\ b.cancel => g.preedit = "none"
  <1> DEFINE g == ApplyBatch(f, b)
  <1>1. f \in FieldStates /\ b.refresh \in BOOLEAN /\ b.cancel \in BOOLEAN
    BY DEF Owned, Batches
  <1>2. CASE f.focus = "chrome"
    BY <1>1, <1>2 DEF ApplyBatch, CancelTextInput, Owned, FieldStates, Fields
  <1>3. CASE f.focus # "chrome" /\ b.cancel
    <2>1. PICK d \in BOOLEAN :
             d = (f.focus = "editor" \/ f.preedit # "none" \/ f.dirty \/ b.refresh)
      OBVIOUS
    <2>2. g = [f EXCEPT !.preedit = "none", !.dirty = d]
      BY <1>1, <1>3, <2>1 DEF ApplyBatch, CancelTextInput, FieldStates
    <2> HIDE DEF g
    <2>3. Owned(g) /\ g.focus = f.focus /\ g.text = f.text /\ g.preedit = "none"
            /\ g.dirty = d /\ g.lost = f.lost
      BY <1>1, <1>3, <2>2 DEF Owned, FieldStates, Fields
    <2>4. f.dirty \/ f.lost \/ b.refresh => g.dirty \/ g.lost BY <2>1, <2>3
    <2> QED BY <2>3, <2>4 DEF g
  <1>4. CASE f.focus # "chrome" /\ ~b.cancel
    <2>1. PICK d \in BOOLEAN :
             d = (f.dirty \/ b.refresh \/ f.preedit # "none"
                    \/ b.input \cap {"preedit", "commit"} # {})
      OBVIOUS
    <2>2. PICK p : p = IF "preedit" \in b.input THEN f.focus ELSE "none" OBVIOUS
    <2>3. g = [f EXCEPT !.preedit = p, !.dirty = d]
      BY <1>1, <1>4, <2>1, <2>2 DEF ApplyBatch, Insert, FieldStates
    <2> HIDE DEF g
    <2>4. Owned(g) /\ g.focus = f.focus /\ g.text = f.text /\ g.dirty = d /\ g.lost = f.lost
      BY <1>1, <1>4, <2>2, <2>3 DEF Owned, FieldStates, Fields
    <2>5. f.dirty \/ f.lost \/ b.refresh => g.dirty \/ g.lost BY <2>1, <2>4
    <2> QED BY <1>4, <2>4, <2>5 DEF g
  <1> QED BY <1>2, <1>3, <1>4

\* Nor do several.
LEMMA BatchesApplied ==
  ASSUME NEW f, Owned(f), NEW bs \in Seq(Batches)
  PROVE  LET g == Given(f, bs) IN
         /\ Owned(g) /\ g.focus = f.focus /\ g.text = f.text
         /\ f.dirty \/ f.lost \/ (\E i \in 1 .. Len(bs) : bs[i].refresh) => g.dirty \/ g.lost
  <1>1. PICK l \in Nat : l = Len(bs) OBVIOUS
  <1>2. PICK k : Gives(k, f, bs) /\ Given(f, bs) = k[l] BY <1>1, GivenIs
  <1>3. \A n \in 0 .. l : k[n] = IF n = 0 THEN f ELSE ApplyBatch(k[n - 1], bs[n])
    BY <1>1, <1>2 DEF Gives
  <1>4. \A n \in 1 .. l : bs[n] \in Batches BY <1>1
  <1> DEFINE P(n) == /\ Owned(k[n]) /\ k[n].focus = f.focus /\ k[n].text = f.text
                     /\ f.dirty \/ f.lost \/ (\E i \in 1 .. n : bs[i].refresh)
                           => k[n].dirty \/ k[n].lost
             H == {n \in 0 .. l : P(n)}
  <1>5. 0 \in H BY <1>1, <1>3
  <1>6. ASSUME NEW n \in 1 .. l, n - 1 \in H PROVE n \in H
    <2>1. P(n - 1) BY <1>6
    <2>2. k[n] = ApplyBatch(k[n - 1], bs[n]) BY <1>1, <1>3
    <2>3. PICK x : x = k[n - 1] OBVIOUS
    <2>4. PICK b \in Batches : b = bs[n] BY <1>4
    <2>5. PICK y : y = k[n] /\ y = ApplyBatch(x, b) BY <2>2, <2>3, <2>4
    <2>6. /\ Owned(y) /\ y.focus = x.focus /\ y.text = x.text
          /\ x.dirty \/ x.lost \/ b.refresh => y.dirty \/ y.lost
      BY <2>1, <2>3, <2>5, BatchApplied
    <2>7. (\E i \in 1 .. n : bs[i].refresh) => b.refresh \/ \E i \in 1 .. n - 1 : bs[i].refresh
      <3>1. \A i \in 1 .. n : i = n \/ i \in 1 .. n - 1 OBVIOUS
      <3> QED BY <2>4, <3>1
    <2>8. P(n) BY <2>1, <2>3, <2>5, <2>6, <2>7
    <2> QED BY <1>1, <2>8
  <1> HIDE DEF P, H
  <1>7. \A n \in 1 .. l : n - 1 \in H => n \in H BY <1>6
  <1>8. \A n \in 0 .. l : n \in H BY <1>5, <1>7, Inductive, Zenon
  <1>9. P(l) BY <1>8 DEF H
  <1> QED BY <1>1, <1>2, <1>9 DEF P

-----------------------------------------------------------------------------
(* Entering and leaving, on the way. *)

\* Without events nothing is crossed.
LEMMA CrossesNone ==
  ASSUME NEW b \in BOOLEAN, NEW c
  PROVE  Crosses(b, <<>>, c) <=> b = c
  <1>1. Len(<<>>) = 0 /\ 1 .. 0 = {} OBVIOUS
  <1>2. ASSUME Crosses(b, <<>>, c) PROVE b = c BY <1>1, <1>2 DEF Crosses
  <1>3. ASSUME b = c PROVE Crosses(b, <<>>, c)
    <2> DEFINE h == [i \in 0 .. 0 |-> b]
    <2>1. h \in [0 .. 0 -> BOOLEAN] /\ h[0] = b OBVIOUS
    <2> HIDE DEF h
    <2> QED BY <1>1, <1>3, <2>1 DEF Crosses
  <1> QED BY <1>2, <1>3

\* One event crosses if it may come.
LEMMA CrossesOne ==
  ASSUME NEW b \in BOOLEAN, NEW c \in BOOLEAN, NEW e, Crossing(b, e, c)
  PROVE  Crosses(b, <<e>>, c)
  <1> DEFINE h == [i \in 0 .. 1 |-> IF i = 0 THEN b ELSE c]
  <1>1. PICK s : s = <<e>> OBVIOUS
  <1>2. Len(s) = 1 /\ s[1] = e BY <1>1
  <1>3. h \in [0 .. 1 -> BOOLEAN] /\ h[0] = b /\ h[1] = c OBVIOUS
  <1>4. ASSUME NEW i \in 1 .. 1 PROVE i = 1 /\ i - 1 = 0 OBVIOUS
  <1> HIDE DEF h
  <1>5. Crosses(b, s, c) BY <1>2, <1>3, <1>4 DEF Crosses
  <1> QED BY <1>1, <1>5

\* One way after another.
LEMMA CrossesOn ==
  ASSUME NEW b, NEW c, NEW d, NEW s \in Seq(Arrivals), NEW t \in Seq(Arrivals),
         Crosses(b, s, c), Crosses(c, t, d)
  PROVE  Crosses(b, s \o t, d)
  <1>3. PICK k : k = Len(s) OBVIOUS
  <1>4. PICK l : l = Len(t) OBVIOUS
  <1>5. PICK r : r = s \o t OBVIOUS
  <1>6. /\ k \in Nat /\ l \in Nat /\ Len(r) = k + l
        /\ \A i \in 1 .. k + l : r[i] = IF i <= k THEN s[i] ELSE t[i - k]
    <2>1. /\ Len(s \o t) = Len(s) + Len(t)
          /\ \A i \in 1 .. Len(s) + Len(t) : (s \o t)[i] = IF i <= Len(s) THEN s[i] ELSE t[i - Len(s)]
      BY ConcatProperties, Zenon
    <2>2. k \in Nat /\ l \in Nat BY <1>3, <1>4
    <2> QED BY <1>3, <1>4, <1>5, <2>1, <2>2, Zenon
  <1>7. PICK f \in [0 .. k -> BOOLEAN] :
           f[0] = b /\ f[k] = c /\ \A i \in 1 .. k : Crossing(f[i - 1], s[i], f[i])
    BY <1>3 DEF Crosses
  <1>8. PICK g \in [0 .. l -> BOOLEAN] :
           g[0] = c /\ g[l] = d /\ \A i \in 1 .. l : Crossing(g[i - 1], t[i], g[i])
    BY <1>4 DEF Crosses
  <1> DEFINE h == [i \in 0 .. k + l |-> IF i <= k THEN f[i] ELSE g[i - k]]
  <1>9. h \in [0 .. k + l -> BOOLEAN]
    <2>1. ASSUME NEW i \in 0 .. k + l PROVE (IF i <= k THEN f[i] ELSE g[i - k]) \in BOOLEAN
      BY <1>6, <1>7, <1>8
    <2> QED BY <2>1
  <1>10. h[0] = b BY <1>6, <1>7
  <1>11. h[k + l] = d
    <2>1. CASE l = 0 BY <1>6, <1>7, <1>8, <2>1
    <2>2. CASE l # 0
      <3>1. k + l \in 0 .. k + l /\ ~(k + l <= k) /\ (k + l) - k = l BY <1>6, <2>2
      <3> QED BY <1>8, <3>1
    <2> QED BY <2>1, <2>2
  <1>12. ASSUME NEW i \in 1 .. k + l PROVE Crossing(h[i - 1], r[i], h[i])
    <2>0. i \in 0 .. k + l /\ i - 1 \in 0 .. k + l BY <1>6
    <2>1. CASE i <= k
      <3>1. i \in 1 .. k /\ i - 1 <= k BY <1>6, <2>1
      <3>2. h[i] = f[i] /\ h[i - 1] = f[i - 1] BY <2>0, <2>1, <3>1
      <3>3. r[i] = s[i] BY <1>6, <2>1
      <3> HIDE DEF h
      <3> QED BY <1>7, <3>1, <3>2, <3>3
    <2>2. CASE ~(i <= k)
      <3>1. i - k \in 1 .. l /\ (i - 1) - k = (i - k) - 1 BY <1>6, <2>2
      <3>2. h[i] = g[i - k] BY <2>0, <2>2
      <3>3. h[i - 1] = g[(i - k) - 1]
        <4>1. CASE i - 1 = k
          <5>1. h[i - 1] = f[k] /\ (i - k) - 1 = 0 BY <1>6, <2>0, <4>1
          <5> QED BY <1>7, <1>8, <5>1
        <4>2. CASE i - 1 # k
          <5>1. ~(i - 1 <= k) BY <1>6, <2>2, <4>2
          <5> QED BY <2>0, <3>1, <5>1
        <4> QED BY <4>1, <4>2
      <3>4. r[i] = t[i - k] BY <1>6, <2>2
      <3> HIDE DEF h
      <3> QED BY <1>8, <3>1, <3>2, <3>3, <3>4
    <2> QED BY <2>1, <2>2
  <1> HIDE DEF h
  <1>13. \A i \in 1 .. Len(r) : Crossing(h[i - 1], r[i], h[i]) BY <1>6, <1>12, Zenon
  <1>14. Crosses(b, r, d) BY <1>6, <1>9, <1>10, <1>11, <1>13, Zenon DEF Crosses
  <1> QED BY <1>5, <1>14, Zenon

\* When the first event has arrived the others go on from there.
LEMMA CrossesOff ==
  ASSUME NEW b, NEW c, NEW s \in Seq(Arrivals), s # <<>>, Crosses(b, s, c)
  PROVE  \E d \in BOOLEAN : Crossing(b, Head(s), d) /\ Crosses(d, Tail(s), c)
  <1>2. PICK t : t = Tail(s) OBVIOUS
  <1>3. PICK l : l = Len(t) OBVIOUS
  <1>4. /\ l \in Nat /\ Len(s) = l + 1 /\ Head(s) = s[1]
        /\ \A i \in 1 .. l : t[i] = s[i + 1]
    BY <1>2, <1>3
  <1>5. PICK f \in [0 .. l + 1 -> BOOLEAN] :
           f[0] = b /\ f[l + 1] = c /\ \A i \in 1 .. l + 1 : Crossing(f[i - 1], s[i], f[i])
    BY <1>4 DEF Crosses
  <1>6. f[1] \in BOOLEAN /\ Crossing(b, Head(s), f[1])
    <2>1. 1 \in 1 .. l + 1 /\ 1 - 1 = 0 /\ 1 \in 0 .. l + 1 BY <1>4
    <2> QED BY <1>4, <1>5, <2>1
  <1> DEFINE h == [i \in 0 .. l |-> f[i + 1]]
  <1>7. h \in [0 .. l -> BOOLEAN] /\ h[0] = f[1] /\ h[l] = c
    <2>1. \A i \in 0 .. l : i + 1 \in 0 .. l + 1 BY <1>4
    <2> QED BY <1>4, <1>5, <2>1
  <1>8. ASSUME NEW i \in 1 .. l PROVE Crossing(h[i - 1], t[i], h[i])
    <2>1. i + 1 \in 1 .. l + 1 /\ (i + 1) - 1 = i /\ i - 1 \in 0 .. l /\ (i - 1) + 1 = i BY <1>4
    <2>2. h[i] = f[i + 1] /\ h[i - 1] = f[i] BY <1>4, <2>1
    <2> HIDE DEF h
    <2> QED BY <1>4, <1>5, <2>1, <2>2
  <1> HIDE DEF h
  <1>9. Crosses(f[1], t, c) BY <1>3, <1>7, <1>8, Zenon DEF Crosses
  <1> QED BY <1>2, <1>6, <1>9, Zenon

\* Without an enter or a leave on the way nothing changes.
LEMMA CrossesStill ==
  ASSUME NEW b \in BOOLEAN, NEW c, NEW s \in Seq(Arrivals), Uncrossed(s)
  PROVE  Crosses(b, s, c) <=> b = c
  <1>1. PICK l \in Nat : l = Len(s) OBVIOUS
  <1>2. \A i \in 1 .. l : s[i].kind \notin {"enter", "leave"} BY <1>1 DEF Uncrossed
  <1>3. ASSUME Crosses(b, s, c) PROVE b = c
    <2>1. PICK h \in [0 .. l -> BOOLEAN] :
             h[0] = b /\ h[l] = c /\ \A i \in 1 .. l : Crossing(h[i - 1], s[i], h[i])
      BY <1>1, <1>3 DEF Crosses
    <2> DEFINE H == {i \in 0 .. l : h[i] = b}
    <2>2. 0 \in H BY <2>1
    <2>3. ASSUME NEW i \in 1 .. l, i - 1 \in H PROVE i \in H
      BY <1>2, <2>1, <2>3 DEF Crossing
    <2> HIDE DEF H
    <2>4. \A i \in 1 .. l : i - 1 \in H => i \in H BY <2>3
    <2>5. \A i \in 0 .. l : i \in H BY <2>2, <2>4, Inductive, Zenon
    <2>6. h[l] = b BY <2>5 DEF H
    <2> QED BY <2>1, <2>6
  <1>4. ASSUME b = c PROVE Crosses(b, s, c)
    <2> DEFINE h == [i \in 0 .. l |-> b]
    <2>1. h \in [0 .. l -> BOOLEAN] /\ h[0] = b /\ h[l] = c BY <1>4
    <2>2. ASSUME NEW i \in 1 .. l PROVE Crossing(h[i - 1], s[i], h[i])
      BY <1>2 DEF Crossing
    <2> HIDE DEF h
    <2>3. \A i \in 1 .. Len(s) : Crossing(h[i - 1], s[i], h[i]) BY <1>1, <2>2, Zenon
    <2> QED BY <1>1, <2>1, <2>3, Zenon DEF Crosses
  <1> QED BY <1>3, <1>4

\* Other events than enter and leave do not matter to that,
LEMMA UncrossedOfTail ==
  ASSUME NEW s \in Seq(Arrivals), s # <<>>, Head(s).kind \notin {"enter", "leave"}
  PROVE  Uncrossed(Tail(s)) <=> Uncrossed(s)
  <1>1. PICK t : t = Tail(s) OBVIOUS
  <1>2. PICK l \in Nat : l = Len(t) BY <1>1
  <1>3. Len(s) = l + 1 /\ Head(s) = s[1] /\ \A i \in 1 .. l : t[i] = s[i + 1] BY <1>1, <1>2
  <1>4. ASSUME Uncrossed(t), NEW i \in 1 .. l + 1 PROVE s[i].kind \notin {"enter", "leave"}
    <2>1. CASE i = 1 BY <1>3, <2>1
    <2>2. CASE i # 1
      <3>1. i - 1 \in 1 .. l /\ (i - 1) + 1 = i BY <2>2
      <3> QED BY <1>2, <1>3, <1>4, <3>1 DEF Uncrossed
    <2> QED BY <2>1, <2>2
  <1>5. ASSUME Uncrossed(s), NEW i \in 1 .. l PROVE t[i].kind \notin {"enter", "leave"}
    <2>1. i + 1 \in 1 .. l + 1 OBVIOUS
    <2> QED BY <1>3, <1>5, <2>1 DEF Uncrossed
  <1>6. Uncrossed(t) => Uncrossed(s) BY <1>3, <1>4 DEF Uncrossed
  <1>7. Uncrossed(s) => Uncrossed(t) BY <1>2, <1>5 DEF Uncrossed
  <1> QED BY <1>1, <1>6, <1>7

\* and neither enters nor leaves what does so in no part.
LEMMA UncrossedOfParts ==
  ASSUME NEW s \in Seq(Arrivals), NEW t \in Seq(Arrivals)
  PROVE  Uncrossed(s \o t) <=> Uncrossed(s) /\ Uncrossed(t)
  <1>1. PICK k : k = Len(s) OBVIOUS
  <1>2. PICK l : l = Len(t) OBVIOUS
  <1>3. PICK r : r = s \o t OBVIOUS
  <1>4. /\ k \in Nat /\ l \in Nat /\ Len(r) = k + l
        /\ \A i \in 1 .. k + l : r[i] = IF i <= k THEN s[i] ELSE t[i - k]
    <2>1. /\ Len(s \o t) = Len(s) + Len(t)
          /\ \A i \in 1 .. Len(s) + Len(t) : (s \o t)[i] = IF i <= Len(s) THEN s[i] ELSE t[i - Len(s)]
      BY ConcatProperties, Zenon
    <2>2. k \in Nat /\ l \in Nat BY <1>1, <1>2
    <2> QED BY <1>1, <1>2, <1>3, <2>1, <2>2, Zenon
  <1>5. ASSUME Uncrossed(r), NEW i \in 1 .. k PROVE s[i].kind \notin {"enter", "leave"}
    <2>1. i \in 1 .. k + l /\ i <= k BY <1>4
    <2> QED BY <1>4, <1>5, <2>1 DEF Uncrossed
  <1>6. ASSUME Uncrossed(r), NEW i \in 1 .. l PROVE t[i].kind \notin {"enter", "leave"}
    <2>1. i + k \in 1 .. k + l /\ ~(i + k <= k) /\ (i + k) - k = i BY <1>4
    <2>2. r[i + k] = t[i] BY <1>4, <2>1
    <2> QED BY <1>4, <1>6, <2>1, <2>2 DEF Uncrossed
  <1>7. ASSUME Uncrossed(s), Uncrossed(t), NEW i \in 1 .. k + l
        PROVE  r[i].kind \notin {"enter", "leave"}
    <2>1. i <= k => i \in 1 .. k BY <1>4
    <2>2. ~(i <= k) => i - k \in 1 .. l BY <1>4
    <2> QED BY <1>1, <1>2, <1>4, <1>7, <2>1, <2>2 DEF Uncrossed
  <1>8. Uncrossed(r) => Uncrossed(s) /\ Uncrossed(t) BY <1>1, <1>2, <1>5, <1>6 DEF Uncrossed
  <1>9. Uncrossed(s) /\ Uncrossed(t) => Uncrossed(r) BY <1>4, <1>7 DEF Uncrossed
  <1> QED BY <1>3, <1>8, <1>9, Zenon

-----------------------------------------------------------------------------
(* What the requests on their way make of the compositor. *)

\* Without requests the compositor stays as it is.
LEMMA TurnsOnNone ==
  ASSUME NEW on
  PROVE  TurnsOn(on, <<>>) <=> on
  <1>1. 1 .. Len(<<>>) = {} OBVIOUS
  <1> QED BY <1>1 DEF TurnsOn

\* A request more turns it on, or leaves it on.
LEMMA TurnsOnMore ==
  ASSUME NEW on, NEW s \in Seq(Requests), NEW r \in Requests,
         r.kind = "enable" \/ (r.kind = "state" /\ TurnsOn(on, s))
  PROVE  TurnsOn(on, Append(s, r))
  <1>1. PICK q : q = Append(s, r) OBVIOUS
  <1>2. PICK l \in Nat : l = Len(s) OBVIOUS
  <1>3. Len(q) = l + 1 /\ q[l + 1] = r /\ \A i \in 1 .. l : q[i] = s[i] BY <1>1, <1>2
  <1>4. CASE r.kind = "enable"
    <2>1. l + 1 \in 1 .. l + 1 /\ (l + 1) + 1 .. l + 1 = {} OBVIOUS
    <2>2. TurnsOn(on, q) BY <1>3, <1>4, <2>1 DEF TurnsOn
    <2> QED BY <1>1, <2>2, Zenon
  <1>5. CASE r.kind = "state" /\ TurnsOn(on, s)
    <2>0. \A j \in 1 .. l + 1 : j \in 1 .. l \/ j = l + 1 OBVIOUS
    <2>1. CASE on /\ \A i \in 1 .. l : s[i].kind = "state"
      <3>1. \A i \in 1 .. l + 1 : q[i].kind = "state" BY <1>3, <1>5, <2>0, <2>1
      <3>2. TurnsOn(on, q) BY <1>3, <2>1, <3>1 DEF TurnsOn
      <3> QED BY <1>1, <3>2, Zenon
    <2>2. ASSUME NEW i \in 1 .. l, s[i].kind = "enable", \A j \in i + 1 .. l : s[j].kind = "state"
          PROVE  TurnsOn(on, q)
      <3>1. q[i].kind = "enable" /\ i \in 1 .. l + 1 BY <1>3, <2>2
      <3>2. ASSUME NEW j \in i + 1 .. l + 1 PROVE q[j].kind = "state"
        <4>1. j = l + 1 \/ j \in i + 1 .. l OBVIOUS
        <4>2. j \in i + 1 .. l => j \in 1 .. l OBVIOUS
        <4> QED BY <1>3, <1>5, <2>2, <4>1, <4>2
      <3> QED BY <1>3, <3>1, <3>2 DEF TurnsOn
    <2> QED BY <1>1, <1>2, <1>5, <2>1, <2>2 DEF TurnsOn
  <1> QED BY <1>4, <1>5

\* One that has arrived has told the compositor, which is entered.
LEMMA TurnsOnLess ==
  ASSUME NEW on, NEW s \in Seq(Requests), s # <<>>, TurnsOn(on, s), NEW now,
         now <=> IF Head(s).kind = "state" THEN on ELSE Head(s).kind = "enable"
  PROVE  TurnsOn(now, Tail(s))
  <1>1. PICK t : t = Tail(s) OBVIOUS
  <1>2. PICK l \in Nat : l = Len(t) BY <1>1
  <1>3. Len(s) = l + 1 /\ Head(s) = s[1] /\ \A i \in 1 .. l : t[i] = s[i + 1] BY <1>1, <1>2
  <1>4. \A i \in 1 .. l : i + 1 \in 1 .. l + 1 OBVIOUS
  <1>5. CASE on /\ \A i \in 1 .. l + 1 : s[i].kind = "state"
    <2>1. now /\ \A i \in 1 .. l : t[i].kind = "state" BY <1>3, <1>4, <1>5
    <2> QED BY <1>1, <1>2, <2>1 DEF TurnsOn
  <1>6. ASSUME NEW i \in 1 .. l + 1, s[i].kind = "enable",
               \A j \in i + 1 .. l + 1 : s[j].kind = "state"
        PROVE  TurnsOn(now, t)
    <2>1. CASE i = 1
      <3>1. now BY <1>3, <1>6, <2>1
      <3>2. ASSUME NEW j \in 1 .. l PROVE t[j].kind = "state"
        <4>1. j + 1 \in i + 1 .. l + 1 BY <2>1
        <4> QED BY <1>3, <1>6, <4>1
      <3> QED BY <1>2, <3>1, <3>2 DEF TurnsOn
    <2>2. CASE i # 1
      <3>1. i - 1 \in 1 .. l /\ (i - 1) + 1 = i BY <2>2
      <3>2. t[i - 1].kind = "enable" BY <1>3, <1>6, <3>1
      <3>3. ASSUME NEW j \in (i - 1) + 1 .. l PROVE t[j].kind = "state"
        <4>1. j \in 1 .. l /\ j + 1 \in i + 1 .. l + 1 OBVIOUS
        <4> QED BY <1>3, <1>6, <4>1
      <3> QED BY <1>2, <3>1, <3>2, <3>3 DEF TurnsOn
    <2> QED BY <2>1, <2>2
  <1> QED BY <1>1, <1>3, <1>5, <1>6 DEF TurnsOn

\* The last request has the last client,
LEMMA LatestMore ==
  ASSUME NEW c, NEW s \in Seq(Requests), NEW r \in Requests
  PROVE  Latest(c, Append(s, r)) = r.client
  <1>1. PICK q : q = Append(s, r) OBVIOUS
  <1>2. q # <<>> /\ q[Len(q)] = r BY <1>1
  <1> QED BY <1>1, <1>2 DEF Latest

\* and keeps it when the first has arrived.
LEMMA LatestLess ==
  ASSUME NEW c, NEW s \in Seq(Requests), s # <<>>
  PROVE  Latest(Head(s).client, Tail(s)) = Latest(c, s)
  <1>1. PICK t : t = Tail(s) OBVIOUS
  <1>2. PICK l \in Nat : l = Len(t) BY <1>1
  <1>3. Len(s) = l + 1 /\ Head(s) = s[1] /\ \A i \in 1 .. l : t[i] = s[i + 1] BY <1>1, <1>2
  <1>4. CASE l = 0
    <2>1. t = <<>> BY <1>1, <1>2, <1>4
    <2> QED BY <1>1, <1>3, <1>4, <2>1 DEF Latest
  <1>5. CASE l # 0
    <2>1. t # <<>> /\ l \in 1 .. l BY <1>1, <1>2, <1>5
    <2>2. t[l] = s[l + 1] BY <1>3, <2>1
    <2> QED BY <1>1, <1>2, <1>3, <2>1, <2>2 DEF Latest
  <1> QED BY <1>4, <1>5

-----------------------------------------------------------------------------
(* What the client makes of its state. *)

Holds == [t : Clients, bs : Seq(Batches), rq : Seq(Requests)]

(* Reconcile turns text input on or off, or says what has changed, in one commit
   at most; a state it holds back awaits a matching done. *)
Reconciled(h, g) ==
    /\ g \in Holds /\ g.bs = h.bs
    /\ g.t.attached = h.t.attached /\ g.t.entered = h.t.entered /\ g.t.focused = h.t.focused
    /\ g.t.client = h.t.client /\ g.t.accepts = h.t.accepts /\ g.t.pending = h.t.pending
    /\ g.t.enabled <=> Wanted(g.t)
    /\ g.t.enabled /\ g.t.dirty => ~g.t.accepts
    /\ \/ /\ g.rq = <<>> /\ g.t.serial = h.t.serial /\ g.t.dirty = h.t.dirty
          /\ g.t.enabled => h.t.enabled
       \/ \E r \in Requests :
             /\ g.rq = <<r>> /\ r.client = h.t.client /\ r.client # NoClient
             /\ g.t.serial = (h.t.serial + 1) % SerialModulus /\ h.t.attached
             /\ g.t.enabled => r.kind = "enable" \/ (r.kind = "state" /\ h.t.enabled)

\* The next serial is one,
LEMMA SerialCounts ==
  ASSUME NEW s \in 0 .. SerialModulus - 1
  PROVE  (s + 1) % SerialModulus \in 0 .. SerialModulus - 1 /\ SerialModulus \in Nat \ {0, 1}
  <1>1. SerialModulus \in Nat \ {0, 1} BY TextInputBounds
  <1> QED BY <1>1

\* and the first request a sequence.
LEMMA OneRequest ==
  ASSUME NEW r \in Requests
  PROVE  Append(<<>>, r) = <<r>> /\ <<r>> \in Seq(Requests)
  OBVIOUS

\* A request is sent in a commit of its own.
LEMMA RequestIs ==
  ASSUME NEW h \in Holds, h.rq = <<>>, NEW kind \in {"enable", "disable", "state"}
  PROVE  \E r \in Requests :
            /\ r.kind = kind /\ r.client = h.t.client
            /\ Request(h, kind) =
                 [t |-> [h.t EXCEPT !.serial = (h.t.serial + 1) % SerialModulus],
                  bs |-> h.bs, rq |-> <<r>>]
  <1> DEFINE r == [kind |-> kind, client |-> h.t.client]
  <1>1. h.t \in Clients BY DEF Holds
  <1>2. r \in Requests BY <1>1 DEF Clients, Requests
  <1>3. PICK q \in Requests : q = r BY <1>2
  <1>4. PICK n : n = (h.t.serial + 1) % SerialModulus OBVIOUS
  <1>5. h.t.serial \in 0 .. SerialModulus - 1 BY <1>1 DEF Clients
  <1>6. PICK w : w = Append(h.rq, q) OBVIOUS
  <1>7. w = <<q>> BY <1>3, <1>6, OneRequest
  <1>8. PICK u : u = [h.t EXCEPT !.serial = n] OBVIOUS
  <1>9. PICK x : x = Request(h, kind) OBVIOUS
  <1>10. x = [h EXCEPT !.rq = w, !.t = u]
    BY <1>3, <1>4, <1>6, <1>8, <1>9 DEF Request, Holds
  <1>11. x = [t |-> u, bs |-> h.bs, rq |-> w] BY <1>10 DEF Holds
  <1>12. q.kind = kind /\ q.client = h.t.client BY <1>3
  <1> QED BY <1>3, <1>4, <1>7, <1>8, <1>9, <1>11, <1>12, Zenon

\* A record held, with another state of the client.
LEMMA HeldWith ==
  ASSUME NEW u \in Clients, NEW b \in Seq(Batches), NEW w \in Seq(Requests), NEW g,
         g = [t |-> u, bs |-> b, rq |-> w]
  PROVE  g \in Holds /\ g.t = u /\ g.bs = b /\ g.rq = w
  BY DEF Holds

\* Reconcile does as Reconciled says.
LEMMA ReconcileIs ==
  ASSUME NEW h \in Holds, h.rq = <<>>, h.t.enabled => h.t.client # NoClient
  PROVE  Reconciled(h, Reconcile(h))
  <1>1. PICK t \in Clients : t = h.t BY DEF Holds
  <1>2. PICK b \in Seq(Batches) : b = h.bs BY DEF Holds
  <1>3. PICK g : g = Reconcile(h) OBVIOUS
  <1>4. PICK n \in 0 .. SerialModulus - 1 : n = (t.serial + 1) % SerialModulus
    BY SerialCounts DEF Clients
  <1> SUFFICES Reconciled(h, g) BY <1>3
  <1>5. CASE ~Wanted(t) /\ t.enabled /\ t.attached /\ t.entered
    <2>1. PICK r \in Requests :
             /\ r.client = t.client
             /\ Request(h, "disable") = [t |-> [t EXCEPT !.serial = n], bs |-> b, rq |-> <<r>>]
      BY <1>1, <1>2, <1>4, RequestIs
    <2>2. PICK w \in Seq(Requests) : w = <<r>> BY OneRequest
    <2>3. PICK v : v = [t EXCEPT !.serial = n] OBVIOUS
    <2>4. PICK x : x = [t |-> v, bs |-> b, rq |-> w] OBVIOUS
    <2>5. x = Disable(h) BY <2>1, <2>2, <2>3, <2>4, Zenon DEF Disable
    <2>6. g = [x EXCEPT !.t.enabled = FALSE]
      BY <1>1, <1>3, <1>5, <2>5 DEF Reconcile, Wanted
    <2>7. PICK u \in Clients : u = [t EXCEPT !.serial = n, !.enabled = FALSE] BY DEF Clients
    <2>8. g = [t |-> u, bs |-> b, rq |-> w] BY <2>3, <2>4, <2>6, <2>7 DEF Clients
    <2>9. g \in Holds /\ g.t = u /\ g.bs = b /\ g.rq = w BY <2>8, HeldWith
    <2>20. /\ g.rq = <<r>> /\ r.client = h.t.client /\ r.client # NoClient
           /\ g.t.serial = (h.t.serial + 1) % SerialModulus /\ h.t.attached
           /\ g.t.enabled => r.kind = "enable" \/ (r.kind = "state" /\ h.t.enabled)
      <3>1. g.rq = <<r>> BY <2>2, <2>9
      <3>2. h.t.enabled \/ Wanted(h.t) => h.t.client # NoClient BY DEF Wanted
      <3>3. u.serial = n /\ (u.enabled <=> FALSE) BY <2>7 DEF Clients
      <3> QED BY <1>1, <1>4, <1>5, <2>1, <2>7, <2>9, <3>1, <3>2, <3>3 DEF Wanted
    <2>21. /\ u.attached = t.attached /\ u.entered = t.entered /\ u.focused = t.focused
           /\ u.client = t.client /\ u.accepts = t.accepts /\ u.pending = t.pending
           /\ u.enabled <=> Wanted(u)
           /\ u.enabled /\ u.dirty => ~u.accepts
      BY <1>5, <2>7 DEF Wanted, Clients
    <2>22. \E q \in Requests :
             /\ g.rq = <<q>> /\ q.client = h.t.client /\ q.client # NoClient
             /\ g.t.serial = (h.t.serial + 1) % SerialModulus /\ h.t.attached
             /\ g.t.enabled => q.kind = "enable" \/ (q.kind = "state" /\ h.t.enabled)
      BY <2>20, Zenon
    <2> QED BY <1>1, <1>2, <2>9, <2>21, <2>22, Zenon DEF Reconciled
  <1>6. CASE ~Wanted(t) /\ ~(t.enabled /\ t.attached /\ t.entered)
    <2>1. g = [h EXCEPT !.t.enabled = FALSE]
      BY <1>1, <1>3, <1>6 DEF Reconcile, Wanted
    <2>2. PICK u \in Clients : u = [t EXCEPT !.enabled = FALSE] BY DEF Clients
    <2>3. PICK w \in Seq(Requests) : w = h.rq BY DEF Holds
    <2>4. g = [t |-> u, bs |-> b, rq |-> w] BY <1>1, <1>2, <2>1, <2>2, <2>3 DEF Clients, Holds
    <2>5. g \in Holds /\ g.t = u /\ g.bs = b /\ g.rq = w BY <2>4, HeldWith
    <2> QED BY <1>1, <1>2, <1>6, <2>2, <2>3, <2>5 DEF Reconciled, Wanted, Clients
  <1>7. CASE Wanted(t) /\ ~t.enabled
    <2>1. PICK r \in Requests :
             /\ r.client = t.client /\ r.kind = "enable"
             /\ Request(h, "enable") = [t |-> [t EXCEPT !.serial = n], bs |-> b, rq |-> <<r>>]
      BY <1>1, <1>2, <1>4, RequestIs
    <2>2. PICK w \in Seq(Requests) : w = <<r>> BY OneRequest
    <2>3. PICK v : v = [t EXCEPT !.serial = n] OBVIOUS
    <2>4. PICK x : x = [t |-> v, bs |-> b, rq |-> w] OBVIOUS
    <2>5. x = Request(h, "enable") BY <2>1, <2>2, <2>3, <2>4, Zenon
    <2>6. g = [Sent(x) EXCEPT !.t.enabled = TRUE]
      BY <1>1, <1>3, <1>7, <2>5 DEF Reconcile, Wanted
    <2>7. PICK y : y = [t EXCEPT !.serial = n, !.dirty = FALSE, !.reset = FALSE] OBVIOUS
    <2>8. PICK z : z = Sent(x) OBVIOUS
    <2>9. z = [t |-> y, bs |-> b, rq |-> w] BY <2>3, <2>4, <2>7, <2>8 DEF Sent, Clients
    <2>10. PICK u \in Clients :
              u = [t EXCEPT !.serial = n, !.dirty = FALSE, !.reset = FALSE, !.enabled = TRUE]
      BY DEF Clients
    <2>11. g = [z EXCEPT !.t.enabled = TRUE] BY <2>6, <2>8
    <2>12. g = [t |-> u, bs |-> b, rq |-> w] BY <2>7, <2>9, <2>10, <2>11 DEF Clients
    <2>13. g \in Holds /\ g.t = u /\ g.bs = b /\ g.rq = w BY <2>12, HeldWith
    <2>20. /\ g.rq = <<r>> /\ r.client = h.t.client /\ r.client # NoClient
           /\ g.t.serial = (h.t.serial + 1) % SerialModulus /\ h.t.attached
           /\ g.t.enabled => r.kind = "enable" \/ (r.kind = "state" /\ h.t.enabled)
      <3>1. g.rq = <<r>> BY <2>2, <2>13
      <3>2. h.t.enabled \/ Wanted(h.t) => h.t.client # NoClient BY DEF Wanted
      <3>3. u.serial = n /\ (u.enabled <=> TRUE) BY <2>10 DEF Clients
      <3> QED BY <1>1, <1>4, <1>7, <2>1, <2>10, <2>13, <3>1, <3>2, <3>3 DEF Wanted
    <2>21. /\ u.attached = t.attached /\ u.entered = t.entered /\ u.focused = t.focused
           /\ u.client = t.client /\ u.accepts = t.accepts /\ u.pending = t.pending
           /\ u.enabled <=> Wanted(u)
           /\ u.enabled /\ u.dirty => ~u.accepts
      BY <1>7, <2>10 DEF Wanted, Clients
    <2>22. \E q \in Requests :
             /\ g.rq = <<q>> /\ q.client = h.t.client /\ q.client # NoClient
             /\ g.t.serial = (h.t.serial + 1) % SerialModulus /\ h.t.attached
             /\ g.t.enabled => q.kind = "enable" \/ (q.kind = "state" /\ h.t.enabled)
      BY <2>20, Zenon
    <2> QED BY <1>1, <1>2, <2>13, <2>21, <2>22, Zenon DEF Reconciled
  <1>8. CASE Wanted(t) /\ t.enabled /\ t.dirty /\ t.accepts
    <2>0. PICK kind \in {"enable", "state"} : kind = IF t.reset THEN "enable" ELSE "state"
      OBVIOUS
    <2>1. PICK r \in Requests :
             /\ r.client = t.client /\ r.kind = kind
             /\ Request(h, kind) = [t |-> [t EXCEPT !.serial = n], bs |-> b, rq |-> <<r>>]
      BY <1>1, <1>2, <1>4, RequestIs
    <2>2. PICK w \in Seq(Requests) : w = <<r>> BY OneRequest
    <2>3. PICK v : v = [t EXCEPT !.serial = n] OBVIOUS
    <2>4. PICK x : x = [t |-> v, bs |-> b, rq |-> w] OBVIOUS
    <2>5. x = Request(h, kind) BY <2>1, <2>2, <2>3, <2>4, Zenon
    <2>6. g = Sent(x) BY <1>1, <1>3, <1>8, <2>0, <2>5 DEF Reconcile, Wanted
    <2>7. PICK u \in Clients : u = [t EXCEPT !.serial = n, !.dirty = FALSE, !.reset = FALSE]
      BY DEF Clients
    <2>8. g = [t |-> u, bs |-> b, rq |-> w] BY <2>3, <2>4, <2>6, <2>7 DEF Sent, Clients
    <2>9. g \in Holds /\ g.t = u /\ g.bs = b /\ g.rq = w BY <2>8, HeldWith
    <2>20. /\ g.rq = <<r>> /\ r.client = h.t.client /\ r.client # NoClient
           /\ g.t.serial = (h.t.serial + 1) % SerialModulus /\ h.t.attached
           /\ g.t.enabled => r.kind = "enable" \/ (r.kind = "state" /\ h.t.enabled)
      <3>1. g.rq = <<r>> BY <2>2, <2>9
      <3>2. h.t.enabled \/ Wanted(h.t) => h.t.client # NoClient BY DEF Wanted
      <3>3. u.serial = n /\ (u.enabled <=> TRUE) BY <1>8, <2>7 DEF Clients
      <3> QED BY <1>1, <1>4, <1>8, <2>0, <2>1, <2>7, <2>9, <3>1, <3>2, <3>3 DEF Wanted
    <2>21. /\ u.attached = t.attached /\ u.entered = t.entered /\ u.focused = t.focused
           /\ u.client = t.client /\ u.accepts = t.accepts /\ u.pending = t.pending
           /\ u.enabled <=> Wanted(u)
           /\ u.enabled /\ u.dirty => ~u.accepts
      BY <1>8, <2>7 DEF Wanted, Clients
    <2>22. \E q \in Requests :
             /\ g.rq = <<q>> /\ q.client = h.t.client /\ q.client # NoClient
             /\ g.t.serial = (h.t.serial + 1) % SerialModulus /\ h.t.attached
             /\ g.t.enabled => q.kind = "enable" \/ (q.kind = "state" /\ h.t.enabled)
      BY <2>20, Zenon
    <2> QED BY <1>1, <1>2, <2>9, <2>21, <2>22, Zenon DEF Reconciled
  <1>9. CASE Wanted(t) /\ t.enabled /\ ~(t.dirty /\ t.accepts)
    <2>1. g = h BY <1>1, <1>3, <1>9 DEF Reconcile, Wanted
    <2> QED BY <1>1, <1>2, <1>9, <2>1 DEF Reconciled, Wanted, Clients
  <1> QED BY <1>5, <1>6, <1>7, <1>8, <1>9

-----------------------------------------------------------------------------
(* What a turn of the client leaves of its agreement with the compositor. *)

Moves(t, g) ==
    /\ g \in Holds /\ g.t.attached = t.attached
    /\ g.t.enabled <=> Wanted(g.t)
    /\ ~g.t.attached => ~g.t.entered
    /\ t.client # NoClient => g.t.client # NoClient
    /\ \/ /\ g.rq = <<>> /\ g.t.serial = t.serial
          /\ g.t.enabled => t.enabled
          /\ g.t.enabled /\ ~g.t.dirty => ~t.dirty /\ g.t.client = t.client
       \/ \E r \in Requests :
             /\ g.rq = <<r>> /\ r.client = g.t.client /\ r.client # NoClient
             /\ g.t.serial = (t.serial + 1) % SerialModulus /\ t.attached
             /\ g.t.enabled => r.kind = "enable" \/ (r.kind = "state" /\ t.enabled)

\* A commit more is on its way.
LEMMA Commits ==
  ASSUME NEW s \in Seq(Requests), NEW r \in Requests
  PROVE  s \o <<r>> = Append(s, r) /\ Append(s, r) \in Seq(Requests)
         /\ Len(Append(s, r)) = Len(s) + 1 /\ Append(s, r) # <<>>
  OBVIOUS

\* A turn that moves in this way keeps the channels in agreement.
LEMMA ChannelKept ==
  ASSUME TextInputInv, NEW g, Moves(ti, g), Apply(g), comp' = comp,
         toE' \in Seq(Arrivals), ~ti.attached => toE' = <<>>,
         Crosses(g.t.entered, toE', comp.entered),
         g.t.enabled /\ ti.enabled /\ Uncrossed(toE') => Uncrossed(toE)
  PROVE  /\ ti' = g.t /\ batches' = g.bs /\ ti' \in Clients /\ batches' \in Seq(Batches)
         /\ toC' \in Seq(Requests) /\ ChannelsAgree'
  <1>1. /\ ti \in Clients /\ toC \in Seq(Requests) /\ comp \in Compositors
        /\ ChannelsAgree
    BY DEF TextInputInv, TextInputShaped
  <1>2. /\ ti' = g.t /\ batches' = g.bs /\ ti' \in Clients /\ batches' \in Seq(Batches)
        /\ toC' = IF g.t.attached THEN toC \o g.rq ELSE toC
    BY DEF Apply, Moves, Holds
  <1>3. /\ ti'.attached = ti.attached
        /\ ti'.enabled <=> Wanted(ti)'
        /\ ~ti'.attached => ~ti'.entered
        /\ ti.client # NoClient => ti'.client # NoClient
    BY <1>2 DEF Moves, Wanted
  <1>4. /\ ti'.enabled /\ ti.enabled /\ Uncrossed(toE)' => Uncrossed(toE)
        /\ Crosses(ti'.entered, toE', comp'.entered)
    BY <1>2
  <1>5. CASE /\ g.rq = <<>> /\ g.t.serial = ti.serial
             /\ g.t.enabled => ti.enabled
             /\ g.t.enabled /\ ~g.t.dirty => ~ti.dirty /\ g.t.client = ti.client
    <2>1. toC' = toC BY <1>1, <1>2, <1>5
    <2>2. ti'.enabled /\ ~ti'.dirty => Latest(comp.client, toC)' = ti'.client
      BY <1>1, <1>2, <1>5, <2>1 DEF ChannelsAgree
    <2>3. ti'.enabled /\ Uncrossed(toE)' => TurnsOn(comp.on, toC)'
      BY <1>1, <1>2, <1>4, <1>5, <2>1 DEF ChannelsAgree
    <2>4. ti'.attached => ti'.serial = (comp'.seen + Len(toC')) % SerialModulus
      BY <1>1, <1>2, <1>3, <1>5, <2>1 DEF ChannelsAgree
    <2>5. (comp'.on \/ toC' # <<>> => ti'.client # NoClient) /\ (comp'.on => comp'.entered)
      BY <1>1, <1>3, <2>1 DEF ChannelsAgree
    <2>6. ~ti'.attached => toC' = <<>> /\ toE' = <<>> /\ ~ti'.entered
      BY <1>1, <1>3, <2>1 DEF ChannelsAgree
    <2>7. ChannelsAgree'
      BY <1>3, <1>4, <2>2, <2>3, <2>4, <2>5, <2>6 DEF ChannelsAgree
    <2> QED BY <1>1, <1>2, <2>1, <2>7
  <1>6. CASE \E r \in Requests :
                /\ g.rq = <<r>> /\ r.client = g.t.client /\ r.client # NoClient
                /\ g.t.serial = (ti.serial + 1) % SerialModulus /\ ti.attached
                /\ g.t.enabled => r.kind = "enable" \/ (r.kind = "state" /\ ti.enabled)
    <2>0. PICK r \in Requests :
                /\ g.rq = <<r>> /\ r.client = g.t.client /\ r.client # NoClient
                /\ g.t.serial = (ti.serial + 1) % SerialModulus /\ ti.attached
                /\ g.t.enabled => r.kind = "enable" \/ (r.kind = "state" /\ ti.enabled)
      BY <1>6
    <2>1. toC' = toC \o <<r>> BY <1>2, <1>3, <2>0, Zenon
    <2>2. /\ toC' = Append(toC, r) /\ toC' \in Seq(Requests)
          /\ Len(toC') = Len(toC) + 1 /\ toC' # <<>>
      BY <1>1, <2>1, Commits, Zenon
    <2>3. Latest(comp.client, toC)' = ti'.client
      <3>1. Latest(comp.client, Append(toC, r)) = r.client BY <1>1, LatestMore, Zenon
      <3> QED BY <1>2, <2>0, <2>2, <3>1, Zenon
    <2>4. ti'.enabled /\ Uncrossed(toE)' => TurnsOn(comp.on, toC)'
      <3>1. SUFFICES ASSUME ti'.enabled, Uncrossed(toE)' PROVE TurnsOn(comp.on, toC)' OBVIOUS
      <3>2. r.kind = "enable" \/ (r.kind = "state" /\ ti.enabled) BY <1>2, <2>0, <3>1
      <3>3. r.kind = "enable" \/ (r.kind = "state" /\ TurnsOn(comp.on, toC))
        BY <1>1, <1>4, <3>1, <3>2 DEF ChannelsAgree
      <3>4. TurnsOn(comp.on, Append(toC, r)) BY <1>1, <3>3, TurnsOnMore, Zenon
      <3> QED BY <2>2, <3>4, Zenon
    <2>5. ti'.serial = (comp'.seen + Len(toC')) % SerialModulus
      <3>1. PICK m \in Nat \ {0} : m = SerialModulus BY TextInputBounds
      <3>2. PICK x \in Nat : x = comp.seen + Len(toC) BY <1>1 DEF Compositors
      <3>3. ti.serial = x % m BY <1>1, <2>0, <3>1, <3>2 DEF ChannelsAgree
      <3>4. ((x % m) + 1) % m = (x + 1) % m BY RemainderOfNext
      <3>5. ti'.serial = (x + 1) % m BY <1>2, <2>0, <3>1, <3>3, <3>4
      <3>6. comp.seen \in Nat /\ Len(toC) \in Nat BY <1>1 DEF Compositors
      <3>7. comp'.seen + Len(toC') = x + 1 BY <2>2, <3>2, <3>6
      <3> QED BY <3>1, <3>5, <3>7
    <2>6. (comp'.on \/ toC' # <<>> => ti'.client # NoClient) /\ (comp'.on => comp'.entered)
      BY <1>1, <1>2, <2>0 DEF ChannelsAgree
    <2>7. ti'.attached BY <1>3, <2>0
    <2>8. ChannelsAgree'
      BY <1>3, <1>4, <2>3, <2>4, <2>5, <2>6, <2>7 DEF ChannelsAgree
    <2> QED BY <1>2, <2>2, <2>8
  <1> QED BY <1>5, <1>6 DEF Moves

\* Reconciling after a change that sets dirty with the client keeps to it.
LEMMA ReconciledMoves ==
  ASSUME NEW t \in Clients, NEW h \in Holds, h.rq = <<>>, NEW g, Reconciled(h, g),
         h.t.attached = t.attached, h.t.serial = t.serial, h.t.enabled = t.enabled,
         ~t.attached => ~h.t.entered,
         t.client # NoClient => h.t.client # NoClient,
         ~h.t.dirty /\ t.enabled => ~t.dirty /\ h.t.client = t.client
  PROVE  Moves(t, g)
  <1>1. /\ g \in Holds /\ g.t.attached = t.attached /\ (g.t.enabled <=> Wanted(g.t))
        /\ ~g.t.attached => ~g.t.entered
        /\ t.client # NoClient => g.t.client # NoClient
    BY DEF Reconciled
  <1>2. CASE /\ g.rq = <<>> /\ g.t.serial = h.t.serial /\ g.t.dirty = h.t.dirty
             /\ g.t.enabled => h.t.enabled
    <2>1. g.t.client = h.t.client BY DEF Reconciled
    <2>2. /\ g.t.serial = t.serial
          /\ g.t.enabled => t.enabled
          /\ g.t.enabled /\ ~g.t.dirty => ~t.dirty /\ g.t.client = t.client
      BY <1>2, <2>1
    <2> QED BY <1>1, <1>2, <2>2 DEF Moves
  <1>3. CASE \E r \in Requests :
             /\ g.rq = <<r>> /\ r.client = h.t.client /\ r.client # NoClient
             /\ g.t.serial = (h.t.serial + 1) % SerialModulus /\ h.t.attached
             /\ g.t.enabled => r.kind = "enable" \/ (r.kind = "state" /\ h.t.enabled)
    <2>1. PICK r \in Requests :
             /\ g.rq = <<r>> /\ r.client = h.t.client /\ r.client # NoClient
             /\ g.t.serial = (h.t.serial + 1) % SerialModulus /\ h.t.attached
             /\ g.t.enabled => r.kind = "enable" \/ (r.kind = "state" /\ h.t.enabled)
      BY <1>3
    <2>2. g.t.client = h.t.client BY DEF Reconciled
    <2>3. /\ g.rq = <<r>> /\ r.client = g.t.client /\ r.client # NoClient
          /\ g.t.serial = (t.serial + 1) % SerialModulus /\ t.attached
          /\ g.t.enabled => r.kind = "enable" \/ (r.kind = "state" /\ t.enabled)
      BY <2>1, <2>2, Zenon
    <2> QED BY <1>1, <2>3, Zenon DEF Moves
  <1> QED BY <1>2, <1>3 DEF Reconciled

-----------------------------------------------------------------------------
(* The client is held as it is, with other batches, *)

\* As it is,
LEMMA HeldIs ==
  ASSUME TextInputInv
  PROVE  Held \in Holds /\ Held.t = ti /\ Held.bs = batches /\ Held.rq = <<>>
  <1>1. ti \in Clients /\ batches \in Seq(Batches) /\ <<>> \in Seq(Requests)
    BY DEF TextInputInv, TextInputShaped
  <1>2. PICK w \in Seq(Requests) : w = <<>> BY <1>1
  <1>3. PICK x : x = Held OBVIOUS
  <1>4. x = [t |-> ti, bs |-> batches, rq |-> w] BY <1>2, <1>3 DEF Held
  <1>5. x \in Holds /\ x.t = ti /\ x.bs = batches /\ x.rq = w BY <1>1, <1>4, HeldWith
  <1> QED BY <1>2, <1>3, <1>5

\* without its batches,
LEMMA HeldTaken ==
  ASSUME TextInputInv
  PROVE  LET h == [Held EXCEPT !.bs = <<>>] IN
         h \in Holds /\ h.t = ti /\ h.bs = <<>> /\ h.rq = <<>>
  <1>1. ti \in Clients /\ <<>> \in Seq(Requests) /\ <<>> \in Seq(Batches)
    BY DEF TextInputInv, TextInputShaped
  <1>2. PICK w \in Seq(Requests) : w = <<>> BY <1>1
  <1>3. PICK b \in Seq(Batches) : b = <<>> BY <1>1
  <1>4. PICK x : x = [Held EXCEPT !.bs = b] OBVIOUS
  <1>5. x = [t |-> ti, bs |-> b, rq |-> w] BY <1>2, <1>4 DEF Held
  <1>6. x \in Holds /\ x.t = ti /\ x.bs = b /\ x.rq = w BY <1>1, <1>5, HeldWith
  <1> QED BY <1>2, <1>3, <1>4, <1>6, Zenon

(* and told of another state. *)

\* An update moves in the way the channels need.
LEMMA UpdateIs ==
  ASSUME TextInputInv, NEW h \in Holds, h.t = ti, h.rq = <<>>, NEW text \in Texts
  PROVE  LET g == UpdateClientState(h, text) IN
         /\ Moves(ti, g) /\ g.bs = h.bs /\ g.t.entered = ti.entered
         /\ g.t.enabled /\ g.t.dirty => ~g.t.accepts
  <1>1. ti \in Clients /\ (ti.enabled <=> Wanted(ti)) /\ (~ti.attached => ~ti.entered)
    BY DEF TextInputInv, TextInputShaped, ChannelsAgree
  <1>2. text # NoClient /\ NoClient = "none" BY TextsAssumption DEF NoClient
  <1> DEFINE k == IF h.t.client = text THEN h
                  ELSE [h EXCEPT !.t.client = text, !.t.dirty = TRUE,
                                 !.t.reset = @ \/ (h.t.client # NoClient
                                     /\ (h.t.client = TooLong) # (text = TooLong))]
  <1>3. /\ k \in Holds /\ k.rq = <<>> /\ k.bs = h.bs
        /\ k.t.attached = ti.attached /\ k.t.entered = ti.entered /\ k.t.serial = ti.serial
        /\ k.t.enabled = ti.enabled /\ k.t.client = text
        /\ ~k.t.dirty => ~ti.dirty /\ k.t.client = ti.client
    <2>1. CASE ti.client = text BY <2>1
    <2>2. CASE ti.client # text
      <3>1. PICK z \in BOOLEAN :
               z = (ti.reset \/ (ti.client # NoClient /\ (ti.client = TooLong) # (text = TooLong)))
        OBVIOUS
      <3>2. PICK w \in Seq(Requests) : w = h.rq BY DEF Holds
      <3>3. PICK b \in Seq(Batches) : b = h.bs BY DEF Holds
      <3>4. PICK u \in Clients : u = [ti EXCEPT !.client = text, !.dirty = TRUE, !.reset = z]
        BY <1>1 DEF Clients
      <3>5. PICK x : x = k OBVIOUS
      <3>6. x = [h EXCEPT !.t.client = text, !.t.dirty = TRUE, !.t.reset = z]
        BY <1>1, <2>2, <3>1, <3>5 DEF Clients
      <3> HIDE DEF k
      <3>7. x = [t |-> u, bs |-> b, rq |-> w] BY <1>1, <3>2, <3>3, <3>4, <3>6 DEF Clients, Holds
      <3>8. x \in Holds /\ x.t = u /\ x.bs = b /\ x.rq = w BY <3>7, HeldWith
      <3>9. /\ u.attached = ti.attached /\ u.entered = ti.entered /\ u.serial = ti.serial
            /\ u.enabled = ti.enabled /\ u.client = text /\ u.dirty
        BY <1>1, <3>4 DEF Clients
      <3> QED BY <3>2, <3>3, <3>5, <3>8, <3>9
    <2> QED BY <2>1, <2>2
  <1>4. PICK g : g = UpdateClientState(h, text) OBVIOUS
  <1>5. g = Reconcile(k) BY <1>4 DEF UpdateClientState
  <1> HIDE DEF k
  <1>6. Reconciled(k, g) BY <1>2, <1>3, <1>5, ReconcileIs
  <1>7. Moves(ti, g)
    <2>1. \A h1 \in Holds : \A g1 :
            h1.rq = <<>> /\ Reconciled(h1, g1) /\ h1.t.attached = ti.attached
              /\ h1.t.serial = ti.serial /\ h1.t.enabled = ti.enabled
              /\ (~ti.attached => ~h1.t.entered)
              /\ (ti.client # NoClient => h1.t.client # NoClient)
              /\ (~h1.t.dirty /\ ti.enabled => ~ti.dirty /\ h1.t.client = ti.client)
              => Moves(ti, g1)
      BY <1>1, ReconciledMoves
    <2> QED BY <1>1, <1>2, <1>3, <1>6, <2>1
  <1> QED BY <1>3, <1>4, <1>6, <1>7 DEF Reconciled

-----------------------------------------------------------------------------
(* Steps of the editor. *)

\* Synchronizing keeps to the invariant if the field is as it should be.
LEMMA SynchronizeKeeps ==
  ASSUME TextInputInv, UNCHANGED <<toE, comp>>, NEW f, Owned(f), Synchronize(f),
         ti.enabled /\ ti.dirty /\ ti.accepts => f.dirty \/ f.lost,
         ~ti.entered => f.preedit = "none"
  PROVE  TextInputInv'
  <1>1. /\ ti \in Clients /\ toE \in Seq(Arrivals) /\ comp \in Compositors /\ ChannelsAgree
    BY DEF TextInputInv, TextInputShaped
  <1>2. PICK h : h = [Held EXCEPT !.bs = <<>>] OBVIOUS
  <1>3. h \in Holds /\ h.t = ti /\ h.bs = <<>> /\ h.rq = <<>> BY <1>2, HeldTaken
  <1>4. toE' = toE /\ comp' = comp OBVIOUS
  <1>5. f \in FieldStates /\ f.text \in Texts BY DEF Owned, FieldStates
  <1>6. ASSUME NEW g, Moves(ti, g), Apply(g), g.bs = <<>>, g.t.entered = ti.entered,
               NEW k, k = field', Owned(k), k.preedit = f.preedit,
               g.t.enabled /\ g.t.dirty /\ g.t.accepts => k.dirty \/ k.lost
        PROVE  TextInputInv'
    <2>1. /\ ti' = g.t /\ batches' = g.bs /\ ti' \in Clients /\ batches' \in Seq(Batches)
          /\ toC' \in Seq(Requests) /\ ChannelsAgree'
      <3>1. /\ toE' \in Seq(Arrivals) /\ (~ti.attached => toE' = <<>>)
            /\ Crosses(g.t.entered, toE', comp.entered)
            /\ g.t.enabled /\ ti.enabled /\ Uncrossed(toE') => Uncrossed(toE)
        BY <1>1, <1>4, <1>6 DEF ChannelsAgree
      <3> QED BY <1>4, <1>6, <3>1, ChannelKept
    <2>2. TextInputShaped' BY <1>1, <1>4, <1>6, <2>1 DEF TextInputShaped, Owned
    <2>3. Given(field, batches)' = k
      <3>1. Given(k, <<>>) = k BY GivenNone
      <3> QED BY <1>6, <2>1, <3>1, Zenon
    <2>4. FieldFollows'
      <3>1. ti'.enabled /\ ti'.dirty /\ ti'.accepts => field'.dirty \/ field'.lost
        BY <1>6, <2>1
      <3>2. field'.preedit \in {"none", field'.focus}
            /\ (field'.focus = "chrome" => field'.preedit = "none")
        BY <1>6 DEF Owned
      <3>3. ~ti'.entered => Given(field, batches)'.preedit = "none"
        <4>1. ~ti'.entered => k.preedit = "none" BY <1>6, <2>1
        <4> QED BY <2>3, <4>1
      <3> QED BY <3>1, <3>2, <3>3 DEF FieldFollows
    <2> QED BY <2>1, <2>2, <2>4 DEF TextInputInv
  <1>7. CASE f.dirty
    <2>1. PICK g : g = UpdateClientState(h, f.text) OBVIOUS
    <2>2. Apply(g) /\ field' = [f EXCEPT !.dirty = FALSE, !.lost = FALSE]
      BY <1>2, <1>7, <2>1, Zenon DEF Synchronize
    <2>3. /\ Moves(ti, g) /\ g.bs = h.bs /\ g.t.entered = ti.entered
          /\ g.t.enabled /\ g.t.dirty => ~g.t.accepts
      BY <1>3, <1>5, <2>1, UpdateIs
    <2>4. PICK k : k = [f EXCEPT !.dirty = FALSE, !.lost = FALSE] OBVIOUS
    <2>5. Owned(k) /\ k.preedit = f.preedit BY <2>4 DEF Owned, FieldStates
    <2> QED BY <1>3, <1>6, <2>2, <2>3, <2>4, <2>5
  <1>8. CASE ~f.dirty
    <2>1. Apply(h) /\ field' = f BY <1>2, <1>8, Zenon DEF Synchronize
    <2>2. Moves(ti, h) BY <1>1, <1>3 DEF Moves, ChannelsAgree
    <2>3. h.t.enabled /\ h.t.dirty /\ h.t.accepts => f.dirty \/ f.lost BY <1>3
    <2> QED BY <1>3, <1>6, <2>1, <2>2, <2>3
  <1> QED BY <1>7, <1>8

\* The field's preedit is its own.
LEMMA FieldOwned ==
  ASSUME TextInputInv
  PROVE  Owned(field) /\ batches \in Seq(Batches)
  BY DEF TextInputInv, TextInputShaped, FieldFollows, Owned

\* The batches are delivered.
LEMMA DeliverBatchesKeeps ==
  ASSUME TextInputInv, DeliverBatches
  PROVE  TextInputInv'
  <1>1. Owned(field) /\ batches \in Seq(Batches) BY FieldOwned
  <1>2. PICK g : g = Given(field, batches) OBVIOUS
  <1>3. /\ Owned(g) /\ g.focus = field.focus
        /\ field.dirty \/ field.lost \/ (\E i \in 1 .. Len(batches) : batches[i].refresh)
              => g.dirty \/ g.lost
    BY <1>1, <1>2, BatchesApplied
  <1>4. PICK text \in Texts : Synchronize([Given(field, batches) EXCEPT !.text = text])
    BY DEF DeliverBatches
  <1>5. UNCHANGED <<toE, comp>> BY DEF DeliverBatches
  <1>6. PICK f : f = [g EXCEPT !.text = text] OBVIOUS
  <1>7. /\ Owned(f) /\ f.preedit = g.preedit /\ f.dirty = g.dirty /\ f.lost = g.lost
    BY <1>3, <1>6 DEF Owned, FieldStates
  <1>8. Synchronize(f) BY <1>2, <1>4, <1>6, Zenon
  <1>9. ti.enabled /\ ti.dirty /\ ti.accepts => f.dirty \/ f.lost
    BY <1>3, <1>7 DEF TextInputInv, FieldFollows
  <1>10. ~ti.entered => f.preedit = "none" BY <1>2, <1>7 DEF TextInputInv, FieldFollows
  <1> QED BY <1>5, <1>7, <1>8, <1>9, <1>10, SynchronizeKeeps

\* The text changes.
LEMMA EditKeeps ==
  ASSUME TextInputInv, Edit
  PROVE  TextInputInv'
  <1>1. Owned(field) BY FieldOwned
  <1>2. PICK text \in Texts : Synchronize([CancelTextInput(field) EXCEPT !.text = text])
    BY DEF Edit
  <1>3. UNCHANGED <<toE, comp>> BY DEF Edit
  <1>4. PICK f : f = [CancelTextInput(field) EXCEPT !.text = text] OBVIOUS
  <1>5. Owned(f) /\ f.preedit = "none" /\ f.dirty
    BY <1>1, <1>4 DEF Owned, FieldStates, CancelTextInput
  <1>6. Synchronize(f) BY <1>2, <1>4, Zenon
  <1> QED BY <1>3, <1>5, <1>6, SynchronizeKeeps

\* The focus changes.
LEMMA ChangeFocusKeeps ==
  ASSUME TextInputInv, ChangeFocus
  PROVE  TextInputInv'
  <1>1. Owned(field) BY FieldOwned
  <1>2. PICK to \in Fields : Synchronize(MoveFocus(field, to)) BY DEF ChangeFocus
  <1>3. UNCHANGED <<toE, comp>> /\ batches = <<>> BY DEF ChangeFocus
  <1>4. PICK f : f = MoveFocus(field, to) OBVIOUS
  <1>5. Owned(f) /\ f.preedit = "none" /\ (field.dirty \/ field.lost => f.dirty \/ f.lost)
    BY <1>1, <1>4 DEF Owned, FieldStates, CancelTextInput, MoveFocus
  <1>6. Synchronize(f) BY <1>2, <1>4, Zenon
  <1>7. ti.enabled /\ ti.dirty /\ ti.accepts => f.dirty \/ f.lost
    <2>1. 1 .. Len(batches) = {} BY <1>3
    <2> QED BY <1>5, <2>1 DEF TextInputInv, FieldFollows
  <1> QED BY <1>3, <1>5, <1>6, <1>7, SynchronizeKeeps

-----------------------------------------------------------------------------
(* The object comes and goes. *)

Cancellation == [input |-> {}, refresh |-> FALSE, cancel |-> TRUE]

\* A cancellation ends the preedit.
LEMMA CancelledIs ==
  ASSUME TextInputInv
  PROVE  /\ Append(batches, Cancellation) \in Seq(Batches)
         /\ Given(field, Append(batches, Cancellation)).preedit = "none"
  <1>1. PICK b \in Batches : b = Cancellation BY DEF Cancellation, Batches
  <1>2. b.cancel BY <1>1 DEF Cancellation
  <1>3. Owned(field) /\ batches \in Seq(Batches) BY FieldOwned
  <1>4. PICK g : g = Given(field, batches) OBVIOUS
  <1>5. Owned(g) BY <1>3, <1>4, BatchesApplied
  <1>6. Given(field, Append(batches, b)) = ApplyBatch(g, b) BY <1>3, <1>4, GivenMore, Zenon
  <1>7. ApplyBatch(g, b).preedit = "none" BY <1>2, <1>5, BatchApplied
  <1>8. Append(batches, b) \in Seq(Batches) BY <1>3
  <1> QED BY <1>1, <1>6, <1>7, <1>8, Zenon

\* A cancellation is queued,
LEMMA QueueCancellationIs ==
  ASSUME NEW h \in Holds
  PROVE  LET g == QueueCancellation(h) IN
         g \in Holds /\ g.t = h.t /\ g.bs = Append(h.bs, Cancellation) /\ g.rq = h.rq
  <1>1. PICK b \in Batches : b = Cancellation BY DEF Cancellation, Batches
  <1>2. PICK q \in Seq(Batches) : q = Append(h.bs, b)
    <2>1. PICK s \in Seq(Batches) : s = h.bs BY DEF Holds
    <2>2. Append(s, b) \in Seq(Batches) BY <2>1
    <2> QED BY <2>1, <2>2, Zenon
  <1>3. PICK g : g = QueueCancellation(h) OBVIOUS
  <1>4. g = [h EXCEPT !.bs = q]
    BY <1>1, <1>2, <1>3 DEF QueueCancellation, Cancellation, Holds
  <1>5. h.t \in Clients /\ h.rq \in Seq(Requests) BY DEF Holds
  <1>6. PICK u \in Clients : u = h.t BY <1>5
  <1>7. PICK w \in Seq(Requests) : w = h.rq BY <1>5
  <1>8. g = [t |-> u, bs |-> q, rq |-> w] BY <1>4, <1>6, <1>7 DEF Holds
  <1>9. g \in Holds /\ g.t = u /\ g.bs = q /\ g.rq = w BY <1>8, HeldWith
  <1> QED BY <1>1, <1>2, <1>3, <1>6, <1>7, <1>9, Zenon

\* and what is pending dropped.
LEMMA ClearPendingIs ==
  ASSUME NEW h \in Holds
  PROVE  LET g == ClearPending(h) IN
         g \in Holds /\ g.t = [h.t EXCEPT !.pending = NoPending] /\ g.bs = h.bs /\ g.rq = h.rq
  <1>1. PICK q \in Seq(Batches) : q = h.bs BY DEF Holds
  <1>2. PICK w \in Seq(Requests) : w = h.rq BY DEF Holds
  <1>3. PICK u \in Clients : u = [h.t EXCEPT !.pending = NoPending]
    BY DEF Clients, Holds, NoPending
  <1>4. PICK g : g = ClearPending(h) OBVIOUS
  <1>5. g = [t |-> u, bs |-> q, rq |-> w]
    BY <1>1, <1>2, <1>3, <1>4 DEF Holds, ClearPending, NoPending
  <1>6. g \in Holds /\ g.t = u /\ g.bs = q /\ g.rq = w BY <1>5, HeldWith
  <1> QED BY <1>1, <1>2, <1>3, <1>4, <1>6, Zenon

\* Nothing has been said of a new object.
LEMMA FreshAgrees ==
  ASSUME ti' \in Clients, ti'.enabled <=> Wanted(ti)', ~ti'.entered, ti'.attached => ti'.serial = 0,
         toC' = <<>>, toE' = <<>>,
         comp' = [entered |-> FALSE, on |-> FALSE, seen |-> 0, client |-> NoClient]
  PROVE  ChannelsAgree' /\ comp' \in Compositors
  <1>1. comp' \in Compositors /\ comp'.entered = FALSE /\ comp'.on = FALSE /\ comp'.seen = 0
    BY TextInputBounds DEF Compositors
  <1>2. Crosses(ti'.entered, toE', comp'.entered)
    <2>1. ti'.entered = FALSE BY DEF Clients
    <2>2. Crosses(FALSE, <<>>, FALSE) BY CrossesNone
    <2> QED BY <1>1, <2>1, <2>2
  <1>3. ~ti'.enabled BY DEF Wanted
  <1>4. 0 = (0 + Len(<<>>)) % SerialModulus
    <2>1. PICK m \in Nat \ {0} : m = SerialModulus BY TextInputBounds
    <2>2. 0 % m = 0 OBVIOUS
    <2> QED BY <2>1, <2>2
  <1>5. ti'.attached => ti'.serial = (comp'.seen + Len(toC')) % SerialModulus BY <1>1, <1>4
  <1> QED BY <1>1, <1>2, <1>3, <1>5 DEF ChannelsAgree

\* The object comes,
LEMMA AttachObjectKeeps ==
  ASSUME TextInputInv, AttachObject
  PROVE  TextInputInv'
  <1>1. /\ ti \in Clients /\ toC = <<>> /\ toE = <<>> /\ ~ti.entered /\ ~ti.attached
        /\ field \in FieldStates /\ batches \in Seq(Batches) /\ FieldFollows
    BY DEF TextInputInv, TextInputShaped, ChannelsAgree, AttachObject
  <1>2. PICK u \in Clients :
           u = [ti EXCEPT !.attached = TRUE, !.entered = FALSE,
                  !.enabled = FALSE, !.accepts = TRUE, !.dirty = ti.client # NoClient,
                  !.reset = FALSE, !.serial = 0, !.pending = NoPending]
    <2>1. PICK d \in BOOLEAN : d = (ti.client # NoClient) OBVIOUS
    <2>2. 0 \in 0 .. SerialModulus - 1 BY TextInputBounds
    <2> QED BY <1>1, <2>1, <2>2 DEF Clients, NoPending
  <1>3. PICK h : h = [Held EXCEPT !.t = u] OBVIOUS
  <1>4. PICK w \in Seq(Requests) : w = <<>>
    <2>1. <<>> \in Seq(Requests) OBVIOUS
    <2> QED BY <2>1
  <1>5. h = [t |-> u, bs |-> batches, rq |-> w] BY <1>3, <1>4 DEF Held
  <1>6. h \in Holds /\ h.t = u /\ h.bs = batches /\ h.rq = w BY <1>1, <1>5, HeldWith
  <1>7. u.attached /\ ~u.entered /\ ~u.enabled /\ u.serial = 0 BY <1>1, <1>2 DEF Clients
  <1>8. PICK g : g = Reconcile(h) OBVIOUS
  <1>9. Apply(g)
    <2>1. Held.t = ti BY HeldIs
    <2>2. Attach(Held) = Reconcile(h)
      <3>1. [Held.t EXCEPT !.attached = TRUE, !.entered = FALSE,
                  !.enabled = FALSE, !.accepts = TRUE, !.dirty = Held.t.client # NoClient,
                  !.reset = FALSE, !.serial = 0, !.pending = NoPending] = u
        BY <1>2, <2>1, Zenon
      <3> QED BY <1>3, <3>1, Zenon DEF Attach
    <2> QED BY <1>8, <2>2, Zenon DEF AttachObject
  <1>10. Reconciled(h, g) BY <1>4, <1>6, <1>7, <1>8, ReconcileIs
  <1>11. /\ g.t \in Clients /\ g.bs = batches /\ ~g.t.enabled /\ ~g.t.entered
         /\ g.t.attached /\ (g.t.enabled <=> Wanted(g.t))
    BY <1>6, <1>7, <1>10 DEF Reconciled, Holds, Wanted
  <1>12. g.rq = <<>> /\ g.t.serial = 0
    <2>1. h.rq = <<>> /\ ~(h.t.enabled /\ h.t.attached /\ h.t.entered) /\ ~h.t.entered
      BY <1>4, <1>6, <1>7
    <2>2. g = [h EXCEPT !.t.enabled = FALSE] BY <1>8, <2>1 DEF Reconcile
    <2> QED BY <1>6, <1>7, <2>1, <2>2 DEF Holds, Clients
  <1>13. ti' = g.t /\ batches' = batches /\ toC' = <<>>
    BY <1>1, <1>9, <1>11, <1>12 DEF Apply
  <1>14. /\ comp' = [entered |-> FALSE, on |-> FALSE, seen |-> 0, client |-> NoClient]
         /\ toE' = <<>> /\ field' = field
    BY <1>1 DEF AttachObject
  <1>15. ChannelsAgree' /\ comp' \in Compositors
    <2>1. ti' \in Clients /\ (ti'.enabled <=> Wanted(ti)') /\ ~ti'.entered
            /\ (ti'.attached => ti'.serial = 0)
      BY <1>11, <1>12, <1>13 DEF Wanted
    <2> QED BY <1>13, <1>14, <2>1, FreshAgrees
  <1>16. TextInputShaped'
    BY <1>1, <1>11, <1>13, <1>14, <1>15 DEF TextInputShaped
  <1>17. FieldFollows'
    <2>1. Given(field, batches)' = Given(field, batches) BY <1>13, <1>14, Zenon
    <2> QED BY <1>1, <1>11, <1>13, <1>14, <2>1 DEF FieldFollows
  <1> QED BY <1>15, <1>16, <1>17 DEF TextInputInv

\* and goes.
LEMMA DetachObjectKeeps ==
  ASSUME TextInputInv, DetachObject
  PROVE  TextInputInv'
  <1>1. /\ ti \in Clients /\ ti.attached /\ field \in FieldStates /\ FieldFollows
    BY DEF TextInputInv, TextInputShaped, DetachObject
  <1>2. PICK h : h = Held OBVIOUS
  <1>3. h \in Holds /\ h.t = ti /\ h.bs = batches /\ h.rq = <<>> BY <1>2, HeldIs
  <1>4. PICK c : c = QueueCancellation(h) OBVIOUS
  <1>5. c \in Holds /\ c.t = ti /\ c.bs = Append(batches, Cancellation)
    BY <1>3, <1>4, QueueCancellationIs
  <1>6. PICK g : g = Detach(h) OBVIOUS
  <1>7. g = [c EXCEPT !.t = [@ EXCEPT !.attached = FALSE, !.entered = FALSE, !.enabled = FALSE,
                   !.accepts = TRUE, !.serial = 0, !.reset = FALSE, !.pending = NoPending]]
    BY <1>1, <1>3, <1>4, <1>6 DEF Detach
  <1>8. PICK u \in Clients :
           u = [ti EXCEPT !.attached = FALSE, !.entered = FALSE, !.enabled = FALSE,
                   !.accepts = TRUE, !.serial = 0, !.reset = FALSE, !.pending = NoPending]
    <2>1. 0 \in 0 .. SerialModulus - 1 BY TextInputBounds
    <2> QED BY <1>1, <2>1 DEF Clients, NoPending
  <1>9. g.t = u /\ g.bs = c.bs BY <1>5, <1>7, <1>8 DEF Holds
  <1>10. ~u.attached /\ ~u.entered /\ ~u.enabled BY <1>1, <1>8 DEF Clients
  <1>11. ti' = g.t /\ batches' = g.bs BY <1>2, <1>6 DEF DetachObject
  <1>12. /\ toC' = <<>> /\ toE' = <<>> /\ field' = field
         /\ comp' = [entered |-> FALSE, on |-> FALSE, seen |-> 0, client |-> NoClient]
    BY DEF DetachObject
  <1>13. ChannelsAgree' /\ comp' \in Compositors
    <2>1. ti' \in Clients /\ (ti'.enabled <=> Wanted(ti)') /\ ~ti'.entered /\ ~ti'.attached
      BY <1>9, <1>10, <1>11 DEF Wanted
    <2> QED BY <1>12, <2>1, FreshAgrees
  <1>14. batches' = Append(batches, Cancellation) BY <1>5, <1>9, <1>11, Zenon
  <1>15. batches' \in Seq(Batches) /\ Given(field, batches)'.preedit = "none"
    BY <1>12, <1>14, CancelledIs, Zenon
  <1>16. TextInputShaped'
    BY <1>1, <1>9, <1>11, <1>12, <1>13, <1>15 DEF TextInputShaped
  <1>17. FieldFollows'
    BY <1>1, <1>9, <1>10, <1>11, <1>12, <1>15 DEF FieldFollows
  <1> QED BY <1>13, <1>16, <1>17 DEF TextInputInv

-----------------------------------------------------------------------------
(* Events that arrive. *)

(* The batches g leaves announce what it holds back, and end the preedit. *)
FieldKept(g) ==
    /\ g.t.enabled /\ g.t.dirty /\ g.t.accepts =>
          field.dirty \/ field.lost \/ \E i \in 1 .. Len(g.bs) : g.bs[i].refresh
    /\ ~g.t.entered => Given(field, g.bs).preedit = "none"

\* If the field is left alone, a turn that keeps to both keeps to the invariant.
LEMMA TurnKeeps ==
  ASSUME TextInputInv, NEW g, Moves(ti, g), FieldKept(g), Apply(g), UNCHANGED <<field, comp>>,
         toE' \in Seq(Arrivals), ~ti.attached => toE' = <<>>,
         Crosses(g.t.entered, toE', comp.entered),
         g.t.enabled /\ ti.enabled /\ Uncrossed(toE') => Uncrossed(toE)
  PROVE  TextInputInv'
  <1>1. field \in FieldStates /\ comp \in Compositors /\ FieldFollows
    BY DEF TextInputInv, TextInputShaped
  <1>2. field' = field /\ comp' = comp OBVIOUS
  <1>3. /\ ti' = g.t /\ batches' = g.bs /\ ti' \in Clients /\ batches' \in Seq(Batches)
        /\ toC' \in Seq(Requests) /\ ChannelsAgree'
    BY <1>2, ChannelKept
  <1>4. TextInputShaped' BY <1>1, <1>2, <1>3 DEF TextInputShaped
  <1>5. Given(field, batches)' = Given(field, g.bs) BY <1>2, <1>3, Zenon
  <1>6. FieldFollows' BY <1>1, <1>2, <1>3, <1>5 DEF FieldFollows, FieldKept
  <1> QED BY <1>3, <1>4, <1>6 DEF TextInputInv

\* The seat's keyboard comes or goes.
LEMMA SetKeyboardFocusIs ==
  ASSUME TextInputInv, NEW focused \in BOOLEAN
  PROVE  LET g == SetKeyboardFocus(Held, focused) IN
         Moves(ti, g) /\ FieldKept(g) /\ g.t.entered = ti.entered
  <1>1. /\ ti \in Clients /\ batches \in Seq(Batches) /\ (ti.enabled <=> Wanted(ti))
        /\ ~ti.attached => ~ti.entered
    BY DEF TextInputInv, TextInputShaped, ChannelsAgree
  <1>2. PICK h : h = Held OBVIOUS
  <1>3. h \in Holds /\ h.t = ti /\ h.bs = batches /\ h.rq = <<>> BY <1>2, HeldIs
  <1>4. PICK g : g = SetKeyboardFocus(h, focused) OBVIOUS
  <1> SUFFICES Moves(ti, g) /\ FieldKept(g) /\ g.t.entered = ti.entered BY <1>2, <1>4
  <1>5. CASE ti.focused = focused
    <2>1. g = h BY <1>3, <1>4, <1>5 DEF SetKeyboardFocus
    <2>2. Moves(ti, h) BY <1>1, <1>3 DEF Moves
    <2>3. FieldKept(h) BY <1>3 DEF FieldKept, TextInputInv, FieldFollows
    <2> QED BY <1>3, <2>1, <2>2, <2>3
  <1>6. CASE ti.focused # focused
    <2>1. PICK f : f = [h EXCEPT !.t.focused = focused] OBVIOUS
    <2>2. PICK u \in Clients : u = [ti EXCEPT !.focused = focused] BY <1>1 DEF Clients
    <2>3. PICK w \in Seq(Requests) : w = h.rq BY <1>3 DEF Holds
    <2>4. f = [t |-> u, bs |-> batches, rq |-> w] BY <1>3, <2>1, <2>2, <2>3 DEF Holds, Clients
    <2>5. f \in Holds /\ f.t = u /\ f.bs = batches /\ f.rq = w BY <1>1, <2>4, HeldWith
    <2>6. PICK c : c = ClearPending(f) OBVIOUS
    <2>7. c \in Holds /\ c.t = [u EXCEPT !.pending = NoPending] /\ c.bs = batches /\ c.rq = w
      BY <2>5, <2>6, ClearPendingIs
    <2>8. PICK q : q = QueueCancellation(c) OBVIOUS
    <2>9. q \in Holds /\ q.t = c.t /\ q.bs = Append(batches, Cancellation) /\ q.rq = w
      BY <2>7, <2>8, QueueCancellationIs, Zenon
    <2>10. PICK k : k = IF focused THEN f ELSE q OBVIOUS
    <2>11. g = Reconcile(k)
      BY <1>3, <1>4, <1>6, <2>1, <2>6, <2>8, <2>10 DEF SetKeyboardFocus
    <2>12. /\ k \in Holds /\ k.rq = <<>>
           /\ k.t.attached = ti.attached /\ k.t.entered = ti.entered /\ k.t.serial = ti.serial
           /\ k.t.enabled = ti.enabled /\ k.t.client = ti.client /\ k.t.dirty = ti.dirty
           /\ k.bs = batches \/ k.bs = Append(batches, Cancellation)
      <3>1. k \in Holds /\ k.rq = <<>> /\ (k.bs = batches \/ k.bs = Append(batches, Cancellation))
        BY <1>3, <2>3, <2>5, <2>9, <2>10
      <3>2. k.t = u \/ k.t = [u EXCEPT !.pending = NoPending] BY <2>5, <2>7, <2>9, <2>10
      <3> QED BY <1>1, <2>2, <3>1, <3>2 DEF Clients
    <2>13. Reconciled(k, g)
      <3>1. k.t.enabled => k.t.client # NoClient BY <1>1, <2>12 DEF Wanted
      <3> QED BY <2>11, <2>12, <3>1, ReconcileIs
    <2>14. Moves(ti, g)
      <3>1. \A h1 \in Holds : \A g1 :
              h1.rq = <<>> /\ Reconciled(h1, g1) /\ h1.t.attached = ti.attached
                /\ h1.t.serial = ti.serial /\ h1.t.enabled = ti.enabled
                /\ (~ti.attached => ~h1.t.entered)
                /\ (ti.client # NoClient => h1.t.client # NoClient)
                /\ (~h1.t.dirty /\ ti.enabled => ~ti.dirty /\ h1.t.client = ti.client)
                => Moves(ti, g1)
        BY <1>1, ReconciledMoves
      <3> QED BY <1>1, <2>12, <2>13, <3>1
    <2>15. g.t.entered = ti.entered /\ g.bs = k.bs /\ (g.t.enabled /\ g.t.dirty => ~g.t.accepts)
      BY <2>12, <2>13 DEF Reconciled
    <2>16. ~ti.entered => Given(field, k.bs).preedit = "none"
      <3>1. ~ti.entered => Given(field, batches).preedit = "none"
        BY DEF TextInputInv, FieldFollows
      <3>2. Given(field, Append(batches, Cancellation)).preedit = "none" BY CancelledIs
      <3> QED BY <2>12, <3>1, <3>2, Zenon
    <2>17. FieldKept(g) BY <2>15, <2>16 DEF FieldKept
    <2> QED BY <2>14, <2>15, <2>17
  <1> QED BY <1>5, <1>6

\* The keyboard is lost.
LEMMA KeyboardLostKeeps ==
  ASSUME TextInputInv, KeyboardLost
  PROVE  TextInputInv'
  <1>1. PICK g : g = SetKeyboardFocus(Held, FALSE) OBVIOUS
  <1>2. Moves(ti, g) /\ FieldKept(g) /\ g.t.entered = ti.entered BY <1>1, SetKeyboardFocusIs
  <1>3. Apply(g) /\ UNCHANGED <<field, toE, comp>> BY <1>1, Zenon DEF KeyboardLost
  <1>4. /\ toE' \in Seq(Arrivals) /\ (~ti.attached => toE' = <<>>)
        /\ Crosses(g.t.entered, toE', comp.entered)
        /\ g.t.enabled /\ ti.enabled /\ Uncrossed(toE') => Uncrossed(toE)
    BY <1>2, <1>3 DEF TextInputInv, TextInputShaped, ChannelsAgree
  <1> QED BY <1>2, <1>3, <1>4, TurnKeeps

\* Text input enters the surface.
LEMMA EnterIs ==
  ASSUME TextInputInv, ti.attached, ~ti.entered
  PROVE  LET g == Enter(Held) IN Moves(ti, g) /\ FieldKept(g) /\ g.t.entered
  <1>1. ti \in Clients /\ batches \in Seq(Batches) /\ ~ti.enabled
    BY DEF TextInputInv, TextInputShaped, ChannelsAgree, Wanted
  <1>2. PICK h : h = Held OBVIOUS
  <1>3. h \in Holds /\ h.t = ti /\ h.bs = batches /\ h.rq = <<>> BY <1>2, HeldIs
  <1>4. PICK g : g = Enter(h) OBVIOUS
  <1>5. PICK d \in BOOLEAN : d = (ti.client # NoClient) OBVIOUS
  <1>6. PICK u \in Clients : u = [ti EXCEPT !.entered = TRUE, !.dirty = d] BY <1>1 DEF Clients
  <1>7. PICK k : k = [h EXCEPT !.t.entered = TRUE, !.t.dirty = d] OBVIOUS
  <1>8. PICK w \in Seq(Requests) : w = h.rq BY <1>3 DEF Holds
  <1>9. k = [t |-> u, bs |-> batches, rq |-> w] BY <1>3, <1>6, <1>7, <1>8 DEF Holds, Clients
  <1>10. k \in Holds /\ k.t = u /\ k.bs = batches /\ k.rq = w BY <1>1, <1>9, HeldWith
  <1>11. g = Reconcile(k) BY <1>3, <1>4, <1>5, <1>7 DEF Enter
  <1>12. /\ u.attached = ti.attached /\ u.entered /\ u.serial = ti.serial
         /\ u.enabled = ti.enabled /\ u.client = ti.client
    BY <1>1, <1>6 DEF Clients
  <1>13. Reconciled(k, g) BY <1>1, <1>3, <1>8, <1>10, <1>11, <1>12, ReconcileIs
  <1>14. Moves(ti, g)
    <2>1. \A h1 \in Holds : \A g1 :
            h1.rq = <<>> /\ Reconciled(h1, g1) /\ h1.t.attached = ti.attached
              /\ h1.t.serial = ti.serial /\ h1.t.enabled = ti.enabled
              /\ (~ti.attached => ~h1.t.entered)
              /\ (ti.client # NoClient => h1.t.client # NoClient)
              /\ (~h1.t.dirty /\ ti.enabled => ~ti.dirty /\ h1.t.client = ti.client)
              => Moves(ti, g1)
      BY <1>1, ReconciledMoves
    <2> QED BY <1>1, <1>3, <1>8, <1>10, <1>12, <1>13, <2>1
  <1>15. g.t.entered /\ (g.t.enabled /\ g.t.dirty => ~g.t.accepts)
    BY <1>10, <1>12, <1>13 DEF Reconciled
  <1> QED BY <1>2, <1>4, <1>14, <1>15 DEF FieldKept

\* It leaves.
LEMMA LeaveIs ==
  ASSUME TextInputInv, ti.attached, ti.entered
  PROVE  LET g == Leave(Held) IN Moves(ti, g) /\ FieldKept(g) /\ ~g.t.entered
  <1>1. ti \in Clients /\ batches \in Seq(Batches) BY DEF TextInputInv, TextInputShaped
  <1>2. PICK h : h = Held OBVIOUS
  <1>3. h \in Holds /\ h.t = ti /\ h.bs = batches /\ h.rq = <<>> BY <1>2, HeldIs
  <1>4. PICK u \in Clients : u = [ti EXCEPT !.entered = FALSE, !.enabled = FALSE, !.accepts = TRUE]
    BY <1>1 DEF Clients
  <1>5. PICK k : k = [h EXCEPT !.t.entered = FALSE, !.t.enabled = FALSE, !.t.accepts = TRUE]
    OBVIOUS
  <1>6. PICK w \in Seq(Requests) : w = h.rq BY <1>3 DEF Holds
  <1>7. k = [t |-> u, bs |-> batches, rq |-> w] BY <1>3, <1>4, <1>5, <1>6 DEF Holds, Clients
  <1>8. k \in Holds /\ k.t = u /\ k.bs = batches /\ k.rq = w BY <1>1, <1>7, HeldWith
  <1>9. PICK c : c = ClearPending(k) OBVIOUS
  <1>10. c \in Holds /\ c.t = [u EXCEPT !.pending = NoPending] /\ c.bs = batches /\ c.rq = w
    BY <1>8, <1>9, ClearPendingIs
  <1>11. PICK g : g = QueueCancellation(c) OBVIOUS
  <1>12. g \in Holds /\ g.t = c.t /\ g.bs = Append(batches, Cancellation) /\ g.rq = w
    BY <1>10, <1>11, QueueCancellationIs, Zenon
  <1>13. Leave(Held) = g BY <1>2, <1>3, <1>5, <1>9, <1>11 DEF Leave
  <1>14. /\ g.t.attached = ti.attached /\ ~g.t.entered /\ ~g.t.enabled
         /\ g.t.serial = ti.serial /\ g.t.client = ti.client
    <2>1. PICK y \in Clients : y = g.t BY <1>12 DEF Holds
    <2>2. y = [u EXCEPT !.pending = NoPending] BY <1>10, <1>12, <2>1, Zenon
    <2>3. /\ y.attached = u.attached /\ y.entered = u.entered /\ y.enabled = u.enabled
          /\ y.serial = u.serial /\ y.client = u.client
      BY <2>2 DEF Clients
    <2>4. /\ u.attached = ti.attached /\ ~u.entered /\ ~u.enabled
          /\ u.serial = ti.serial /\ u.client = ti.client
      BY <1>1, <1>4 DEF Clients
    <2> QED BY <2>1, <2>3, <2>4
  <1>15. g.rq = <<>> BY <1>3, <1>6, <1>12, Zenon
  <1>16. Moves(ti, g) BY <1>12, <1>14, <1>15 DEF Moves, Wanted
  <1>17. FieldKept(g)
    <2>1. Given(field, g.bs).preedit = "none" BY <1>12, CancelledIs, Zenon
    <2> QED BY <1>14, <2>1 DEF FieldKept
  <1> QED BY <1>13, <1>14, <1>16, <1>17

\* The input method has sent a batch.
LEMMA DoneIs ==
  ASSUME TextInputInv, ti.attached, NEW serial
  PROVE  LET g == Done(Held, serial) IN Moves(ti, g) /\ FieldKept(g) /\ g.t.entered = ti.entered
  <1>1. /\ ti \in Clients /\ batches \in Seq(Batches) /\ (ti.enabled <=> Wanted(ti))
    BY DEF TextInputInv, TextInputShaped, ChannelsAgree
  <1>2. PICK h : h = Held OBVIOUS
  <1>3. h \in Holds /\ h.t = ti /\ h.bs = batches /\ h.rq = <<>> BY <1>2, HeldIs
  <1>4. PICK c : c = ClearPending(h) OBVIOUS
  <1>5. c \in Holds /\ c.t = [ti EXCEPT !.pending = NoPending] /\ c.bs = batches /\ c.rq = h.rq
    BY <1>3, <1>4, ClearPendingIs, Zenon
  <1>6. PICK g : g = Done(h, serial) OBVIOUS
  <1> SUFFICES Moves(ti, g) /\ FieldKept(g) /\ g.t.entered = ti.entered BY <1>2, <1>6
  <1>7. CASE ~ti.entered
    <2>1. g = c BY <1>3, <1>4, <1>6, <1>7 DEF Done
    <2>2. /\ c.t.attached = ti.attached /\ c.t.entered = ti.entered /\ ~c.t.enabled /\ ~ti.enabled
          /\ c.t.serial = ti.serial /\ c.t.client = ti.client
      BY <1>1, <1>5, <1>7 DEF Clients, Wanted
    <2>3. c.rq = <<>> BY <1>3, <1>5
    <2>4. Moves(ti, c) BY <1>5, <1>7, <2>2, <2>3 DEF Moves, Wanted
    <2>5. FieldKept(c) BY <1>5, <1>7, <2>2 DEF FieldKept, TextInputInv, FieldFollows
    <2> QED BY <2>1, <2>2, <2>4, <2>5
  <1>8. CASE ti.entered
    <2>1. PICK b \in Batches :
             b = [input |-> IF "invalid" \in ti.pending THEN {} ELSE ti.pending,
                  refresh |-> Refresh(ti, serial), cancel |-> "invalid" \in ti.pending]
      <3>1. PICK i \in SUBSET Typed : i = IF "invalid" \in ti.pending THEN {} ELSE ti.pending
        BY <1>1 DEF Clients
      <3>2. PICK r \in BOOLEAN : r = Refresh(ti, serial) BY DEF Refresh
      <3>3. PICK n \in BOOLEAN : n = ("invalid" \in ti.pending)
        <4>1. \A x, y : (x \in y) \in BOOLEAN OBVIOUS
        <4> QED BY <4>1, Zenon
      <3>4. [input |-> i, refresh |-> r, cancel |-> n] \in Batches BY DEF Batches
      <3> QED BY <3>1, <3>2, <3>3, <3>4
    <2>2. PICK a \in BOOLEAN : a = (serial = ti.serial) OBVIOUS
    <2>3. PICK q \in Seq(Batches) : q = Append(batches, b)
      <3>1. Append(batches, b) \in Seq(Batches) BY <1>1
      <3> QED BY <3>1
    <2>4. PICK x : x = [c EXCEPT !.bs = q, !.t.accepts = a] OBVIOUS
    <2>5. g = x
      <3>1. g = [c EXCEPT !.bs = Append(@,
                     [input |-> IF "invalid" \in ti.pending THEN {} ELSE ti.pending,
                      refresh |-> Refresh(ti, serial), cancel |-> "invalid" \in ti.pending]),
                          !.t.accepts = serial = ti.serial]
        BY <1>1, <1>3, <1>4, <1>6, <1>8 DEF Done
      <3>2. g = [c EXCEPT !.bs = Append(@, b), !.t.accepts = serial = ti.serial]
        BY <2>1, <3>1, Zenon
      <3>3. Append(c.bs, b) = q BY <1>5, <2>3, Zenon
      <3> QED BY <1>5, <2>2, <2>4, <3>2, <3>3 DEF Holds
    <2>6. PICK u \in Clients : u = [ti EXCEPT !.pending = NoPending, !.accepts = a]
      BY <1>1 DEF Clients, NoPending
    <2>7. PICK w \in Seq(Requests) : w = h.rq BY <1>3 DEF Holds
    <2>8. x = [t |-> u, bs |-> q, rq |-> w]
      BY <1>5, <2>4, <2>6, <2>7 DEF Holds, Clients
    <2>9. x \in Holds /\ x.t = u /\ x.bs = q /\ x.rq = w BY <2>8, HeldWith
    <2>10. /\ u.attached = ti.attached /\ u.entered = ti.entered /\ u.enabled = ti.enabled
           /\ u.focused = ti.focused /\ u.serial = ti.serial /\ u.client = ti.client
           /\ u.dirty = ti.dirty /\ u.accepts = a
      BY <1>1, <2>6 DEF Clients
    <2>11. w = <<>> BY <1>3, <2>7
    <2>12. Moves(ti, x) BY <1>1, <1>8, <2>9, <2>10, <2>11 DEF Moves, Wanted
    <2>13. FieldKept(x)
      <3>1. u.dirty /\ u.accepts => b.refresh BY <2>1, <2>2, <2>10 DEF Refresh
      <3>2. PICK n \in Nat : n = Len(batches) BY <1>1
      <3>3. n + 1 \in 1 .. Len(q) /\ q[n + 1] = b BY <1>1, <2>3, <3>2
      <3>4. u.dirty /\ u.accepts => \E i \in 1 .. Len(q) : q[i].refresh BY <3>1, <3>3
      <3> QED BY <1>8, <2>9, <2>10, <3>4 DEF FieldKept
    <2> QED BY <2>5, <2>9, <2>10, <2>12, <2>13
  <1> QED BY <1>7, <1>8

\* It has sent a part of one.
LEMMA RecordIs ==
  ASSUME TextInputInv, NEW input \in Typed
  PROVE  LET g == Record(Held, input) IN Moves(ti, g) /\ FieldKept(g) /\ g.t.entered = ti.entered
  <1>1. /\ ti \in Clients /\ batches \in Seq(Batches) /\ (ti.enabled <=> Wanted(ti))
        /\ ~ti.attached => ~ti.entered
    BY DEF TextInputInv, TextInputShaped, ChannelsAgree
  <1>2. PICK h : h = Held OBVIOUS
  <1>3. h \in Holds /\ h.t = ti /\ h.bs = batches /\ h.rq = <<>> BY <1>2, HeldIs
  <1>4. PICK p \in SUBSET Typed : p = ti.pending \cup {input} BY <1>1 DEF Clients
  <1>5. PICK u \in Clients : u = [ti EXCEPT !.pending = p] BY <1>1 DEF Clients
  <1>6. PICK w \in Seq(Requests) : w = h.rq BY <1>3 DEF Holds
  <1>7. PICK g : g = Record(h, input) OBVIOUS
  <1>8. g = [h EXCEPT !.t.pending = p] BY <1>1, <1>3, <1>4, <1>7 DEF Record, Clients, Holds
  <1>9. g = [t |-> u, bs |-> batches, rq |-> w] BY <1>3, <1>5, <1>6, <1>8 DEF Holds, Clients
  <1>10. g \in Holds /\ g.t = u /\ g.bs = batches /\ g.rq = w BY <1>1, <1>9, HeldWith
  <1>11. /\ u.attached = ti.attached /\ u.entered = ti.entered /\ u.enabled = ti.enabled
         /\ u.focused = ti.focused /\ u.serial = ti.serial /\ u.client = ti.client
         /\ u.dirty = ti.dirty /\ u.accepts = ti.accepts
    BY <1>1, <1>5 DEF Clients
  <1>12. w = <<>> BY <1>3, <1>6
  <1>13. Moves(ti, g) BY <1>1, <1>10, <1>11, <1>12 DEF Moves, Wanted
  <1>14. FieldKept(g) BY <1>10, <1>11 DEF FieldKept, TextInputInv, FieldFollows
  <1> QED BY <1>2, <1>7, <1>10, <1>11, <1>13, <1>14

\* Any event that arrives.
LEMMA EventArrivesKeeps ==
  ASSUME TextInputInv, EventArrives
  PROVE  TextInputInv'
  <1>1. /\ ti \in Clients /\ toE \in Seq(Arrivals) /\ toE # <<>> /\ ti.attached
        /\ (ti.enabled => ti.entered) /\ Crosses(ti.entered, toE, comp.entered)
    BY DEF TextInputInv, TextInputShaped, ChannelsAgree, Wanted, EventArrives
  <1>2. PICK e \in Arrivals : e = Head(toE) BY <1>1
  <1>3. UNCHANGED <<field, comp>> /\ toE' = Tail(toE) BY DEF EventArrives
  <1>4. toE' \in Seq(Arrivals) BY <1>1, <1>3
  <1>5. PICK d \in BOOLEAN : Crossing(ti.entered, e, d) /\ Crosses(d, toE', comp.entered)
    BY <1>1, <1>2, <1>3, CrossesOff
  <1>6. e.kind \in {"enter", "leave", "focus", "unfocus", "done"} \cup Typed BY DEF Arrivals
  <1>7. ASSUME NEW g, Moves(ti, g), FieldKept(g), Apply(g), g.t.entered = d,
               g.t.enabled /\ ti.enabled => e.kind \notin {"enter", "leave"}
        PROVE  TextInputInv'
    <2>1. g.t.enabled /\ ti.enabled /\ Uncrossed(toE') => Uncrossed(toE)
      BY <1>1, <1>2, <1>3, <1>7, UncrossedOfTail
    <2> QED BY <1>1, <1>3, <1>4, <1>5, <1>7, <2>1, TurnKeeps
  <1>8. \A g : Moves(ti, g) => (g.t.enabled => g.t.entered) /\ g.t.entered \in BOOLEAN
    BY DEF Moves, Wanted, Holds, Clients
  <1>9. CASE e.kind = "enter"
    <2>1. PICK g : g = Enter(Held) OBVIOUS
    <2>2. Apply(g) BY <1>2, <1>9, <2>1 DEF EventArrives
    <2>3. ~ti.entered /\ d = TRUE BY <1>5, <1>9 DEF Crossing
    <2>4. Moves(ti, g) /\ FieldKept(g) /\ g.t.entered BY <1>1, <2>1, <2>3, EnterIs
    <2> QED BY <1>1, <1>7, <1>8, <2>2, <2>3, <2>4
  <1>10. CASE e.kind = "leave"
    <2>1. PICK g : g = Leave(Held) OBVIOUS
    <2>2. Apply(g) BY <1>2, <1>10, <2>1 DEF EventArrives
    <2>3. ti.entered /\ d = FALSE BY <1>5, <1>10 DEF Crossing
    <2>4. Moves(ti, g) /\ FieldKept(g) /\ ~g.t.entered BY <1>1, <2>1, <2>3, LeaveIs
    <2> QED BY <1>7, <1>8, <2>2, <2>3, <2>4
  <1>11. e.kind \notin {"enter", "leave"} => d = ti.entered BY <1>5 DEF Crossing
  <1>12. CASE e.kind \in {"focus", "unfocus"}
    <2>0. PICK focused \in BOOLEAN : focused = (e.kind = "focus") OBVIOUS
    <2>1. PICK g : g = SetKeyboardFocus(Held, focused) OBVIOUS
    <2>2. Apply(g) BY <1>2, <1>12, <2>0, <2>1 DEF EventArrives
    <2>3. Moves(ti, g) /\ FieldKept(g) /\ g.t.entered = ti.entered BY <2>1, SetKeyboardFocusIs
    <2> QED BY <1>7, <1>11, <1>12, <2>2, <2>3
  <1>13. CASE e.kind = "done"
    <2>1. PICK g : g = Done(Held, e.serial) OBVIOUS
    <2>2. Apply(g) BY <1>2, <1>13, <2>1 DEF EventArrives
    <2>3. Moves(ti, g) /\ FieldKept(g) /\ g.t.entered = ti.entered BY <1>1, <2>1, DoneIs
    <2> QED BY <1>7, <1>11, <1>13, <2>2, <2>3
  <1>14. CASE e.kind \in Typed
    <2>0. PICK input \in Typed : input = e.kind BY <1>14
    <2>1. PICK g : g = Record(Held, input) OBVIOUS
    <2>2. input \notin {"enter", "leave", "focus", "unfocus", "done"} BY DEF Typed
    <2>3. Apply(g) BY <1>2, <2>0, <2>1, <2>2 DEF EventArrives
    <2>4. Moves(ti, g) /\ FieldKept(g) /\ g.t.entered = ti.entered BY <2>1, RecordIs
    <2> QED BY <1>7, <1>11, <2>0, <2>2, <2>3, <2>4
  <1> QED BY <1>6, <1>9, <1>10, <1>12, <1>13, <1>14

-----------------------------------------------------------------------------
(* Steps of the compositor. *)

\* What the compositor sends is an event.
LEMMA EventIs ==
  ASSUME TextInputInv, NEW kind \in {"enter", "leave", "focus", "unfocus", "done"} \cup Typed
  PROVE  Event(kind) \in Arrivals /\ Event(kind).kind = kind
  <1>1. comp.seen \in 0 .. SerialModulus - 1
    BY DEF TextInputInv, TextInputShaped, Compositors
  <1> QED BY <1>1 DEF Event, Arrivals

\* The compositor enters or leaves the surface.
LEMMA CompositorFocusKeeps ==
  ASSUME TextInputInv, CompositorFocus
  PROVE  TextInputInv'
  <1>1. /\ ti \in Clients /\ comp \in Compositors /\ toE \in Seq(Arrivals) /\ ChannelsAgree
        /\ ti.attached /\ toC \in Seq(Requests) /\ batches \in Seq(Batches)
        /\ field \in FieldStates /\ FieldFollows
    BY DEF TextInputInv, TextInputShaped, CompositorFocus
  <1>2. UNCHANGED <<ti, batches, field, toC>> BY DEF CompositorFocus
  <1>3. PICK kinds : kinds = IF comp.entered THEN <<"unfocus", "leave">> ELSE <<"focus", "enter">>
    OBVIOUS
  <1>4. PICK order \in {kinds, Reverse(kinds)} : toE' = toE \o [i \in 1 .. 2 |-> Event(order[i])]
    BY <1>3 DEF CompositorFocus
  <1>5. PICK now \in BOOLEAN : now = ~comp.entered BY <1>1 DEF Compositors
  <1>6. PICK p : p = [i \in 1 .. 2 |-> Event(order[i])] OBVIOUS
  <1>7. PICK turn \in {"enter", "leave"} : turn = IF comp.entered THEN "leave" ELSE "enter"
    OBVIOUS
  <1>8. PICK key \in {"focus", "unfocus"} : key = IF comp.entered THEN "unfocus" ELSE "focus"
    OBVIOUS
  <1>9. kinds[1] = key /\ kinds[2] = turn /\ Len(kinds) = 2 BY <1>3, <1>7, <1>8
  <1>10. \/ order[1] = key /\ order[2] = turn
         \/ order[1] = turn /\ order[2] = key
    BY <1>4, <1>9 DEF Reverse
  <1>11. /\ Event(key) \in Arrivals /\ Event(key).kind = key
         /\ Event(turn) \in Arrivals /\ Event(turn).kind = turn
    BY EventIs
  <1>12. /\ p \in Seq(Arrivals) /\ Len(p) = 2
         /\ \/ p[1].kind = key /\ p[2].kind = turn
            \/ p[1].kind = turn /\ p[2].kind = key
    <2>1. p[1] = Event(order[1]) /\ p[2] = Event(order[2]) BY <1>6
    <2>2. p[1] \in Arrivals /\ p[2] \in Arrivals BY <1>10, <1>11, <2>1
    <2>3. p \in [1 .. 2 -> Arrivals]
      <3>1. \A i \in 1 .. 2 : Event(order[i]) \in Arrivals
        <4>1. \A i \in 1 .. 2 : i = 1 \/ i = 2 OBVIOUS
        <4> QED BY <2>1, <2>2, <4>1
      <3> QED BY <1>6, <3>1
    <2>4. p \in Seq(Arrivals) /\ Len(p) = 2
      <3>1. PICK n \in Nat : n = 2 OBVIOUS
      <3>2. p \in [1 .. n -> Arrivals] BY <2>3, <3>1, Zenon
      <3>3. p \in Seq(Arrivals) /\ Len(p) = n BY <3>2
      <3> QED BY <3>1, <3>3
    <2> QED BY <1>10, <1>11, <2>1, <2>4
  <1>13. PICK b \in BOOLEAN : b = comp.entered BY <1>1 DEF Compositors
  <1>14. /\ \A e \in Arrivals : e.kind = turn => Crossing(b, e, now)
         /\ \A e \in Arrivals : e.kind = key => Crossing(b, e, b) /\ Crossing(now, e, now)
    BY <1>5, <1>7, <1>8, <1>13 DEF Crossing
  <1>15. Crosses(b, p, now)
    <2>1. p[1] \in Arrivals /\ p[2] \in Arrivals BY <1>12
    <2>2. PICK m \in BOOLEAN : Crossing(b, p[1], m) /\ Crossing(m, p[2], now)
      BY <1>12, <1>14, <2>1
    <2> DEFINE h == [i \in 0 .. 2 |-> IF i = 0 THEN b ELSE IF i = 1 THEN m ELSE now]
    <2>3. h \in [0 .. 2 -> BOOLEAN] /\ h[0] = b /\ h[1] = m /\ h[2] = now OBVIOUS
    <2>4. ASSUME NEW i \in 1 .. 2
          PROVE  (i = 1 /\ i - 1 = 0) \/ (i = 2 /\ i - 1 = 1)
      OBVIOUS
    <2> HIDE DEF h
    <2>5. ASSUME NEW i \in 1 .. 2 PROVE Crossing(h[i - 1], p[i], h[i])
      BY <2>2, <2>3, <2>4
    <2> QED BY <1>12, <2>3, <2>5 DEF Crosses
  <1>16. toE' = toE \o p /\ toE' \in Seq(Arrivals)
    <2>1. toE \o p \in Seq(Arrivals) BY <1>1, <1>12
    <2> QED BY <1>4, <1>6, <2>1, Zenon
  <1>17. ~Uncrossed(toE')
    <2>1. ~Uncrossed(p)
      <3>1. 1 \in 1 .. 2 /\ 2 \in 1 .. 2 OBVIOUS
      <3> QED BY <1>12, <3>1 DEF Uncrossed
    <2> QED BY <1>1, <1>12, <1>16, <2>1, UncrossedOfParts, Zenon
  <1>18. /\ comp' \in Compositors /\ comp'.entered = now /\ comp'.on = FALSE
         /\ comp'.seen = comp.seen /\ comp'.client = comp.client
    BY <1>1, <1>5 DEF CompositorFocus, Compositors
  <1>19. Crosses(ti.entered, toE', now)
    <2>1. Crosses(ti.entered, toE, b) BY <1>1, <1>13 DEF ChannelsAgree
    <2>2. Crosses(ti.entered, toE \o p, now) BY <1>1, <1>12, <1>15, <2>1, CrossesOn, Zenon
    <2> QED BY <1>16, <2>2, Zenon
  <1>20. ChannelsAgree'
    <2>1. Wanted(ti)' <=> Wanted(ti) BY <1>2 DEF Wanted
    <2>2. Latest(comp.client, toC)' = Latest(comp.client, toC) BY <1>2, <1>18, Zenon
    <2>3. Crosses(ti.entered, toE, comp.entered)' BY <1>2, <1>18, <1>19
    <2> QED BY <1>1, <1>2, <1>17, <1>18, <2>1, <2>2, <2>3 DEF ChannelsAgree
  <1>21. TextInputShaped' BY <1>1, <1>2, <1>16, <1>18 DEF TextInputShaped
  <1>22. FieldFollows'
    <2>1. Given(field, batches)' = Given(field, batches) BY <1>2, Zenon
    <2> QED BY <1>1, <1>2, <2>1 DEF FieldFollows
  <1> QED BY <1>20, <1>21, <1>22 DEF TextInputInv

\* It receives a commit.
LEMMA CompositorCommitKeeps ==
  ASSUME TextInputInv, CompositorCommit
  PROVE  TextInputInv'
  <1>1. /\ ti \in Clients /\ comp \in Compositors /\ toE \in Seq(Arrivals) /\ ChannelsAgree
        /\ toC \in Seq(Requests) /\ batches \in Seq(Batches)
        /\ field \in FieldStates /\ FieldFollows /\ toC # <<>>
    BY DEF TextInputInv, TextInputShaped, CompositorCommit
  <1>2. UNCHANGED <<ti, batches, field, toE>> /\ toC' = Tail(toC) BY DEF CompositorCommit
  <1>3. PICK r \in Requests : r = Head(toC) BY <1>1
  <1>4. PICK on \in BOOLEAN :
           on = IF r.kind = "state" THEN comp.on ELSE comp.entered /\ r.kind = "enable"
    BY <1>1 DEF Compositors
  <1>5. PICK n \in 0 .. SerialModulus - 1 : n = (comp.seen + 1) % SerialModulus
    BY <1>1, SerialCounts DEF Compositors
  <1>6. comp' = [comp EXCEPT !.seen = n, !.client = r.client, !.on = on]
    BY <1>1, <1>3, <1>4, <1>5 DEF CompositorCommit, Compositors
  <1>7. /\ comp' \in Compositors /\ comp'.entered = comp.entered /\ comp'.on = on
        /\ comp'.seen = n /\ comp'.client = r.client
    BY <1>1, <1>6 DEF Compositors, Requests
  <1>8. toC' \in Seq(Requests) BY <1>1, <1>2
  <1>9. ti.attached /\ ti.client # NoClient BY <1>1 DEF ChannelsAgree
  <1>10. ti.serial = (comp'.seen + Len(toC')) % SerialModulus
    <2>1. PICK m \in Nat \ {0} : m = SerialModulus BY TextInputBounds
    <2>2. PICK l \in Nat : l = Len(toC') BY <1>8
    <2>3. PICK s \in 0 .. m - 1 : s = comp.seen BY <1>1, <2>1 DEF Compositors
    <2>4. Len(toC) = l + 1 BY <1>1, <1>2, <2>2
    <2>5. ti.serial = (s + (l + 1)) % m BY <1>1, <1>9, <2>1, <2>3, <2>4 DEF ChannelsAgree
    <2>6. (((s + 1) % m) + l) % m = (s + (l + 1)) % m BY RemainderMoves
    <2>7. n = (s + 1) % m BY <1>5, <2>1, <2>3
    <2> QED BY <1>7, <2>1, <2>2, <2>5, <2>6, <2>7
  <1>11. Latest(comp.client, toC)' = Latest(comp.client, toC)
    BY <1>1, <1>2, <1>3, <1>7, LatestLess, Zenon
  <1>12. ti.enabled /\ Uncrossed(toE) => TurnsOn(comp.on, toC)'
    <2>1. SUFFICES ASSUME ti.enabled, Uncrossed(toE) PROVE TurnsOn(comp.on, toC)' OBVIOUS
    <2>2. TurnsOn(comp.on, toC) BY <1>1, <2>1 DEF ChannelsAgree
    <2>3. ti.entered \in BOOLEAN /\ ti.entered BY <1>1, <2>1 DEF ChannelsAgree, Wanted, Clients
    <2>4. comp.entered
      <3>1. Crosses(ti.entered, toE, comp.entered) BY <1>1 DEF ChannelsAgree
      <3>2. ti.entered = comp.entered BY <1>1, <2>1, <2>3, <3>1, CrossesStill
      <3> QED BY <2>3, <3>2
    <2>5. on <=> IF r.kind = "state" THEN comp.on ELSE r.kind = "enable" BY <1>4, <2>4
    <2>6. TurnsOn(on, Tail(toC)) BY <1>1, <1>3, <2>2, <2>5, TurnsOnLess
    <2> QED BY <1>2, <1>7, <2>6, Zenon
  <1>13. ChannelsAgree'
    <2>1. Wanted(ti)' <=> Wanted(ti) BY <1>2 DEF Wanted
    <2>2. Crosses(ti.entered, toE, comp.entered)' BY <1>1, <1>2, <1>7 DEF ChannelsAgree
    <2>3. comp'.on => comp'.entered BY <1>1, <1>4, <1>7 DEF ChannelsAgree
    <2>4. ti'.enabled /\ ~ti'.dirty => Latest(comp.client, toC)' = ti'.client
      BY <1>1, <1>2, <1>11 DEF ChannelsAgree
    <2>5. ti'.enabled /\ Uncrossed(toE)' => TurnsOn(comp.on, toC)' BY <1>2, <1>12
    <2>6. ti'.attached /\ ti'.client # NoClient
            /\ ti'.serial = (comp'.seen + Len(toC')) % SerialModulus
      BY <1>2, <1>9, <1>10
    <2>7. ti'.enabled <=> Wanted(ti)' BY <1>1, <1>2, <2>1 DEF ChannelsAgree
    <2> QED BY <2>2, <2>3, <2>4, <2>5, <2>6, <2>7 DEF ChannelsAgree
  <1>14. TextInputShaped' BY <1>1, <1>2, <1>7, <1>8 DEF TextInputShaped
  <1>15. FieldFollows'
    <2>1. Given(field, batches)' = Given(field, batches) BY <1>2, Zenon
    <2> QED BY <1>1, <1>2, <2>1 DEF FieldFollows
  <1> QED BY <1>13, <1>14, <1>15 DEF TextInputInv

\* The input method sends a batch.
LEMMA InputMethodKeeps ==
  ASSUME TextInputInv, InputMethod
  PROVE  TextInputInv'
  <1>1. /\ ti \in Clients /\ comp \in Compositors /\ toE \in Seq(Arrivals) /\ ChannelsAgree
        /\ toC \in Seq(Requests) /\ batches \in Seq(Batches)
        /\ field \in FieldStates /\ FieldFollows /\ comp.on
    BY DEF TextInputInv, TextInputShaped, InputMethod
  <1>2. UNCHANGED <<ti, batches, field, toC, comp>> BY DEF InputMethod
  <1>3. PICK input \in {<<>>, <<"preedit">>, <<"commit">>, <<"invalid">>} :
           toE' = toE \o [i \in DOMAIN input |-> Event(input[i])] \o <<Event("done")>>
    BY DEF InputMethod
  <1>4. PICK done \in Arrivals : done = Event("done") /\ done.kind = "done" BY EventIs
  <1>5. PICK q : q = [i \in DOMAIN input |-> Event(input[i])] OBVIOUS
  <1>6. q \in Seq(Arrivals) /\ Uncrossed(q)
    <2>1. PICK l \in Nat : /\ DOMAIN input = 1 .. l
                           /\ \A i \in 1 .. l : input[i] \in Typed
      <3>1. CASE input = <<>>
        <4>1. DOMAIN input = 1 .. 0 /\ 0 \in Nat /\ 1 .. 0 = {} BY <3>1
        <4> QED BY <4>1
      <3>2. CASE input # <<>>
        <4>1. PICK x \in Typed : input = <<x>> BY <3>2 DEF Typed
        <4>2. DOMAIN input = 1 .. 1 /\ input[1] = x /\ 1 \in Nat BY <4>1
        <4>3. \A i \in 1 .. 1 : i = 1 OBVIOUS
        <4> QED BY <4>2, <4>3
      <3> QED BY <3>1, <3>2
    <2>2. \A i \in 1 .. l : Event(input[i]) \in Arrivals /\ Event(input[i]).kind \in Typed
      BY <2>1, EventIs
    <2>3. q \in [1 .. l -> Arrivals] BY <1>5, <2>1, <2>2
    <2>4. q \in Seq(Arrivals) /\ Len(q) = l BY <2>3
    <2>5. \A i \in 1 .. l : q[i].kind \in Typed BY <1>5, <2>1, <2>2
    <2> QED BY <2>4, <2>5 DEF Uncrossed, Typed
  <1>7. PICK e : e = <<done>> OBVIOUS
  <1>8. e \in Seq(Arrivals) /\ Uncrossed(e)
    <2>1. e \in Seq(Arrivals) /\ Len(e) = 1 /\ e[1] = done BY <1>7
    <2>2. \A i \in 1 .. 1 : i = 1 OBVIOUS
    <2> QED BY <1>4, <2>1, <2>2 DEF Uncrossed
  <1>9. PICK s \in Seq(Arrivals) : s = toE \o q
    <2>1. toE \o q \in Seq(Arrivals) BY <1>1, <1>6
    <2> QED BY <2>1
  <1>10. toE' = s \o e BY <1>3, <1>4, <1>5, <1>7, <1>9, Zenon
  <1>11. s \o e \in Seq(Arrivals) BY <1>8
  <1>12. comp.entered \in BOOLEAN /\ ti.entered \in BOOLEAN BY <1>1 DEF Compositors, Clients
  <1>13. Crosses(comp.entered, q, comp.entered) /\ Crosses(comp.entered, e, comp.entered)
    BY <1>6, <1>8, <1>12, CrossesStill
  <1>14. Crosses(ti.entered, s \o e, comp.entered)
    <2>1. Crosses(ti.entered, toE, comp.entered) BY <1>1 DEF ChannelsAgree
    <2>2. Crosses(ti.entered, s, comp.entered) BY <1>1, <1>6, <1>9, <1>13, <2>1, CrossesOn, Zenon
    <2> QED BY <1>8, <1>13, <2>2, CrossesOn, Zenon
  <1>15. Uncrossed(s \o e) => Uncrossed(toE)
    BY <1>1, <1>6, <1>8, <1>9, UncrossedOfParts, Zenon
  <1>16. PICK arriving \in Seq(Arrivals) : arriving = s \o e BY <1>11
  <1>17. toE' = arriving /\ Crosses(ti.entered, arriving, comp.entered)
           /\ (Uncrossed(arriving) => Uncrossed(toE))
    BY <1>10, <1>14, <1>15, <1>16, Zenon
  <1>18. ChannelsAgree'
    <2>1. Wanted(ti)' <=> Wanted(ti) BY <1>2 DEF Wanted
    <2>2. Latest(comp.client, toC)' = Latest(comp.client, toC) BY <1>2, Zenon
    <2>3. TurnsOn(comp.on, toC)' <=> TurnsOn(comp.on, toC) BY <1>2, Zenon
    <2>4. Crosses(ti.entered, toE, comp.entered)' BY <1>2, <1>17
    <2>5. ti.attached
      <3>1. SUFFICES ASSUME ~ti.attached PROVE FALSE OBVIOUS
      <3>2. toE = <<>> /\ ~ti.entered /\ comp.entered BY <1>1, <3>1 DEF ChannelsAgree
      <3>3. Crosses(ti.entered, <<>>, comp.entered) BY <1>1, <3>2 DEF ChannelsAgree
      <3> QED BY <1>12, <3>2, <3>3, CrossesNone
    <2> QED BY <1>1, <1>2, <1>17, <2>1, <2>2, <2>3, <2>4, <2>5 DEF ChannelsAgree
  <1>19. TextInputShaped' BY <1>1, <1>2, <1>17 DEF TextInputShaped
  <1>20. FieldFollows'
    <2>1. Given(field, batches)' = Given(field, batches) BY <1>2, Zenon
    <2> QED BY <1>1, <1>2, <2>1 DEF FieldFollows
  <1> QED BY <1>18, <1>19, <1>20 DEF TextInputInv

-----------------------------------------------------------------------------
(* The whole. *)

\* At first nothing is on and nothing is on its way.
LEMMA TextInputBegins ==
  ASSUME TextInputInit
  PROVE  TextInputInv
  <1>1. /\ ti = [attached |-> FALSE, entered |-> FALSE, focused |-> FALSE, enabled |-> FALSE,
                 accepts |-> TRUE, dirty |-> FALSE, reset |-> FALSE, serial |-> 0,
                 client |-> NoClient, pending |-> NoPending]
        /\ batches = <<>> /\ toC = <<>> /\ toE = <<>>
        /\ field = [focus |-> "editor", text |-> TooLong, preedit |-> "none",
                    dirty |-> TRUE, lost |-> FALSE]
        /\ comp = [entered |-> FALSE, on |-> FALSE, seen |-> 0, client |-> NoClient]
    BY DEF TextInputInit
  <1>2. 0 \in 0 .. SerialModulus - 1 /\ TooLong \in Texts BY TextInputBounds, TextsAssumption
  <1>3. ti \in Clients BY <1>1, <1>2 DEF Clients, NoPending
  <1>4. comp \in Compositors BY <1>1, <1>2 DEF Compositors
  <1>5. field \in FieldStates /\ field.preedit = "none" /\ field.focus = "editor"
    BY <1>1, <1>2 DEF FieldStates, Fields
  <1>6. batches \in Seq(Batches) /\ toC \in Seq(Requests) /\ toE \in Seq(Arrivals) BY <1>1
  <1>7. ~ti.attached /\ ~ti.entered /\ ~ti.enabled /\ ti.entered = FALSE BY <1>1
  <1>8. comp.on = FALSE /\ comp.entered = FALSE BY <1>1
  <1>9. Crosses(ti.entered, toE, comp.entered)
    <2>1. Crosses(FALSE, <<>>, FALSE) BY CrossesNone
    <2> QED BY <1>1, <1>7, <1>8, <2>1, Zenon
  <1>10. ChannelsAgree BY <1>1, <1>7, <1>8, <1>9 DEF ChannelsAgree, Wanted
  <1>11. Given(field, batches) = field BY <1>1, GivenNone, Zenon
  <1>12. FieldFollows BY <1>5, <1>7, <1>11 DEF FieldFollows
  <1> QED BY <1>3, <1>4, <1>5, <1>6, <1>10, <1>12 DEF TextInputInv, TextInputShaped

\* Without a step nothing changes.
LEMMA TextInputUnchanged ==
  ASSUME TextInputInv, UNCHANGED textInputVars
  PROVE  TextInputInv'
  <1>1. /\ ti' = ti /\ batches' = batches /\ field' = field
        /\ toC' = toC /\ toE' = toE /\ comp' = comp
    BY DEF textInputVars
  <1>2. TextInputShaped' BY <1>1 DEF TextInputInv, TextInputShaped
  <1>3. ChannelsAgree'
    <2>1. Wanted(ti)' <=> Wanted(ti) BY <1>1 DEF Wanted
    <2>2. Latest(comp.client, toC)' = Latest(comp.client, toC) BY <1>1, Zenon
    <2>3. TurnsOn(comp.on, toC)' <=> TurnsOn(comp.on, toC) BY <1>1, Zenon
    <2>4. Uncrossed(toE)' <=> Uncrossed(toE) BY <1>1, Zenon
    <2>5. Crosses(ti.entered, toE, comp.entered)' BY <1>1 DEF TextInputInv, ChannelsAgree
    <2> QED BY <1>1, <2>1, <2>2, <2>3, <2>4, <2>5 DEF TextInputInv, ChannelsAgree
  <1>4. FieldFollows'
    <2>1. Given(field, batches)' = Given(field, batches) BY <1>1, Zenon
    <2> QED BY <1>1, <2>1 DEF TextInputInv, FieldFollows
  <1> QED BY <1>2, <1>3, <1>4 DEF TextInputInv

\* The invariant says what was to be shown.
LEMMA TextInputInvAgrees ==
  ASSUME TextInputInv
  PROVE  TextInputAgrees
  <1>1. /\ ti \in Clients /\ comp \in Compositors /\ field \in FieldStates
        /\ toE \in Seq(Arrivals) /\ ChannelsAgree /\ FieldFollows
    BY DEF TextInputInv, TextInputShaped
  <1>2. TextInputTypeOK
    BY <1>1 DEF TextInputTypeOK, Clients, FieldStates, ChannelsAgree, Wanted, Typed
  <1>3. SerialCountsCommits BY <1>1 DEF SerialCountsCommits, ChannelsAgree
  <1>4. CompositorAgrees
    <2>1. SUFFICES ASSUME ti.attached, toC = <<>>, toE = <<>>
                   PROVE  /\ comp.entered = ti.entered
                          /\ ti.focused => comp.on = ti.enabled
                          /\ ti.enabled /\ ~ti.dirty => comp.client = ti.client
      BY DEF CompositorAgrees
    <2>2. Uncrossed(toE)
      <3>1. 1 .. Len(<<>>) = {} OBVIOUS
      <3> QED BY <2>1, <3>1 DEF Uncrossed
    <2>3. comp.entered = ti.entered
      <3>1. Crosses(ti.entered, <<>>, comp.entered) BY <1>1, <2>1 DEF ChannelsAgree
      <3>2. ti.entered \in BOOLEAN BY <1>1 DEF Clients
      <3> QED BY <3>1, <3>2, CrossesNone
    <2>4. ti.enabled => comp.on
      <3>1. ti.enabled => TurnsOn(comp.on, <<>>) BY <1>1, <2>1, <2>2 DEF ChannelsAgree
      <3> QED BY <3>1, TurnsOnNone
    <2>5. ti.focused /\ comp.on => ti.enabled
      BY <1>1, <2>1, <2>3 DEF ChannelsAgree, Wanted
    <2>6. ti.focused => comp.on = ti.enabled
      BY <1>1, <2>4, <2>5 DEF Clients, Compositors
    <2>7. ti.enabled /\ ~ti.dirty => comp.client = ti.client
      BY <1>1, <2>1 DEF ChannelsAgree, Latest
    <2> QED BY <2>3, <2>6, <2>7
  <1>5. HeldStateIsAnnounced
    <2>1. batches \in Seq(Batches) BY DEF TextInputInv, TextInputShaped
    <2>2. DOMAIN batches = 1 .. Len(batches) BY <2>1
    <2> QED BY <1>1, <2>2 DEF HeldStateIsAnnounced, FieldFollows
  <1>6. PreeditHasItsField
    <2>1. batches = <<>> => Given(field, batches) = field BY GivenNone, Zenon
    <2> QED BY <1>1, <2>1 DEF PreeditHasItsField, FieldFollows
  <1> QED BY <1>2, <1>3, <1>4, <1>5, <1>6 DEF TextInputAgrees

\* Text input's client, the compositor and the field in focus agree, however the
\* requests and the events cross, and whatever comes and goes
\* (WaylandTextInputState, ApplicationUi's text input).
THEOREM TextInputsAgree == TextInputSpec => []TextInputAgrees
  <1>1. TextInputInit => TextInputInv BY TextInputBegins
  <1>2. TextInputInv /\ [TextInputNext]_textInputVars => TextInputInv'
    <2>1. SUFFICES ASSUME TextInputInv, [TextInputNext]_textInputVars PROVE TextInputInv' OBVIOUS
    <2>2. CASE DeliverBatches BY <2>1, <2>2, DeliverBatchesKeeps
    <2>3. CASE Edit BY <2>1, <2>3, EditKeeps
    <2>4. CASE ChangeFocus BY <2>1, <2>4, ChangeFocusKeeps
    <2>5. CASE AttachObject BY <2>1, <2>5, AttachObjectKeeps
    <2>6. CASE DetachObject BY <2>1, <2>6, DetachObjectKeeps
    <2>7. CASE KeyboardLost BY <2>1, <2>7, KeyboardLostKeeps
    <2>8. CASE EventArrives BY <2>1, <2>8, EventArrivesKeeps
    <2>9. CASE CompositorFocus BY <2>1, <2>9, CompositorFocusKeeps
    <2>10. CASE CompositorCommit BY <2>1, <2>10, CompositorCommitKeeps
    <2>11. CASE InputMethod BY <2>1, <2>11, InputMethodKeeps
    <2>12. CASE UNCHANGED textInputVars BY <2>1, <2>12, TextInputUnchanged
    <2> QED BY <2>1, <2>2, <2>3, <2>4, <2>5, <2>6, <2>7, <2>8, <2>9, <2>10, <2>11, <2>12
         DEF TextInputNext
  <1>3. TextInputInv => TextInputAgrees BY TextInputInvAgrees
  <1> QED BY <1>1, <1>2, <1>3, PTL DEF TextInputSpec
=================================================================================
