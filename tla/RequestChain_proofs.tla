-------------------------- MODULE RequestChain_proofs --------------------------
(***************************************************************************)
(* Proofs about RequestChain, for any number of panics: first what is      *)
(* counted and answered, which the order of the layers does not matter     *)
(* for; then that order, and from it what the span, the metric and the     *)
(* panics say of the route.                                                *)
(***************************************************************************)
EXTENDS RequestChain, TLAPS

\* The parts of the type invariant that counting panics rests on.
PanicTypes ==
    /\ raised \in {"none", "error", "abort"}
    /\ panics \in Seq([origin : App \cup {None}, route : Routes \cup {None}])
    /\ labeler \in Routes \cup {None} /\ origin \in App \cup {None}
    /\ thrown \in Nat /\ consumed \in Nat

\* trackWrites has seen whatever began the response, and so has the framework's writer,
\* but for what echo's lets through.
TrackersKnow ==
    /\ sent \in Commits \cup {"nothing"}
    /\ sent # "nothing" => wrote
    /\ wiring.adapter \in {"gin", "echo"} /\ sent # "nothing" =>
           committed \/ (wiring.adapter = "echo" /\ sent \in {"Flush", "Hijack"})

ChainInv ==
    /\ PanicTypes
    /\ PanicsAccounted
    /\ TrackersKnow
    /\ NoStatusOverResponse

-----------------------------------------------------------------------------
\* The invariant holds before the request enters the chain.
LEMMA ChainInvInit == ChainInit => ChainInv
  BY ChainAssumption
  DEF ChainInit, ChainInv, PanicTypes, PanicsAccounted, TrackersKnow, NoStatusOverResponse

\* A step that touches neither the panics, nor the labeler, nor the response keeps it.
LEMMA ChainInvFrame ==
    ASSUME ChainInv, UNCHANGED <<wiring, panicVars, responseVars>>,
           labeler' \in Routes \cup {None}
    PROVE  ChainInv'
  BY DEF ChainInv, PanicTypes, PanicsAccounted, TrackersKnow, NoStatusOverResponse,
         panicVars, responseVars

\* A recovery's 500, and the application's own answer: the trackers learn what begins
\* the response; nothing is overwritten but what echo's writer does not know of.
LEMMA WriteStatusKeeps ==
    ASSUME ChainInv, UNCHANGED wiring, NEW who, WriteStatus(who),
           \/ who = "Recovery" /\ ~wrote
           \/ who = "AdapterRecovery" /\ ~committed /\ wiring.adapter \in {"gin", "echo"}
    PROVE  TrackersKnow' /\ NoStatusOverResponse'
  BY DEF ChainInv, TrackersKnow, NoStatusOverResponse, WriteStatus, Begin, Hooks, Commits,
         FrameworkSees

\* Recording takes the panic from those under way to those counted.
LEMMA RecordedKeeps ==
    ASSUME ChainInv, NEW route \in Routes \cup {None}, Recorded(route),
           UNCHANGED <<labeler, origin, thrown, consumed>>
    PROVE  PanicTypes' /\ PanicsAccounted'
  <1>1. Len(panics') = Len(panics) + 1 /\ Len(panics) \in Nat
    BY DEF ChainInv, PanicTypes, Recorded
  <1>2. QED  BY <1>1 DEF ChainInv, PanicTypes, PanicsAccounted, Recorded

\* StampRoute leaves the labeler with a route or with none.
LEMMA StampRouteKeeps ==
    ASSUME ChainInv, NEW route \in Routes \cup {None}, StampRoute(route)
    PROVE  labeler' \in Routes \cup {None}
  BY DEF ChainInv, PanicTypes, StampRoute

\* The adapters know a template, a mount's pattern, or nothing.
LEMMA MatchedRouteType == MatchedRoute \in Routes \cup {None}
  BY DEF MatchedRoute, Routes

\* Every step keeps the invariant.
LEMMA ChainInvStep == ChainInv /\ [ChainNext]_chainVars => ChainInv'
  <1> SUFFICES ASSUME ChainInv, [ChainNext]_chainVars
               PROVE  ChainInv'
    OBVIOUS
  <1>1. CASE CountActive \/ StartSpan \/ EndSpan
    BY <1>1, ChainInvFrame DEF CountActive, StartSpan, EndSpan, ChainInv, PanicTypes
  <1>2. CASE PassRecovery \/ CallNext \/ EnterMount \/ Return
    BY <1>2, ChainInvFrame
    DEF PassRecovery, CallNext, EnterMount, Return, telemetryVars, ChainInv, PanicTypes
  <1>3. CASE RouteTag \/ ChiRouteTag
    BY <1>3, ChainInvFrame, StampRouteKeeps, MatchedRouteType
    DEF RouteTag, ChiRouteTag, ChainInv, PanicTypes
  <1>4. CASE Recovery
    <2>1. PanicTypes' /\ PanicsAccounted'
      BY <1>4, RecordedKeeps DEF Recovery, telemetryVars, ChainInv, PanicTypes
    <2>2. TrackersKnow' /\ NoStatusOverResponse'
      <3>1. CASE wrote
        BY <1>4, <3>1 DEF Recovery, responseVars, ChainInv, TrackersKnow, NoStatusOverResponse
      <3>2. CASE ~wrote
        BY <1>4, <3>2, WriteStatusKeeps DEF Recovery
      <3>3. QED  BY <3>1, <3>2
    <2>3. QED  BY <2>1, <2>2 DEF ChainInv
  <1>5. CASE AdapterRecovery
    <2>1. PanicTypes' /\ PanicsAccounted'
      BY <1>5, RecordedKeeps, MatchedRouteType DEF AdapterRecovery, telemetryVars
    <2>2. TrackersKnow' /\ NoStatusOverResponse'
      <3>1. CASE committed
        BY <1>5, <3>1
        DEF AdapterRecovery, responseVars, ChainInv, TrackersKnow, NoStatusOverResponse
      <3>2. CASE ~committed
        BY <1>5, <3>2, WriteStatusKeeps DEF AdapterRecovery
      <3>3. QED  BY <3>1, <3>2
    <2>3. QED  BY <2>1, <2>2 DEF ChainInv
  <1>6. CASE OwnRecovery
    <2>1. PanicTypes' /\ PanicsAccounted'
      BY <1>6 DEF OwnRecovery, OwnConsumes, telemetryVars, ChainInv, PanicTypes, PanicsAccounted
    <2>2. TrackersKnow' /\ NoStatusOverResponse'
      BY <1>6 DEF OwnRecovery, Begin, Hooks, Commits, FrameworkSees, ChainInv, TrackersKnow,
                  NoStatusOverResponse
    <2>3. QED  BY <2>1, <2>2 DEF ChainInv
  <1>7. ASSUME NEW kind \in Commits, Respond(kind)
        PROVE  ChainInv'
    BY <1>7 DEF Respond, Available, Begin, Hooks, Commits, FrameworkSees, panicVars,
                telemetryVars, ChainInv, PanicTypes, PanicsAccounted, TrackersKnow,
                NoStatusOverResponse
  <1>8. ASSUME NEW p \in {"error", "abort"}, Panic(p)
        PROVE  ChainInv'
    BY <1>8 DEF Panic, responseVars, telemetryVars, ChainInv, PanicTypes, PanicsAccounted,
                TrackersKnow, NoStatusOverResponse
  <1>9. CASE UNCHANGED chainVars
    BY <1>9, ChainInvFrame DEF chainVars, telemetryVars, ChainInv, PanicTypes
  <1>10. QED
    BY <1>1, <1>2, <1>3, <1>4, <1>5, <1>6, <1>7, <1>8, <1>9 DEF ChainNext

\* The invariant holds throughout the request, however it is wired.
THEOREM ChainInvariance == ChainSpec => []ChainInv
  BY ChainInvInit, ChainInvStep, PTL DEF ChainSpec

\* Every panic is counted once, consumed by a recovery that is not ours, or on its way.
THEOREM PanicsAlwaysAccounted == ChainSpec => []PanicsAccounted
  <1>1. ChainInv => PanicsAccounted
    BY DEF ChainInv
  <1>2. QED  BY <1>1, ChainInvariance, PTL

\* No recovery of ours writes a status over a response it can know of.
THEOREM ResponseNeverOverwritten == ChainSpec => []NoStatusOverResponse
  <1>1. ChainInv => NoStatusOverResponse
    BY DEF ChainInv
  <1>2. QED  BY <1>1, ChainInvariance, PTL
-----------------------------------------------------------------------------
(* The order of the layers, whatever the wiring.                          *)

\* Every kind of layer there is.
Layers == {"countActive", "otelhttp", "Recovery", "AdapterRecovery", "own", "RouteTag"} \cup App

\* The elements of a concatenation, place by place.
LEMMA Concatenation ==
    ASSUME NEW s \in Seq(Layers), NEW t \in Seq(Layers)
    PROVE  /\ s \o t \in Seq(Layers) /\ Len(s \o t) = Len(s) + Len(t)
           /\ Len(s) \in Nat /\ Len(t) \in Nat
           /\ \A i \in 1..Len(s) : (s \o t)[i] = s[i]
           /\ \A i \in 1..Len(t) : (s \o t)[Len(s) + i] = t[i]
  OBVIOUS

\* What holds of the elements of both parts holds of those of the whole.
LEMMA ConcatenationWithin ==
    ASSUME NEW s \in Seq(Layers), NEW t \in Seq(Layers), NEW S,
           \A i \in 1..Len(s) : s[i] \in S, \A i \in 1..Len(t) : t[i] \in S
    PROVE  \A i \in 1..Len(s \o t) : (s \o t)[i] \in S
  <1> SUFFICES ASSUME NEW i \in 1..Len(s \o t)
               PROVE  (s \o t)[i] \in S
    OBVIOUS
  <1>1. CASE i \in 1..Len(s)
    BY <1>1, Concatenation
  <1>2. CASE i \notin 1..Len(s)
    <2>1. i - Len(s) \in 1..Len(t) /\ i = Len(s) + (i - Len(s))
      BY <1>2, Concatenation
    <2>2. QED  BY <2>1, Concatenation
  <1>3. QED  BY <1>1, <1>2

\* An optional layer is one layer or none.
LEMMA Optional ==
    ASSUME NEW b \in BOOLEAN, NEW layer \in Layers
    PROVE  /\ If(b, layer) \in Seq(Layers) /\ Len(If(b, layer)) = (IF b THEN 1 ELSE 0)
           /\ \A i \in 1..Len(If(b, layer)) : If(b, layer)[i] = layer
  <1>1. CASE b
    <2>1. If(b, layer) = <<layer>>
      BY <1>1 DEF If
    <2>2. <<layer>> \in Seq(Layers) /\ Len(<<layer>>) = 1 /\ <<layer>>[1] = layer
      OBVIOUS
    <2>3. \A i \in 1..1 : i = 1
      OBVIOUS
    <2>4. QED  BY <1>1, <2>1, <2>2, <2>3
  <1>2. CASE ~b
    <2>1. If(b, layer) = <<>>
      BY <1>2 DEF If
    <2>2. QED  BY <1>2, <2>1
  <1>3. QED  BY <1>1, <1>2

\* What every engine looks like around its RouteTag, which is at t.
Around(e, t) ==
    /\ e \in Seq(Layers) /\ t \in 1..(Len(e) - 1) /\ e[t] = "RouteTag"
    /\ \A i \in 1..(t - 1) : e[i] \in {"own", "before", "AdapterRecovery"}
    /\ \A i \in (t + 1)..Len(e) : e[i] \in {"own", "after", "handler"}
    /\ \A i \in 1..Len(e) : e[i] = "handler" <=> i = Len(e)

\* Layers of the outer kinds, a RouteTag, maybe a recovery, and the application.
LEMMA EngineAround ==
    ASSUME NEW front \in Seq(Layers), NEW inner \in BOOLEAN,
           \A i \in 1..Len(front) : front[i] \in {"own", "before", "AdapterRecovery"}
    PROVE  Around(front \o <<"RouteTag">> \o If(inner, "own") \o <<"after", "handler">>,
                  Len(front) + 1)
  <1> DEFINE tag == <<"RouteTag">>
             opt == If(inner, "own")
             app == <<"after", "handler">>
             n == Len(front)
             m == IF inner THEN 1 ELSE 0
             f1 == front \o tag
             f2 == f1 \o opt
             f3 == f2 \o app
  <1>1. /\ tag \in Seq(Layers) /\ Len(tag) = 1 /\ tag[1] = "RouteTag"
        /\ app \in Seq(Layers) /\ Len(app) = 2 /\ app[1] = "after" /\ app[2] = "handler"
    BY DEF Layers, App
  <1>2. opt \in Seq(Layers) /\ Len(opt) = m /\ \A i \in 1..m : opt[i] = "own"
    BY Optional DEF Layers
  <1>3. n \in Nat /\ m \in {0, 1}
    OBVIOUS
  <1> HIDE DEF tag, opt, app, n, m
  <1>4. /\ f1 \in Seq(Layers) /\ Len(f1) = n + 1
        /\ \A i \in 1..n : f1[i] = front[i]
        /\ f1[n + 1] = "RouteTag"
    BY <1>1, <1>3, Concatenation DEF n
  <1> HIDE DEF f1
  <1>5. /\ f2 \in Seq(Layers) /\ Len(f2) = n + 1 + m
        /\ \A i \in 1..(n + 1) : f2[i] = f1[i]
        /\ \A i \in 1..m : f2[n + 1 + i] = opt[i]
    <2>1. /\ f1 \o opt \in Seq(Layers) /\ Len(f1 \o opt) = Len(f1) + Len(opt)
          /\ \A i \in 1..Len(f1) : (f1 \o opt)[i] = f1[i]
          /\ \A i \in 1..Len(opt) : (f1 \o opt)[Len(f1) + i] = opt[i]
      BY <1>2, <1>4, Concatenation
    <2>2. QED  BY <1>2, <1>3, <1>4, <2>1
  <1>6. m = 1 => f2[n + 2] = "own"
    BY <1>2, <1>3, <1>5
  <1> HIDE DEF f2
  <1>7. /\ f3 \in Seq(Layers) /\ Len(f3) = n + m + 3
        /\ \A i \in 1..(n + 1 + m) : f3[i] = f2[i]
        /\ f3[n + m + 2] = "after" /\ f3[n + m + 3] = "handler"
    <2>1. /\ f2 \o app \in Seq(Layers) /\ Len(f2 \o app) = Len(f2) + Len(app)
          /\ \A i \in 1..Len(f2) : (f2 \o app)[i] = f2[i]
          /\ \A i \in 1..Len(app) : (f2 \o app)[Len(f2) + i] = app[i]
      BY <1>1, <1>5, Concatenation
    <2>2. n + 1 + m + 1 = n + m + 2 /\ n + 1 + m + 2 = n + m + 3 /\ n + 1 + m + 1 \in Nat
      BY <1>3
    <2>3. (f2 \o app)[Len(f2) + 1] = "after" /\ (f2 \o app)[Len(f2) + 2] = "handler"
      BY <1>1, <2>1
    <2>4. QED  BY <1>1, <1>5, <2>1, <2>2, <2>3
  <1> HIDE DEF f3
  <1>8. \A i \in 1..n : f3[i] \in {"own", "before", "AdapterRecovery"}
    BY <1>3, <1>4, <1>5, <1>7 DEF n
  <1>9. f3[n + 1] = "RouteTag"
    BY <1>3, <1>4, <1>5, <1>7
  <1>10. \A i \in (n + 2)..(n + m + 3) :
            i = n + m + 3 \/ i = n + m + 2 \/ (i = n + 2 /\ m = 1)
    BY <1>3
  <1>11. \A i \in (n + 2)..(n + m + 3) :
            f3[i] \in {"own", "after", "handler"} /\ (f3[i] = "handler" <=> i = n + m + 3)
    <2> SUFFICES ASSUME NEW i \in (n + 2)..(n + m + 3)
                 PROVE  f3[i] \in {"own", "after", "handler"} /\ (f3[i] = "handler" <=> i = n + m + 3)
      OBVIOUS
    <2>1. CASE i = n + m + 3
      BY <1>7, <2>1
    <2>2. CASE i = n + m + 2
      BY <1>3, <1>7, <2>2
    <2>3. CASE i = n + 2 /\ m = 1
      <3>1. n + 2 \in 1..(n + 1 + m) /\ n + 2 # n + m + 3
        BY <1>3, <2>3
      <3>2. QED  BY <1>6, <1>7, <2>3, <3>1
    <2>4. QED  BY <1>10, <2>1, <2>2, <2>3
  <1>12. Around(f3, n + 1)
    BY <1>3, <1>7, <1>8, <1>9, <1>11 DEF Around
  <1>13. QED  BY <1>12 DEF f1, f2, f3, tag, opt, app, n

\* The engines' layers before their RouteTag, and its place.
Front(w) ==
    IF w.adapter \in {"gin", "echo"}
    THEN If(w.ownOuter, "own") \o <<"before">> \o If(w.recovery, "AdapterRecovery")
    ELSE If(w.ownOuter, "own") \o <<"before">>

\* The engine that Chain puts inside nethttp.Handler.
Engine(w) ==
    CASE w.adapter = "gin" -> GinEngine(w)
      [] w.adapter = "echo" -> EchoEngine(w)
      [] OTHER -> ChiEngine(w)

\* Every adapter's engine has that form.
LEMMA EnginesAround ==
    ASSUME NEW w \in Wirings
    PROVE  Front(w) \in Seq(Layers) /\ Around(Engine(w), Len(Front(w)) + 1)
  <1> DEFINE outer == If(w.ownOuter, "own")
             before == <<"before">>
             rec == If(w.recovery, "AdapterRecovery")
             out == {"own", "before", "AdapterRecovery"}
             f == outer \o before
             g == f \o rec
  <1>1. w.ownOuter \in BOOLEAN /\ w.ownInner \in BOOLEAN /\ w.recovery \in BOOLEAN
    BY DEF Wirings
  <1>2. outer \in Seq(Layers) /\ \A i \in 1..Len(outer) : outer[i] \in out
    BY <1>1, Optional DEF Layers
  <1>3. rec \in Seq(Layers) /\ \A i \in 1..Len(rec) : rec[i] \in out
    BY <1>1, Optional DEF Layers
  <1>4. before \in Seq(Layers) /\ \A i \in 1..Len(before) : before[i] \in out
    <2>1. before \in Seq(Layers) /\ Len(before) = 1 /\ before[1] = "before"
      BY DEF Layers, App
    <2> HIDE DEF before
    <2>2. QED  BY <2>1
  <1> HIDE DEF outer, before, rec, out
  <1>5. f \in Seq(Layers) /\ \A i \in 1..Len(f) : f[i] \in out
    BY <1>2, <1>4, Concatenation, ConcatenationWithin
  <1> HIDE DEF f
  <1>6. g \in Seq(Layers) /\ \A i \in 1..Len(g) : g[i] \in out
    BY <1>3, <1>5, Concatenation, ConcatenationWithin
  <1> HIDE DEF g
  <1>7. /\ Around(g \o <<"RouteTag">> \o If(w.ownInner, "own") \o <<"after", "handler">>, Len(g) + 1)
        /\ Around(f \o <<"RouteTag">> \o If(w.ownInner, "own") \o <<"after", "handler">>, Len(f) + 1)
    BY <1>1, <1>5, <1>6, EngineAround DEF out
  <1>8. CASE w.adapter \in {"gin", "echo"}
    <2>1. Front(w) = g
      BY <1>8 DEF Front, f, g, outer, before, rec
    <2>2. Engine(w) = GinEngine(w)
      BY <1>8 DEF Engine, EchoEngine
    <2>3. Engine(w) = g \o <<"RouteTag">> \o If(w.ownInner, "own") \o <<"after", "handler">>
      BY <2>2 DEF GinEngine, f, g, outer, before, rec
    <2>4. QED  BY <1>6, <1>7, <2>1, <2>3
  <1>9. CASE w.adapter \notin {"gin", "echo"}
    <2>1. Front(w) = f
      BY <1>9 DEF Front, f, outer, before
    <2>2. Engine(w) = ChiEngine(w)
      BY <1>9 DEF Engine
    <2>3. Engine(w) = f \o <<"RouteTag">> \o If(w.ownInner, "own") \o <<"after", "handler">>
      BY <2>2 DEF ChiEngine, f, outer, before
    <2>4. QED  BY <1>5, <1>7, <2>1, <2>3
  <1>10. QED  BY <1>8, <1>9

\* The place of RouteTag in the chain.
Tag(w) == CHOOSE t \in 1..Len(Chain(w)) : Chain(w)[t] = "RouteTag"

\* The order of the layers that the telemetry rests on.
Ordered(w) ==
    LET c == Chain(w) IN
    /\ c \in Seq(Layers) /\ Tag(w) \in 3..(Len(c) - 1)
    /\ w.recovery => c[3] = "Recovery"
    /\ \A i \in 1..Len(c) :
          /\ c[i] = "countActive" <=> i = 1
          /\ c[i] = "otelhttp" <=> i = 2
          /\ c[i] = "RouteTag" <=> i = Tag(w)
          /\ c[i] = "handler" <=> i = Len(c)
          /\ c[i] \in {"after", "handler"} => i > Tag(w)
          /\ c[i] \in {"Recovery", "AdapterRecovery", "before"} => 2 < i /\ i < Tag(w)

\* countActive, otelhttp and our recovery are outside every engine.
LEMMA ChainOrdered ==
    ASSUME NEW w \in Wirings
    PROVE  Ordered(w)
  <1> DEFINE two == <<"countActive", "otelhttp">>
             rec == If(w.recovery, "Recovery")
             r == IF w.recovery THEN 1 ELSE 0
             p == two \o rec
             e == Engine(w)
             c == p \o e
             t == Len(Front(w)) + 1
  <1>1. Chain(w) = c
    BY DEF Chain, Engine
  <1>2. two \in Seq(Layers) /\ Len(two) = 2 /\ two[1] = "countActive" /\ two[2] = "otelhttp"
    BY DEF Layers
  <1>3. rec \in Seq(Layers) /\ Len(rec) = r /\ \A i \in 1..r : rec[i] = "Recovery"
    <2>1. w.recovery \in BOOLEAN /\ "Recovery" \in Layers
      BY DEF Layers, Wirings
    <2>2. QED  BY <2>1, Optional
  <1>4. Around(e, t)
    BY EnginesAround
  <1>5. r \in {0, 1} /\ (w.recovery => r = 1)
    OBVIOUS
  <1> HIDE DEF two, rec, r, e, t
  <1>6. /\ p \in Seq(Layers) /\ Len(p) = 2 + r
        /\ p[1] = "countActive" /\ p[2] = "otelhttp" /\ (r = 1 => p[3] = "Recovery")
    <2>1. /\ two \o rec \in Seq(Layers) /\ Len(two \o rec) = Len(two) + Len(rec)
          /\ \A i \in 1..Len(two) : (two \o rec)[i] = two[i]
          /\ \A i \in 1..Len(rec) : (two \o rec)[Len(two) + i] = rec[i]
      BY <1>2, <1>3, Concatenation
    <2>2. r = 1 => p[2 + 1] = "Recovery"
      BY <1>2, <1>3, <2>1
    <2>3. QED  BY <1>2, <1>3, <1>5, <2>1, <2>2
  <1> HIDE DEF p
  <1>7. e \in Seq(Layers) /\ Len(e) \in Nat /\ t \in 1..(Len(e) - 1)
    BY <1>4 DEF Around
  <1>8. /\ c \in Seq(Layers) /\ Len(c) = 2 + r + Len(e)
        /\ \A i \in 1..(2 + r) : c[i] = p[i]
        /\ \A i \in 1..Len(e) : c[2 + r + i] = e[i]
    <2>1. /\ p \o e \in Seq(Layers) /\ Len(p \o e) = Len(p) + Len(e)
          /\ \A i \in 1..Len(p) : (p \o e)[i] = p[i]
          /\ \A i \in 1..Len(e) : (p \o e)[Len(p) + i] = e[i]
      BY <1>6, <1>7, Concatenation
    <2>2. QED  BY <1>6, <2>1
  <1> HIDE DEF c
  <1> DEFINE T == 2 + r + t
  <1>9. T \in 3..(Len(c) - 1) /\ T \in Nat
    BY <1>5, <1>7, <1>8
  <1>10. ASSUME NEW i \in 1..Len(c)
         PROVE  /\ c[i] = "countActive" <=> i = 1
                /\ c[i] = "otelhttp" <=> i = 2
                /\ c[i] = "RouteTag" <=> i = T
                /\ c[i] = "handler" <=> i = Len(c)
                /\ c[i] \in {"after", "handler"} => i > T
                /\ c[i] \in {"Recovery", "AdapterRecovery", "before"} => 2 < i /\ i < T
    <2>1. CASE i \in 1..(2 + r)
      <3>1. i = 1 \/ i = 2 \/ (i = 3 /\ r = 1)
        BY <1>5, <2>1
      <3>2. i < T /\ i # Len(c)
        BY <1>5, <1>7, <1>8, <2>1
      <3>3. c[i] = p[i]
        BY <1>8, <2>1
      <3>4. QED  BY <1>6, <3>1, <3>2, <3>3
    <2>2. CASE i \notin 1..(2 + r)
      <3> DEFINE j == i - (2 + r)
      <3>1. j \in 1..Len(e) /\ i = 2 + r + j /\ i # 1 /\ i # 2 /\ i > 2
        BY <1>5, <1>7, <1>8, <2>2
      <3>2. c[i] = e[j] /\ (i = T <=> j = t) /\ (i = Len(c) <=> j = Len(e)) /\ (i > T <=> j > t)
            /\ (i < T <=> j < t)
        BY <1>5, <1>7, <1>8, <3>1
      <3>3. /\ j < t => e[j] \in {"own", "before", "AdapterRecovery"}
            /\ j = t => e[j] = "RouteTag"
            /\ j > t => e[j] \in {"own", "after", "handler"}
            /\ e[j] = "handler" <=> j = Len(e)
        BY <1>4, <1>7, <3>1 DEF Around
      <3>4. j < t \/ j = t \/ j > t
        BY <1>7, <3>1
      <3> HIDE DEF j, T
      <3>5. QED  BY <3>1, <3>2, <3>3, <3>4
    <2>3. QED  BY <2>1, <2>2
  <1>11. Tag(w) = T
    <2>1. Tag(w) = CHOOSE u \in 1..Len(c) : c[u] = "RouteTag"
      BY <1>1 DEF Tag
    <2>2. T \in 1..Len(c) /\ c[T] = "RouteTag"
      BY <1>8, <1>9, <1>10
    <2>3. Tag(w) \in 1..Len(c) /\ c[Tag(w)] = "RouteTag"
      BY <2>1, <2>2
    <2>4. QED  BY <1>10, <2>3
  <1>12. w.recovery => c[3] = "Recovery"
    <2>1. r = 1 => 3 \in 1..(2 + r)
      OBVIOUS
    <2>2. QED  BY <1>5, <1>6, <1>8, <2>1
  <1> HIDE DEF T
  <1>13. QED  BY <1>1, <1>8, <1>9, <1>10, <1>11, <1>12 DEF Ordered

-----------------------------------------------------------------------------
(* The telemetry of the request.                                           *)

\* Where the request is says what the layers outside the router have done: the count is
\* up between countActive's two visits, there is a span from otelhttp on, and a
\* duration once it was left without a panic.
PathInv ==
    /\ wiring \in Wirings /\ at \in 0..Len(Chain(wiring)) /\ down \in BOOLEAN
    /\ instrumented \in BOOLEAN /\ measured \in BOOLEAN
    /\ at = 0 => ~down
    /\ active = IF wiring.skip \/ at = 0 \/ (at = 1 /\ down) THEN 0 ELSE 1
    /\ instrumented <=> ~wiring.skip /\ (at > 2 \/ ~down)
    /\ down => raised = "none" /\ origin = None
    /\ measured <=> ~wiring.skip /\ ~down /\ at <= 1 /\ raised = "none"
    /\ wiring.recovery /\ ~down /\ at <= 2 => raised # "error"
    /\ ~warned

\* The labeler and the span have one route, which the metric takes over.
SpanInv ==
    /\ instrumented => /\ span \in Spans /\ span.route = labeler
                       /\ labeler # None => span.name.route = labeler
    /\ ~instrumented => span = None /\ labeler = None
    /\ measured => metricRoute = labeler

\* A panic from behind RouteTag finds the labeler stamped: before next on gin, echo and
\* by hand, in the deferred call on chi, which is still to come while at >= Tag.
RouteInv ==
    /\ wiring.matched /\ ~wiring.skip /\ origin \in {"after", "handler"} =>
           labeler # None \/ (wiring.adapter = "chi" /\ at >= Tag(wiring))
    /\ wiring.matched /\ ~wiring.skip /\ wiring.adapter # "chi" /\ at > Tag(wiring) =>
           labeler # None
    /\ ~wiring.matched => labeler \in {None, "mount"}

\* The inductive invariant of a request.
RequestInv == ChainInv /\ PathInv /\ SpanInv /\ RouteInv /\ PanicsCarryRoute

\* What the layer that runs says about its place.
LEMMA LayerPlace ==
    ASSUME PathInv, at > 0
    PROVE  LET n == Len(Chain(wiring)) IN
           /\ n \in Nat /\ at \in 1..n /\ Tag(wiring) \in 3..(n - 1)
           /\ Layer = "countActive" <=> at = 1
           /\ Layer = "otelhttp" <=> at = 2
           /\ Layer = "RouteTag" <=> at = Tag(wiring)
           /\ Layer = "handler" <=> at = n
           /\ Layer \in {"after", "handler"} => at > Tag(wiring)
           /\ Layer \in {"Recovery", "AdapterRecovery", "before"} => 2 < at /\ at < Tag(wiring)
           /\ wiring.recovery /\ at = 3 => Layer = "Recovery"
  <1>1. Ordered(wiring)
    BY ChainOrdered DEF PathInv
  <1>2. at \in 1..Len(Chain(wiring)) /\ Len(Chain(wiring)) \in Nat
    BY <1>1 DEF PathInv, Ordered
  <1>3. QED  BY <1>1, <1>2 DEF Ordered, Layer

\* It holds before the request enters the chain.
LEMMA RequestInit == ChainInit => PathInv /\ SpanInv /\ RouteInv /\ PanicsCarryRoute
  <1> SUFFICES ASSUME ChainInit
               PROVE  PathInv /\ SpanInv /\ RouteInv /\ PanicsCarryRoute
    OBVIOUS
  <1>1. wiring \in Wirings /\ at = 1 /\ down /\ panics = <<>>
    BY DEF ChainInit
  <1>2. 1 \in 0..Len(Chain(wiring)) /\ 3 <= Tag(wiring) /\ Tag(wiring) \in Int
    BY <1>1, ChainOrdered DEF Ordered
  <1>3. PathInv
    <2>1. /\ down = TRUE /\ raised = "none" /\ origin = None /\ active = 0 /\ instrumented = FALSE
          /\ measured = FALSE /\ warned = FALSE
      BY DEF ChainInit
    <2>2. down \in BOOLEAN /\ instrumented \in BOOLEAN /\ measured \in BOOLEAN
      BY <2>1
    <2>3. at \in 0..Len(Chain(wiring)) /\ at # 0
      BY <1>1, <1>2
    <2>4. active = IF wiring.skip \/ at = 0 \/ (at = 1 /\ down) THEN 0 ELSE 1
      BY <1>1, <2>1
    <2>5. /\ instrumented <=> ~wiring.skip /\ (at > 2 \/ ~down)
          /\ measured <=> ~wiring.skip /\ ~down /\ at <= 1 /\ raised = "none"
          /\ wiring.recovery /\ ~down /\ at <= 2 => raised # "error"
      BY <1>1, <2>1
    <2>6. QED  BY <1>1, <2>1, <2>2, <2>3, <2>4, <2>5 DEF PathInv
  <1>4. SpanInv
    BY <1>1 DEF ChainInit, SpanInv
  <1>5. RouteInv
    BY <1>1, <1>2, ChainAssumption DEF ChainInit, RouteInv, App
  <1>6. PanicsCarryRoute
    BY <1>1 DEF PanicsCarryRoute
  <1>7. QED  BY <1>3, <1>4, <1>5, <1>6

\* A step inside otelhttp: the only way out with an error is past our recovery.
LEMMA InnerStep ==
    ASSUME PathInv, at > 2,
           UNCHANGED <<wiring, active, instrumented, measured>>, ~warned',
           raised' \in {"none", "error", "abort"},
           \/ UNCHANGED controlVars /\ UNCHANGED <<raised, origin>>
           \/ Forward /\ down /\ at < Len(Chain(wiring)) /\ UNCHANGED <<raised, origin>>
           \/ Back,
           wiring.recovery /\ at = 3 => raised' # "error"
    PROVE  PathInv'
  <1>1. Len(Chain(wiring)) \in Nat /\ at \in 3..Len(Chain(wiring))
    BY LayerPlace DEF PathInv
  <1>2. wiring' \in Wirings /\ down' \in BOOLEAN /\ instrumented' \in BOOLEAN /\ measured' \in BOOLEAN
    BY DEF PathInv, controlVars, Forward, Back
  <1>3. at' \in 2..Len(Chain(wiring)) /\ (at' = 2 => ~down')
    BY <1>1 DEF controlVars, Forward, Back
  <1>4. down' => down /\ raised' = raised /\ origin' = origin
    BY DEF controlVars, Forward, Back
  <1>5. /\ active' = IF wiring'.skip \/ at' = 0 \/ (at' = 1 /\ down') THEN 0 ELSE 1
        /\ instrumented' <=> ~wiring'.skip /\ (at' > 2 \/ ~down')
        /\ down' => raised' = "none" /\ origin' = None
        /\ measured' <=> ~wiring'.skip /\ ~down' /\ at' <= 1 /\ raised' = "none"
    <2>1. active' = IF wiring'.skip \/ at' = 0 \/ (at' = 1 /\ down') THEN 0 ELSE 1
      <3>1. active = IF wiring.skip THEN 0 ELSE 1
        BY <1>1 DEF PathInv
      <3>2. QED  BY <1>3, <3>1
    <2>2. instrumented' <=> ~wiring'.skip /\ (at' > 2 \/ ~down')
      <3>1. instrumented <=> ~wiring.skip
        BY <1>1 DEF PathInv
      <3>2. QED  BY <1>3, <3>1
    <2>3. down' => raised' = "none" /\ origin' = None
      BY <1>4 DEF PathInv
    <2>4. measured' <=> ~wiring'.skip /\ ~down' /\ at' <= 1 /\ raised' = "none"
      <3>1. ~measured
        BY <1>1 DEF PathInv
      <3>2. QED  BY <1>3, <3>1
    <2>5. QED  BY <2>1, <2>2, <2>3, <2>4
  <1>6. wiring'.recovery /\ ~down' /\ at' <= 2 => raised' # "error"
    BY <1>1 DEF PathInv, controlVars, Forward, Back
  <1>7. QED
    <2>1. ~warned' /\ at' # 0 /\ at' \in 0..Len(Chain(wiring'))
      BY <1>1, <1>3 DEF PathInv
    <2>2. QED  BY <1>2, <1>5, <1>6, <2>1 DEF PathInv

\* What the router or the application do to the route of the request.
LEMMA InnerRoute ==
    ASSUME PathInv, RouteInv, at > 2, at # Tag(wiring), UNCHANGED <<wiring, labeler>>,
           at' \in {at - 1, at, at + 1},
           origin' = origin \/ (origin' = Layer /\ at' = at - 1)
    PROVE  RouteInv'
  <1>1. at \in Nat /\ Tag(wiring) \in Nat /\ (Layer \in {"after", "handler"} => at > Tag(wiring))
    BY LayerPlace DEF PathInv
  <1>2. at' >= Tag(wiring) \/ at < Tag(wiring)
    BY <1>1
  <1>3. at' > Tag(wiring) => at > Tag(wiring)
    BY <1>1
  <1>4. QED  BY <1>1, <1>2, <1>3 DEF RouteInv

\* StampRoute gives the labeler and the span the same route, once there is one.
LEMMA StampRouteStamps ==
    ASSUME PathInv, SpanInv, at > 2, NEW route \in Routes \cup {None}, StampRoute(route)
    PROVE  /\ ~warned'
           /\ route = None \/ wiring.skip => labeler' = labeler /\ span' = span
           /\ route # None /\ ~wiring.skip =>
                 /\ labeler' = route
                 /\ span' \in Spans /\ span'.route = route /\ span'.name.route = route
  <1>1. CASE route = None \/ wiring.skip
    BY <1>1 DEF StampRoute, PathInv
  <1>2. CASE route # None /\ ~wiring.skip
    <2>1. instrumented /\ ~warned
      BY <1>2 DEF PathInv
    <2>2. span # None
      BY <2>1, ChainAssumption DEF SpanInv
    <2> DEFINE m == IF wiring.std THEN "std" ELSE "raw"
    <2>3. /\ labeler' = route
          /\ span' = [name |-> [method |-> m, route |-> route], route |-> route]
      BY <1>2, <2>1, <2>2 DEF StampRoute
    <2>4. m \in {"std", "raw"}
      OBVIOUS
    <2> HIDE DEF m
    <2>5. ~warned'
      BY <1>2, <2>1 DEF StampRoute
    <2>6. [method |-> m, route |-> route] \in SpanNames
      BY <2>4 DEF SpanNames
    <2>7. span' \in Spans /\ span'.route = route /\ span'.name.route = route
      BY <2>3, <2>6 DEF Spans
    <2>8. QED  BY <1>2, <2>3, <2>5, <2>7
  <1>3. QED  BY <1>1, <1>2

\* RouteTag, before or after next.
LEMMA RouteTagStep ==
    ASSUME ChainInv, PathInv, SpanInv, RouteInv, RouteTag \/ ChiRouteTag, at > 0
    PROVE  PathInv' /\ SpanInv' /\ RouteInv'
  <1>1. /\ at = Tag(wiring) /\ at > 2 /\ at \in Nat /\ at < Len(Chain(wiring))
        /\ UNCHANGED <<wiring, panicVars, active, instrumented, measured, metricRoute>>
    <2>1. Layer = "RouteTag" /\ UNCHANGED <<wiring, panicVars, active, instrumented, measured, metricRoute>>
      BY DEF RouteTag, ChiRouteTag
    <2>2. QED  BY <2>1, LayerPlace
  <1>2. \/ Forward /\ down
        \/ Back /\ ~down
    BY DEF RouteTag, ChiRouteTag
  <1>3. /\ raised' \in {"none", "error", "abort"} /\ UNCHANGED <<raised, origin>>
        /\ wiring.recovery /\ at = 3 => raised' # "error"
    <2>1. ~(wiring.recovery /\ at = 3)
      BY <1>1, LayerPlace DEF RouteTag, ChiRouteTag
    <2>2. UNCHANGED <<raised, origin>>
      BY <1>1 DEF panicVars
    <2>3. QED  BY <2>1, <2>2 DEF ChainInv, PanicTypes
  <1> DEFINE stamps == (wiring.adapter = "chi" /\ ~down) \/ (wiring.adapter # "chi" /\ down)
  <1>4. CASE ~stamps
    <2>1. UNCHANGED <<labeler, span>> /\ ~warned'
      BY <1>4 DEF RouteTag, ChiRouteTag, PathInv
    <2>2. PathInv'
      BY <1>1, <1>2, <1>3, <2>1, InnerStep
    <2>3. SpanInv'
      BY <1>1, <2>1 DEF SpanInv
    <2>4. RouteInv'
      <3>1. CASE wiring.adapter = "chi" /\ down
        <4>1. origin = None /\ origin' = None
          BY <1>1, <3>1 DEF PathInv, panicVars
        <4>2. None \notin {"after", "handler"}
          BY ChainAssumption DEF App
        <4>3. QED  BY <1>1, <2>1, <3>1, <4>1, <4>2 DEF RouteInv
      <3>2. CASE wiring.adapter # "chi" /\ ~down
        <4>1. Back
          BY <1>2, <3>2
        <4>2. ~(at' > Tag(wiring))
          BY <1>1, <4>1 DEF Back
        <4>3. origin' = origin /\ labeler' = labeler /\ wiring' = wiring
          BY <1>1, <2>1 DEF panicVars
        <4>4. QED  BY <3>2, <4>2, <4>3 DEF RouteInv
      <3>3. QED  BY <1>4, <3>1, <3>2
    <2>5. QED  BY <2>2, <2>3, <2>4
  <1>5. CASE stamps
    <2>1. StampRoute(MatchedRoute) /\ MatchedRoute \in Routes \cup {None}
      BY <1>5, MatchedRouteType DEF RouteTag, ChiRouteTag
    <2>2. /\ ~warned'
          /\ MatchedRoute = None \/ wiring.skip => labeler' = labeler /\ span' = span
          /\ MatchedRoute # None /\ ~wiring.skip =>
                /\ labeler' = MatchedRoute
                /\ span' \in Spans /\ span'.route = MatchedRoute /\ span'.name.route = MatchedRoute
      BY <1>1, <2>1, StampRouteStamps
    <2>3. PathInv'
      BY <1>1, <1>2, <1>3, <2>2, InnerStep
    <2>4. SpanInv'
      <3>1. ~measured
        BY <1>1 DEF PathInv
      <3>2. instrumented <=> ~wiring.skip
        BY <1>1 DEF PathInv
      <3>3. CASE MatchedRoute = None \/ wiring.skip
        BY <1>1, <2>2, <3>3 DEF SpanInv
      <3>4. CASE MatchedRoute # None /\ ~wiring.skip
        BY <1>1, <2>2, <3>1, <3>2, <3>4 DEF SpanInv
      <3>5. QED  BY <3>3, <3>4
    <2>5. RouteInv'
      <3>1. wiring.matched /\ ~wiring.skip => labeler' # None
        <4>1. wiring.matched => MatchedRoute \in {"mount", "template"}
          BY DEF MatchedRoute
        <4>2. None \notin {"mount", "template"}
          BY ChainAssumption DEF Routes
        <4>3. QED  BY <2>2, <4>1, <4>2
      <3>2. ~wiring.matched => labeler' \in {None, "mount"}
        <4>1. ~wiring.matched => MatchedRoute \in {"mount", None}
          BY DEF MatchedRoute
        <4>2. labeler' = labeler \/ labeler' = MatchedRoute
          BY <2>2
        <4>3. QED  BY <4>1, <4>2 DEF RouteInv
      <3>3. QED  BY <1>1, <3>1, <3>2 DEF RouteInv
    <2>6. QED  BY <2>3, <2>4, <2>5
  <1>6. QED  BY <1>4, <1>5

\* The outermost layers leave the route alone.
LEMMA OuterRoute ==
    ASSUME PathInv, RouteInv, at \in {1, 2}, at' \in {0, 1, 2, 3},
           UNCHANGED <<wiring, labeler, origin>>
    PROVE  RouteInv'
  <1>1. Tag(wiring) \in Nat /\ 3 <= Tag(wiring)
    BY LayerPlace
  <1>2. ~(at >= Tag(wiring)) /\ ~(at' > Tag(wiring))
    BY <1>1
  <1>3. QED  BY <1>2 DEF RouteInv

\* countActive counts on the way down, and off on the way up.
LEMMA CountActiveStep ==
    ASSUME PathInv, SpanInv, RouteInv, CountActive, at > 0
    PROVE  PathInv' /\ SpanInv' /\ RouteInv'
  <1>1. /\ at = 1 /\ Len(Chain(wiring)) \in Nat /\ 2 <= Len(Chain(wiring))
        /\ UNCHANGED <<wiring, raised, origin, instrumented, labeler, span, measured, metricRoute, warned>>
    BY LayerPlace DEF CountActive, panicVars
  <1>2. down \in BOOLEAN /\ instrumented \in BOOLEAN /\ measured \in BOOLEAN /\ wiring \in Wirings
        /\ ~warned
    BY DEF PathInv
  <1>3. /\ SpanInv'
        /\ wiring' \in Wirings /\ instrumented' \in BOOLEAN /\ measured' \in BOOLEAN /\ ~warned'
    BY <1>1, <1>2 DEF SpanInv
  <1>4. CASE down
    <2>1. at' = 2 /\ down' = TRUE /\ active' = (IF wiring.skip THEN active ELSE active + 1)
      BY <1>1, <1>4 DEF CountActive, Forward
    <2>2. active = 0 /\ ~instrumented /\ ~measured /\ raised = "none" /\ origin = None
      BY <1>1, <1>4 DEF PathInv
    <2>3. at' \in 0..Len(Chain(wiring')) /\ at' # 0 /\ down' \in BOOLEAN /\ down'
      BY <1>1, <2>1
    <2>4. active' = IF wiring'.skip \/ at' = 0 \/ (at' = 1 /\ down') THEN 0 ELSE 1
      BY <1>1, <2>1, <2>2
    <2>5. /\ instrumented' <=> ~wiring'.skip /\ (at' > 2 \/ ~down')
          /\ measured' <=> ~wiring'.skip /\ ~down' /\ at' <= 1 /\ raised' = "none"
      BY <1>1, <2>1, <2>2, <2>3
    <2>6. PathInv'
      BY <1>1, <1>3, <2>2, <2>3, <2>4, <2>5 DEF PathInv
    <2>7. QED  BY <1>1, <1>3, <2>1, <2>6, OuterRoute
  <1>5. CASE ~down
    <2>1. at' = 0 /\ down' = FALSE /\ active' = (IF wiring.skip THEN active ELSE active - 1)
      BY <1>1, <1>5 DEF CountActive, Back
    <2>2. /\ active = IF wiring.skip THEN 0 ELSE 1
          /\ instrumented <=> ~wiring.skip
          /\ measured <=> ~wiring.skip /\ raised = "none"
          /\ wiring.recovery => raised # "error"
      BY <1>1, <1>5 DEF PathInv
    <2>3. at' \in 0..Len(Chain(wiring'))
      BY <1>1, <2>1
    <2>4. down' \in BOOLEAN /\ ~down'
      BY <2>1
    <2>5. active' = IF wiring'.skip \/ at' = 0 \/ (at' = 1 /\ down') THEN 0 ELSE 1
      BY <1>1, <2>1, <2>2
    <2>6. /\ instrumented' <=> ~wiring'.skip /\ (at' > 2 \/ ~down')
          /\ measured' <=> ~wiring'.skip /\ ~down' /\ at' <= 1 /\ raised' = "none"
      BY <1>1, <2>1, <2>2, <2>4
    <2>7. PathInv'
      BY <1>1, <1>3, <2>2, <2>4, <2>5, <2>6, <2>3 DEF PathInv
    <2>8. QED  BY <1>1, <1>3, <2>1, <2>7, OuterRoute
  <1>6. QED  BY <1>4, <1>5

\* otelhttp starts the span of a request that is not skipped, and names it.
LEMMA StartSpanStep ==
    ASSUME PathInv, SpanInv, RouteInv, StartSpan, at > 0
    PROVE  PathInv' /\ SpanInv' /\ RouteInv'
  <1>1. /\ at = 2 /\ Len(Chain(wiring)) \in Nat /\ 3 <= Len(Chain(wiring))
        /\ UNCHANGED <<wiring, raised, origin, active, labeler, measured, metricRoute, warned>>
        /\ down /\ at' = 3 /\ down' = TRUE
    BY LayerPlace DEF StartSpan, panicVars, Forward
  <1>2. /\ active = (IF wiring.skip THEN 0 ELSE 1) /\ ~instrumented /\ ~measured
        /\ raised = "none" /\ origin = None /\ ~warned /\ wiring \in Wirings /\ measured \in BOOLEAN
    BY <1>1 DEF PathInv
  <1>3. labeler = None /\ span = None
    BY <1>2 DEF SpanInv
  <1>4. CASE wiring.skip
    <2>1. UNCHANGED <<instrumented, span>> /\ instrumented \in BOOLEAN
      BY <1>4 DEF StartSpan, PathInv
    <2>2. SpanInv'
      BY <1>1, <2>1 DEF SpanInv
    <2>3. ~instrumented' /\ instrumented' \in BOOLEAN
      BY <1>2, <2>1
    <2>4. QED  BY <1>1, <1>2, <1>4, <2>2, <2>3, OuterRoute DEF PathInv
  <1>5. CASE ~wiring.skip
    <2>1. instrumented' = TRUE /\ span' = [name |-> SpanName(None), route |-> None]
      BY <1>5 DEF StartSpan
    <2>2. SpanName(None) \in SpanNames
      BY DEF SpanName, SpanNames, Routes
    <2>3. span' \in Spans /\ span'.route = None
      BY <2>1, <2>2 DEF Spans
    <2>4. instrumented' /\ instrumented' \in BOOLEAN /\ ~measured'
      BY <1>1, <1>2, <2>1
    <2>5. SpanInv'
      BY <1>1, <1>3, <2>3, <2>4 DEF SpanInv
    <2>6. QED  BY <1>1, <1>2, <1>5, <2>4, <2>5, OuterRoute DEF PathInv
  <1>6. QED  BY <1>4, <1>5

\* After next it names the span by the labeler's route and records the duration under
\* it, unless a panic passes by.
LEMMA EndSpanStep ==
    ASSUME PathInv, SpanInv, RouteInv, EndSpan, at > 0
    PROVE  PathInv' /\ SpanInv' /\ RouteInv'
  <1>1. /\ at = 2 /\ Len(Chain(wiring)) \in Nat /\ 3 <= Len(Chain(wiring))
        /\ UNCHANGED <<wiring, raised, origin, active, instrumented, labeler, warned>>
        /\ ~down /\ at' = 1 /\ down' = FALSE
    BY LayerPlace DEF EndSpan, panicVars, Back
  <1>2. /\ active = (IF wiring.skip THEN 0 ELSE 1) /\ (instrumented <=> ~wiring.skip) /\ ~measured
        /\ (wiring.recovery => raised # "error") /\ ~warned /\ wiring \in Wirings
        /\ instrumented \in BOOLEAN /\ measured \in BOOLEAN
    BY <1>1 DEF PathInv
  <1>3. CASE instrumented /\ raised = "none"
    <2>1. /\ measured' = TRUE /\ metricRoute' = labeler
          /\ span' = IF wiring.mounted THEN [span EXCEPT !.name = SpanName(labeler)] ELSE span
      BY <1>3 DEF EndSpan
    <2>2. span \in Spans /\ span.route = labeler /\ (labeler # None => span.name.route = labeler)
      BY <1>3 DEF SpanInv
    <2>3. labeler \in Routes \cup {None}
      BY <2>2 DEF Spans
    <2>4. SpanName(labeler) \in SpanNames /\ (labeler # None => SpanName(labeler).route = labeler)
      BY <2>3 DEF SpanName, SpanNames, Routes
    <2>5. /\ span' \in Spans /\ span'.route = labeler
          /\ labeler # None => span'.name.route = labeler
      BY <2>1, <2>2, <2>4 DEF Spans
    <2>6. measured' /\ measured' \in BOOLEAN
      BY <2>1
    <2>7. SpanInv'
      BY <1>1, <1>3, <2>1, <2>5 DEF SpanInv
    <2>8. PathInv'
      <3>1. at' \in 0..Len(Chain(wiring')) /\ at' # 0 /\ at' <= 2
        BY <1>1
      <3>2. down' \in BOOLEAN /\ ~down'
        BY <1>1
      <3>3. active' = IF wiring'.skip \/ at' = 0 \/ (at' = 1 /\ down') THEN 0 ELSE 1
        BY <1>1, <1>2
      <3>4. measured' <=> ~wiring'.skip /\ ~down' /\ at' <= 1 /\ raised' = "none"
        BY <1>1, <1>2, <1>3, <2>6
      <3>5. QED  BY <1>1, <1>2, <2>6, <3>1, <3>3, <3>4, <3>2 DEF PathInv
    <2>9. QED  BY <1>1, <2>7, <2>8, OuterRoute
  <1>4. CASE ~(instrumented /\ raised = "none")
    <2>1. UNCHANGED <<span, measured, metricRoute>>
      BY <1>4 DEF EndSpan
    <2>2. SpanInv'
      BY <1>1, <2>1 DEF SpanInv
    <2>3. ~measured' /\ measured' \in BOOLEAN
      BY <1>2, <2>1
    <2>4. PathInv'
      <3>1. at' \in 0..Len(Chain(wiring')) /\ at' # 0 /\ at' <= 2
        BY <1>1
      <3>2. down' \in BOOLEAN /\ ~down'
        BY <1>1
      <3>3. active' = IF wiring'.skip \/ at' = 0 \/ (at' = 1 /\ down') THEN 0 ELSE 1
        BY <1>1, <1>2
      <3>4. measured' <=> ~wiring'.skip /\ ~down' /\ at' <= 1 /\ raised' = "none"
        BY <1>1, <1>2, <1>4, <2>3
      <3>5. QED  BY <1>1, <1>2, <2>3, <3>1, <3>3, <3>4, <3>2 DEF PathInv
    <2>5. QED  BY <1>1, <2>2, <2>4, OuterRoute
  <1>5. QED  BY <1>3, <1>4

\* The router's recoveries and the application are inside otelhttp.
LEMMA InnerKeeps ==
    ASSUME PathInv, SpanInv, RouteInv, at > 0,
           Layer \notin {"countActive", "otelhttp", "RouteTag"},
           UNCHANGED <<wiring, telemetryVars>>,
           raised' \in {"none", "error", "abort"},
           \/ UNCHANGED controlVars /\ UNCHANGED <<raised, origin>>
           \/ Forward /\ down /\ Layer # "handler" /\ UNCHANGED <<raised, origin>>
           \/ Back /\ origin' \in {origin, Layer},
           wiring.recovery /\ Layer = "Recovery" => raised' # "error"
    PROVE  PathInv' /\ SpanInv' /\ RouteInv'
  <1>1. /\ at > 2 /\ at # Tag(wiring) /\ at \in Nat
        /\ Layer # "handler" => at < Len(Chain(wiring))
        /\ wiring.recovery /\ at = 3 => Layer = "Recovery"
    BY LayerPlace
  <1>2. UNCHANGED <<wiring, active, instrumented, measured>> /\ ~warned'
    BY DEF telemetryVars, PathInv
  <1>3. \/ UNCHANGED controlVars /\ UNCHANGED <<raised, origin>>
        \/ Forward /\ down /\ at < Len(Chain(wiring)) /\ UNCHANGED <<raised, origin>>
        \/ Back
    BY <1>1
  <1>4. PathInv'
    BY <1>1, <1>2, <1>3, InnerStep
  <1>5. SpanInv'
    BY DEF SpanInv, telemetryVars
  <1>6. at' \in {at - 1, at, at + 1} /\ (origin' = origin \/ (origin' = Layer /\ at' = at - 1))
    BY <1>1 DEF controlVars, Forward, Back
  <1>7. RouteInv'
    BY <1>1, <1>6, InnerRoute DEF telemetryVars
  <1>8. QED  BY <1>4, <1>5, <1>7

\* A recovery counts the panic under a route it is entitled to.
LEMMA RecordedCarriesRoute ==
    ASSUME PanicTypes, PanicsCarryRoute, UNCHANGED wiring,
           NEW route \in Routes \cup {None}, Recorded(route),
           IF wiring.matched
           THEN origin \in {"after", "handler"} /\ ~wiring.skip => route # None
           ELSE route \in {None, "mount"}
    PROVE  PanicsCarryRoute'
  <1> DEFINE r == [origin |-> origin, route |-> route]
  <1>1. r.origin = origin /\ r.route = route /\ r \in [origin : App \cup {None}, route : Routes \cup {None}]
    BY DEF PanicTypes
  <1>2. panics' = Append(panics, r)
    BY DEF Recorded
  <1> HIDE DEF r
  <1>3. /\ Len(panics') = Len(panics) + 1 /\ Len(panics) \in Nat
        /\ panics'[Len(panics) + 1] = r
        /\ \A i \in 1..Len(panics) : panics'[i] = panics[i]
    BY <1>1, <1>2 DEF PanicTypes
  <1> SUFFICES ASSUME NEW i \in 1..Len(panics')
               PROVE  IF wiring.matched
                      THEN panics'[i].origin \in {"after", "handler"} /\ ~wiring.skip
                           => panics'[i].route # None
                      ELSE panics'[i].route \in {None, "mount"}
    BY DEF PanicsCarryRoute
  <1>4. CASE i \in 1..Len(panics)
    BY <1>3, <1>4 DEF PanicsCarryRoute
  <1>5. CASE i = Len(panics) + 1
    BY <1>1, <1>3, <1>5
  <1>6. QED  BY <1>3, <1>4, <1>5

\* Every step keeps the telemetry of the request consistent.
LEMMA RequestInvStep == RequestInv /\ [ChainNext]_chainVars => RequestInv'
  <1> SUFFICES ASSUME RequestInv, [ChainNext]_chainVars
               PROVE  RequestInv'
    OBVIOUS
  <1> USE DEF RequestInv
  <1>1. ChainInv'
    BY ChainInvStep
  <1>2. UNCHANGED <<wiring, panics>> => PanicsCarryRoute'
    BY DEF PanicsCarryRoute
  <1>3. raised \in {"none", "error", "abort"} /\ raised' \in {"none", "error", "abort"}
    BY <1>1 DEF ChainInv, PanicTypes
  <1>4. CASE at > 0 /\ (CountActive \/ StartSpan \/ EndSpan)
    <2>1. UNCHANGED <<wiring, panics>>
      BY <1>4 DEF CountActive, StartSpan, EndSpan, panicVars
    <2>2. QED  BY <1>1, <1>2, <1>4, <2>1, CountActiveStep, StartSpanStep, EndSpanStep
  <1>5. CASE at > 0 /\ (RouteTag \/ ChiRouteTag)
    <2>1. UNCHANGED <<wiring, panics>>
      BY <1>5 DEF RouteTag, ChiRouteTag, panicVars
    <2>2. QED  BY <1>1, <1>2, <1>5, <2>1, RouteTagStep
  <1>6. CASE at > 0 /\ PassRecovery
    <2>1. /\ UNCHANGED <<wiring, panicVars, telemetryVars>>
          /\ Layer \in {"Recovery", "AdapterRecovery", "own"}
          /\ (Forward /\ down) \/ (Back /\ raised # "error")
      BY <1>6 DEF PassRecovery
    <2>2. PathInv' /\ SpanInv' /\ RouteInv'
      <3>1. down => raised # "error"
        BY DEF PathInv
      <3>2. Layer \notin {"countActive", "otelhttp", "RouteTag"} \cup App
        BY <2>1 DEF App
      <3>3. Layer # "handler" /\ UNCHANGED <<raised, origin>>
        BY <2>1, <3>2 DEF App, panicVars
      <3>4. QED  BY <1>3, <1>6, <2>1, <3>1, <3>2, <3>3, InnerKeeps
    <2>3. QED  BY <1>1, <1>2, <2>1, <2>2 DEF panicVars
  <1>7. CASE at > 0 /\ (Recovery \/ AdapterRecovery \/ OwnRecovery)
    <2>1. /\ UNCHANGED <<wiring, telemetryVars, origin>> /\ Back /\ raised' = "none"
          /\ Layer \in {"Recovery", "AdapterRecovery", "own"}
      BY <1>7 DEF Recovery, AdapterRecovery, OwnRecovery, Recorded
    <2>2. Layer \notin {"countActive", "otelhttp", "RouteTag"} \cup App
      BY <2>1 DEF App
    <2>3. PathInv' /\ SpanInv' /\ RouteInv'
      BY <1>3, <1>7, <2>1, <2>2, InnerKeeps
    <2>4. PanicsCarryRoute'
      <3>1. CASE Recovery
        <4>1. Recorded(labeler) /\ labeler \in Routes \cup {None}
          BY <3>1 DEF Recovery, ChainInv, PanicTypes
        <4>2. Tag(wiring) \in Int /\ at \in Int /\ at < Tag(wiring)
          BY <1>7, <3>1, LayerPlace DEF Recovery
        <4>3. IF wiring.matched
              THEN origin \in {"after", "handler"} /\ ~wiring.skip => labeler # None
              ELSE labeler \in {None, "mount"}
          BY <4>2 DEF RouteInv
        <4>4. QED  BY <2>1, <4>1, <4>3, RecordedCarriesRoute DEF ChainInv
      <3>2. CASE AdapterRecovery
        <4>1. Recorded(MatchedRoute) /\ wiring.adapter # "chi"
          BY <3>2 DEF AdapterRecovery
        <4>2. IF wiring.matched THEN MatchedRoute # None ELSE MatchedRoute = None
          BY <4>1, ChainAssumption DEF MatchedRoute, Routes
        <4>3. QED  BY <2>1, <4>1, <4>2, MatchedRouteType, RecordedCarriesRoute DEF ChainInv
      <3>3. CASE OwnRecovery
        BY <1>2, <2>1, <3>3 DEF OwnRecovery
      <3>4. QED  BY <1>7, <3>1, <3>2, <3>3
    <2>5. QED  BY <1>1, <2>3, <2>4
  <1>8. CASE at > 0 /\ (CallNext \/ Return)
    <2>1. /\ UNCHANGED <<wiring, panicVars, telemetryVars>> /\ Layer \in App
          /\ (Forward /\ down /\ Layer # "handler") \/ Back
      BY <1>8 DEF CallNext, Return, App
    <2>2. Layer \notin {"countActive", "otelhttp", "RouteTag", "Recovery"}
      BY <2>1 DEF App
    <2>3. PathInv' /\ SpanInv' /\ RouteInv'
      BY <1>3, <1>8, <2>1, <2>2, InnerKeeps DEF panicVars
    <2>4. QED  BY <1>1, <1>2, <2>1, <2>3 DEF panicVars
  <1>9. ASSUME at > 0, NEW kind \in Commits, Respond(kind)
        PROVE  RequestInv'
    <2>1. UNCHANGED <<wiring, controlVars, panicVars, telemetryVars>> /\ Layer \in App
      BY <1>9 DEF Respond
    <2>2. Layer \notin {"countActive", "otelhttp", "RouteTag", "Recovery"}
      BY <2>1 DEF App
    <2>3. PathInv' /\ SpanInv' /\ RouteInv'
      BY <1>3, <1>9, <2>1, <2>2, InnerKeeps DEF panicVars
    <2>4. QED  BY <1>1, <1>2, <2>1, <2>3 DEF panicVars
  <1>10. ASSUME at > 0, NEW p \in {"error", "abort"}, Panic(p)
         PROVE  RequestInv'
    <2>1. /\ UNCHANGED <<wiring, panics, telemetryVars>> /\ Layer \in App
          /\ Back /\ origin' = Layer
      BY <1>10 DEF Panic
    <2>2. Layer \notin {"countActive", "otelhttp", "RouteTag", "Recovery"}
      BY <2>1 DEF App
    <2>3. PathInv' /\ SpanInv' /\ RouteInv'
      BY <1>3, <1>10, <2>1, <2>2, InnerKeeps
    <2>4. QED  BY <1>1, <1>2, <2>1, <2>3
  <1>11. CASE UNCHANGED chainVars
    <2>1. UNCHANGED <<wiring, controlVars, panicVars, telemetryVars>>
      BY <1>11 DEF chainVars
    <2>2. PathInv'
      BY <2>1 DEF PathInv, controlVars, panicVars, telemetryVars
    <2>3. SpanInv' /\ RouteInv'
      BY <2>1 DEF SpanInv, RouteInv, controlVars, panicVars, telemetryVars
    <2>4. QED  BY <1>1, <1>2, <2>1, <2>2, <2>3 DEF panicVars
  <1>12. CASE at > 0 /\ EnterMount
    <2>1. UNCHANGED <<wiring, controlVars, panicVars, telemetryVars>> /\ Layer \in App
      BY <1>12 DEF EnterMount, App
    <2>2. Layer \notin {"countActive", "otelhttp", "RouteTag", "Recovery"}
      BY <2>1 DEF App
    <2>3. PathInv' /\ SpanInv' /\ RouteInv'
      BY <1>3, <1>12, <2>1, <2>2, InnerKeeps DEF panicVars
    <2>4. QED  BY <1>1, <1>2, <2>1, <2>3 DEF panicVars
  <1>13. QED
    BY <1>4, <1>5, <1>6, <1>7, <1>8, <1>9, <1>10, <1>11, <1>12 DEF ChainNext

\* The telemetry of a request is consistent wherever the request is.
THEOREM RequestInvariance == ChainSpec => []RequestInv
  <1>1. ChainInit => RequestInv
    BY ChainInvInit, RequestInit DEF RequestInv
  <1>2. QED  BY <1>1, RequestInvStep, PTL DEF ChainSpec

\* A request is measured unless it was skipped or a panic escaped, and leaves no count.
THEOREM RequestsMeasured == ChainSpec => []MeasuredUnlessSkipped
  <1>1. RequestInv => MeasuredUnlessSkipped
    <2> SUFFICES ASSUME RequestInv, at = 0
                 PROVE  /\ measured <=> ~wiring.skip /\ raised = "none"
                        /\ wiring.recovery => raised # "error"
                        /\ active = 0
                        /\ wiring.skip => span = None
                        /\ ~warned
      BY DEF MeasuredUnlessSkipped, Returned
    <2>1. ~down
      BY DEF RequestInv, PathInv
    <2>2. QED  BY <2>1 DEF RequestInv, PathInv, SpanInv
  <1>2. QED  BY <1>1, RequestInvariance, PTL

\* The span and the metric of a measured request agree on its route.
THEOREM SpansAgree == ChainSpec => []SpanAgreesWithMetric
  <1>1. RequestInv => SpanAgreesWithMetric
    <2> SUFFICES ASSUME RequestInv, at = 0, measured
                 PROVE  /\ span.route = metricRoute
                        /\ span.route # None => span.name.route = span.route
      BY DEF SpanAgreesWithMetric, Returned
    <2>1. instrumented
      BY DEF RequestInv, PathInv
    <2>2. QED  BY <2>1 DEF RequestInv, SpanInv
  <1>2. QED  BY <1>1, RequestInvariance, PTL

\* A panic behind RouteTag is counted under the route of its request.
THEOREM PanicsAlwaysCarryRoute == ChainSpec => []PanicsCarryRoute
  <1>1. RequestInv => PanicsCarryRoute
    BY DEF RequestInv
  <1>2. QED  BY <1>1, RequestInvariance, PTL
=============================================================================
