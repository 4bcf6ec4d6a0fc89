-------------------------- MODULE BackendsProofs ---------------------------
(* Proofs about the devices of the two backends that MCBackends puts side  *)
(* by side: LinuxGamepad and WindowsGamepad for any number of reports,     *)
(* orders, effects and events, LinuxDesktop for any contacts, slots and    *)
(* distances, and WindowsDesktop for any contacts, motions, distances,     *)
(* calls, and keys that are told apart.                                    *)
EXTENDS MCBackends, SequenceTheorems, FunctionTheorems, FiniteSetTheorems, SequenceProofs, TLAPS

-----------------------------------------------------------------------------
(* LinuxGamepad: the parts of its inductive invariant.                     *)

\* Who makes a report has the mutex.
MutexHeld ==
  /\ mutex \in {"free", "client", "reporter"}
  /\ mutex = "client" <=> client \in {"submitting", "recording"}
  /\ mutex = "reporter" <=> reporter = "packed"

\* What the host was shown, what is remembered, and what a report under way is made of.
NewestShown ==
  /\ client # "recording" => shown = last \/ partly
  /\ client = "recording" => shown = sent
  /\ reporter = "packed" => packed = last

\* Which devices and threads there are at each step of a creation and of close().
DeviceFollowsClient ==
  /\ client \in {"idle", "starting", "opening", "failed", "closed"} => devices = {}
  /\ client = "waiting" => devices = {"uhid"}
  /\ client \in {"stopping", "abandoning"} => devices \subseteq {"uhid"}
  /\ client \in {"ready", "submitting", "recording", "joining"} => devices = {backend}
  /\ client \in {"idle", "starting", "waiting", "stopping", "abandoning", "opening", "failed"}
       => reporter = "none"
  /\ client \in {"opening", "failed", "ending", "closed"} =>
       reader \in {"none", "exited"} /\ reporter \in {"none", "exited"}
  /\ client = "idle" => reader = "none"

LinuxInv == MutexHeld /\ NewestShown /\ DeviceFollowsClient

\* The steps of the gamepad keep its inductive invariant.
LEMMA LinuxNext ==
  ASSUME LinuxInv, [LinuxGamepad!Next]_(LinuxGamepad!vars)
  PROVE  LinuxInv'
<1> USE DEF LinuxInv, MutexHeld, NewestShown, DeviceFollowsClient
<1>1. ASSUME LinuxGamepad!OpenUhid
      PROVE  LinuxInv'
  BY <1>1 DEF LinuxGamepad!OpenUhid, LinuxGamepad!PrefersUhid, LinuxGamepad!stateVars,
    LinuxGamepad!kernelVars, LinuxGamepad!hostVars, LinuxGamepad!rumbleVars
<1>2. ASSUME LinuxGamepad!NoUhid
      PROVE  LinuxInv'
  BY <1>2 DEF LinuxGamepad!NoUhid, LinuxGamepad!UsesUinput, LinuxGamepad!threadVars,
    LinuxGamepad!stateVars, LinuxGamepad!kernelVars, LinuxGamepad!hostVars,
    LinuxGamepad!rumbleVars
<1>3. ASSUME LinuxGamepad!SetOutputCallback
      PROVE  LinuxInv'
  BY <1>3 DEF LinuxGamepad!SetOutputCallback, LinuxGamepad!threadVars,
    LinuxGamepad!stateVars, LinuxGamepad!kernelVars, LinuxGamepad!hostVars
<1>4. ASSUME LinuxGamepad!Submit
      PROVE  LinuxInv'
  BY <1>4 DEF LinuxGamepad!Submit, LinuxGamepad!PrefersUhid, LinuxGamepad!threadVars,
    LinuxGamepad!kernelVars, LinuxGamepad!hostVars, LinuxGamepad!rumbleVars
<1>5. ASSUME LinuxGamepad!Close
      PROVE  LinuxInv'
  BY <1>5 DEF LinuxGamepad!Close, LinuxGamepad!stateVars, LinuxGamepad!kernelVars,
    LinuxGamepad!hostVars, LinuxGamepad!rumbleVars
<1>6. ASSUME LinuxGamepad!CreateUhid
      PROVE  LinuxInv'
  BY <1>6 DEF LinuxGamepad!CreateUhid, LinuxGamepad!threadVars, LinuxGamepad!stateVars,
    LinuxGamepad!hostVars, LinuxGamepad!rumbleVars
<1>7. ASSUME LinuxGamepad!WaitForStart
      PROVE  LinuxInv'
  BY <1>7 DEF LinuxGamepad!WaitForStart, LinuxGamepad!Periodic, LinuxGamepad!stateVars,
    LinuxGamepad!kernelVars, LinuxGamepad!hostVars, LinuxGamepad!rumbleVars
<1>8. ASSUME LinuxGamepad!StopReader
      PROVE  LinuxInv'
  BY <1>8 DEF LinuxGamepad!StopReader, LinuxGamepad!stateVars, LinuxGamepad!kernelVars,
    LinuxGamepad!hostVars, LinuxGamepad!rumbleVars
<1>9. ASSUME LinuxGamepad!Abandon
      PROVE  LinuxInv'
  BY <1>9 DEF LinuxGamepad!Abandon, LinuxGamepad!UsesUinput, LinuxGamepad!threadVars,
    LinuxGamepad!stateVars, LinuxGamepad!hostVars, LinuxGamepad!rumbleVars
<1>10. ASSUME LinuxGamepad!OpenUinput
      PROVE  LinuxInv'
  BY <1>10 DEF LinuxGamepad!OpenUinput, LinuxGamepad!stateVars, LinuxGamepad!hostVars,
    LinuxGamepad!rumbleVars
<1>11. ASSUME LinuxGamepad!WriteState
      PROVE  LinuxInv'
  BY <1>11 DEF LinuxGamepad!WriteState, LinuxGamepad!threadVars, LinuxGamepad!kernelVars,
    LinuxGamepad!hostVars, LinuxGamepad!rumbleVars
<1>12. ASSUME LinuxGamepad!RecordState
      PROVE  LinuxInv'
  BY <1>12 DEF LinuxGamepad!RecordState, LinuxGamepad!threadVars, LinuxGamepad!kernelVars,
    LinuxGamepad!hostVars, LinuxGamepad!rumbleVars
<1>13. ASSUME LinuxGamepad!Join
      PROVE  LinuxInv'
  BY <1>13 DEF LinuxGamepad!Join, LinuxGamepad!threadVars, LinuxGamepad!stateVars,
    LinuxGamepad!kernelVars, LinuxGamepad!hostVars, LinuxGamepad!rumbleVars
<1>14. ASSUME LinuxGamepad!Destroy
      PROVE  LinuxInv'
  BY <1>14 DEF LinuxGamepad!Destroy, LinuxGamepad!threadVars, LinuxGamepad!stateVars,
    LinuxGamepad!hostVars
<1>15. ASSUME LinuxGamepad!ReadEvent
      PROVE  LinuxInv'
  BY <1>15 DEF LinuxGamepad!ReadEvent, LinuxGamepad!stateVars, LinuxGamepad!kernelVars,
    LinuxGamepad!hostVars, LinuxGamepad!rumbleVars
<1>16. ASSUME LinuxGamepad!HandleEvent
      PROVE  LinuxInv'
  BY <1>16 DEF LinuxGamepad!HandleEvent, LinuxGamepad!hostVars, LinuxGamepad!rumbleVars
<1>17. ASSUME LinuxGamepad!ReaderExits
      PROVE  LinuxInv'
  BY <1>17 DEF LinuxGamepad!ReaderExits, LinuxGamepad!stateVars, LinuxGamepad!kernelVars,
    LinuxGamepad!hostVars, LinuxGamepad!rumbleVars
<1>18. ASSUME LinuxGamepad!ReadOrder
      PROVE  LinuxInv'
  BY <1>18 DEF LinuxGamepad!ReadOrder, LinuxGamepad!stateVars, LinuxGamepad!hostVars
<1>19. ASSUME LinuxGamepad!UpdateRumble
      PROVE  LinuxInv'
  BY <1>19 DEF LinuxGamepad!UpdateRumble, LinuxGamepad!stateVars, LinuxGamepad!kernelVars,
    LinuxGamepad!hostVars
<1>20. ASSUME LinuxGamepad!Pack
      PROVE  LinuxInv'
  BY <1>20 DEF LinuxGamepad!Pack, LinuxGamepad!kernelVars, LinuxGamepad!hostVars,
    LinuxGamepad!rumbleVars
<1>21. ASSUME LinuxGamepad!Repeat
      PROVE  LinuxInv'
  BY <1>21 DEF LinuxGamepad!Repeat, LinuxGamepad!kernelVars, LinuxGamepad!hostVars,
    LinuxGamepad!rumbleVars
<1>22. ASSUME LinuxGamepad!ReporterExits
      PROVE  LinuxInv'
  BY <1>22 DEF LinuxGamepad!ReporterExits, LinuxGamepad!stateVars, LinuxGamepad!kernelVars,
    LinuxGamepad!hostVars, LinuxGamepad!rumbleVars
<1>23. ASSUME LinuxGamepad!ReadFails
      PROVE  LinuxInv'
  BY <1>23 DEF LinuxGamepad!ReadFails, LinuxGamepad!stateVars, LinuxGamepad!kernelVars,
    LinuxGamepad!hostVars, LinuxGamepad!rumbleVars
<1>24. ASSUME NEW op \in {"start", "output", "get_report", "set_report"},
              LinuxGamepad!KernelSends(op)
      PROVE  LinuxInv'
  BY <1>24 DEF LinuxGamepad!KernelSends, LinuxGamepad!threadVars, LinuxGamepad!stateVars,
    LinuxGamepad!rumbleVars
<1>25. ASSUME NEW order \in LinuxGamepad!Orders, LinuxGamepad!HostOrders(order)
      PROVE  LinuxInv'
  BY <1>25 DEF LinuxGamepad!HostOrders, LinuxGamepad!PrefersUhid, LinuxGamepad!threadVars,
    LinuxGamepad!stateVars, LinuxGamepad!rumbleVars
<1>26. ASSUME LinuxGamepad!Tick
      PROVE  LinuxInv'
  BY <1>26 DEF LinuxGamepad!Tick, LinuxGamepad!threadVars, LinuxGamepad!stateVars,
    LinuxGamepad!kernelVars
<1>27. ASSUME LinuxGamepad!Done
      PROVE  LinuxInv'
  BY <1>27 DEF LinuxGamepad!Done, LinuxGamepad!vars, LinuxGamepad!threadVars,
    LinuxGamepad!stateVars, LinuxGamepad!kernelVars, LinuxGamepad!hostVars,
    LinuxGamepad!rumbleVars
<1>28. CASE UNCHANGED LinuxGamepad!vars
  BY <1>28 DEF LinuxGamepad!vars, LinuxGamepad!threadVars, LinuxGamepad!stateVars,
    LinuxGamepad!kernelVars, LinuxGamepad!hostVars, LinuxGamepad!rumbleVars
<1> HIDE DEF LinuxInv, MutexHeld, NewestShown, DeviceFollowsClient
<1>29. QED
  BY <1>1, <1>2, <1>3, <1>4, <1>5, <1>6, <1>7, <1>8, <1>9, <1>10, <1>11, <1>12, <1>13,
    <1>14, <1>15, <1>16, <1>17, <1>18, <1>19, <1>20, <1>21, <1>22, <1>23, <1>24, <1>25,
    <1>26, <1>27, <1>28 DEF
    LinuxGamepad!Next, LinuxGamepad!ClientSteps, LinuxGamepad!ReaderSteps,
    LinuxGamepad!ReporterSteps

-----------------------------------------------------------------------------
(* LinuxGamepad: the rumble of a uinput device.  The host's orders are in  *)
(* the queue; what the reader keeps of an effect becomes, order by order,  *)
(* what the host has of it.                                                *)

\* What the reader has of an effect, as the host would say it.
Gone == [known |-> FALSE, length |-> 0, start |-> 0, count |-> 0, active |-> FALSE]
Fresh(l) == [known |-> TRUE, length |-> l, start |-> 0, count |-> 1, active |-> FALSE]
Seen(id) ==
  IF id \in DOMAIN effects
    THEN [known |-> TRUE, length |-> effects[id].length, start |-> effects[id].start,
          count |-> effects[id].count, active |-> effects[id].active /\ now < effects[id].end]
    ELSE Gone
Views == [known : BOOLEAN, length : Nat, start : Nat, count : Nat, active : BOOLEAN]

\* What an order makes of it.
Longer(v, l) ==
  [v EXCEPT !.length = l, !.active = now < LinuxGamepad!EndOf([v EXCEPT !.length = l])]
After(o, id, v) ==
  IF o.id # id THEN v
  ELSE CASE o.op = "upload" -> IF v.active THEN Longer(v, o.length) ELSE Fresh(o.length)
         [] o.op = "erase" -> Gone
         [] o.op = "play" -> IF v.known
                               THEN [v EXCEPT !.active = TRUE, !.start = now, !.count = o.value]
                               ELSE v
         [] o.op = "stop" -> [v EXCEPT !.active = FALSE]
         [] OTHER -> v

\* What the host has of the effect.
Host(id, v) ==
  /\ v.known <=> id \in DOMAIN defined
  /\ v.known => defined[id] = v.length
  /\ v.active => v.known
  /\ v.active <=> id \in DOMAIN playing
  /\ v.active => playing[id].from = v.start /\ playing[id].count = v.count

\* The way from what the reader has to what the host has, order by order.
Leads(path, id) ==
  /\ path \in [1..(Len(queue) + 1) -> Views]
  /\ path[1] = Seen(id)
  /\ \A i \in 1..Len(queue) : path[i + 1] = After(queue[i], id, path[i])
  /\ Host(id, path[Len(queue) + 1])
CatchesUp(id) == \E path \in [1..(Len(queue) + 1) -> Views] : Leads(path, id)

\* An effect as the reader keeps it; until the reader looks at the clock, which it has
\* to after an upload, one that is over may be called active.
EffectStates == [length : Nat, start : Nat, count : Nat \ {0}, end : Nat, active : BOOLEAN]
Timed(e) == e \in EffectStates /\ (e.active => e.end = LinuxGamepad!EndOf(e))
EffectsTimed ==
  /\ now \in 0..MaxTime
  /\ DOMAIN effects \subseteq Effects
  /\ \A id \in DOMAIN effects : Timed(effects[id])
  /\ updated /\ reader # "updating" =>
       \A id \in DOMAIN effects : effects[id].active => now < effects[id].end

\* The backend is chosen once, and without a uinput device there are no effects.
BackendChosen ==
  /\ backend \in {"none", "uhid", "uinput"}
  /\ client \in {"idle", "starting", "waiting", "stopping", "abandoning", "opening", "failed",
                 "ready", "submitting", "recording", "joining", "ending", "closed"}
  /\ client \in {"idle", "starting", "waiting", "stopping", "abandoning", "opening", "failed"}
       => backend = "none"
  /\ client = "ending" => devices = {backend}
  /\ client \in {"idle", "opening"} => queue = <<>>
  /\ reader = "handling" => backend # "uinput"
  /\ backend # "uinput" =>
       /\ effects = <<>> /\ gain = 1 /\ told = 0 /\ updated
       /\ defined = <<>> /\ playing = <<>>
  /\ backend = "uinput" /\ queue # <<>> => updated

\* While there is a uinput device every effect is on its way to what the host has.
OrdersLead ==
  backend = "uinput" /\ client # "closed" =>
    /\ queue \in Seq(LinuxGamepad!Orders)
    /\ DOMAIN playing \subseteq Effects
    /\ \A id \in Effects : CatchesUp(id)

\* The last rumble told is that of the effects that were active when it was told.
ToldIsSum ==
  /\ ~missed => felt = told
  /\ client = "closed" => told = 0
  /\ backend = "uinput" /\ client # "closed" /\ updated /\ reader = "reading" =>
       told = gain * LinuxGamepad!SumSet({id \in DOMAIN effects : effects[id].active})

RumbleInv == BackendChosen /\ EffectsTimed /\ OrdersLead /\ ToldIsSum

\* No effect, no rumble.
LEMMA SumOfNone == LinuxGamepad!SumSet({}) = 0
<1> DEFINE Sums(sum) == [s \in SUBSET {} |-> IF s = {} THEN 0
                          ELSE LET x == CHOOSE x \in s : TRUE IN x + sum[s \ {x}]]
           sums == CHOOSE sum : sum = Sums(sum)
<1>1. Sums([s \in SUBSET {} |-> 0]) = [s \in SUBSET {} |-> 0]
  OBVIOUS
<1>2. sums = Sums(sums)
  BY <1>1
<1>3. LinuxGamepad!SumSet({}) = sums[{}]
  BY DEF LinuxGamepad!SumSet, LinuxGamepad!FoldSet, LinuxGamepad!MapThenFoldSet
<1>4. QED
  BY <1>2, <1>3

\* What the orders of the host are made of.
LEMMA OrderTypes ==
  ASSUME NEW o \in LinuxGamepad!Orders
  PROVE  /\ o.length \in Nat /\ o.value \in Nat
         /\ o.op \in {"upload", "play", "erase", "stop"} => o.id \in Effects
         /\ o.op = "play" => o.value # 0
BY BackendsAssumption DEF LinuxGamepad!GamepadAssumption, LinuxGamepad!Orders, LinuxGamepad!Order

\* What the reader has of an effect is a view of it, and so is what an order makes of one.
LEMMA SeenView ==
  ASSUME EffectsTimed, NEW id
  PROVE  Seen(id) \in Views
BY DEF EffectsTimed, Timed, EffectStates, Seen, Views, Gone

LEMMA AfterView ==
  ASSUME EffectsTimed, NEW o \in LinuxGamepad!Orders, NEW id, NEW v \in Views
  PROVE  After(o, id, v) \in Views
<1>1. o.length \in Nat /\ o.value \in Nat /\ now \in Nat
  BY OrderTypes, BackendsAssumption DEF EffectsTimed, LinuxGamepad!GamepadAssumption
<1>2. Longer(v, o.length) \in Views
  <2>1. ASSUME NEW t \in BOOLEAN
        PROVE  [v EXCEPT !.length = o.length, !.active = t] \in Views
    BY <1>1 DEF Views
  <2>2. (now < LinuxGamepad!EndOf([v EXCEPT !.length = o.length])) \in BOOLEAN
    OBVIOUS
  <2>3. QED
    BY <2>1, <2>2 DEF Longer
<1>3. /\ [v EXCEPT !.active = TRUE, !.start = now, !.count = o.value] \in Views
      /\ [v EXCEPT !.active = FALSE] \in Views /\ Gone \in Views /\ Fresh(o.length) \in Views
  BY <1>1 DEF Views, Gone, Fresh
<1>4. QED
  BY <1>2, <1>3 DEF After

\* What an order makes of a view that the host agrees with, the host agrees with too.
LEMMA HostGoesOn ==
  ASSUME EffectsTimed, DOMAIN playing \subseteq Effects,
         NEW o \in LinuxGamepad!Orders, LinuxGamepad!HostOrders(o),
         NEW id \in Effects, NEW v \in Views, Host(id, v)
  PROVE  Host(id, After(o, id, v))'
<1> DEFINE w == After(o, id, v)
<1>1. w' = w
  BY DEF LinuxGamepad!HostOrders, After, Longer, LinuxGamepad!EndOf
<1>2. CASE o.id # id
  <2>1. w = v
    BY <1>2 DEF After
  <2>2. /\ id \in DOMAIN defined' <=> id \in DOMAIN defined
        /\ id \in DOMAIN defined => defined'[id] = defined[id]
        /\ id \in DOMAIN playing' <=> id \in DOMAIN playing
        /\ id \in DOMAIN playing => playing'[id] = playing[id]
    BY <1>2 DEF LinuxGamepad!HostOrders, LinuxGamepad!Put, LinuxGamepad!Drop
  <2>3. QED
    BY <1>1, <2>1, <2>2 DEF Host
<1>3. CASE o.id = id /\ o.op = "upload"
  <2>1. /\ o.length \in Nat /\ now \in 0..MaxTime /\ MaxTime \in Nat
    BY OrderTypes, BackendsAssumption DEF EffectsTimed, LinuxGamepad!GamepadAssumption
  <2>2. /\ defined' = LinuxGamepad!Put(defined, id, o.length)
        /\ playing' = IF id \in DOMAIN playing /\ ~LinuxGamepad!Plays(id, o.length, now)
                        THEN LinuxGamepad!Drop(playing, id) ELSE playing
    BY <1>3 DEF LinuxGamepad!HostOrders
  <2>3. id \in DOMAIN defined' /\ defined'[id] = o.length
    BY <2>2 DEF LinuxGamepad!Put
  <2>4. CASE v.active
    <3>1. w = Longer(v, o.length)
      BY <1>3, <2>4 DEF After
    <3>2. /\ w.known = v.known /\ w.length = o.length /\ w.start = v.start
          /\ w.count = v.count
          /\ w.active = (now < (IF o.length = 0 THEN MaxTime + 1
                                               ELSE v.start + o.length * v.count))
      BY <3>1 DEF Longer, Views, LinuxGamepad!EndOf
    <3>3. /\ id \in DOMAIN playing /\ v.known
          /\ playing[id].from = v.start /\ playing[id].count = v.count
      BY <2>4 DEF Host
    <3>4. w.active <=> LinuxGamepad!Plays(id, o.length, now)
      <4>1. LinuxGamepad!Plays(id, o.length, now) <=>
              o.length = 0 \/ now < v.start + o.length * v.count
        BY <3>3 DEF LinuxGamepad!Plays
      <4>2. now < MaxTime + 1
        BY <2>1
      <4>3. CASE o.length = 0
        BY <3>2, <4>1, <4>2, <4>3
      <4>4. CASE o.length # 0
        BY <3>2, <4>1, <4>4
      <4>5. QED
        BY <4>3, <4>4
    <3>5. /\ w.active <=> id \in DOMAIN playing'
          /\ w.active => playing' = playing
      BY <2>2, <3>3, <3>4 DEF LinuxGamepad!Drop
    <3>6. QED
      BY <1>1, <2>3, <3>2, <3>3, <3>5 DEF Host
  <2>5. CASE ~v.active
    <3>1. w = Fresh(o.length)
      BY <1>3, <2>5 DEF After
    <3>2. id \notin DOMAIN playing
      BY <2>5 DEF Host
    <3>3. id \notin DOMAIN playing'
      BY <2>2, <3>2
    <3>4. QED
      BY <1>1, <2>3, <3>1, <3>3 DEF Host, Fresh
  <2>6. QED
    BY <2>4, <2>5
<1>4. CASE o.id = id /\ o.op = "erase"
  <2>1. w = Gone
    BY <1>4 DEF After
  <2>2. id \notin DOMAIN defined' /\ id \notin DOMAIN playing'
    BY <1>4 DEF LinuxGamepad!HostOrders, LinuxGamepad!Drop
  <2>3. QED
    BY <1>1, <2>1, <2>2 DEF Host, Gone
<1>5. CASE o.id = id /\ o.op = "play"
  <2>1. /\ id \in DOMAIN defined /\ defined' = defined
        /\ playing' = LinuxGamepad!Put(playing, id, [from |-> now, count |-> o.value])
    BY <1>5 DEF LinuxGamepad!HostOrders
  <2>2. id \in DOMAIN playing' /\ playing'[id].from = now /\ playing'[id].count = o.value
    BY <2>1 DEF LinuxGamepad!Put
  <2>3. w = [v EXCEPT !.active = TRUE, !.start = now, !.count = o.value] /\ v.known
    BY <1>5, <2>1 DEF After, Host
  <2>4. /\ w.known = v.known /\ w.length = v.length
        /\ w.active /\ w.start = now /\ w.count = o.value
    BY <2>3 DEF Views
  <2>5. QED
    BY <1>1, <2>1, <2>2, <2>3, <2>4 DEF Host
<1>6. CASE o.id = id /\ o.op = "stop"
  <2>1. w = [v EXCEPT !.active = FALSE]
    BY <1>6 DEF After
  <2>2. w.known = v.known /\ w.length = v.length /\ ~w.active
    BY <2>1 DEF Views
  <2>3. id \notin DOMAIN playing' /\ defined' = defined
    BY <1>6 DEF LinuxGamepad!HostOrders, LinuxGamepad!Drop
  <2>4. QED
    BY <1>1, <2>2, <2>3 DEF Host
<1>7. CASE o.id = id /\ o.op \notin {"upload", "erase", "play", "stop"}
  <2>1. w = v
    BY <1>7 DEF After
  <2>2. UNCHANGED <<defined, playing>>
    BY <1>7 DEF LinuxGamepad!HostOrders
  <2>3. QED
    BY <1>1, <2>1, <2>2 DEF Host
<1>8. QED
  BY <1>2, <1>3, <1>4, <1>5, <1>6, <1>7

\* Two views that agree in every field are the same.
Same(v, w) ==
  /\ v.known = w.known /\ v.length = w.length /\ v.start = w.start
  /\ v.count = w.count /\ v.active = w.active

LEMMA SameView ==
  ASSUME NEW v \in Views, NEW w \in Views, Same(v, w)
  PROVE  v = w
BY DEF Same, Views

\* Reading an order makes of what the reader has what the order says.
LEMMA ReadKeepsTime ==
  ASSUME EffectsTimed, updated, LinuxGamepad!ReadOrder,
         NEW o \in LinuxGamepad!Orders, o = Head(queue)
  PROVE  /\ EffectsTimed'
         /\ \A id : Seen(id)' = After(o, id, Seen(id))
<1> DEFINE old == effects[o.id]
           new == effects'[o.id]
           before == Seen(o.id)
           after == Seen(o.id)'
           Others == \A id : id # o.id =>
                        Seen(id)' = Seen(id) /\ After(o, id, Seen(id)) = Seen(id)
<1>1. /\ o.length \in Nat /\ o.value \in Nat
      /\ now \in Nat /\ now < MaxTime + 1 /\ MaxTime \in Nat
      /\ o.op \in {"upload", "play", "erase", "stop"} => o.id \in Effects
      /\ o.op = "play" => o.value \in Nat \ {0}
  BY OrderTypes, BackendsAssumption DEF EffectsTimed, LinuxGamepad!GamepadAssumption
<1>2. UNCHANGED <<now, updated>> /\ reader # "updating" /\ reader' \in {"batch", "updating"}
  BY DEF LinuxGamepad!ReadOrder, LinuxGamepad!hostVars
<1>3. \A id \in DOMAIN effects :
        /\ Timed(effects[id]) /\ effects[id] \in EffectStates
        /\ effects[id].active => now < effects[id].end
  BY <1>2 DEF EffectsTimed, Timed, EffectStates
<1>4. ASSUME DOMAIN effects' \subseteq Effects,
             \A id \in DOMAIN effects' \ {o.id} :
               id \in DOMAIN effects /\ effects'[id] = effects[id],
             o.id \in DOMAIN effects' =>
               /\ Timed(new)
               /\ o.op = "upload" \/ (new.active => now < new.end)
      PROVE  EffectsTimed'
  <2>1. o.op = "upload" => reader' = "updating"
    BY DEF LinuxGamepad!ReadOrder
  <2>2. \A id \in DOMAIN effects' : Timed(effects'[id])
    BY <1>3, <1>4
  <2>3. QED
    BY <1>2, <1>3, <1>4, <2>1, <2>2 DEF EffectsTimed
<1>5. \A id : Seen(id) \in Views /\ After(o, id, Seen(id)) \in Views
  <2>1. \A id : Seen(id) \in Views
    BY SeenView
  <2>2. ASSUME NEW id
        PROVE  After(o, id, Seen(id)) \in Views
    BY <2>1, AfterView
  <2>3. QED
    BY <2>1, <2>2
<1>6. ASSUME EffectsTimed', Others, Same(after, After(o, o.id, before))
      PROVE  \A id : Seen(id)' = After(o, id, Seen(id))
  <2>1. after \in Views
    BY <1>6 DEF EffectsTimed, Timed, EffectStates, Seen, Views, Gone
  <2>2. after = After(o, o.id, before)
    BY <1>5, <1>6, <2>1, SameView
  <2>3. QED
    BY <1>6, <2>2
<1>7. CASE o.op = "upload"
  <2>1. /\ effects' = LinuxGamepad!Put(effects, o.id, LinuxGamepad!Uploaded(o.id, o.length))
        /\ reader' = "updating"
    BY <1>7 DEF LinuxGamepad!ReadOrder
  <2>2. o.id \in DOMAIN effects' /\ new = LinuxGamepad!Uploaded(o.id, o.length)
    BY <2>1 DEF LinuxGamepad!Put
  <2>3. Others
    BY <1>2, <2>1 DEF Seen, After, LinuxGamepad!Put
  <2>4. ASSUME Timed(new)
        PROVE  EffectsTimed'
    BY <1>1, <1>3, <1>4, <1>7, <2>1, <2>4 DEF EffectsTimed, LinuxGamepad!Put
  <2> DEFINE plain == [length |-> o.length, start |-> 0, count |-> 1, end |-> 0, active |-> FALSE]
             kept == [plain EXCEPT !.active = TRUE, !.start = old.start, !.count = old.count]
             stop == LinuxGamepad!EndOf(kept)
             on == [kept EXCEPT !.end = stop]
  <2>5. CASE o.id \in DOMAIN effects /\ old.active
    <3>1. new = on
      BY <2>2, <2>5 DEF LinuxGamepad!Uploaded
    <3>2. old.start \in Nat /\ old.count \in Nat \ {0} /\ old.length \in Nat
      BY <1>3, <2>5 DEF EffectStates
    <3>3. stop = IF o.length = 0 THEN MaxTime + 1 ELSE old.start + o.length * old.count
      BY DEF LinuxGamepad!EndOf
    <3>4. stop \in Nat
      BY <1>1, <3>2, <3>3
    <3>5. /\ new.length = o.length /\ new.start = old.start /\ new.count = old.count
          /\ new.end = stop /\ new.active = TRUE
      BY <3>1
    <3>6. Timed(new)
      <4>1. on \in EffectStates
        BY <1>1, <3>2, <3>4 DEF EffectStates
      <4>2. LinuxGamepad!EndOf(new) = stop
        BY <3>3, <3>5 DEF LinuxGamepad!EndOf
      <4>3. QED
        BY <2>1, <3>1, <3>5, <4>1, <4>2 DEF Timed, EffectStates
    <3>7. /\ before.known = TRUE /\ before.length = old.length /\ before.start = old.start
          /\ before.count = old.count /\ before.active
      BY <1>3, <2>5 DEF Seen
    <3>8. /\ after.known = TRUE /\ after.length = o.length /\ after.start = old.start
          /\ after.count = old.count /\ after.active = (now < stop)
      BY <1>2, <2>2, <3>5 DEF Seen
    <3>9. After(o, o.id, before) = Longer(before, o.length)
      BY <1>7, <3>7 DEF After
    <3>10. LinuxGamepad!EndOf([before EXCEPT !.length = o.length]) = stop
      BY <1>5, <3>3, <3>7 DEF LinuxGamepad!EndOf, Views
    <3>11. Same(after, Longer(before, o.length))
      BY <1>5, <3>7, <3>8, <3>10 DEF Same, Longer, Views
    <3>12. QED
      BY <1>6, <2>3, <2>4, <3>6, <3>9, <3>11
  <2>6. CASE ~(o.id \in DOMAIN effects /\ old.active)
    <3>1. new = plain
      BY <2>2, <2>6 DEF LinuxGamepad!Uploaded
    <3>2. Timed(new)
      <4>1. plain \in EffectStates
        BY <1>1 DEF EffectStates
      <4>2. QED
        BY <3>1, <4>1 DEF Timed, EffectStates
    <3>3. ~before.active
      BY <2>6 DEF Seen, Gone
    <3>4. After(o, o.id, before) = Fresh(o.length)
      BY <1>7, <3>3 DEF After
    <3>5. Same(after, Fresh(o.length))
      <4>1. new.length = o.length /\ new.start = 0 /\ new.count = 1 /\ new.active = FALSE
        BY <3>1
      <4>2. /\ after.known = TRUE /\ after.length = o.length /\ after.start = 0
            /\ after.count = 1 /\ after.active = FALSE
        BY <2>2, <4>1 DEF Seen
      <4>3. QED
        BY <4>2 DEF Fresh, Same
    <3>6. QED
      BY <1>6, <2>3, <2>4, <3>2, <3>4, <3>5
  <2>7. QED
    BY <2>5, <2>6
<1>8. CASE o.op = "erase"
  <2>1. effects' = LinuxGamepad!Drop(effects, o.id)
    BY <1>8 DEF LinuxGamepad!ReadOrder
  <2>2. EffectsTimed'
    BY <1>4, <2>1 DEF EffectsTimed, LinuxGamepad!Drop
  <2>3. after = Gone
    BY <2>1 DEF Seen, LinuxGamepad!Drop
  <2>4. After(o, o.id, before) = Gone
    BY <1>8 DEF After
  <2>5. Others
    BY <1>2, <2>1 DEF Seen, After, LinuxGamepad!Drop
  <2>6. QED
    BY <1>6, <2>2, <2>3, <2>4, <2>5 DEF Same
<1>9. CASE o.op = "play" /\ o.id \in DOMAIN effects
  <2> DEFINE begun == [old EXCEPT !.active = TRUE, !.start = now, !.count = o.value]
             stop == LinuxGamepad!EndOf(begun)
             on == [begun EXCEPT !.end = stop]
  <2>1. effects' = LinuxGamepad!Put(effects, o.id, on)
    BY <1>9 DEF LinuxGamepad!ReadOrder, LinuxGamepad!Played
  <2>2. old \in EffectStates
    BY <1>3, <1>9
  <2>3. stop = IF old.length = 0 THEN MaxTime + 1 ELSE now + old.length * o.value
    BY <2>2 DEF LinuxGamepad!EndOf, EffectStates
  <2>4. stop \in Nat /\ now < stop
    <3>1. old.length # 0 => old.length * o.value \in Nat \ {0}
      BY <1>1, <1>9, <2>2 DEF EffectStates
    <3>2. QED
      BY <1>1, <2>3, <3>1
  <2>5. o.id \in DOMAIN effects' /\ new = on
    BY <2>1 DEF LinuxGamepad!Put
  <2>6. /\ new.length = old.length /\ new.start = now /\ new.count = o.value
        /\ new.end = stop /\ new.active = TRUE
    BY <2>2, <2>5 DEF EffectStates
  <2>7. Timed(new)
    <3>1. on \in EffectStates
      BY <1>1, <1>9, <2>2, <2>4 DEF EffectStates
    <3>2. LinuxGamepad!EndOf(new) = stop
      BY <1>2, <2>3, <2>6 DEF LinuxGamepad!EndOf
    <3>3. QED
      BY <1>2, <2>4, <2>5, <2>6, <3>1, <3>2 DEF Timed, EffectStates
  <2>8. EffectsTimed'
    BY <1>1, <1>4, <1>9, <2>1, <2>4, <2>6, <2>7 DEF EffectsTimed, LinuxGamepad!Put
  <2>9. /\ after.known = TRUE /\ after.length = old.length /\ after.start = now
        /\ after.count = o.value /\ after.active = TRUE
    BY <1>2, <2>4, <2>5, <2>6 DEF Seen
  <2>10. before.known = TRUE /\ before.length = old.length
    BY <1>9 DEF Seen
  <2>11. After(o, o.id, before) = [before EXCEPT !.active = TRUE, !.start = now, !.count = o.value]
    BY <1>9, <2>10 DEF After
  <2>12. Same(after, After(o, o.id, before))
    BY <1>5, <2>9, <2>10, <2>11 DEF Same, Views
  <2>13. Others
    BY <1>2, <2>1 DEF Seen, After, LinuxGamepad!Put
  <2>14. QED
    BY <1>6, <2>8, <2>12, <2>13
<1>10. CASE o.op = "stop" /\ o.id \in DOMAIN effects
  <2> DEFINE off == [old EXCEPT !.active = FALSE]
  <2>1. effects' = [effects EXCEPT ![o.id] = off]
    BY <1>10 DEF LinuxGamepad!ReadOrder
  <2>2. old \in EffectStates
    BY <1>3, <1>10
  <2>3. DOMAIN effects' = DOMAIN effects /\ new = off
    BY <1>10, <2>1
  <2>4. Timed(new) /\ ~new.active
    <3>1. off \in EffectStates /\ ~off.active
      BY <2>2 DEF EffectStates
    <3>2. QED
      BY <2>3, <3>1 DEF Timed
  <2>5. EffectsTimed'
    BY <1>4, <2>1, <2>3, <2>4 DEF EffectsTimed
  <2>6. /\ after.known = TRUE /\ after.length = old.length /\ after.start = old.start
        /\ after.count = old.count /\ after.active = FALSE
    BY <1>10, <2>2, <2>3 DEF Seen, EffectStates
  <2>7. /\ before.known = TRUE /\ before.length = old.length /\ before.start = old.start
        /\ before.count = old.count
    BY <1>10 DEF Seen
  <2>8. After(o, o.id, before) = [before EXCEPT !.active = FALSE]
    BY <1>10 DEF After
  <2>9. Same(after, After(o, o.id, before))
    BY <1>5, <2>6, <2>7, <2>8 DEF Same, Views
  <2>10. Others
    BY <1>2, <2>1, <2>3 DEF Seen, After
  <2>11. QED
    BY <1>6, <2>5, <2>9, <2>10
<1>11. CASE /\ o.op \notin {"upload", "erase"}
            /\ ~(o.op \in {"play", "stop"} /\ o.id \in DOMAIN effects)
  <2>1. effects' = effects
    BY <1>11 DEF LinuxGamepad!ReadOrder
  <2>2. EffectsTimed'
    BY <1>3, <1>4, <2>1 DEF EffectsTimed
  <2>3. \A id : Seen(id)' = Seen(id)
    BY <1>2, <2>1 DEF Seen
  <2>4. Same(before, After(o, o.id, before))
    <3>1. CASE o.op = "play"
      BY <1>11, <3>1 DEF After, Seen, Gone, Same
    <3>2. CASE o.op = "stop"
      <4>1. o.id \notin DOMAIN effects /\ before = Gone
        BY <1>11, <3>2 DEF Seen
      <4>2. After(o, o.id, before) = [Gone EXCEPT !.active = FALSE]
        BY <3>2, <4>1 DEF After
      <4>3. QED
        BY <4>1, <4>2 DEF Same, Gone
    <3>3. CASE o.op \notin {"play", "stop"}
      BY <1>11, <3>3 DEF After, Same
    <3>4. QED
      BY <3>1, <3>2, <3>3
  <2>5. Others
    BY <2>3 DEF After
  <2>6. QED
    BY <1>6, <2>2, <2>3, <2>4, <2>5
<1>12. QED
  BY <1>7, <1>8, <1>9, <1>10, <1>11

\* The order says so at the time at which it was given.
LEMMA AfterKeeps ==
  ASSUME now' = now, NEW o, NEW id, NEW v
  PROVE  After(o, id, v)' = After(o, id, v)
BY DEF After, Longer, LinuxGamepad!EndOf

\* An order that the host adds is one more step of the way.
LEMMA AppendLeads ==
  ASSUME EffectsTimed, DOMAIN playing \subseteq Effects,
         queue \in Seq(LinuxGamepad!Orders),
         NEW o \in LinuxGamepad!Orders, LinuxGamepad!HostOrders(o),
         NEW id \in Effects, CatchesUp(id)
  PROVE  CatchesUp(id)'
<1>1. PICK path \in [1..(Len(queue) + 1) -> Views] : Leads(path, id)
  BY DEF CatchesUp
<1>2. PICK n \in Nat : n = Len(queue)
  OBVIOUS
<1>3. path[n + 1] \in Views
  BY <1>2
<1>4. PICK next :
        next = [i \in 1..(n + 2) |-> IF i = n + 2 THEN After(o, id, path[n + 1]) ELSE path[i]]
  OBVIOUS
<1>5. /\ queue' = Append(queue, o) /\ UNCHANGED <<effects, now>>
  BY DEF LinuxGamepad!HostOrders, LinuxGamepad!rumbleVars
<1>6. /\ Len(queue') = n + 1 /\ queue'[n + 1] = o
      /\ \A i \in 1..n : queue'[i] = queue[i]
  BY <1>2, <1>5
<1>7. next \in [1..(n + 2) -> Views]
  <2>1. After(o, id, path[n + 1]) \in Views
    BY <1>3, AfterView
  <2>2. \A i \in 1..(n + 1) : path[i] \in Views
    BY <1>2
  <2>3. QED
    BY <1>2, <1>4, <2>1, <2>2
<1>8. next[1] = Seen(id)'
  <2>1. next[1] = path[1]
    BY <1>2, <1>4
  <2>2. path[1] = Seen(id)
    BY <1>1 DEF Leads
  <2>3. QED
    BY <1>5, <2>1, <2>2 DEF Seen
<1>9. ASSUME NEW i \in 1..(n + 1)
      PROVE  next[i + 1] = After(queue[i], id, next[i])'
  <2>1. After(queue[i], id, next[i])' = After(queue'[i], id, next[i])
    BY <1>5, AfterKeeps DEF After, Longer, LinuxGamepad!EndOf
  <2>2. CASE i = n + 1
    <3>1. next[i + 1] = After(o, id, path[n + 1]) /\ next[i] = path[n + 1]
      BY <1>2, <1>4, <2>2
    <3>2. QED
      BY <1>6, <2>1, <2>2, <3>1
  <2>3. CASE i \in 1..n
    <3>1. next[i + 1] = path[i + 1] /\ next[i] = path[i]
      BY <1>2, <1>4, <2>3
    <3>2. path[i + 1] = After(queue[i], id, path[i])
      BY <1>1, <1>2, <2>3 DEF Leads
    <3>3. QED
      BY <1>6, <2>1, <2>3, <3>1, <3>2
  <2>4. QED
    BY <1>2, <2>2, <2>3
<1>10. Host(id, next[n + 2])'
  <2>1. Host(id, path[n + 1])
    BY <1>1, <1>2 DEF Leads
  <2>2. Host(id, After(o, id, path[n + 1]))'
    BY <1>3, <2>1, HostGoesOn
  <2>3. After(o, id, path[n + 1])' = After(o, id, path[n + 1])
    BY <1>5, AfterKeeps
  <2>4. next[n + 2] = After(o, id, path[n + 1])
    BY <1>2, <1>4
  <2>5. QED
    BY <2>2, <2>3, <2>4 DEF Host
<1>11. Len(queue') + 1 = n + 2
  BY <1>2, <1>6
<1>12. Leads(next, id)'
  BY <1>6, <1>7, <1>8, <1>9, <1>10, <1>11 DEF Leads
<1>13. QED
  BY <1>7, <1>11, <1>12 DEF CatchesUp

\* An order that is read is the first step of the way.
LEMMA ReadLeads ==
  ASSUME EffectsTimed, updated, LinuxGamepad!ReadOrder,
         queue \in Seq(LinuxGamepad!Orders),
         NEW id \in Effects, CatchesUp(id)
  PROVE  CatchesUp(id)'
<1>1. PICK path \in [1..(Len(queue) + 1) -> Views] : Leads(path, id)
  BY DEF CatchesUp
<1>2. PICK n \in Nat : n = Len(queue)
  OBVIOUS
<1>3. /\ queue # <<>> /\ queue' = Tail(queue) /\ UNCHANGED <<now, defined, playing>>
  BY DEF LinuxGamepad!ReadOrder, LinuxGamepad!hostVars
<1>4. /\ n >= 1 /\ Head(queue) = queue[1] /\ Head(queue) \in LinuxGamepad!Orders
      /\ Len(queue') = n - 1 /\ \A i \in 1..(n - 1) : queue'[i] = queue[i + 1]
  BY <1>2, <1>3
<1>5. PICK next : next = [i \in 1..n |-> path[i + 1]]
  OBVIOUS
<1>6. next \in [1..n -> Views]
  BY <1>2, <1>5
<1>7. next[1] = Seen(id)'
  <2>1. next[1] = path[2] /\ path[2] = path[1 + 1] /\ 1 \in 1..n
    BY <1>2, <1>4, <1>5
  <2>2. path[1] = Seen(id) /\ path[1 + 1] = After(queue[1], id, path[1])
    BY <1>1, <1>2, <2>1 DEF Leads
  <2>3. PICK o \in LinuxGamepad!Orders : o = Head(queue)
    BY <1>4
  <2>4. Seen(id)' = After(o, id, Seen(id))
    BY <2>3, ReadKeepsTime
  <2>5. QED
    BY <1>4, <2>1, <2>2, <2>3, <2>4
<1>8. ASSUME NEW i \in 1..(n - 1)
      PROVE  next[i + 1] = After(queue[i], id, next[i])'
  <2>1. After(queue[i], id, next[i])' = After(queue'[i], id, next[i])
    BY <1>3 DEF After, Longer, LinuxGamepad!EndOf
  <2>2. next[i + 1] = path[(i + 1) + 1] /\ next[i] = path[i + 1] /\ i + 1 \in 1..n
    BY <1>2, <1>5
  <2>3. path[(i + 1) + 1] = After(queue[i + 1], id, path[i + 1])
    BY <1>1, <1>2, <2>2 DEF Leads
  <2>4. QED
    BY <1>4, <2>1, <2>2, <2>3
<1>9. Host(id, next[n])'
  <2>1. Host(id, path[n + 1])
    BY <1>1, <1>2 DEF Leads
  <2>2. next[n] = path[n + 1]
    BY <1>2, <1>4, <1>5
  <2>3. QED
    BY <1>3, <2>1, <2>2 DEF Host
<1>10. Len(queue') + 1 = n
  BY <1>2, <1>4
<1>11. Leads(next, id)'
  BY <1>4, <1>6, <1>7, <1>8, <1>9, <1>10 DEF Leads
<1>12. QED
  BY <1>6, <1>10, <1>11 DEF CatchesUp

\* With nothing to read the host has what the reader has.
LEMMA NothingToRead ==
  ASSUME queue = <<>>, NEW id, CatchesUp(id)
  PROVE  Host(id, Seen(id))
<1>1. PICK path \in [1..(Len(queue) + 1) -> Views] : Leads(path, id)
  BY DEF CatchesUp
<1>2. Len(queue) = 0
  OBVIOUS
<1>3. QED
  BY <1>1, <1>2 DEF Leads

\* The host agrees with the reader: a way of no step.
LEMMA NothingLeads ==
  ASSUME queue' = <<>>, NEW id, Seen(id)' \in Views, Host(id, Seen(id))'
  PROVE  CatchesUp(id)'
<1>1. PICK v \in Views : v = Seen(id)'
  OBVIOUS
<1>2. PICK next : next = [i \in 1..1 |-> v]
  OBVIOUS
<1>3. next \in [1..1 -> Views] /\ next[1] = v
  BY <1>2
<1>4. Len(queue') = 0 /\ Len(queue') + 1 = 1 /\ 1..Len(queue') = {}
  OBVIOUS
<1>5. Host(id, next[1])'
  BY <1>1, <1>3 DEF Host
<1>6. Leads(next, id)'
  BY <1>1, <1>3, <1>4, <1>5 DEF Leads
<1>7. QED
  BY <1>3, <1>4, <1>6 DEF CatchesUp

\* The backend is chosen once, and only a uinput device has effects.
LEMMA BackendNext ==
  ASSUME DeviceFollowsClient, BackendChosen, [LinuxGamepad!Next]_(LinuxGamepad!vars)
  PROVE  BackendChosen'
<1> USE DEF BackendChosen, DeviceFollowsClient
<1>1. ASSUME LinuxGamepad!OpenUhid
      PROVE  BackendChosen'
  BY <1>1 DEF LinuxGamepad!OpenUhid, LinuxGamepad!PrefersUhid, LinuxGamepad!stateVars,
    LinuxGamepad!kernelVars, LinuxGamepad!hostVars, LinuxGamepad!rumbleVars
<1>2. ASSUME LinuxGamepad!NoUhid
      PROVE  BackendChosen'
  BY <1>2 DEF LinuxGamepad!NoUhid, LinuxGamepad!UsesUinput, LinuxGamepad!threadVars,
    LinuxGamepad!stateVars, LinuxGamepad!kernelVars, LinuxGamepad!hostVars,
    LinuxGamepad!rumbleVars
<1>3. ASSUME LinuxGamepad!SetOutputCallback
      PROVE  BackendChosen'
  BY <1>3 DEF LinuxGamepad!SetOutputCallback, LinuxGamepad!threadVars,
    LinuxGamepad!stateVars, LinuxGamepad!kernelVars, LinuxGamepad!hostVars
<1>4. ASSUME LinuxGamepad!Submit
      PROVE  BackendChosen'
  BY <1>4 DEF LinuxGamepad!Submit, LinuxGamepad!PrefersUhid, LinuxGamepad!threadVars,
    LinuxGamepad!kernelVars, LinuxGamepad!hostVars, LinuxGamepad!rumbleVars
<1>5. ASSUME LinuxGamepad!Close
      PROVE  BackendChosen'
  BY <1>5 DEF LinuxGamepad!Close, LinuxGamepad!stateVars, LinuxGamepad!kernelVars,
    LinuxGamepad!hostVars, LinuxGamepad!rumbleVars
<1>6. ASSUME LinuxGamepad!CreateUhid
      PROVE  BackendChosen'
  BY <1>6 DEF LinuxGamepad!CreateUhid, LinuxGamepad!threadVars, LinuxGamepad!stateVars,
    LinuxGamepad!hostVars, LinuxGamepad!rumbleVars
<1>7. ASSUME LinuxGamepad!WaitForStart
      PROVE  BackendChosen'
  BY <1>7 DEF LinuxGamepad!WaitForStart, LinuxGamepad!Periodic, LinuxGamepad!stateVars,
    LinuxGamepad!kernelVars, LinuxGamepad!hostVars, LinuxGamepad!rumbleVars
<1>8. ASSUME LinuxGamepad!StopReader
      PROVE  BackendChosen'
  BY <1>8 DEF LinuxGamepad!StopReader, LinuxGamepad!stateVars, LinuxGamepad!kernelVars,
    LinuxGamepad!hostVars, LinuxGamepad!rumbleVars
<1>9. ASSUME LinuxGamepad!Abandon
      PROVE  BackendChosen'
  BY <1>9 DEF LinuxGamepad!Abandon, LinuxGamepad!UsesUinput, LinuxGamepad!threadVars,
    LinuxGamepad!stateVars, LinuxGamepad!hostVars, LinuxGamepad!rumbleVars
<1>10. ASSUME LinuxGamepad!OpenUinput
      PROVE  BackendChosen'
  BY <1>10 DEF LinuxGamepad!OpenUinput, LinuxGamepad!stateVars, LinuxGamepad!hostVars,
    LinuxGamepad!rumbleVars
<1>11. ASSUME LinuxGamepad!WriteState
      PROVE  BackendChosen'
  BY <1>11 DEF LinuxGamepad!WriteState, LinuxGamepad!threadVars, LinuxGamepad!kernelVars,
    LinuxGamepad!hostVars, LinuxGamepad!rumbleVars
<1>12. ASSUME LinuxGamepad!RecordState
      PROVE  BackendChosen'
  BY <1>12 DEF LinuxGamepad!RecordState, LinuxGamepad!threadVars, LinuxGamepad!kernelVars,
    LinuxGamepad!hostVars, LinuxGamepad!rumbleVars
<1>13. ASSUME LinuxGamepad!Join
      PROVE  BackendChosen'
  BY <1>13 DEF LinuxGamepad!Join, LinuxGamepad!threadVars, LinuxGamepad!stateVars,
    LinuxGamepad!kernelVars, LinuxGamepad!hostVars, LinuxGamepad!rumbleVars
<1>14. ASSUME LinuxGamepad!Destroy
      PROVE  BackendChosen'
  BY <1>14 DEF LinuxGamepad!Destroy, LinuxGamepad!Dispatch, LinuxGamepad!threadVars,
    LinuxGamepad!stateVars, LinuxGamepad!hostVars
<1>15. ASSUME LinuxGamepad!ReadEvent
      PROVE  BackendChosen'
  BY <1>15 DEF LinuxGamepad!ReadEvent, LinuxGamepad!stateVars, LinuxGamepad!kernelVars,
    LinuxGamepad!hostVars, LinuxGamepad!rumbleVars
<1>16. ASSUME LinuxGamepad!HandleEvent
      PROVE  BackendChosen'
  BY <1>16 DEF LinuxGamepad!HandleEvent, LinuxGamepad!hostVars, LinuxGamepad!rumbleVars
<1>17. ASSUME LinuxGamepad!ReaderExits
      PROVE  BackendChosen'
  BY <1>17 DEF LinuxGamepad!ReaderExits, LinuxGamepad!stateVars, LinuxGamepad!kernelVars,
    LinuxGamepad!hostVars, LinuxGamepad!rumbleVars
<1>18. ASSUME LinuxGamepad!ReadOrder
      PROVE  BackendChosen'
  BY <1>18 DEF LinuxGamepad!ReadOrder, LinuxGamepad!stateVars, LinuxGamepad!hostVars
<1>19. ASSUME LinuxGamepad!UpdateRumble
      PROVE  BackendChosen'
  BY <1>19 DEF LinuxGamepad!UpdateRumble, LinuxGamepad!Dispatch, LinuxGamepad!stateVars,
    LinuxGamepad!kernelVars, LinuxGamepad!hostVars
<1>20. ASSUME LinuxGamepad!Pack
      PROVE  BackendChosen'
  BY <1>20 DEF LinuxGamepad!Pack, LinuxGamepad!kernelVars, LinuxGamepad!hostVars,
    LinuxGamepad!rumbleVars
<1>21. ASSUME LinuxGamepad!Repeat
      PROVE  BackendChosen'
  BY <1>21 DEF LinuxGamepad!Repeat, LinuxGamepad!kernelVars, LinuxGamepad!hostVars,
    LinuxGamepad!rumbleVars
<1>22. ASSUME LinuxGamepad!ReporterExits
      PROVE  BackendChosen'
  BY <1>22 DEF LinuxGamepad!ReporterExits, LinuxGamepad!stateVars, LinuxGamepad!kernelVars,
    LinuxGamepad!hostVars, LinuxGamepad!rumbleVars
<1>23. ASSUME LinuxGamepad!ReadFails
      PROVE  BackendChosen'
  BY <1>23 DEF LinuxGamepad!ReadFails, LinuxGamepad!stateVars, LinuxGamepad!kernelVars,
    LinuxGamepad!hostVars, LinuxGamepad!rumbleVars
<1>24. ASSUME NEW op \in {"start", "output", "get_report", "set_report"},
              LinuxGamepad!KernelSends(op)
      PROVE  BackendChosen'
  <2>1. backend # "uinput"
    BY <1>24 DEF LinuxGamepad!KernelSends
  <2>2. QED
    BY <1>24, <2>1 DEF LinuxGamepad!KernelSends, LinuxGamepad!threadVars, LinuxGamepad!stateVars,
      LinuxGamepad!rumbleVars
<1>25. ASSUME NEW order \in LinuxGamepad!Orders, LinuxGamepad!HostOrders(order)
      PROVE  BackendChosen'
  BY <1>25 DEF LinuxGamepad!HostOrders, LinuxGamepad!PrefersUhid, LinuxGamepad!threadVars,
    LinuxGamepad!stateVars, LinuxGamepad!rumbleVars
<1>26. ASSUME LinuxGamepad!Tick
      PROVE  BackendChosen'
  BY <1>26 DEF LinuxGamepad!Tick, LinuxGamepad!threadVars, LinuxGamepad!stateVars,
    LinuxGamepad!kernelVars
<1>27. ASSUME LinuxGamepad!Done
      PROVE  BackendChosen'
  BY <1>27 DEF LinuxGamepad!Done, LinuxGamepad!vars, LinuxGamepad!threadVars,
    LinuxGamepad!stateVars, LinuxGamepad!kernelVars, LinuxGamepad!hostVars,
    LinuxGamepad!rumbleVars
<1>28. CASE UNCHANGED LinuxGamepad!vars
  BY <1>28 DEF LinuxGamepad!vars, LinuxGamepad!threadVars, LinuxGamepad!stateVars,
    LinuxGamepad!kernelVars, LinuxGamepad!hostVars, LinuxGamepad!rumbleVars
<1> HIDE DEF BackendChosen, DeviceFollowsClient
<1>29. QED
  BY <1>1, <1>2, <1>3, <1>4, <1>5, <1>6, <1>7, <1>8, <1>9, <1>10, <1>11, <1>12, <1>13,
    <1>14, <1>15, <1>16, <1>17, <1>18, <1>19, <1>20, <1>21, <1>22, <1>23, <1>24, <1>25,
    <1>26, <1>27, <1>28 DEF
    LinuxGamepad!Next, LinuxGamepad!ClientSteps, LinuxGamepad!ReaderSteps,
    LinuxGamepad!ReporterSteps

\* Steps that do not touch the effects of a uinput device.
Quietly ==
  /\ UNCHANGED <<effects, gain, told, felt, missed, now, updated, defined, playing>>
  /\ backend' = "uinput" <=> backend = "uinput"
  /\ backend = "uinput" =>
       /\ queue' = queue
       /\ reader' = reader \/ (reader # "updating" /\ reader' = "exited")
  /\ client' = "closed" <=> client = "closed"

\* Such steps keep what was said of them.
LEMMA QuietStep ==
  ASSUME RumbleInv, BackendChosen', Quietly
  PROVE  RumbleInv'
<1>1. EffectsTimed'
  <2>1. CASE backend = "uinput"
    BY <2>1 DEF RumbleInv, EffectsTimed, Quietly
  <2>2. CASE backend # "uinput"
    <3>1. effects' = <<>> /\ now' = now
      BY <2>2 DEF RumbleInv, BackendChosen, Quietly
    <3>2. QED
      BY <3>1 DEF RumbleInv, EffectsTimed
  <2>3. QED
    BY <2>1, <2>2
<1>2. OrdersLead'
  <2>1. ASSUME backend = "uinput", NEW id, CatchesUp(id)
        PROVE  CatchesUp(id)'
    <3>1. UNCHANGED <<queue, effects, now, defined, playing>>
      BY <2>1 DEF Quietly
    <3>2. QED
      <4>1. PICK path \in [1..(Len(queue) + 1) -> Views] : Leads(path, id)
        BY <2>1 DEF CatchesUp
      <4>2. \A i : After(queue[i], id, path[i])' = After(queue[i], id, path[i])
        BY <3>1 DEF After, Longer, LinuxGamepad!EndOf
      <4>3. Leads(path, id)'
        BY <3>1, <4>1, <4>2 DEF Leads, Seen, Host
      <4>4. QED
        BY <3>1, <4>3 DEF CatchesUp
  <2>2. QED
    BY <2>1 DEF RumbleInv, OrdersLead, Quietly
<1>3. ToldIsSum'
  BY DEF RumbleInv, ToldIsSum, Quietly
<1>4. QED
  BY <1>1, <1>2, <1>3 DEF RumbleInv

\* All steps but those of the uinput device's opening, its end and its effects.
LEMMA QuietSteps ==
  ASSUME DeviceFollowsClient, BackendChosen, [LinuxGamepad!Next]_(LinuxGamepad!vars)
  PROVE  \/ Quietly
         \/ LinuxGamepad!OpenUinput \/ LinuxGamepad!Destroy \/ LinuxGamepad!Tick
         \/ LinuxGamepad!ReadOrder \/ LinuxGamepad!UpdateRumble
         \/ \E order \in LinuxGamepad!Orders : LinuxGamepad!HostOrders(order)
<1> USE DEF BackendChosen, DeviceFollowsClient
<1>1. ASSUME LinuxGamepad!OpenUhid
      PROVE  Quietly
  BY <1>1 DEF Quietly, LinuxGamepad!OpenUhid, LinuxGamepad!PrefersUhid, LinuxGamepad!stateVars,
    LinuxGamepad!kernelVars, LinuxGamepad!hostVars, LinuxGamepad!rumbleVars
<1>2. ASSUME LinuxGamepad!NoUhid
      PROVE  Quietly
  BY <1>2 DEF Quietly, LinuxGamepad!NoUhid, LinuxGamepad!UsesUinput, LinuxGamepad!threadVars,
    LinuxGamepad!stateVars, LinuxGamepad!kernelVars, LinuxGamepad!hostVars,
    LinuxGamepad!rumbleVars
<1>3. ASSUME LinuxGamepad!SetOutputCallback
      PROVE  Quietly
  BY <1>3 DEF Quietly, LinuxGamepad!SetOutputCallback, LinuxGamepad!threadVars,
    LinuxGamepad!stateVars, LinuxGamepad!kernelVars, LinuxGamepad!hostVars
<1>4. ASSUME LinuxGamepad!Submit
      PROVE  Quietly
  BY <1>4 DEF Quietly, LinuxGamepad!Submit, LinuxGamepad!PrefersUhid, LinuxGamepad!threadVars,
    LinuxGamepad!kernelVars, LinuxGamepad!hostVars, LinuxGamepad!rumbleVars
<1>5. ASSUME LinuxGamepad!Close
      PROVE  Quietly
  BY <1>5 DEF Quietly, LinuxGamepad!Close, LinuxGamepad!stateVars, LinuxGamepad!kernelVars,
    LinuxGamepad!hostVars, LinuxGamepad!rumbleVars
<1>6. ASSUME LinuxGamepad!CreateUhid
      PROVE  Quietly
  BY <1>6 DEF Quietly, LinuxGamepad!CreateUhid, LinuxGamepad!threadVars, LinuxGamepad!stateVars,
    LinuxGamepad!hostVars, LinuxGamepad!rumbleVars
<1>7. ASSUME LinuxGamepad!WaitForStart
      PROVE  Quietly
  BY <1>7 DEF Quietly, LinuxGamepad!WaitForStart, LinuxGamepad!Periodic, LinuxGamepad!stateVars,
    LinuxGamepad!kernelVars, LinuxGamepad!hostVars, LinuxGamepad!rumbleVars
<1>8. ASSUME LinuxGamepad!StopReader
      PROVE  Quietly
  BY <1>8 DEF Quietly, LinuxGamepad!StopReader, LinuxGamepad!stateVars, LinuxGamepad!kernelVars,
    LinuxGamepad!hostVars, LinuxGamepad!rumbleVars
<1>9. ASSUME LinuxGamepad!Abandon
      PROVE  Quietly
  BY <1>9 DEF Quietly, LinuxGamepad!Abandon, LinuxGamepad!UsesUinput, LinuxGamepad!threadVars,
    LinuxGamepad!stateVars, LinuxGamepad!hostVars, LinuxGamepad!rumbleVars
<1>10. ASSUME LinuxGamepad!WriteState
      PROVE  Quietly
  BY <1>10 DEF Quietly, LinuxGamepad!WriteState, LinuxGamepad!threadVars, LinuxGamepad!kernelVars,
    LinuxGamepad!hostVars, LinuxGamepad!rumbleVars
<1>11. ASSUME LinuxGamepad!RecordState
      PROVE  Quietly
  BY <1>11 DEF Quietly, LinuxGamepad!RecordState, LinuxGamepad!threadVars, LinuxGamepad!kernelVars,
    LinuxGamepad!hostVars, LinuxGamepad!rumbleVars
<1>12. ASSUME LinuxGamepad!Join
      PROVE  Quietly
  BY <1>12 DEF Quietly, LinuxGamepad!Join, LinuxGamepad!threadVars, LinuxGamepad!stateVars,
    LinuxGamepad!kernelVars, LinuxGamepad!hostVars, LinuxGamepad!rumbleVars
<1>13. ASSUME LinuxGamepad!ReadEvent
      PROVE  Quietly
  BY <1>13 DEF Quietly, LinuxGamepad!ReadEvent, LinuxGamepad!stateVars, LinuxGamepad!kernelVars,
    LinuxGamepad!hostVars, LinuxGamepad!rumbleVars
<1>14. ASSUME LinuxGamepad!HandleEvent
      PROVE  Quietly
  BY <1>14 DEF Quietly, LinuxGamepad!HandleEvent, LinuxGamepad!hostVars, LinuxGamepad!rumbleVars
<1>15. ASSUME LinuxGamepad!ReaderExits
      PROVE  Quietly
  BY <1>15 DEF Quietly, LinuxGamepad!ReaderExits, LinuxGamepad!stateVars, LinuxGamepad!kernelVars,
    LinuxGamepad!hostVars, LinuxGamepad!rumbleVars
<1>16. ASSUME LinuxGamepad!Pack
      PROVE  Quietly
  BY <1>16 DEF Quietly, LinuxGamepad!Pack, LinuxGamepad!kernelVars, LinuxGamepad!hostVars,
    LinuxGamepad!rumbleVars
<1>17. ASSUME LinuxGamepad!Repeat
      PROVE  Quietly
  BY <1>17 DEF Quietly, LinuxGamepad!Repeat, LinuxGamepad!kernelVars, LinuxGamepad!hostVars,
    LinuxGamepad!rumbleVars
<1>18. ASSUME LinuxGamepad!ReporterExits
      PROVE  Quietly
  BY <1>18 DEF Quietly, LinuxGamepad!ReporterExits, LinuxGamepad!stateVars, LinuxGamepad!kernelVars,
    LinuxGamepad!hostVars, LinuxGamepad!rumbleVars
<1>19. ASSUME LinuxGamepad!ReadFails
      PROVE  Quietly
  BY <1>19 DEF Quietly, LinuxGamepad!ReadFails, LinuxGamepad!stateVars, LinuxGamepad!kernelVars,
    LinuxGamepad!hostVars, LinuxGamepad!rumbleVars
<1>20. ASSUME NEW op \in {"start", "output", "get_report", "set_report"},
              LinuxGamepad!KernelSends(op)
      PROVE  Quietly
  <2>1. backend # "uinput"
    BY <1>20 DEF Quietly, LinuxGamepad!KernelSends
  <2>2. QED
    BY <1>20, <2>1 DEF Quietly, LinuxGamepad!KernelSends, LinuxGamepad!threadVars,
      LinuxGamepad!stateVars, LinuxGamepad!rumbleVars
<1>21. ASSUME LinuxGamepad!Done
      PROVE  Quietly
  BY <1>21 DEF Quietly, LinuxGamepad!Done, LinuxGamepad!vars, LinuxGamepad!threadVars,
    LinuxGamepad!stateVars, LinuxGamepad!kernelVars, LinuxGamepad!hostVars,
    LinuxGamepad!rumbleVars
<1>22. CASE UNCHANGED LinuxGamepad!vars
  BY <1>22 DEF Quietly, LinuxGamepad!vars, LinuxGamepad!threadVars, LinuxGamepad!stateVars,
    LinuxGamepad!kernelVars, LinuxGamepad!hostVars, LinuxGamepad!rumbleVars
<1> HIDE DEF BackendChosen, DeviceFollowsClient
<1>23. QED
  BY <1>1, <1>2, <1>3, <1>4, <1>5, <1>6, <1>7, <1>8, <1>9, <1>10, <1>11, <1>12, <1>13,
    <1>14, <1>15, <1>16, <1>17, <1>18, <1>19, <1>20, <1>21, <1>22 DEF
    LinuxGamepad!Next, LinuxGamepad!ClientSteps, LinuxGamepad!ReaderSteps,
    LinuxGamepad!ReporterSteps

\* The steps of the gamepad keep the inductive invariant of its rumble.
LEMMA RumbleNext ==
  ASSUME DeviceFollowsClient, RumbleInv, [LinuxGamepad!Next]_(LinuxGamepad!vars)
  PROVE  RumbleInv'
<1>1. BackendChosen'
  BY BackendNext DEF RumbleInv
<1>2. CASE Quietly
  BY <1>1, <1>2, QuietStep
<1>3. CASE LinuxGamepad!OpenUinput
  <2>1. /\ backend = "none" /\ queue = <<>> /\ effects = <<>> /\ gain = 1 /\ told = 0
        /\ defined = <<>> /\ playing = <<>> /\ updated
    BY <1>3 DEF RumbleInv, BackendChosen, LinuxGamepad!OpenUinput
  <2>2. /\ UNCHANGED <<queue, effects, gain, told, felt, missed, now, updated, defined, playing>>
        /\ client' # "closed" /\ client # "closed"
    BY <1>3 DEF LinuxGamepad!OpenUinput, LinuxGamepad!hostVars, LinuxGamepad!rumbleVars
  <2>3. EffectsTimed'
    BY <2>1, <2>2 DEF RumbleInv, EffectsTimed
  <2>4. OrdersLead'
    <3>1. ASSUME NEW id \in Effects
          PROVE  CatchesUp(id)'
      <4>1. Seen(id)' = Gone
        BY <2>1, <2>2 DEF Seen
      <4>2. Gone \in Views
        BY DEF Gone, Views
      <4>3. Host(id, Seen(id))'
        BY <2>1, <2>2, <4>1 DEF Host, Gone
      <4>4. QED
        BY <2>1, <2>2, <4>1, <4>2, <4>3, NothingLeads
    <3>2. QED
      BY <2>1, <2>2, <3>1 DEF OrdersLead
  <2>5. ToldIsSum'
    <3>1. {id \in DOMAIN effects' : effects'[id].active} = {}
      BY <2>1, <2>2
    <3>2. gain' * LinuxGamepad!SumSet({id \in DOMAIN effects' : effects'[id].active}) = 0
      BY <2>1, <2>2, <3>1, SumOfNone
    <3>3. QED
      BY <2>1, <2>2, <3>2 DEF RumbleInv, ToldIsSum
  <2>6. QED
    BY <1>1, <2>3, <2>4, <2>5 DEF RumbleInv
<1>4. CASE LinuxGamepad!Destroy
  <2>1. client' = "closed" /\ UNCHANGED <<effects, now, updated, reader>>
    BY <1>4 DEF LinuxGamepad!Destroy, LinuxGamepad!hostVars, LinuxGamepad!threadVars
  <2>2. EffectsTimed' /\ OrdersLead'
    BY <2>1 DEF RumbleInv, EffectsTimed, OrdersLead
  <2>3. ToldIsSum'
    BY <1>4, <2>1 DEF RumbleInv, BackendChosen, ToldIsSum, LinuxGamepad!Destroy,
      LinuxGamepad!Dispatch
  <2>4. QED
    BY <1>1, <2>2, <2>3 DEF RumbleInv
<1>5. CASE LinuxGamepad!Tick
  <2>1. /\ client = "ready" /\ client' = "ready" /\ backend' = backend
        /\ queue = <<>> /\ queue' = <<>>
        /\ updated /\ ~updated' /\ reader = "reading" /\ now' = now + 1 /\ now < MaxTime
        /\ UNCHANGED <<effects, told, felt, missed, defined>>
        /\ playing' =
             [e \in {e \in DOMAIN playing : LinuxGamepad!Plays(e, defined[e], now + 1)} |->
                playing[e]]
    BY <1>5 DEF LinuxGamepad!Tick, LinuxGamepad!threadVars, LinuxGamepad!kernelVars
  <2>2. now \in Nat /\ now' \in 0..MaxTime /\ MaxTime \in Nat
    BY <2>1, BackendsAssumption DEF RumbleInv, EffectsTimed, LinuxGamepad!GamepadAssumption
  <2>3. EffectsTimed'
    BY <2>1, <2>2 DEF RumbleInv, EffectsTimed
  <2>4. ASSUME backend = "uinput", NEW id \in Effects
        PROVE  CatchesUp(id)'
    <3>1. Host(id, Seen(id))
      BY <2>1, <2>4, NothingToRead DEF RumbleInv, OrdersLead
    <3>2. /\ Seen(id)'.known = Seen(id).known /\ Seen(id)'.length = Seen(id).length
          /\ Seen(id)'.start = Seen(id).start /\ Seen(id)'.count = Seen(id).count
      BY <2>1 DEF Seen, Gone
    <3>3. Seen(id)' \in Views
      BY <2>3 DEF EffectsTimed, Timed, EffectStates, Seen, Views, Gone
    <3>4. Seen(id)'.active <=>
            id \in DOMAIN playing /\ LinuxGamepad!Plays(id, defined[id], now + 1)
      <4>1. CASE id \notin DOMAIN effects
        BY <2>1, <3>1, <4>1 DEF Seen, Gone, Host
      <4>2. CASE id \in DOMAIN effects /\ ~effects[id].active
        BY <2>1, <3>1, <4>2 DEF Seen, Host
      <4>3. CASE id \in DOMAIN effects /\ effects[id].active
        <5> DEFINE e == effects[id]
        <5>1. e \in EffectStates /\ e.end = LinuxGamepad!EndOf(e) /\ now < e.end
          BY <2>1, <4>3 DEF RumbleInv, EffectsTimed, Timed
        <5>2. /\ id \in DOMAIN playing /\ defined[id] = e.length
              /\ playing[id].from = e.start /\ playing[id].count = e.count
          BY <3>1, <4>3, <5>1 DEF Seen, Host
        <5>3. Seen(id)'.active <=> now + 1 < e.end
          BY <2>1, <4>3 DEF Seen
        <5>4. LinuxGamepad!Plays(id, defined[id], now + 1) <=>
                e.length = 0 \/ now + 1 < e.start + e.length * e.count
          BY <5>2 DEF LinuxGamepad!Plays
        <5>5. CASE e.length = 0
          BY <2>1, <2>2, <5>1, <5>2, <5>3, <5>4, <5>5 DEF LinuxGamepad!EndOf
        <5>6. CASE e.length # 0
          BY <5>1, <5>2, <5>3, <5>4, <5>6 DEF LinuxGamepad!EndOf
        <5>7. QED
          BY <5>5, <5>6
      <4>4. QED
        BY <4>1, <4>2, <4>3
    <3>5. /\ id \in DOMAIN playing' <=> Seen(id)'.active
          /\ id \in DOMAIN playing' => playing'[id] = playing[id] /\ Seen(id).active
      BY <2>1, <3>1, <3>4 DEF Host
    <3>6. Host(id, Seen(id))'
      BY <2>1, <3>1, <3>2, <3>5 DEF Host
    <3>7. QED
      BY <2>1, <3>3, <3>6, NothingLeads
  <2>5. OrdersLead'
    BY <2>1, <2>4 DEF RumbleInv, OrdersLead
  <2>6. ToldIsSum'
    BY <2>1 DEF RumbleInv, ToldIsSum
  <2>7. QED
    BY <1>1, <2>3, <2>5, <2>6 DEF RumbleInv
<1>6. CASE LinuxGamepad!ReadOrder
  <2>1. /\ backend = "uinput" /\ queue # <<>> /\ reader \in {"batch", "reading"}
        /\ queue' = Tail(queue) /\ reader' \in {"updating", "batch"}
        /\ UNCHANGED <<client, told, felt, missed, defined, playing, now>>
    BY <1>6 DEF LinuxGamepad!ReadOrder, LinuxGamepad!hostVars
  <2>2. updated /\ client # "closed"
    BY <2>1 DEF RumbleInv, BackendChosen, DeviceFollowsClient
  <2>3. queue \in Seq(LinuxGamepad!Orders) /\ EffectsTimed
    BY <2>1, <2>2 DEF RumbleInv, OrdersLead
  <2>4. PICK o \in LinuxGamepad!Orders : o = Head(queue)
    BY <2>1, <2>3
  <2>5. EffectsTimed'
    BY <1>6, <2>2, <2>3, <2>4, ReadKeepsTime
  <2>6. OrdersLead'
    <3>1. ASSUME NEW id \in Effects
          PROVE  CatchesUp(id)'
      <4>1. CatchesUp(id)
        BY <2>1, <2>2 DEF RumbleInv, OrdersLead
      <4>2. QED
        BY <1>6, <2>2, <2>3, <4>1, ReadLeads
    <3>2. QED
      BY <2>1, <2>2, <2>3, <3>1 DEF RumbleInv, OrdersLead
  <2>7. ToldIsSum'
    BY <2>1, <2>2 DEF RumbleInv, ToldIsSum
  <2>8. QED
    BY <1>1, <2>5, <2>6, <2>7 DEF RumbleInv
<1>7. CASE LinuxGamepad!UpdateRumble
  <2>1. /\ backend = "uinput"
        /\ reader \in {"batch", "updating", "reading"} /\ reader' = "reading"
        /\ updated' = TRUE /\ UNCHANGED <<backend, client, queue, defined, playing, now, gain>>
        /\ effects' = [id \in DOMAIN effects |->
                         [effects[id] EXCEPT !.active = @ /\ now < effects[id].end]]
        /\ LinuxGamepad!Dispatch(
             gain * LinuxGamepad!SumSet({id \in DOMAIN effects : effects'[id].active}))
    BY <1>7 DEF LinuxGamepad!UpdateRumble, LinuxGamepad!hostVars, LinuxGamepad!kernelVars
  <2>2. client # "closed" /\ DOMAIN effects' = DOMAIN effects
    BY <2>1 DEF DeviceFollowsClient
  <2>3. ASSUME NEW id \in DOMAIN effects
        PROVE  /\ Timed(effects'[id])
               /\ effects'[id].length = effects[id].length /\ effects'[id].start = effects[id].start
               /\ effects'[id].count = effects[id].count /\ effects'[id].end = effects[id].end
               /\ effects'[id].active = (effects[id].active /\ now < effects[id].end)
    <3>1. /\ effects[id] \in EffectStates
          /\ effects[id].active => effects[id].end = LinuxGamepad!EndOf(effects[id])
      BY DEF RumbleInv, EffectsTimed, Timed
    <3>2. PICK t \in BOOLEAN : t = (effects[id].active /\ now < effects[id].end)
      OBVIOUS
    <3>3. effects'[id] = [effects[id] EXCEPT !.active = t]
      BY <2>1, <3>2
    <3>4. /\ effects'[id] \in EffectStates
          /\ effects'[id].length = effects[id].length /\ effects'[id].start = effects[id].start
          /\ effects'[id].count = effects[id].count /\ effects'[id].end = effects[id].end
          /\ effects'[id].active = t
      BY <3>1, <3>3 DEF EffectStates
    <3>5. LinuxGamepad!EndOf(effects'[id]) = LinuxGamepad!EndOf(effects[id])
      BY <3>4 DEF LinuxGamepad!EndOf
    <3>6. QED
      BY <3>1, <3>2, <3>4, <3>5 DEF Timed
  <2>4. EffectsTimed'
    BY <2>1, <2>2, <2>3 DEF RumbleInv, EffectsTimed
  <2>5. ASSUME NEW id
        PROVE  Seen(id)' = Seen(id)
    <3>1. CASE id \in DOMAIN effects
      BY <2>1, <2>2, <2>3, <3>1 DEF Seen
    <3>2. CASE id \notin DOMAIN effects
      BY <2>2, <3>2 DEF Seen
    <3>3. QED
      BY <3>1, <3>2
  <2>6. OrdersLead'
    <3>1. ASSUME NEW id \in Effects
          PROVE  CatchesUp(id)'
      <4>1. PICK path \in [1..(Len(queue) + 1) -> Views] : Leads(path, id)
        BY <2>1, <2>2 DEF RumbleInv, OrdersLead, CatchesUp
      <4>2. \A i : After(queue[i], id, path[i])' = After(queue[i], id, path[i])
        BY <2>1 DEF After, Longer, LinuxGamepad!EndOf
      <4>3. Leads(path, id)'
        BY <2>1, <2>5, <4>1, <4>2 DEF Leads, Host
      <4>4. QED
        BY <2>1, <4>3 DEF CatchesUp
    <3>2. QED
      BY <2>1, <2>2, <3>1 DEF RumbleInv, OrdersLead
  <2>7. ToldIsSum'
    <3>1. told' = gain' * LinuxGamepad!SumSet({id \in DOMAIN effects' : effects'[id].active})
      BY <2>1, <2>2 DEF LinuxGamepad!Dispatch
    <3>2. ~missed' => felt' = told'
      BY <2>1 DEF LinuxGamepad!Dispatch, RumbleInv, ToldIsSum
    <3>3. QED
      BY <2>1, <2>2, <3>1, <3>2 DEF ToldIsSum
  <2>8. QED
    BY <1>1, <2>4, <2>6, <2>7 DEF RumbleInv
<1>8. ASSUME NEW o \in LinuxGamepad!Orders, LinuxGamepad!HostOrders(o)
      PROVE  RumbleInv'
  <2>1. /\ client = "ready"
        /\ queue' = Append(queue, o)
        /\ UNCHANGED <<backend, client, reader, effects, gain, told, felt, missed, now, updated>>
    BY <1>8 DEF LinuxGamepad!HostOrders, LinuxGamepad!threadVars, LinuxGamepad!rumbleVars,
      LinuxGamepad!Orders, LinuxGamepad!Order
  <2>2. EffectsTimed' /\ ToldIsSum'
    BY <2>1 DEF RumbleInv, EffectsTimed, ToldIsSum
  <2>3. ASSUME backend = "uinput"
        PROVE  OrdersLead'
    <3>1. queue \in Seq(LinuxGamepad!Orders) /\ DOMAIN playing \subseteq Effects /\ EffectsTimed
      BY <2>1, <2>3 DEF RumbleInv, OrdersLead
    <3>2. ASSUME NEW id \in Effects
          PROVE  CatchesUp(id)'
      <4>1. CatchesUp(id)
        BY <2>1, <2>3 DEF RumbleInv, OrdersLead
      <4>2. QED
        BY <1>8, <3>1, <4>1, AppendLeads
    <3>3. DOMAIN playing' \subseteq Effects
      BY <1>8, <3>1, OrderTypes DEF LinuxGamepad!HostOrders, LinuxGamepad!Put, LinuxGamepad!Drop
    <3>4. queue' \in Seq(LinuxGamepad!Orders)
      BY <2>1, <3>1
    <3>5. QED
      BY <3>2, <3>3, <3>4 DEF OrdersLead
  <2>4. OrdersLead'
    BY <2>1, <2>3 DEF OrdersLead
  <2>5. QED
    BY <1>1, <2>2, <2>4 DEF RumbleInv
<1>9. QED
  BY <1>2, <1>3, <1>4, <1>5, <1>6, <1>7, <1>8, QuietSteps DEF RumbleInv

\* Before its creation a gamepad has no effects.
LEMMA RumbleInit == Init => RumbleInv
<1> SUFFICES ASSUME Init
             PROVE  RumbleInv
  OBVIOUS
<1>1. LinuxGamepad!Init
  BY DEF Init
<1>2. BackendChosen
  BY <1>1 DEF LinuxGamepad!Init, BackendChosen
<1>3. EffectsTimed /\ OrdersLead /\ ToldIsSum
  BY <1>1, BackendsAssumption DEF LinuxGamepad!Init, EffectsTimed, OrdersLead, ToldIsSum,
    LinuxGamepad!GamepadAssumption
<1>4. QED
  BY <1>2, <1>3 DEF RumbleInv

\* Once the reader has caught up there is no way to go: it has what the host plays.
LEMMA CaughtUpFeels == RumbleInv => LinuxGamepad!FeltIsPlaying
<1> SUFFICES ASSUME RumbleInv
             PROVE  LinuxGamepad!FeltIsPlaying
  OBVIOUS
<1>1. ASSUME backend = "uinput", client = "ready", reader = "reading", updated, queue = <<>>
      PROVE  told = gain * LinuxGamepad!SumSet(DOMAIN playing)
  <2>1. \A id \in Effects : Host(id, Seen(id))
    BY <1>1, NothingToRead DEF RumbleInv, OrdersLead
  <2>2. DOMAIN playing \subseteq Effects /\ DOMAIN effects \subseteq Effects
    BY <1>1 DEF RumbleInv, OrdersLead, EffectsTimed
  <2>3. \A id \in DOMAIN effects : effects[id].active => now < effects[id].end
    BY <1>1 DEF RumbleInv, EffectsTimed
  <2>4. {id \in DOMAIN effects : effects[id].active} = DOMAIN playing
    BY <2>1, <2>2, <2>3 DEF Host, Seen, Gone
  <2>5. QED
    BY <1>1, <2>4 DEF RumbleInv, ToldIsSum
<1>2. QED
  BY <1>1 DEF LinuxGamepad!FeltIsPlaying, RumbleInv, ToldIsSum

-----------------------------------------------------------------------------
(* WindowsGamepad: the parts of its inductive invariant.                   *)

\* Which threads there are at each step of a creation and of close().
ThreadsFollowCall ==
  /\ call \in {"idle", "made", "failed"} => streamer = "none" /\ listener = "none"
  /\ call \in {"silencing", "asking", "joining", "destroying", "closed"} =>
       streamer \in {"none", "ended"}
  /\ call \in {"destroying", "closed"} => listener \in {"none", "ended"}
  /\ streamer # "none" => pad = "switch_pro"
  /\ listener \notin {"none", "ended"} => open
  /\ call = "idle" => ~exists
  /\ call \in {"failed", "closed"} => (exists => leaked)

\* Whoever writes to the driver notes it.
AcceptedIsThere ==
  /\ pad # "switch_pro" => arrived = accepted
  /\ pad = "xbox_one" => lastReport = arrived

\* Events are in the pipe in their order, behind the one that the listener has.
EventsInOrder ==
  /\ written \in Nat /\ event \in Nat /\ noticed \in Nat /\ pipe \in Seq(Nat)
  /\ Len(pipe) = written - event
  /\ \A i \in 1..Len(pipe) : pipe[i] = event + i
  /\ noticed <= event
  /\ listener \in {"none", "checking", "reading", "pausing"} /\ ~dropped => noticed = event

WindowsInv == ThreadsFollowCall /\ AcceptedIsThere /\ EventsInOrder

\* The steps of the gamepad keep its threads and reports in order.
LEMMA ThreadsNext ==
  ASSUME ThreadsFollowCall, AcceptedIsThere, [WindowsGamepad!Next]_(WindowsGamepad!vars)
  PROVE  (ThreadsFollowCall /\ AcceptedIsThere)'
<1> USE DEF ThreadsFollowCall, AcceptedIsThere
<1>1. ASSUME WindowsGamepad!CreateDevice
      PROVE  (ThreadsFollowCall /\ AcceptedIsThere)'
  BY <1>1 DEF WindowsGamepad!CreateDevice, WindowsGamepad!streamVars,
    WindowsGamepad!listenVars, WindowsGamepad!hostVars, WindowsGamepad!reportVars
<1>2. ASSUME WindowsGamepad!NoTransport
      PROVE  (ThreadsFollowCall /\ AcceptedIsThere)'
  BY <1>2 DEF WindowsGamepad!NoTransport, WindowsGamepad!DestroyDevice,
    WindowsGamepad!streamVars, WindowsGamepad!listenVars, WindowsGamepad!hostVars,
    WindowsGamepad!reportVars
<1>3. ASSUME WindowsGamepad!StartThreads
      PROVE  (ThreadsFollowCall /\ AcceptedIsThere)'
  BY <1>3 DEF WindowsGamepad!StartThreads, WindowsGamepad!hostVars,
    WindowsGamepad!reportVars
<1>4. ASSUME WindowsGamepad!SetOutputCallback
      PROVE  (ThreadsFollowCall /\ AcceptedIsThere)'
  BY <1>4 DEF WindowsGamepad!SetOutputCallback, WindowsGamepad!streamVars,
    WindowsGamepad!hostVars, WindowsGamepad!reportVars, WindowsGamepad!deviceVars
<1>5. ASSUME NEW r \in Reports, WindowsGamepad!SubmitStreamed(r)
      PROVE  (ThreadsFollowCall /\ AcceptedIsThere)'
  BY <1>5 DEF WindowsGamepad!SubmitStreamed, WindowsGamepad!listenVars,
    WindowsGamepad!hostVars, WindowsGamepad!deviceVars
<1>6. ASSUME NEW r \in Reports, WindowsGamepad!SubmitChanged(r)
      PROVE  (ThreadsFollowCall /\ AcceptedIsThere)'
  BY <1>6 DEF WindowsGamepad!SubmitChanged, WindowsGamepad!streamVars,
    WindowsGamepad!listenVars, WindowsGamepad!hostVars, WindowsGamepad!reportVars,
    WindowsGamepad!deviceVars
<1>7. ASSUME NEW r \in Reports, WindowsGamepad!SubmitDirect(r)
      PROVE  (ThreadsFollowCall /\ AcceptedIsThere)'
  BY <1>7 DEF WindowsGamepad!SubmitDirect, WindowsGamepad!streamVars,
    WindowsGamepad!listenVars, WindowsGamepad!hostVars, WindowsGamepad!reportVars,
    WindowsGamepad!deviceVars
<1>8. ASSUME WindowsGamepad!StreamWakes
      PROVE  (ThreadsFollowCall /\ AcceptedIsThere)'
  BY <1>8 DEF WindowsGamepad!StreamWakes, WindowsGamepad!listenVars,
    WindowsGamepad!hostVars, WindowsGamepad!reportVars, WindowsGamepad!deviceVars
<1>9. ASSUME WindowsGamepad!CopyReport
      PROVE  (ThreadsFollowCall /\ AcceptedIsThere)'
  BY <1>9 DEF WindowsGamepad!CopyReport, WindowsGamepad!listenVars, WindowsGamepad!hostVars,
    WindowsGamepad!reportVars, WindowsGamepad!deviceVars
<1>10. ASSUME NEW ok \in BOOLEAN, WindowsGamepad!SendCopy(ok)
      PROVE  (ThreadsFollowCall /\ AcceptedIsThere)'
  BY <1>10 DEF WindowsGamepad!SendCopy, WindowsGamepad!listenVars, WindowsGamepad!hostVars,
    WindowsGamepad!deviceVars
<1>11. ASSUME WindowsGamepad!HostWrites
      PROVE  (ThreadsFollowCall /\ AcceptedIsThere)'
  BY <1>11 DEF WindowsGamepad!HostWrites, WindowsGamepad!streamVars,
    WindowsGamepad!listenVars, WindowsGamepad!reportVars, WindowsGamepad!deviceVars
<1>12. ASSUME WindowsGamepad!CheckStop
      PROVE  (ThreadsFollowCall /\ AcceptedIsThere)'
  BY <1>12 DEF WindowsGamepad!CheckStop, WindowsGamepad!streamVars, WindowsGamepad!hostVars,
    WindowsGamepad!reportVars, WindowsGamepad!deviceVars
<1>13. ASSUME WindowsGamepad!PauseEnds
      PROVE  (ThreadsFollowCall /\ AcceptedIsThere)'
  BY <1>13 DEF WindowsGamepad!PauseEnds, WindowsGamepad!streamVars, WindowsGamepad!hostVars,
    WindowsGamepad!reportVars, WindowsGamepad!deviceVars
<1>14. ASSUME WindowsGamepad!DispatchOutput
      PROVE  (ThreadsFollowCall /\ AcceptedIsThere)'
  BY <1>14 DEF WindowsGamepad!DispatchOutput, WindowsGamepad!streamVars,
    WindowsGamepad!hostVars, WindowsGamepad!reportVars, WindowsGamepad!deviceVars
<1>15. ASSUME WindowsGamepad!CallBack
      PROVE  (ThreadsFollowCall /\ AcceptedIsThere)'
  BY <1>15 DEF WindowsGamepad!CallBack, WindowsGamepad!Listening, WindowsGamepad!streamVars,
    WindowsGamepad!hostVars, WindowsGamepad!reportVars, WindowsGamepad!deviceVars
<1>16. ASSUME WindowsGamepad!ReadOutput
      PROVE  (ThreadsFollowCall /\ AcceptedIsThere)'
  BY <1>16 DEF WindowsGamepad!ReadOutput, WindowsGamepad!Listening,
    WindowsGamepad!streamVars, WindowsGamepad!reportVars, WindowsGamepad!deviceVars
<1>17. ASSUME WindowsGamepad!ReadNothing
      PROVE  (ThreadsFollowCall /\ AcceptedIsThere)'
  BY <1>17 DEF WindowsGamepad!ReadNothing, WindowsGamepad!Listening,
    WindowsGamepad!streamVars, WindowsGamepad!hostVars, WindowsGamepad!reportVars,
    WindowsGamepad!deviceVars
<1>18. ASSUME WindowsGamepad!Close
      PROVE  (ThreadsFollowCall /\ AcceptedIsThere)'
  BY <1>18 DEF WindowsGamepad!Close, WindowsGamepad!Calling, WindowsGamepad!listenVars,
    WindowsGamepad!hostVars, WindowsGamepad!reportVars, WindowsGamepad!deviceVars
<1>19. ASSUME WindowsGamepad!JoinStreamer
      PROVE  (ThreadsFollowCall /\ AcceptedIsThere)'
  BY <1>19 DEF WindowsGamepad!JoinStreamer, WindowsGamepad!Calling,
    WindowsGamepad!streamVars, WindowsGamepad!listenVars, WindowsGamepad!hostVars,
    WindowsGamepad!reportVars, WindowsGamepad!deviceVars
<1>20. ASSUME WindowsGamepad!SetStopEvent
      PROVE  (ThreadsFollowCall /\ AcceptedIsThere)'
  BY <1>20 DEF WindowsGamepad!SetStopEvent, WindowsGamepad!Calling,
    WindowsGamepad!streamVars, WindowsGamepad!hostVars, WindowsGamepad!reportVars,
    WindowsGamepad!deviceVars
<1>21. ASSUME WindowsGamepad!RequestStop
      PROVE  (ThreadsFollowCall /\ AcceptedIsThere)'
  BY <1>21 DEF WindowsGamepad!RequestStop, WindowsGamepad!Calling,
    WindowsGamepad!streamVars, WindowsGamepad!hostVars, WindowsGamepad!reportVars,
    WindowsGamepad!deviceVars
<1>22. ASSUME WindowsGamepad!JoinListener
      PROVE  (ThreadsFollowCall /\ AcceptedIsThere)'
  BY <1>22 DEF WindowsGamepad!JoinListener, WindowsGamepad!Calling,
    WindowsGamepad!streamVars, WindowsGamepad!listenVars, WindowsGamepad!hostVars,
    WindowsGamepad!reportVars, WindowsGamepad!deviceVars
<1>23. ASSUME WindowsGamepad!CloseDevice
      PROVE  (ThreadsFollowCall /\ AcceptedIsThere)'
  BY <1>23 DEF WindowsGamepad!CloseDevice, WindowsGamepad!DestroyDevice,
    WindowsGamepad!Calling, WindowsGamepad!streamVars, WindowsGamepad!listenVars,
    WindowsGamepad!hostVars, WindowsGamepad!reportVars
<1>24. ASSUME WindowsGamepad!Done
      PROVE  (ThreadsFollowCall /\ AcceptedIsThere)'
  BY <1>24 DEF WindowsGamepad!Done, WindowsGamepad!vars, WindowsGamepad!streamVars,
    WindowsGamepad!listenVars, WindowsGamepad!hostVars, WindowsGamepad!reportVars,
    WindowsGamepad!deviceVars
<1>25. CASE UNCHANGED WindowsGamepad!vars
  BY <1>25 DEF WindowsGamepad!vars, WindowsGamepad!streamVars, WindowsGamepad!listenVars,
    WindowsGamepad!hostVars, WindowsGamepad!reportVars, WindowsGamepad!deviceVars
<1> HIDE DEF ThreadsFollowCall, AcceptedIsThere
<1>26. QED
  BY <1>1, <1>2, <1>3, <1>4, <1>5, <1>6, <1>7, <1>8, <1>9, <1>10, <1>11, <1>12, <1>13,
    <1>14, <1>15, <1>16, <1>17, <1>18, <1>19, <1>20, <1>21, <1>22, <1>23, <1>24, <1>25 DEF
    WindowsGamepad!Next, WindowsGamepad!StreamerSteps, WindowsGamepad!ListenerWorks,
    WindowsGamepad!Reading, WindowsGamepad!CloseGoesOn

\* Whoever moves an event along moves the first of them.
LEMMA EventsNext ==
  ASSUME ThreadsFollowCall, EventsInOrder, [WindowsGamepad!Next]_(WindowsGamepad!vars)
  PROVE  EventsInOrder'
<1> USE DEF EventsInOrder, ThreadsFollowCall
<1>1. ASSUME WindowsGamepad!CreateDevice
      PROVE  EventsInOrder'
  BY <1>1 DEF WindowsGamepad!CreateDevice, WindowsGamepad!streamVars,
    WindowsGamepad!listenVars, WindowsGamepad!hostVars, WindowsGamepad!reportVars
<1>2. ASSUME WindowsGamepad!NoTransport
      PROVE  EventsInOrder'
  BY <1>2 DEF WindowsGamepad!NoTransport, WindowsGamepad!DestroyDevice,
    WindowsGamepad!streamVars, WindowsGamepad!listenVars, WindowsGamepad!hostVars,
    WindowsGamepad!reportVars
<1>3. ASSUME WindowsGamepad!StartThreads
      PROVE  EventsInOrder'
  BY <1>3 DEF WindowsGamepad!StartThreads, WindowsGamepad!hostVars,
    WindowsGamepad!reportVars
<1>4. ASSUME WindowsGamepad!SetOutputCallback
      PROVE  EventsInOrder'
  BY <1>4 DEF WindowsGamepad!SetOutputCallback, WindowsGamepad!streamVars,
    WindowsGamepad!hostVars, WindowsGamepad!reportVars, WindowsGamepad!deviceVars
<1>5. ASSUME NEW r \in Reports, WindowsGamepad!SubmitStreamed(r)
      PROVE  EventsInOrder'
  BY <1>5 DEF WindowsGamepad!SubmitStreamed, WindowsGamepad!listenVars,
    WindowsGamepad!hostVars, WindowsGamepad!deviceVars
<1>6. ASSUME NEW r \in Reports, WindowsGamepad!SubmitChanged(r)
      PROVE  EventsInOrder'
  BY <1>6 DEF WindowsGamepad!SubmitChanged, WindowsGamepad!streamVars,
    WindowsGamepad!listenVars, WindowsGamepad!hostVars, WindowsGamepad!reportVars,
    WindowsGamepad!deviceVars
<1>7. ASSUME NEW r \in Reports, WindowsGamepad!SubmitDirect(r)
      PROVE  EventsInOrder'
  BY <1>7 DEF WindowsGamepad!SubmitDirect, WindowsGamepad!streamVars,
    WindowsGamepad!listenVars, WindowsGamepad!hostVars, WindowsGamepad!reportVars,
    WindowsGamepad!deviceVars
<1>8. ASSUME WindowsGamepad!StreamWakes
      PROVE  EventsInOrder'
  BY <1>8 DEF WindowsGamepad!StreamWakes, WindowsGamepad!listenVars,
    WindowsGamepad!hostVars, WindowsGamepad!reportVars, WindowsGamepad!deviceVars
<1>9. ASSUME WindowsGamepad!CopyReport
      PROVE  EventsInOrder'
  BY <1>9 DEF WindowsGamepad!CopyReport, WindowsGamepad!listenVars, WindowsGamepad!hostVars,
    WindowsGamepad!reportVars, WindowsGamepad!deviceVars
<1>10. ASSUME NEW ok \in BOOLEAN, WindowsGamepad!SendCopy(ok)
      PROVE  EventsInOrder'
  BY <1>10 DEF WindowsGamepad!SendCopy, WindowsGamepad!listenVars, WindowsGamepad!hostVars,
    WindowsGamepad!deviceVars
<1>11. ASSUME WindowsGamepad!HostWrites
      PROVE  EventsInOrder'
  BY <1>11 DEF WindowsGamepad!HostWrites, WindowsGamepad!streamVars,
    WindowsGamepad!listenVars, WindowsGamepad!reportVars, WindowsGamepad!deviceVars
<1>12. ASSUME WindowsGamepad!CheckStop
      PROVE  EventsInOrder'
  BY <1>12 DEF WindowsGamepad!CheckStop, WindowsGamepad!streamVars, WindowsGamepad!hostVars,
    WindowsGamepad!reportVars, WindowsGamepad!deviceVars
<1>13. ASSUME WindowsGamepad!PauseEnds
      PROVE  EventsInOrder'
  BY <1>13 DEF WindowsGamepad!PauseEnds, WindowsGamepad!streamVars, WindowsGamepad!hostVars,
    WindowsGamepad!reportVars, WindowsGamepad!deviceVars
<1>14. ASSUME WindowsGamepad!DispatchOutput
      PROVE  EventsInOrder'
  BY <1>14 DEF WindowsGamepad!DispatchOutput, WindowsGamepad!streamVars,
    WindowsGamepad!hostVars, WindowsGamepad!reportVars, WindowsGamepad!deviceVars
<1>15. ASSUME WindowsGamepad!CallBack
      PROVE  EventsInOrder'
  BY <1>15 DEF WindowsGamepad!CallBack, WindowsGamepad!Listening, WindowsGamepad!streamVars,
    WindowsGamepad!hostVars, WindowsGamepad!reportVars, WindowsGamepad!deviceVars
<1>16. ASSUME WindowsGamepad!ReadOutput
      PROVE  EventsInOrder'
  <2>1. /\ pipe # <<>> /\ event' = Head(pipe) /\ pipe' = Tail(pipe)
        /\ listener' = "holding" /\ UNCHANGED <<written, noticed, dropped>>
    BY <1>16 DEF WindowsGamepad!ReadOutput, WindowsGamepad!Listening
  <2>2. /\ Len(pipe) \in Nat /\ 1 \in 1..Len(pipe) /\ event' = event + 1
        /\ pipe' \in Seq(Nat) /\ Len(pipe') = Len(pipe) - 1
        /\ \A i \in 1..Len(pipe') : pipe'[i] = pipe[i + 1]
    BY <2>1
  <2>3. \A i \in 1..Len(pipe') : pipe'[i] = event' + i
    BY <2>2
  <2>4. QED
    BY <2>1, <2>2, <2>3
<1>17. ASSUME WindowsGamepad!ReadNothing
      PROVE  EventsInOrder'
  BY <1>17 DEF WindowsGamepad!ReadNothing, WindowsGamepad!Listening,
    WindowsGamepad!streamVars, WindowsGamepad!hostVars, WindowsGamepad!reportVars,
    WindowsGamepad!deviceVars
<1>18. ASSUME WindowsGamepad!Close
      PROVE  EventsInOrder'
  BY <1>18 DEF WindowsGamepad!Close, WindowsGamepad!Calling, WindowsGamepad!listenVars,
    WindowsGamepad!hostVars, WindowsGamepad!reportVars, WindowsGamepad!deviceVars
<1>19. ASSUME WindowsGamepad!JoinStreamer
      PROVE  EventsInOrder'
  BY <1>19 DEF WindowsGamepad!JoinStreamer, WindowsGamepad!Calling,
    WindowsGamepad!streamVars, WindowsGamepad!listenVars, WindowsGamepad!hostVars,
    WindowsGamepad!reportVars, WindowsGamepad!deviceVars
<1>20. ASSUME WindowsGamepad!SetStopEvent
      PROVE  EventsInOrder'
  BY <1>20 DEF WindowsGamepad!SetStopEvent, WindowsGamepad!Calling,
    WindowsGamepad!streamVars, WindowsGamepad!hostVars, WindowsGamepad!reportVars,
    WindowsGamepad!deviceVars
<1>21. ASSUME WindowsGamepad!RequestStop
      PROVE  EventsInOrder'
  BY <1>21 DEF WindowsGamepad!RequestStop, WindowsGamepad!Calling,
    WindowsGamepad!streamVars, WindowsGamepad!hostVars, WindowsGamepad!reportVars,
    WindowsGamepad!deviceVars
<1>22. ASSUME WindowsGamepad!JoinListener
      PROVE  EventsInOrder'
  BY <1>22 DEF WindowsGamepad!JoinListener, WindowsGamepad!Calling,
    WindowsGamepad!streamVars, WindowsGamepad!listenVars, WindowsGamepad!hostVars,
    WindowsGamepad!reportVars, WindowsGamepad!deviceVars
<1>23. ASSUME WindowsGamepad!CloseDevice
      PROVE  EventsInOrder'
  BY <1>23 DEF WindowsGamepad!CloseDevice, WindowsGamepad!DestroyDevice,
    WindowsGamepad!Calling, WindowsGamepad!streamVars, WindowsGamepad!listenVars,
    WindowsGamepad!hostVars, WindowsGamepad!reportVars
<1>24. ASSUME WindowsGamepad!Done
      PROVE  EventsInOrder'
  BY <1>24 DEF WindowsGamepad!Done, WindowsGamepad!vars, WindowsGamepad!streamVars,
    WindowsGamepad!listenVars, WindowsGamepad!hostVars, WindowsGamepad!reportVars,
    WindowsGamepad!deviceVars
<1>25. CASE UNCHANGED WindowsGamepad!vars
  BY <1>25 DEF WindowsGamepad!vars, WindowsGamepad!streamVars, WindowsGamepad!listenVars,
    WindowsGamepad!hostVars, WindowsGamepad!reportVars, WindowsGamepad!deviceVars
<1> HIDE DEF EventsInOrder, ThreadsFollowCall
<1>26. QED
  BY <1>1, <1>2, <1>3, <1>4, <1>5, <1>6, <1>7, <1>8, <1>9, <1>10, <1>11, <1>12, <1>13,
    <1>14, <1>15, <1>16, <1>17, <1>18, <1>19, <1>20, <1>21, <1>22, <1>23, <1>24, <1>25 DEF
    WindowsGamepad!Next, WindowsGamepad!StreamerSteps, WindowsGamepad!ListenerWorks,
    WindowsGamepad!Reading, WindowsGamepad!CloseGoesOn

-----------------------------------------------------------------------------
(* WindowsDesktop: pointers, pens and the buttons of mice.                 *)

\* The flags that a pointer may have, and where Windows shows a pointer that has them.
PointerFlags == {"inrange", "incontact"} \cup WindowsDesktop!Edges \cup WindowsDesktop!Marks
ContactStates == [id : PointerIds, flags : SUBSET PointerFlags, touching : BOOLEAN]
PenStates == [flags : SUBSET PointerFlags, barrel : BOOLEAN, active : BOOLEAN, contacting : BOOLEAN]
At(flags) == WindowsDesktop!Placed(flags).at

\* What a call that succeeded did to it.
IsKnown(x) == known[x] # "unknown"

\* Contacts, each in one slot.
Contacted(cs) ==
  /\ cs \in Seq(ContactStates)
  /\ \A i, j \in 1..Len(cs) : cs[i].id = cs[j].id => i = j

\* No edge is odd in what a frame says of a pointer, unless a call has failed.
Fits(q) == broken \/ ~WindowsDesktop!Odd(screen.pointers[q.id], q.flags)

LEMMA NoContacts == Contacted(<<>>)
BY DEF Contacted

ScreenParts == {"keys", "typed", "rollover", "buttons", "moved", "wheel", "pointers", "odd"}

\* The parts of a device that are there whatever device it is.
ScreenShape ==
  /\ DOMAIN screen = ScreenParts
  /\ DOMAIN screen.pointers = PointerIds \cup {"pen"}
  /\ Contacted(touches)
  /\ pen \in PenStates
  /\ device \in {"none", "keyboard", "mouse", "touchscreen", "pen_tablet"}
  /\ device = "none" => DOMAIN known = {}
  /\ device # "touchscreen" =>
       touches = <<>> /\ \A c \in PointerIds : screen.pointers[c].at = "away"
  /\ broken \in BOOLEAN /\ screen.odd \in BOOLEAN
  /\ ~broken => ~screen.odd

\* Buttons of a mouse: every report of a HID mouse shows all that the library has.
ButtonsShown ==
  device = "mouse" =>
    /\ DOMAIN known = WindowsDesktop!Buttons
    /\ \A b \in WindowsDesktop!Buttons : IsKnown(b) =>
         /\ b \in screen.buttons <=> known[b] = "down"
         /\ api = "hid" => (b \in pressed <=> known[b] = "down")

\* Contacts: what is shown, and what the next frame will show.
ContactsShown ==
  device = "touchscreen" =>
    /\ DOMAIN known = PointerIds
    /\ \A c \in PointerIds :
         /\ IsKnown(c) => screen.pointers[c].at = known[c]
         /\ screen.pointers[c].at # "away" \/ known[c] = "unknown" => c \in WindowsDesktop!Ids
         /\ known[c] = "away" => c \notin WindowsDesktop!Ids
    /\ \A i \in 1..Len(touches) :
         IsKnown(touches[i].id) => At(touches[i].flags) = known[touches[i].id]
    /\ ~broken =>
         /\ \A c \in PointerIds : IsKnown(c)
         /\ \A i \in 1..Len(touches) :
              /\ touches[i].flags \cap WindowsDesktop!Edges = {}
              /\ touches[i].touching <=> known[touches[i].id] = "touch"

\* A pen: what is shown, and what the next frame will show.
PenShown ==
  device = "pen_tablet" =>
    /\ DOMAIN known = {"pen"} \cup WindowsDesktop!Marks
    /\ IsKnown("pen") => screen.pointers["pen"].at = known["pen"]
    /\ IsKnown("pen") /\ pen.active => At(pen.flags) = known["pen"]
    /\ ~pen.active => known["pen"] \in {"away", "unknown"}
    /\ "barrel" \in pen.flags <=> pen.barrel
    /\ \A x \in WindowsDesktop!Marks : IsKnown(x) =>
         /\ x \in pen.flags <=> known[x] = "down"
         /\ \/ known["pen"] \in {"away", "unknown"}
            \/ x \in screen.pointers["pen"].marks <=> known[x] = "down"
    /\ ~broken =>
         /\ IsKnown("pen") /\ pen.flags \cap WindowsDesktop!Edges = {}
         /\ pen.contacting <=> known["pen"] = "touch"

PointersInv == ScreenShape /\ ButtonsShown /\ ContactsShown /\ PenShown

\* Windows shows each pointer of a frame as its flags say, and the others as before.
LEMMA FrameTaken ==
  ASSUME NEW frame, NEW ok \in BOOLEAN, WindowsDesktop!Inject(frame, ok), ScreenShape,
         \A q, r \in frame : q.id = r.id => q = r
  PROVE  /\ ~ok => screen' = screen
         /\ DOMAIN screen' = DOMAIN screen
         /\ DOMAIN screen'.pointers = DOMAIN screen.pointers
         /\ screen'.odd \in BOOLEAN /\ screen'.buttons = screen.buttons
         /\ (\A q \in frame : Fits(q)) => screen'.odd = screen.odd
         /\ ok => /\ \A q \in frame : q.id \in PointerIds \cup {"pen"} =>
                       screen'.pointers[q.id] = WindowsDesktop!Placed(q.flags)
                  /\ \A p \in PointerIds \cup {"pen"} : (\A q \in frame : q.id # p) =>
                       screen'.pointers[p] = screen.pointers[p]
<1>1. CASE ~ok
  BY <1>1 DEF WindowsDesktop!Inject, ScreenShape
<1>2. CASE ok
  <2> DEFINE of(p) == CHOOSE q \in frame : q.id = p
             ids == {q.id : q \in frame}
             odd == \/ screen.odd
                    \/ /\ ~broken
                       /\ \E q \in frame : WindowsDesktop!Odd(screen.pointers[q.id], q.flags)
             pointers == [p \in DOMAIN screen.pointers |->
                            IF p \in ids THEN WindowsDesktop!Placed(of(p).flags)
                                         ELSE screen.pointers[p]]
  <2>1. screen' = [screen EXCEPT !.odd = odd, !.pointers = pointers]
    BY <1>2 DEF WindowsDesktop!Inject
  <2>2. \A q \in frame : of(q.id) = q
    OBVIOUS
  <2>3. odd \in BOOLEAN /\ DOMAIN pointers = PointerIds \cup {"pen"}
    BY DEF ScreenShape
  <2>4. /\ \A q \in frame : q.id \in PointerIds \cup {"pen"} =>
             pointers[q.id] = WindowsDesktop!Placed(q.flags)
        /\ \A p \in PointerIds \cup {"pen"} : (\A q \in frame : q.id # p) =>
             pointers[p] = screen.pointers[p]
    BY <2>2 DEF ScreenShape
  <2>5. (\A q \in frame : Fits(q)) => odd = screen.odd
    BY DEF Fits, ScreenShape
  <2> HIDE DEF odd, pointers, of
  <2>6. /\ DOMAIN screen' = DOMAIN screen /\ screen'.buttons = screen.buttons
        /\ screen'.odd = odd /\ screen'.pointers = pointers
    BY <2>1 DEF ScreenShape, ScreenParts
  <2>7. QED
    BY <1>2, <2>3, <2>4, <2>5, <2>6 DEF ScreenShape
<1>3. QED
  BY <1>1, <1>2

\* The same of a frame of contacts, slot by slot.
LEMMA ContactsTaken ==
  ASSUME NEW cs, Contacted(cs), NEW ok \in BOOLEAN, ScreenShape,
         WindowsDesktop!Inject(WindowsDesktop!TouchFrame(cs), ok)
  PROVE  /\ ~ok => screen' = screen
         /\ DOMAIN screen' = DOMAIN screen
         /\ DOMAIN screen'.pointers = DOMAIN screen.pointers
         /\ screen'.odd \in BOOLEAN
         /\ (\A i \in 1..Len(cs) : Fits(cs[i])) => screen'.odd = screen.odd
         /\ ok => /\ \A i \in 1..Len(cs) : screen'.pointers[cs[i].id].at = At(cs[i].flags)
                  /\ \A c \in PointerIds : (\A i \in 1..Len(cs) : cs[i].id # c) =>
                       screen'.pointers[c] = screen.pointers[c]
<1> DEFINE frame == WindowsDesktop!TouchFrame(cs)
<1>1. /\ DOMAIN cs = 1..Len(cs) /\ Len(cs) \in Nat
      /\ \A i \in 1..Len(cs) : cs[i] \in ContactStates /\ cs[i].id \in PointerIds
  <2>1. DOMAIN cs = 1..Len(cs) /\ Len(cs) \in Nat /\ \A i \in 1..Len(cs) : cs[i] \in ContactStates
    BY DEF Contacted
  <2>2. \A x \in ContactStates : x.id \in PointerIds
    BY DEF ContactStates
  <2>3. QED
    BY <2>1, <2>2
<1>2. /\ \A q \in frame : \E i \in 1..Len(cs) : q = [id |-> cs[i].id, flags |-> cs[i].flags]
      /\ \A i \in 1..Len(cs) : [id |-> cs[i].id, flags |-> cs[i].flags] \in frame
  BY <1>1 DEF WindowsDesktop!TouchFrame
<1>3. \A q, r \in frame : q.id = r.id => q = r
  BY <1>2 DEF Contacted
<1>4. \A q \in frame : \E i \in 1..Len(cs) : q.id = cs[i].id /\ q.flags = cs[i].flags
  BY <1>2
<1>5. \A i \in 1..Len(cs) : \E q \in frame : q.id = cs[i].id /\ q.flags = cs[i].flags
  BY <1>2
<1> HIDE DEF frame
<1>6. /\ ~ok => screen' = screen
      /\ DOMAIN screen' = DOMAIN screen
      /\ DOMAIN screen'.pointers = DOMAIN screen.pointers
      /\ screen'.odd \in BOOLEAN
      /\ (\A q \in frame : Fits(q)) => screen'.odd = screen.odd
      /\ ok => /\ \A q \in frame : q.id \in PointerIds \cup {"pen"} =>
                    screen'.pointers[q.id] = WindowsDesktop!Placed(q.flags)
               /\ \A p \in PointerIds \cup {"pen"} : (\A q \in frame : q.id # p) =>
                    screen'.pointers[p] = screen.pointers[p]
  BY <1>3, FrameTaken DEF frame
<1>7. ok => \A i \in 1..Len(cs) : screen'.pointers[cs[i].id].at = At(cs[i].flags)
  BY <1>1, <1>5, <1>6 DEF At
<1>8. ok => \A c \in PointerIds : (\A i \in 1..Len(cs) : cs[i].id # c) =>
              screen'.pointers[c] = screen.pointers[c]
  BY <1>4, <1>6
<1>9. (\A i \in 1..Len(cs) : Fits(cs[i])) => screen'.odd = screen.odd
  BY <1>4, <1>6 DEF Fits
<1>10. QED
  BY <1>6, <1>7, <1>8, <1>9

\* The slot of a contact: the one that it has, or the next.
LEMMA SlotOfContact ==
  ASSUME Contacted(touches), NEW c \in PointerIds
  PROVE  /\ WindowsDesktop!SlotFor(c) \in 1..(Len(touches) + 1)
         /\ c \in WindowsDesktop!Ids =>
              /\ WindowsDesktop!SlotFor(c) \in 1..Len(touches)
              /\ touches[WindowsDesktop!SlotFor(c)].id = c
         /\ c \notin WindowsDesktop!Ids => WindowsDesktop!SlotFor(c) = Len(touches) + 1
         /\ c \in WindowsDesktop!Ids <=> \E i \in 1..Len(touches) : touches[i].id = c
<1>1. DOMAIN touches = 1..Len(touches) /\ Len(touches) \in Nat
  BY DEF Contacted
<1>2. c \in WindowsDesktop!Ids <=> \E i \in 1..Len(touches) : touches[i].id = c
  BY <1>1 DEF WindowsDesktop!Ids
<1>3. QED
  BY <1>1, <1>2 DEF WindowsDesktop!SlotFor

\* RemoveAt() moves the slots behind the one it takes out.
LEMMA Removing ==
  ASSUME NEW cs, Contacted(cs), NEW k \in 1..Len(cs)
  PROVE  /\ Contacted(WindowsDesktop!RemoveAt(cs, k))
         /\ \A i \in 1..Len(cs) : i # k =>
              \E j \in 1..Len(WindowsDesktop!RemoveAt(cs, k)) :
                WindowsDesktop!RemoveAt(cs, k)[j] = cs[i]
         /\ \A j \in 1..Len(WindowsDesktop!RemoveAt(cs, k)) :
              \E i \in 1..Len(cs) : i # k /\ WindowsDesktop!RemoveAt(cs, k)[j] = cs[i]
<1> DEFINE s == WindowsDesktop!RemoveAt(cs, k)
<1>1. /\ s \in Seq(ContactStates) /\ Len(s) = Len(cs) - 1 /\ Len(cs) \in Nat
      /\ \A j \in 1..(Len(cs) - 1) : s[j] = IF j < k THEN cs[j] ELSE cs[j + 1]
  <2> DEFINE front == SubSeq(cs, 1, k - 1)
             back == SubSeq(cs, k + 1, Len(cs))
  <2>1. cs \in Seq(ContactStates) /\ Len(cs) \in Nat /\ k \in 1..Len(cs)
    BY DEF Contacted
  <2>2. /\ front \in Seq(ContactStates) /\ Len(front) = k - 1
        /\ \A j \in 1..(k - 1) : front[j] = cs[j]
    BY <2>1
  <2>3. /\ back \in Seq(ContactStates) /\ Len(back) = Len(cs) - k
        /\ \A j \in 1..(Len(cs) - k) : back[j] = cs[j + k]
    BY <2>1
  <2> HIDE DEF front, back
  <2>4. s = front \o back
    BY DEF front, back, WindowsDesktop!RemoveAt
  <2> HIDE DEF s
  <2>5. /\ s \in Seq(ContactStates) /\ Len(s) = Len(front) + Len(back)
        /\ \A j \in 1..(Len(front) + Len(back)) :
             s[j] = IF j <= Len(front) THEN front[j] ELSE back[j - Len(front)]
    <3>1. front \in Seq(ContactStates) /\ back \in Seq(ContactStates)
      BY <2>2, <2>3
    <3>2. QED
      BY <3>1, <2>4, ConcatProperties
  <2>6. /\ \A j \in 1..Len(front) : s[j] = front[j]
        /\ \A j \in 1..Len(back) : s[j + Len(front)] = back[j]
    <3>1. Len(front) \in Nat /\ Len(back) \in Nat
      BY <2>2, <2>3
    <3>2. \A j \in 1..Len(back) : s[j + Len(front)] = back[(j + Len(front)) - Len(front)]
      BY <3>1, <2>5
    <3>3. QED
      BY <3>1, <3>2, <2>5
  <2>7. \A j \in 1..(Len(cs) - 1) : s[j] = IF j < k THEN cs[j] ELSE cs[j + 1]
    <3> SUFFICES ASSUME NEW j \in 1..(Len(cs) - 1)
                 PROVE  s[j] = IF j < k THEN cs[j] ELSE cs[j + 1]
      OBVIOUS
    <3>1. CASE j < k
      BY <3>1, <2>1, <2>2, <2>6
    <3>2. CASE j >= k
      <4>1. /\ j - k + 1 \in 1..Len(back) /\ (j - k + 1) + k = j + 1
            /\ (j - k + 1) + Len(front) = j
        BY <3>2, <2>1, <2>2, <2>3
      <4>2. s[j] = back[j - k + 1] /\ back[j - k + 1] = cs[j + 1]
        BY <4>1, <2>3, <2>6
      <4>3. QED
        BY <3>2, <4>2, <2>1
    <3>3. QED
      BY <3>1, <3>2, <2>1
  <2>8. QED
    BY <2>1, <2>2, <2>3, <2>5, <2>7
<1> HIDE DEF s
<1>2. \A i, j \in 1..Len(s) : s[i].id = s[j].id => i = j
  BY <1>1 DEF Contacted
<1>3. \A j \in 1..Len(s) : \E i \in 1..Len(cs) : i # k /\ s[j] = cs[i]
  BY <1>1
<1>4. \A i \in 1..Len(cs) : i # k => \E j \in 1..Len(s) : s[j] = cs[i]
  <2> SUFFICES ASSUME NEW i \in 1..Len(cs), i # k
               PROVE  \E j \in 1..Len(s) : s[j] = cs[i]
    OBVIOUS
  <2>1. CASE i < k
    BY <1>1, <2>1
  <2>2. CASE i > k
    <3>1. i - 1 \in 1..Len(s) /\ s[i - 1] = cs[i]
      BY <1>1, <2>2
    <3>2. QED
      BY <3>1
  <2>3. QED
    BY <2>1, <2>2
<1>5. QED
  BY <1>1, <1>2, <1>3, <1>4 DEF s, Contacted

\* The contacts with x in the slot of the contact c.
Put(c, x) == IF c \in WindowsDesktop!Ids THEN [touches EXCEPT ![WindowsDesktop!SlotFor(c)] = x]
                                         ELSE Append(touches, x)

\* place_contact() puts a contact into its slot and leaves the others.
LEMMA Placing ==
  ASSUME Contacted(touches), NEW c \in PointerIds, NEW x \in ContactStates, x.id = c
  PROVE  /\ Contacted(Put(c, x)) /\ 1..Len(touches) \subseteq 1..Len(Put(c, x))
         /\ WindowsDesktop!SlotFor(c) \in 1..Len(Put(c, x))
         /\ Put(c, x)[WindowsDesktop!SlotFor(c)] = x
         /\ \A i \in 1..Len(Put(c, x)) : i # WindowsDesktop!SlotFor(c) =>
              i \in 1..Len(touches) /\ Put(c, x)[i] = touches[i] /\ Put(c, x)[i].id # c
<1> DEFINE k == WindowsDesktop!SlotFor(c)
           cs == Put(c, x)
<1>1. touches \in Seq(ContactStates) /\ Len(touches) \in Nat
  BY DEF Contacted
<1>2. /\ k \in 1..(Len(touches) + 1)
      /\ c \in WindowsDesktop!Ids => k \in 1..Len(touches) /\ touches[k].id = c
      /\ c \notin WindowsDesktop!Ids => k = Len(touches) + 1
      /\ c \in WindowsDesktop!Ids <=> \E i \in 1..Len(touches) : touches[i].id = c
  BY SlotOfContact
<1> HIDE DEF k, cs
<1>3. /\ cs \in Seq(ContactStates) /\ Len(cs) \in Nat
      /\ 1..Len(touches) \subseteq 1..Len(cs)
      /\ k \in 1..Len(cs) /\ cs[k] = x
      /\ \A i \in 1..Len(cs) : i # k => i \in 1..Len(touches) /\ cs[i] = touches[i]
  <2>1. CASE c \in WindowsDesktop!Ids
    <3>1. cs = [touches EXCEPT ![k] = x]
      BY <2>1 DEF k, cs, Put
    <3>2. k \in 1..Len(touches) /\ x \in ContactStates /\ touches \in Seq(ContactStates)
      BY <2>1, <1>1, <1>2
    <3>3. /\ [touches EXCEPT ![k] = x] \in Seq(ContactStates)
          /\ Len([touches EXCEPT ![k] = x]) = Len(touches)
          /\ \A j \in 1..Len(touches) :
               [touches EXCEPT ![k] = x][j] = IF j = k THEN x ELSE touches[j]
      BY ONLY <3>2, ExceptSeq
    <3>4. QED
      BY <3>1, <3>2, <3>3, <1>1
  <2>2. CASE c \notin WindowsDesktop!Ids
    <3>1. cs = Append(touches, x)
      BY <2>2 DEF cs, Put
    <3>2. QED
      BY <3>1, <2>2, <1>1, <1>2
  <2>3. QED
    BY <2>1, <2>2
<1>4. \A i \in 1..Len(cs) : i # k => cs[i].id # c
  BY <1>2, <1>3 DEF Contacted
<1>5. \A i, j \in 1..Len(cs) : cs[i].id = cs[j].id => i = j
  BY <1>3, <1>4 DEF Contacted
<1>6. QED
  BY <1>3, <1>4, <1>5 DEF k, cs, Contacted

\* Marks and edges decide nothing of where a pointer is.
LEMMA FlagsPlace ==
  ASSUME NEW flags
  PROVE  /\ "incontact" \in flags => At(flags) = "touch"
         /\ "incontact" \notin flags /\ "inrange" \in flags => At(flags) = "hover"
         /\ "incontact" \notin flags /\ "inrange" \notin flags => At(flags) = "away"
         /\ At(flags \ WindowsDesktop!Edges) = At(flags)
BY DEF At, WindowsDesktop!Placed, WindowsDesktop!Edges

\* The next frame repeats no edge while no call has failed.
LEMMA FrameQuiet ==
  ASSUME PointersInv, device = "touchscreen", ~broken, NEW i \in 1..Len(touches)
  PROVE  ~WindowsDesktop!Odd(screen.pointers[touches[i].id], touches[i].flags)
<1>1. touches[i] \in ContactStates
  BY DEF PointersInv, ScreenShape, Contacted
<1>2. touches[i].id \in PointerIds
  BY <1>1 DEF ContactStates
<1>3. /\ touches[i].flags \cap WindowsDesktop!Edges = {}
      /\ screen.pointers[touches[i].id].at = At(touches[i].flags)
  BY <1>2 DEF PointersInv, ContactsShown, IsKnown
<1>4. QED
  BY <1>3, FlagsPlace DEF WindowsDesktop!Odd, WindowsDesktop!Edges

\* Contacts are as shown after a frame in which only the contact c is new.
LEMMA PlaceKeeps ==
  ASSUME PointersInv, NEW c \in PointerIds, NEW touching \in BOOLEAN, NEW ok \in BOOLEAN,
         WindowsDesktop!PlaceContact(c, touching, ok)
  PROVE  PointersInv'
<1> DEFINE k == WindowsDesktop!SlotFor(c)
           old == IF c \in WindowsDesktop!Ids THEN touches[k]
                  ELSE [id |-> c, flags |-> {}, touching |-> FALSE]
           flags == {"inrange"} \cup
                    IF touching
                      THEN old.flags \cup {"incontact", IF old.touching THEN "update" ELSE "down"}
                      ELSE (old.flags \ {"incontact"}) \cup {"update"}
           new == [old EXCEPT !.flags = flags]
           kept == [id |-> c, flags |-> flags \ WindowsDesktop!Edges, touching |-> touching]
           placed(x) == IF c \in WindowsDesktop!Ids THEN [touches EXCEPT ![k] = x]
                                               ELSE Append(touches, x)
           there == IF touching THEN "touch" ELSE "hover"
<1>1. /\ device = "touchscreen" /\ device' = device /\ pen' = pen /\ api' = api
      /\ WindowsDesktop!Inject(WindowsDesktop!TouchFrame(placed(new)), ok)
      /\ touches' = IF ok THEN placed(kept) ELSE placed(new)
      /\ known' = [known EXCEPT ![c] = IF ok THEN there ELSE "unknown"]
      /\ broken' = (broken \/ ~ok)
  BY DEF WindowsDesktop!PlaceContact, WindowsDesktop!Known
<1>2. /\ ScreenShape /\ Contacted(touches) /\ Len(touches) \in Nat
      /\ \A i \in 1..Len(touches) : touches[i] \in ContactStates
  BY DEF PointersInv, ScreenShape, Contacted
<1>3. /\ c \in WindowsDesktop!Ids => k \in 1..Len(touches) /\ touches[k].id = c
      /\ \A i \in 1..Len(touches) : i = k => touches[i].id = c
      /\ \A d \in PointerIds :
           d \in WindowsDesktop!Ids <=> \E i \in 1..Len(touches) : touches[i].id = d
  BY <1>2, SlotOfContact
<1>4. old \in ContactStates /\ old.id = c
  <2>1. CASE c \in WindowsDesktop!Ids
    BY <2>1, <1>2, <1>3
  <2>2. CASE c \notin WindowsDesktop!Ids
    BY <2>2 DEF ContactStates
  <2>3. QED
    BY <2>1, <2>2
<1> HIDE DEF old
<1>5. flags \in SUBSET PointerFlags
  BY <1>4 DEF ContactStates, PointerFlags, WindowsDesktop!Edges
<1>6. /\ new \in ContactStates /\ new.id = c /\ new.flags = flags
      /\ kept \in ContactStates /\ kept.id = c /\ kept.touching = touching
      /\ kept.flags = flags \ WindowsDesktop!Edges
  BY <1>4, <1>5 DEF ContactStates
<1>7. At(flags) = there /\ At(flags \ WindowsDesktop!Edges) = there
  BY FlagsPlace
<1>8. ~broken => ~WindowsDesktop!Odd(screen.pointers[c], flags)
  <2> SUFFICES ASSUME ~broken
               PROVE  ~WindowsDesktop!Odd(screen.pointers[c], flags)
    OBVIOUS
  <2>1. screen.pointers[c].at = known[c] /\ (c \notin WindowsDesktop!Ids => known[c] = "away")
    BY <1>1 DEF PointersInv, ContactsShown, IsKnown
  <2>2. old.flags \cap WindowsDesktop!Edges = {} /\ (old.touching <=> known[c] = "touch")
    <3>1. CASE c \in WindowsDesktop!Ids
      BY <3>1, <1>1, <1>3 DEF old, PointersInv, ContactsShown
    <3>2. CASE c \notin WindowsDesktop!Ids
      BY <3>2, <2>1 DEF old
    <3>3. QED
      BY <3>1, <3>2
  <2>3. QED
    BY <2>1, <2>2 DEF WindowsDesktop!Odd, WindowsDesktop!Edges
<1>9. (flags \ WindowsDesktop!Edges) \cap WindowsDesktop!Edges = {}
  OBVIOUS
<1> HIDE DEF flags, new, kept
<1>10. PICK frame : frame = placed(new)
  OBVIOUS
<1>11. PICK left : left = IF ok THEN kept ELSE new
  OBVIOUS
<1>12. /\ left \in ContactStates /\ left.id = c /\ At(left.flags) = there
       /\ ok => left.flags \cap WindowsDesktop!Edges = {} /\ left.touching = touching
  BY <1>6, <1>7, <1>9, <1>11
<1>13. PICK after : after = placed(left)
  OBVIOUS
<1>14. touches' = after /\ WindowsDesktop!Inject(WindowsDesktop!TouchFrame(frame), ok)
  BY <1>1, <1>10, <1>11, <1>13
<1>15. /\ Contacted(frame) /\ 1..Len(touches) \subseteq 1..Len(frame)
       /\ k \in 1..Len(frame) /\ frame[k] = new
       /\ \A i \in 1..Len(frame) : i # k =>
            i \in 1..Len(touches) /\ frame[i] = touches[i] /\ frame[i].id # c
  <2>1. frame = Put(c, new)
    BY <1>10 DEF Put
  <2>2. QED
    BY <1>2, <1>6, <2>1, Placing
<1>16. /\ Contacted(after) /\ 1..Len(touches) \subseteq 1..Len(after)
       /\ k \in 1..Len(after) /\ after[k] = left
       /\ \A i \in 1..Len(after) : i # k =>
            i \in 1..Len(touches) /\ after[i] = touches[i] /\ after[i].id # c
  <2>1. after = Put(c, left)
    BY <1>13 DEF Put
  <2>2. QED
    BY <1>2, <1>12, <2>1, Placing
<1> HIDE DEF placed, k, there
<1>17. /\ ~ok => screen' = screen
       /\ DOMAIN screen' = DOMAIN screen
       /\ DOMAIN screen'.pointers = DOMAIN screen.pointers
       /\ screen'.odd \in BOOLEAN
       /\ (\A i \in 1..Len(frame) : Fits(frame[i])) => screen'.odd = screen.odd
       /\ ok => /\ \A i \in 1..Len(frame) : screen'.pointers[frame[i].id].at = At(frame[i].flags)
                /\ \A d \in PointerIds : (\A i \in 1..Len(frame) : frame[i].id # d) =>
                     screen'.pointers[d] = screen.pointers[d]
  BY <1>2, <1>14, <1>15, ContactsTaken
<1>18. \A i \in 1..Len(frame) : Fits(frame[i])
  BY <1>1, <1>6, <1>8, <1>15, FrameQuiet DEF Fits
<1>19. ScreenShape'
  BY <1>1, <1>2, <1>14, <1>16, <1>17, <1>18 DEF ScreenShape
<1>20. \A d \in PointerIds : d \in WindowsDesktop!Ids' <=> d = c \/ d \in WindowsDesktop!Ids
  <2>1. DOMAIN after = 1..Len(after)
    BY <1>16 DEF Contacted
  <2>2. WindowsDesktop!Ids' = {after[i].id : i \in 1..Len(after)}
    BY <2>1, <1>14 DEF WindowsDesktop!Ids
  <2>3. QED
    BY <2>2, <1>3, <1>12, <1>16
<1>21. ContactsShown'
  <2>1. /\ DOMAIN known = PointerIds /\ DOMAIN known' = PointerIds
        /\ known'[c] = IF ok THEN there ELSE "unknown"
        /\ \A d \in PointerIds \ {c} : known'[d] = known[d]
    BY <1>1 DEF PointersInv, ContactsShown
  <2>2. /\ there \in {"touch", "hover"} /\ (there = "touch" <=> touching)
    BY DEF there
  <2>3. ok => screen'.pointers[c].at = there
    BY <1>6, <1>7, <1>15, <1>17
  <2>4. \A i \in 1..Len(touches) : touches[i].id \in PointerIds
    BY <1>2 DEF ContactStates
  <2>5. \A d \in PointerIds \ {c} : \A i \in 1..Len(touches) :
          ok /\ touches[i].id = d => screen'.pointers[d].at = At(touches[i].flags)
    BY <1>3, <1>15, <1>17
  <2>6. \A d \in PointerIds \ {c} :
          d \notin WindowsDesktop!Ids => screen'.pointers[d] = screen.pointers[d]
    BY <1>3, <1>6, <1>15, <1>17
  <2>7. \A d \in PointerIds :
          /\ IsKnown(d)' => screen'.pointers[d].at = known'[d]
          /\ screen'.pointers[d].at # "away" \/ known'[d] = "unknown" =>
               d \in WindowsDesktop!Ids'
          /\ known'[d] = "away" => d \notin WindowsDesktop!Ids'
    <3>1. ASSUME NEW d \in PointerIds \ {c}
          PROVE  /\ IsKnown(d)' => screen'.pointers[d].at = known'[d]
                 /\ screen'.pointers[d].at # "away" \/ known'[d] = "unknown" =>
                      d \in WindowsDesktop!Ids'
                 /\ known'[d] = "away" => d \notin WindowsDesktop!Ids'
      <4>1. /\ IsKnown(d) => screen.pointers[d].at = known[d]
            /\ screen.pointers[d].at # "away" \/ known[d] = "unknown" => d \in WindowsDesktop!Ids
            /\ known[d] = "away" => d \notin WindowsDesktop!Ids
            /\ \A i \in 1..Len(touches) :
                 IsKnown(touches[i].id) => At(touches[i].flags) = known[touches[i].id]
        BY <1>1 DEF PointersInv, ContactsShown
      <4>2. CASE ~ok
        BY <4>1, <4>2, <2>1, <1>17, <1>20 DEF IsKnown
      <4>3. CASE ok /\ d \in WindowsDesktop!Ids
        BY <4>1, <4>3, <2>1, <2>5, <1>3, <1>20 DEF IsKnown
      <4>4. CASE ok /\ d \notin WindowsDesktop!Ids
        BY <4>1, <4>4, <2>1, <2>6, <1>20 DEF IsKnown
      <4>5. QED
        BY <4>2, <4>3, <4>4
    <3>2. QED
      BY <3>1, <2>1, <2>2, <2>3, <1>20 DEF IsKnown
  <2>8. \A i \in 1..Len(after) :
          IsKnown(after[i].id)' => At(after[i].flags) = known'[after[i].id]
    BY <1>1, <1>12, <1>16, <2>1, <2>4 DEF PointersInv, ContactsShown, IsKnown
  <2>9. ASSUME ~broken'
        PROVE  /\ \A d \in PointerIds : IsKnown(d)'
               /\ \A i \in 1..Len(after) :
                    /\ after[i].flags \cap WindowsDesktop!Edges = {}
                    /\ after[i].touching <=> known'[after[i].id] = "touch"
    BY <2>9, <1>1, <1>12, <1>16, <2>1, <2>2, <2>4 DEF PointersInv, ContactsShown, IsKnown
  <2>10. QED
    BY <1>14, <2>1, <2>7, <2>8, <2>9 DEF ContactsShown, IsKnown
<1>22. QED
  BY <1>1, <1>19, <1>21 DEF PointersInv, ButtonsShown, PenShown

\* Contacts are as shown after a frame that ends the contact c.
LEMMA ReleaseKeeps ==
  ASSUME PointersInv, NEW c \in PointerIds, NEW t \in WindowsDesktop!Transitions,
         NEW ok \in BOOLEAN, WindowsDesktop!ReleaseContact(c, t, ok)
  PROVE  PointersInv'
<1> DEFINE k == WindowsDesktop!SlotFor(c)
           flags == WindowsDesktop!Ended(touches[k].flags, t, touches[k].touching)
           new == [touches[k] EXCEPT !.flags = flags]
<1>1. /\ device = "touchscreen" /\ device' = device /\ pen' = pen /\ api' = api
      /\ c \in WindowsDesktop!Ids
      /\ WindowsDesktop!Inject(WindowsDesktop!TouchFrame(Put(c, new)), ok)
      /\ touches' = IF ok THEN WindowsDesktop!RemoveAt(Put(c, new), k) ELSE Put(c, new)
      /\ known' = [known EXCEPT ![c] = IF ok THEN "away" ELSE "unknown"]
      /\ broken' = (broken \/ ~ok)
  BY DEF WindowsDesktop!ReleaseContact, WindowsDesktop!Known, Put
<1>2. /\ ScreenShape /\ Contacted(touches) /\ Len(touches) \in Nat
      /\ \A i \in 1..Len(touches) : touches[i] \in ContactStates
  BY DEF PointersInv, ScreenShape, Contacted
<1>3. /\ k \in 1..Len(touches) /\ touches[k].id = c
      /\ \A d \in PointerIds :
           d \in WindowsDesktop!Ids <=> \E i \in 1..Len(touches) : touches[i].id = d
  BY <1>1, <1>2, SlotOfContact
<1>4. touches[k] \in ContactStates
  BY <1>2, <1>3
<1>5. flags \in SUBSET PointerFlags
  BY <1>4 DEF ContactStates, PointerFlags, WindowsDesktop!Edges, WindowsDesktop!Ended
<1>6. new \in ContactStates /\ new.id = c /\ new.flags = flags
  BY <1>3, <1>4, <1>5 DEF ContactStates
<1>7. At(flags) = "away"
  BY FlagsPlace DEF WindowsDesktop!Ended
<1>8. ~broken => ~WindowsDesktop!Odd(screen.pointers[c], flags)
  <2> SUFFICES ASSUME ~broken
               PROVE  ~WindowsDesktop!Odd(screen.pointers[c], flags)
    OBVIOUS
  <2>1. /\ screen.pointers[c].at = known[c]
        /\ touches[k].flags \cap WindowsDesktop!Edges = {}
        /\ touches[k].touching <=> known[c] = "touch"
    BY <1>1, <1>3 DEF PointersInv, ContactsShown, IsKnown
  <2>2. QED
    BY <2>1 DEF WindowsDesktop!Odd, WindowsDesktop!Edges, WindowsDesktop!Ended
<1> HIDE DEF flags, new
<1>9. PICK frame : frame = Put(c, new)
  OBVIOUS
<1>10. PICK after : after = IF ok THEN WindowsDesktop!RemoveAt(frame, k) ELSE frame
  OBVIOUS
<1>11. touches' = after /\ WindowsDesktop!Inject(WindowsDesktop!TouchFrame(frame), ok)
  BY <1>1, <1>9, <1>10
<1>12. /\ Contacted(frame) /\ 1..Len(touches) \subseteq 1..Len(frame)
       /\ k \in 1..Len(frame) /\ frame[k] = new
       /\ \A i \in 1..Len(frame) : i # k =>
            i \in 1..Len(touches) /\ frame[i] = touches[i] /\ frame[i].id # c
  BY <1>2, <1>6, <1>9, Placing
<1> HIDE DEF k
<1>13. /\ Contacted(after)
       /\ \A j \in 1..Len(after) : \E i \in 1..Len(frame) : after[j] = frame[i] /\ (ok => i # k)
       /\ \A i \in 1..Len(frame) : ~ok \/ i # k => \E j \in 1..Len(after) : after[j] = frame[i]
  <2>1. CASE ok
    BY <2>1, <1>10, <1>12, Removing
  <2>2. CASE ~ok
    BY <2>2, <1>10, <1>12
  <2>3. QED
    BY <2>1, <2>2
<1>14. /\ ~ok => screen' = screen
       /\ DOMAIN screen' = DOMAIN screen
       /\ DOMAIN screen'.pointers = DOMAIN screen.pointers
       /\ screen'.odd \in BOOLEAN
       /\ (\A i \in 1..Len(frame) : Fits(frame[i])) => screen'.odd = screen.odd
       /\ ok => /\ \A i \in 1..Len(frame) : screen'.pointers[frame[i].id].at = At(frame[i].flags)
                /\ \A d \in PointerIds : (\A i \in 1..Len(frame) : frame[i].id # d) =>
                     screen'.pointers[d] = screen.pointers[d]
  BY <1>2, <1>11, <1>12, ContactsTaken
<1>15. \A i \in 1..Len(frame) : Fits(frame[i])
  BY <1>1, <1>6, <1>8, <1>12, FrameQuiet DEF Fits
<1>16. ScreenShape'
  BY <1>1, <1>2, <1>11, <1>13, <1>14, <1>15 DEF ScreenShape
<1>17. \A d \in PointerIds : d \in WindowsDesktop!Ids' <=> d \in WindowsDesktop!Ids /\ (ok => d # c)
  <2>1. DOMAIN after = 1..Len(after)
    BY <1>13 DEF Contacted
  <2>2. WindowsDesktop!Ids' = {after[i].id : i \in 1..Len(after)}
    BY <2>1, <1>11 DEF WindowsDesktop!Ids
  <2>3. \A d \in PointerIds :
          (\E i \in 1..Len(frame) : frame[i].id = d) <=> d \in WindowsDesktop!Ids
    BY <1>3, <1>6, <1>12
  <2>4. \A i \in 1..Len(frame) : i = k <=> frame[i].id = c
    BY <1>6, <1>12
  <2>5. ASSUME NEW d \in PointerIds, d \in WindowsDesktop!Ids'
        PROVE  d \in WindowsDesktop!Ids /\ (ok => d # c)
    <3>1. PICK j \in 1..Len(after) : after[j].id = d
      BY <2>2, <2>5
    <3>2. PICK i \in 1..Len(frame) : after[j] = frame[i] /\ (ok => i # k)
      BY <1>13
    <3>3. QED
      BY <3>1, <3>2, <2>3, <2>4
  <2>6. ASSUME NEW d \in PointerIds, d \in WindowsDesktop!Ids, ok => d # c
        PROVE  d \in WindowsDesktop!Ids'
    <3>1. PICK i \in 1..Len(frame) : frame[i].id = d
      BY <2>3, <2>6
    <3>2. ~ok \/ i # k
      BY <3>1, <2>4, <2>6
    <3>3. PICK j \in 1..Len(after) : after[j] = frame[i]
      BY <3>2, <1>13
    <3>4. QED
      BY <3>1, <3>3, <2>2
  <2>7. QED
    BY <2>5, <2>6
<1>18. ContactsShown'
  <2>1. /\ DOMAIN known = PointerIds /\ DOMAIN known' = PointerIds
        /\ known'[c] = IF ok THEN "away" ELSE "unknown"
        /\ \A d \in PointerIds \ {c} : known'[d] = known[d]
    BY <1>1 DEF PointersInv, ContactsShown
  <2>2. ok => screen'.pointers[c].at = "away"
    BY <1>6, <1>7, <1>12, <1>14
  <2>3. \A i \in 1..Len(touches) : touches[i].id \in PointerIds
    BY <1>2 DEF ContactStates
  <2>4. \A d \in PointerIds \ {c} : \A i \in 1..Len(touches) :
          ok /\ touches[i].id = d => screen'.pointers[d].at = At(touches[i].flags)
    BY <1>3, <1>12, <1>14
  <2>5. \A d \in PointerIds \ {c} :
          d \notin WindowsDesktop!Ids => screen'.pointers[d] = screen.pointers[d]
    BY <1>3, <1>6, <1>12, <1>14
  <2>6. \A j \in 1..Len(after) :
          \/ after[j].id = c /\ ~ok
          \/ \E i \in 1..Len(touches) : after[j] = touches[i] /\ touches[i].id # c
    <3> SUFFICES ASSUME NEW j \in 1..Len(after)
                 PROVE  \/ after[j].id = c /\ ~ok
                        \/ \E i \in 1..Len(touches) : after[j] = touches[i] /\ touches[i].id # c
      OBVIOUS
    <3>1. PICK i \in 1..Len(frame) : after[j] = frame[i] /\ (ok => i # k)
      BY <1>13
    <3>2. CASE i = k
      BY <3>1, <3>2, <1>6, <1>12
    <3>3. CASE i # k
      BY <3>1, <3>3, <1>12
    <3>4. QED
      BY <3>2, <3>3
  <2>7. \A d \in PointerIds :
          /\ IsKnown(d)' => screen'.pointers[d].at = known'[d]
          /\ screen'.pointers[d].at # "away" \/ known'[d] = "unknown" =>
               d \in WindowsDesktop!Ids'
          /\ known'[d] = "away" => d \notin WindowsDesktop!Ids'
    <3>1. ASSUME NEW d \in PointerIds \ {c}
          PROVE  /\ IsKnown(d)' => screen'.pointers[d].at = known'[d]
                 /\ screen'.pointers[d].at # "away" \/ known'[d] = "unknown" =>
                      d \in WindowsDesktop!Ids'
                 /\ known'[d] = "away" => d \notin WindowsDesktop!Ids'
      <4>1. /\ IsKnown(d) => screen.pointers[d].at = known[d]
            /\ screen.pointers[d].at # "away" \/ known[d] = "unknown" => d \in WindowsDesktop!Ids
            /\ known[d] = "away" => d \notin WindowsDesktop!Ids
            /\ \A i \in 1..Len(touches) :
                 IsKnown(touches[i].id) => At(touches[i].flags) = known[touches[i].id]
        BY <1>1 DEF PointersInv, ContactsShown
      <4>2. CASE ~ok
        BY <4>1, <4>2, <2>1, <1>14, <1>17 DEF IsKnown
      <4>3. CASE ok /\ d \in WindowsDesktop!Ids
        BY <4>1, <4>3, <2>1, <2>4, <1>3, <1>17 DEF IsKnown
      <4>4. CASE ok /\ d \notin WindowsDesktop!Ids
        BY <4>1, <4>4, <2>1, <2>5, <1>17 DEF IsKnown
      <4>5. QED
        BY <4>2, <4>3, <4>4
    <3>2. QED
      BY <3>1, <2>1, <2>2, <1>1, <1>17 DEF IsKnown
  <2>8. \A i \in 1..Len(after) :
          IsKnown(after[i].id)' => At(after[i].flags) = known'[after[i].id]
    BY <1>1, <2>1, <2>3, <2>6 DEF PointersInv, ContactsShown, IsKnown
  <2>9. ASSUME ~broken'
        PROVE  /\ \A d \in PointerIds : IsKnown(d)'
               /\ \A i \in 1..Len(after) :
                    /\ after[i].flags \cap WindowsDesktop!Edges = {}
                    /\ after[i].touching <=> known'[after[i].id] = "touch"
    <3>1. /\ ok
          /\ \A d \in PointerIds : IsKnown(d)
          /\ \A i \in 1..Len(touches) :
               /\ touches[i].flags \cap WindowsDesktop!Edges = {}
               /\ touches[i].touching <=> known[touches[i].id] = "touch"
      BY <2>9, <1>1 DEF PointersInv, ContactsShown
    <3>2. \A j \in 1..Len(after) : \E i \in 1..Len(touches) :
            after[j] = touches[i] /\ touches[i].id # c
      BY <3>1, <2>6
    <3>3. \A i \in 1..Len(touches) : touches[i].id # c =>
            /\ touches[i].flags \cap WindowsDesktop!Edges = {}
            /\ touches[i].touching <=> known'[touches[i].id] = "touch"
      BY <3>1, <2>1, <2>3
    <3>4. QED
      BY <3>1, <3>2, <3>3, <2>1 DEF IsKnown
  <2>10. QED
    BY <1>11, <2>1, <2>7, <2>8, <2>9 DEF ContactsShown, IsKnown
<1>19. QED
  BY <1>1, <1>16, <1>18 DEF PointersInv, ButtonsShown, PenShown

\* The refresh of a touchscreen changes nothing that is known.
LEMMA RefreshKeeps ==
  ASSUME PointersInv, device = "touchscreen", NEW ok \in BOOLEAN, WindowsDesktop!Refresh(ok)
  PROVE  PointersInv'
<1>1. /\ WindowsDesktop!Inject(WindowsDesktop!TouchFrame(touches), ok)
      /\ UNCHANGED <<device, api, pen, touches, known, broken, pressed>>
  BY DEF WindowsDesktop!Refresh, WindowsDesktop!libraryVars, WindowsDesktop!historyVars
<1>2. /\ ScreenShape /\ Contacted(touches) /\ DOMAIN touches = 1..Len(touches)
      /\ \A i \in 1..Len(touches) : touches[i] \in ContactStates
  BY DEF PointersInv, ScreenShape, Contacted
<1>3. /\ ~ok => screen' = screen
      /\ DOMAIN screen' = DOMAIN screen
      /\ DOMAIN screen'.pointers = DOMAIN screen.pointers
      /\ screen'.odd \in BOOLEAN
      /\ (\A i \in 1..Len(touches) : Fits(touches[i])) => screen'.odd = screen.odd
      /\ ok => /\ \A i \in 1..Len(touches) :
                    screen'.pointers[touches[i].id].at = At(touches[i].flags)
               /\ \A d \in PointerIds : (\A i \in 1..Len(touches) : touches[i].id # d) =>
                    screen'.pointers[d] = screen.pointers[d]
  BY <1>1, <1>2, ContactsTaken
<1>4. ScreenShape'
  BY <1>1, <1>2, <1>3, FrameQuiet DEF Fits, ScreenShape, Contacted
<1>5. /\ WindowsDesktop!Ids = {touches[i].id : i \in 1..Len(touches)}
      /\ WindowsDesktop!Ids' = WindowsDesktop!Ids
  BY <1>1, <1>2 DEF WindowsDesktop!Ids
<1>6. ContactsShown'
  BY <1>1, <1>3, <1>5 DEF PointersInv, ContactsShown, IsKnown
<1>7. QED
  BY <1>1, <1>4, <1>6 DEF PointersInv, ButtonsShown, PenShown

\* The same of the frame of a pen.
LEMMA PenTaken ==
  ASSUME NEW flags, NEW ok \in BOOLEAN, ScreenShape,
         WindowsDesktop!Inject({[id |-> "pen", flags |-> flags]}, ok)
  PROVE  /\ ~ok => screen' = screen
         /\ DOMAIN screen' = DOMAIN screen
         /\ DOMAIN screen'.pointers = DOMAIN screen.pointers
         /\ screen'.odd \in BOOLEAN
         /\ broken \/ ~WindowsDesktop!Odd(screen.pointers["pen"], flags) => screen'.odd = screen.odd
         /\ ok => /\ screen'.pointers["pen"].at = At(flags)
                  /\ screen'.pointers["pen"].marks = flags \cap WindowsDesktop!Marks
         /\ \A c \in PointerIds : screen'.pointers[c] = screen.pointers[c]
<1> DEFINE q == [id |-> "pen", flags |-> flags]
<1>1. PICK frame : frame = {q}
  OBVIOUS
<1>2. /\ \A r \in frame : r.id = "pen" /\ r.flags = flags
      /\ \E r \in frame : TRUE
      /\ \A r, p \in frame : r.id = p.id => r = p
  BY <1>1
<1>3. /\ ~ok => screen' = screen
      /\ DOMAIN screen' = DOMAIN screen
      /\ DOMAIN screen'.pointers = DOMAIN screen.pointers
      /\ screen'.odd \in BOOLEAN
      /\ (\A r \in frame : Fits(r)) => screen'.odd = screen.odd
      /\ ok => /\ \A r \in frame : r.id \in PointerIds \cup {"pen"} =>
                    screen'.pointers[r.id] = WindowsDesktop!Placed(r.flags)
               /\ \A p \in PointerIds \cup {"pen"} : (\A r \in frame : r.id # p) =>
                    screen'.pointers[p] = screen.pointers[p]
  BY <1>1, <1>2, FrameTaken
<1>4. ok => screen'.pointers["pen"] = WindowsDesktop!Placed(flags)
  BY <1>2, <1>3
<1>5. \A c \in PointerIds : screen'.pointers[c] = screen.pointers[c]
  BY <1>2, <1>3, BackendsAssumption DEF WindowsDesktop!ScreenAssumption
<1>6. QED
  BY <1>2, <1>3, <1>4, <1>5 DEF At, Fits, WindowsDesktop!Placed

\* A pen is as shown after the frame of a tool.
LEMMA ToolKeeps ==
  ASSUME PointersInv, NEW tl \in {"pen", "eraser", "unchanged"},
         NEW t \in WindowsDesktop!Transitions \cup {"update"}, NEW pressure \in BOOLEAN,
         NEW ok \in BOOLEAN, WindowsDesktop!PlaceTool(tl, t, pressure, ok)
  PROVE  PointersInv'
<1> DEFINE marked == WindowsDesktop!BarrelFlags(WindowsDesktop!ToolFlags(pen.flags, tl), pen.barrel)
           inRange == t = "update"
           flags == IF ~inRange THEN WindowsDesktop!Ended(marked, t, pen.contacting)
                    ELSE {"inrange", "update"} \cup
                         IF ~pressure THEN marked \ {"incontact"}
                         ELSE marked \cup {"incontact"}
                                \cup (IF pen.contacting THEN {} ELSE {"down"})
           there == IF ~inRange THEN "away" ELSE IF pressure THEN "touch" ELSE "hover"
           after == IF ok THEN flags \ WindowsDesktop!Edges ELSE flags
<1>1. /\ device = "pen_tablet" /\ device' = device /\ touches' = touches /\ api' = api
      /\ WindowsDesktop!Inject({[id |-> "pen", flags |-> flags]}, ok)
      /\ pen' = [pen EXCEPT !.flags = after, !.active = inRange, !.contacting = inRange /\ pressure]
      /\ known' = [known EXCEPT
           !["pen"] = IF ok THEN there ELSE "unknown",
           !["eraser"] = IF tl = "unchanged" THEN @
                         ELSE IF ok THEN WindowsDesktop!UpOrDown(tl = "eraser") ELSE "unknown"]
      /\ broken' = (broken \/ ~ok)
  BY DEF WindowsDesktop!PlaceTool
<1>2. /\ ScreenShape /\ pen \in PenStates /\ pen.flags \in SUBSET PointerFlags
      /\ pen.barrel \in BOOLEAN /\ pen.contacting \in BOOLEAN
  BY DEF PointersInv, ScreenShape, PenStates
<1>3. /\ flags \in SUBSET PointerFlags /\ after \in SUBSET PointerFlags
  BY <1>2 DEF PointerFlags, WindowsDesktop!Edges, WindowsDesktop!Marks, WindowsDesktop!Ended,
    WindowsDesktop!BarrelFlags, WindowsDesktop!SetIf, WindowsDesktop!ToolFlags
<1>4. At(flags) = there /\ At(after) = there
  BY FlagsPlace DEF WindowsDesktop!Ended
<1>5. /\ "barrel" \in flags <=> pen.barrel
      /\ "eraser" \in flags <=> tl = "eraser" \/ (tl = "unchanged" /\ "eraser" \in pen.flags)
      /\ \A x \in WindowsDesktop!Marks : x \in after <=> x \in flags
  BY DEF WindowsDesktop!Edges, WindowsDesktop!Marks, WindowsDesktop!Ended,
    WindowsDesktop!BarrelFlags, WindowsDesktop!SetIf, WindowsDesktop!ToolFlags
<1>6. ok => after \cap WindowsDesktop!Edges = {}
  OBVIOUS
<1>7. ~broken => ~WindowsDesktop!Odd(screen.pointers["pen"], flags)
  <2> SUFFICES ASSUME ~broken
               PROVE  ~WindowsDesktop!Odd(screen.pointers["pen"], flags)
    OBVIOUS
  <2>1. /\ screen.pointers["pen"].at = known["pen"] /\ pen.flags \cap WindowsDesktop!Edges = {}
        /\ pen.contacting <=> known["pen"] = "touch"
    BY <1>1 DEF PointersInv, PenShown, IsKnown
  <2>2. marked \cap WindowsDesktop!Edges = {}
    BY <2>1 DEF WindowsDesktop!Edges, WindowsDesktop!BarrelFlags, WindowsDesktop!SetIf,
      WindowsDesktop!ToolFlags
  <2> HIDE DEF marked
  <2>3. QED
    BY <2>1, <2>2 DEF WindowsDesktop!Odd, WindowsDesktop!Edges, WindowsDesktop!Ended
<1> HIDE DEF flags, after, marked
<1>8. /\ ~ok => screen' = screen
      /\ DOMAIN screen' = DOMAIN screen
      /\ DOMAIN screen'.pointers = DOMAIN screen.pointers
      /\ screen'.odd \in BOOLEAN /\ screen'.odd = screen.odd
      /\ ok => /\ screen'.pointers["pen"].at = there
               /\ screen'.pointers["pen"].marks = flags \cap WindowsDesktop!Marks
      /\ \A c \in PointerIds : screen'.pointers[c] = screen.pointers[c]
  BY <1>1, <1>2, <1>4, <1>7, PenTaken
<1>9. /\ pen' \in PenStates /\ pen'.flags = after /\ pen'.barrel = pen.barrel
      /\ pen'.active = inRange /\ pen'.contacting = (inRange /\ pressure)
  BY <1>1, <1>2, <1>3 DEF PenStates
<1>10. ScreenShape'
  BY <1>1, <1>2, <1>8, <1>9 DEF ScreenShape, Contacted
<1>11. PenShown'
  <2>1. /\ DOMAIN known = {"pen"} \cup WindowsDesktop!Marks
        /\ \A x \in WindowsDesktop!Marks : IsKnown(x) => (x \in pen.flags <=> known[x] = "down")
        /\ "barrel" \in pen.flags <=> pen.barrel
    BY <1>1 DEF PointersInv, PenShown
  <2>2. /\ DOMAIN known' = DOMAIN known
        /\ known'["pen"] = IF ok THEN there ELSE "unknown"
        /\ known'["barrel"] = known["barrel"]
        /\ known'["eraser"] = IF tl = "unchanged" THEN known["eraser"]
                              ELSE IF ok THEN WindowsDesktop!UpOrDown(tl = "eraser") ELSE "unknown"
    BY <1>1, <2>1 DEF WindowsDesktop!Marks
  <2>3. \A x \in WindowsDesktop!Marks : IsKnown(x)' => (x \in after <=> known'[x] = "down")
    BY <1>5, <2>1, <2>2 DEF IsKnown, WindowsDesktop!Marks, WindowsDesktop!UpOrDown
  <2>4. \A x \in WindowsDesktop!Marks : IsKnown(x)' =>
          \/ known'["pen"] \in {"away", "unknown"}
          \/ x \in screen'.pointers["pen"].marks <=> known'[x] = "down"
    BY <1>5, <1>8, <2>2, <2>3
  <2>5. /\ IsKnown("pen")' => screen'.pointers["pen"].at = known'["pen"]
        /\ IsKnown("pen")' /\ pen'.active => At(pen'.flags) = known'["pen"]
        /\ ~pen'.active => known'["pen"] \in {"away", "unknown"}
    BY <1>4, <1>8, <1>9, <2>2 DEF IsKnown
  <2>6. ~broken' => /\ IsKnown("pen")' /\ pen'.flags \cap WindowsDesktop!Edges = {}
                    /\ pen'.contacting <=> known'["pen"] = "touch"
    <3>1. ~broken' => ok
      BY <1>1
    <3>2. pen'.contacting <=> inRange /\ pressure
      BY <1>9
    <3>3. ok => known'["pen"] = there /\ pen'.flags \cap WindowsDesktop!Edges = {}
      BY <1>6, <1>9, <2>2
    <3>4. there # "unknown" /\ (there = "touch" <=> inRange /\ pressure)
      OBVIOUS
    <3>5. QED
      BY <3>1, <3>2, <3>3, <3>4 DEF IsKnown
  <2>7. "barrel" \in pen'.flags <=> pen'.barrel
    BY <1>5, <1>9 DEF WindowsDesktop!Marks
  <2>8. QED
    BY <1>9, <2>1, <2>2, <2>3, <2>4, <2>5, <2>6, <2>7 DEF PenShown, IsKnown
<1>12. QED
  BY <1>1, <1>10, <1>11 DEF PointersInv, ButtonsShown, ContactsShown

\* A pen is as shown after a button of it.
LEMMA ButtonKeeps ==
  ASSUME PointersInv, NEW down \in BOOLEAN, NEW ok \in BOOLEAN, WindowsDesktop!PenButton(down, ok)
  PROVE  PointersInv'
<1> DEFINE flags == WindowsDesktop!BarrelFlags(pen.flags, down)
           after == IF pen.active THEN flags \ WindowsDesktop!Edges ELSE flags
<1>1. /\ device = "pen_tablet" /\ device' = device /\ touches' = touches /\ api' = api
      /\ pen.active => WindowsDesktop!Inject({[id |-> "pen", flags |-> flags \cup {"update"}]}, ok)
      /\ ~pen.active => ok /\ screen' = screen
      /\ pen' = [pen EXCEPT !.barrel = down, !.flags = after]
      /\ known' = [known EXCEPT !["barrel"] =
                    IF ok THEN WindowsDesktop!UpOrDown(down) ELSE "unknown"]
      /\ broken' = (broken \/ ~ok)
  BY DEF WindowsDesktop!PenButton, WindowsDesktop!Known
<1>2. /\ ScreenShape /\ pen \in PenStates /\ pen.flags \in SUBSET PointerFlags
      /\ pen.active \in BOOLEAN /\ pen.contacting \in BOOLEAN
  BY DEF PointersInv, ScreenShape, PenStates
<1>3. after \in SUBSET PointerFlags
  BY <1>2 DEF PointerFlags, WindowsDesktop!Marks, WindowsDesktop!BarrelFlags, WindowsDesktop!SetIf
<1>4. At(flags \cup {"update"}) = At(pen.flags) /\ At(after) = At(pen.flags)
  BY DEF At, WindowsDesktop!Placed, WindowsDesktop!Edges, WindowsDesktop!BarrelFlags,
    WindowsDesktop!SetIf
<1>5. /\ "barrel" \in after <=> down
      /\ "eraser" \in after <=> "eraser" \in pen.flags
      /\ \A x \in WindowsDesktop!Marks : x \in after <=> x \in flags \cup {"update"}
  BY DEF WindowsDesktop!Edges, WindowsDesktop!Marks, WindowsDesktop!BarrelFlags,
    WindowsDesktop!SetIf
<1>6. ~broken => after \cap WindowsDesktop!Edges = {}
  BY <1>1 DEF PointersInv, PenShown, WindowsDesktop!Edges, WindowsDesktop!BarrelFlags,
    WindowsDesktop!SetIf
<1>7. ~broken /\ pen.active => ~WindowsDesktop!Odd(screen.pointers["pen"], flags \cup {"update"})
  <2> SUFFICES ASSUME ~broken, pen.active
               PROVE  ~WindowsDesktop!Odd(screen.pointers["pen"], flags \cup {"update"})
    OBVIOUS
  <2>1. screen.pointers["pen"].at = At(pen.flags) /\ pen.flags \cap WindowsDesktop!Edges = {}
    BY <1>1 DEF PointersInv, PenShown, IsKnown
  <2>2. /\ "incontact" \in pen.flags => screen.pointers["pen"].at = "touch"
        /\ "down" \notin pen.flags /\ "up" \notin pen.flags
    BY <2>1, FlagsPlace DEF WindowsDesktop!Edges
  <2>3. QED
    BY <2>2 DEF WindowsDesktop!Odd, WindowsDesktop!BarrelFlags, WindowsDesktop!SetIf
<1> HIDE DEF flags, after
<1>8. /\ ~ok => screen' = screen
      /\ DOMAIN screen' = DOMAIN screen
      /\ DOMAIN screen'.pointers = DOMAIN screen.pointers
      /\ screen'.odd \in BOOLEAN /\ screen'.odd = screen.odd
      /\ ok /\ pen.active =>
           /\ screen'.pointers["pen"].at = At(pen.flags)
           /\ screen'.pointers["pen"].marks = (flags \cup {"update"}) \cap WindowsDesktop!Marks
      /\ ~pen.active => screen'.pointers["pen"] = screen.pointers["pen"]
      /\ \A c \in PointerIds : screen'.pointers[c] = screen.pointers[c]
  <2>1. CASE pen.active
    BY <2>1, <1>1, <1>2, <1>4, <1>7, PenTaken
  <2>2. CASE ~pen.active
    BY <2>2, <1>1, <1>2 DEF ScreenShape
  <2>3. QED
    BY <2>1, <2>2
<1>9. /\ pen' \in PenStates /\ pen'.flags = after /\ pen'.barrel = down
      /\ pen'.active = pen.active /\ pen'.contacting = pen.contacting
  BY <1>1, <1>2, <1>3 DEF PenStates
<1>10. ScreenShape'
  BY <1>1, <1>2, <1>8, <1>9 DEF ScreenShape, Contacted
<1>11. PenShown'
  <2>1. /\ DOMAIN known = {"pen"} \cup WindowsDesktop!Marks
        /\ IsKnown("pen") => screen.pointers["pen"].at = known["pen"]
        /\ IsKnown("pen") /\ pen.active => At(pen.flags) = known["pen"]
        /\ ~pen.active => known["pen"] \in {"away", "unknown"}
        /\ \A x \in WindowsDesktop!Marks : IsKnown(x) =>
             /\ x \in pen.flags <=> known[x] = "down"
             /\ \/ known["pen"] \in {"away", "unknown"}
                \/ x \in screen.pointers["pen"].marks <=> known[x] = "down"
        /\ ~broken => IsKnown("pen") /\ (pen.contacting <=> known["pen"] = "touch")
    BY <1>1 DEF PointersInv, PenShown
  <2>2. /\ DOMAIN known' = DOMAIN known
        /\ known'["barrel"] = IF ok THEN WindowsDesktop!UpOrDown(down) ELSE "unknown"
        /\ known'["eraser"] = known["eraser"] /\ known'["pen"] = known["pen"]
    BY <1>1, <2>1 DEF WindowsDesktop!Marks
  <2>3. \A x \in WindowsDesktop!Marks : IsKnown(x)' => (x \in after <=> known'[x] = "down")
    BY <1>5, <2>1, <2>2 DEF IsKnown, WindowsDesktop!Marks, WindowsDesktop!UpOrDown
  <2>4. \A x \in WindowsDesktop!Marks : IsKnown(x)' =>
          \/ known'["pen"] \in {"away", "unknown"}
          \/ x \in screen'.pointers["pen"].marks <=> known'[x] = "down"
    <3>1. CASE ~pen.active
      BY <3>1, <2>1, <2>2
    <3>2. CASE pen.active /\ ok
      BY <3>2, <1>5, <1>8, <2>3
    <3>3. CASE pen.active /\ ~ok
      BY <3>3, <1>8, <2>1, <2>2 DEF IsKnown, WindowsDesktop!Marks
    <3>4. QED
      BY <3>1, <3>2, <3>3, <1>2
  <2>5. /\ IsKnown("pen")' => screen'.pointers["pen"].at = known'["pen"]
        /\ IsKnown("pen")' /\ pen'.active => At(pen'.flags) = known'["pen"]
        /\ ~pen'.active => known'["pen"] \in {"away", "unknown"}
    BY <1>1, <1>2, <1>4, <1>8, <1>9, <2>1, <2>2 DEF IsKnown
  <2>6. ~broken' => /\ IsKnown("pen")' /\ pen'.flags \cap WindowsDesktop!Edges = {}
                    /\ pen'.contacting <=> known'["pen"] = "touch"
    <3>1. ~broken' => ~broken
      BY <1>1
    <3>2. QED
      BY <3>1, <1>6, <1>9, <2>1, <2>2 DEF IsKnown
  <2>7. "barrel" \in pen'.flags <=> pen'.barrel
    BY <1>5, <1>9 DEF WindowsDesktop!Marks
  <2>8. QED
    BY <1>9, <2>1, <2>2, <2>3, <2>4, <2>5, <2>6, <2>7 DEF PenShown, IsKnown
<1>12. QED
  BY <1>1, <1>10, <1>11 DEF PointersInv, ButtonsShown, ContactsShown

\* The refresh of a pen that is active changes nothing that is known, and of one that is
\* not, or of another device, nothing at all.
LEMMA PenRefreshKeeps ==
  ASSUME PointersInv, device # "touchscreen", NEW ok \in BOOLEAN, WindowsDesktop!Refresh(ok)
  PROVE  PointersInv'
<1>1. UNCHANGED <<device, api, pen, touches, known, broken, pressed>>
  BY DEF WindowsDesktop!Refresh, WindowsDesktop!libraryVars, WindowsDesktop!historyVars
<1>2. ScreenShape /\ pen \in PenStates /\ pen.active \in BOOLEAN
  BY DEF PointersInv, ScreenShape, PenStates
<1>3. CASE device = "pen_tablet" /\ pen.active
  <2>1. WindowsDesktop!Inject({[id |-> "pen", flags |-> pen.flags]}, ok)
    BY <1>3 DEF WindowsDesktop!Refresh
  <2>2. ~broken => ~WindowsDesktop!Odd(screen.pointers["pen"], pen.flags)
    <3> SUFFICES ASSUME ~broken
                 PROVE  ~WindowsDesktop!Odd(screen.pointers["pen"], pen.flags)
      OBVIOUS
    <3>1. screen.pointers["pen"].at = At(pen.flags) /\ pen.flags \cap WindowsDesktop!Edges = {}
      BY <1>3 DEF PointersInv, PenShown, IsKnown
    <3>2. QED
      BY <3>1, FlagsPlace DEF WindowsDesktop!Odd, WindowsDesktop!Edges
  <2>3. /\ ~ok => screen' = screen
        /\ DOMAIN screen' = DOMAIN screen
        /\ DOMAIN screen'.pointers = DOMAIN screen.pointers
        /\ screen'.odd \in BOOLEAN /\ screen'.odd = screen.odd
        /\ ok => /\ screen'.pointers["pen"].at = At(pen.flags)
                 /\ screen'.pointers["pen"].marks = pen.flags \cap WindowsDesktop!Marks
        /\ \A c \in PointerIds : screen'.pointers[c] = screen.pointers[c]
    BY <1>2, <2>1, <2>2, PenTaken
  <2>4. ScreenShape'
    BY <1>1, <1>2, <1>3, <2>3 DEF ScreenShape, Contacted
  <2>5. PenShown'
    BY <1>1, <1>3, <2>3 DEF PointersInv, PenShown, IsKnown
  <2>6. QED
    BY <1>1, <1>3, <2>4, <2>5 DEF PointersInv, ButtonsShown, ContactsShown
<1>4. CASE ~(device = "pen_tablet" /\ pen.active)
  <2>1. WindowsDesktop!Inject({}, ok)
    BY <1>4 DEF WindowsDesktop!Refresh
  <2>2. /\ DOMAIN screen' = DOMAIN screen
        /\ DOMAIN screen'.pointers = DOMAIN screen.pointers
        /\ screen'.odd = screen.odd /\ screen'.buttons = screen.buttons
        /\ \A p \in PointerIds \cup {"pen"} : screen'.pointers[p] = screen.pointers[p]
    BY <1>2, <2>1, FrameTaken
  <2>3. ScreenShape'
    BY <1>1, <1>2, <2>2 DEF ScreenShape, Contacted
  <2>4. ButtonsShown' /\ PenShown'
    BY <1>1, <2>2 DEF PointersInv, ButtonsShown, PenShown, IsKnown
  <2>5. QED
    BY <1>1, <2>3, <2>4 DEF PointersInv, ContactsShown
<1>5. QED
  BY <1>3, <1>4

\* Keyboards leave the pointers alone.
LEMMA KeyKeeps ==
  ASSUME PointersInv, NEW key, NEW down \in BOOLEAN, NEW ok \in BOOLEAN,
         WindowsDesktop!SubmitKey(key, down, ok)
  PROVE  PointersInv'
<1>1. /\ device = "keyboard" /\ UNCHANGED <<device, touches, pen>>
      /\ broken' = (broken \/ ~ok)
  BY DEF WindowsDesktop!SubmitKey, WindowsDesktop!Known
<1>2. \/ WindowsDesktop!KeyReport(ok)
      \/ \E e : WindowsDesktop!KeyInput(e, down, ok)
  BY DEF WindowsDesktop!SubmitKey
<1>3. /\ DOMAIN screen' = DOMAIN screen /\ screen'.pointers = screen.pointers
      /\ screen'.odd = screen.odd
  BY <1>2 DEF WindowsDesktop!KeyReport, WindowsDesktop!KeyInput, PointersInv, ScreenShape,
    ScreenParts
<1>4. QED
  BY <1>1, <1>3 DEF PointersInv, ScreenShape, Contacted, ButtonsShown, ContactsShown, PenShown

\* The steps of a mouse.
LEMMA MouseKeeps ==
  ASSUME PointersInv,
         \/ \E b \in WindowsDesktop!Buttons, down, ok \in BOOLEAN :
              WindowsDesktop!SubmitButton(b, down, ok)
         \/ \E motion, n : WindowsDesktop!Move(motion, n)
         \/ \E distance, n : WindowsDesktop!Scroll(distance, n)
  PROVE  PointersInv'
<1>1. CASE \E b \in WindowsDesktop!Buttons, down, ok \in BOOLEAN :
             WindowsDesktop!SubmitButton(b, down, ok)
  <2>1. PICK b \in WindowsDesktop!Buttons, down \in BOOLEAN, ok \in BOOLEAN :
          WindowsDesktop!SubmitButton(b, down, ok)
    BY <1>1
  <2>2. /\ device = "mouse" /\ UNCHANGED <<device, api, touches, pen>>
        /\ pressed' = IF api = "hid" THEN WindowsDesktop!SetIf(down, pressed, b) ELSE pressed
        /\ broken' = (broken \/ ~ok)
        /\ known' = [known EXCEPT ![b] = IF ok THEN WindowsDesktop!UpOrDown(down) ELSE "unknown"]
    BY <2>1 DEF WindowsDesktop!SubmitButton, WindowsDesktop!Known
  <2>3. /\ DOMAIN screen' = DOMAIN screen /\ screen'.pointers = screen.pointers
        /\ screen'.odd = screen.odd
        /\ screen'.buttons = CASE ~ok -> screen.buttons
                               [] ok /\ api = "hid" -> pressed'
                               [] OTHER -> WindowsDesktop!SetIf(down, screen.buttons, b)
    BY <2>1 DEF WindowsDesktop!SubmitButton, PointersInv, ScreenShape, ScreenParts
  <2>4. ScreenShape'
    BY <2>2, <2>3 DEF PointersInv, ScreenShape, Contacted
  <2>5. ButtonsShown'
    <3>1. /\ DOMAIN known = WindowsDesktop!Buttons
          /\ \A x \in WindowsDesktop!Buttons : IsKnown(x) =>
               /\ x \in screen.buttons <=> known[x] = "down"
               /\ api = "hid" => (x \in pressed <=> known[x] = "down")
      BY <2>2 DEF PointersInv, ButtonsShown
    <3>2. /\ DOMAIN known' = WindowsDesktop!Buttons
          /\ \A x \in WindowsDesktop!Buttons :
               known'[x] = IF x # b THEN known[x]
                           ELSE IF ok THEN WindowsDesktop!UpOrDown(down) ELSE "unknown"
      BY <2>2, <3>1
    <3>3. \A x \in WindowsDesktop!Buttons : IsKnown(x)' /\ api = "hid" =>
            (x \in pressed' <=> known'[x] = "down")
      BY <2>2, <3>1, <3>2 DEF IsKnown, WindowsDesktop!SetIf, WindowsDesktop!UpOrDown
    <3>4. \A x \in WindowsDesktop!Buttons : IsKnown(x)' =>
            (x \in screen'.buttons <=> known'[x] = "down")
      BY <2>3, <3>1, <3>2, <3>3 DEF IsKnown, WindowsDesktop!SetIf, WindowsDesktop!UpOrDown
    <3>5. QED
      BY <2>2, <3>2, <3>3, <3>4 DEF ButtonsShown, IsKnown
  <2>6. QED
    BY <2>2, <2>4, <2>5 DEF PointersInv, ContactsShown, PenShown
<1>2. ASSUME \/ \E motion, n : WindowsDesktop!Move(motion, n)
             \/ \E distance, n : WindowsDesktop!Scroll(distance, n)
      PROVE  PointersInv'
  <2>1. /\ device = "mouse" /\ UNCHANGED <<device, api, pressed, touches, pen, known>>
        /\ broken' \in BOOLEAN /\ (broken => broken')
    BY <1>2 DEF WindowsDesktop!Move, WindowsDesktop!Scroll, WindowsDesktop!libraryVars
  <2>2. /\ DOMAIN screen' = DOMAIN screen /\ screen'.pointers = screen.pointers
        /\ screen'.odd = screen.odd
        /\ screen'.buttons = screen.buttons \/ (api = "hid" /\ screen'.buttons = pressed)
    BY <1>2 DEF WindowsDesktop!Move, WindowsDesktop!Scroll, PointersInv, ScreenShape,
      ScreenParts
  <2>3. ScreenShape'
    BY <2>1, <2>2 DEF PointersInv, ScreenShape, Contacted
  <2>4. ButtonsShown'
    BY <2>1, <2>2 DEF PointersInv, ButtonsShown, IsKnown
  <2>5. QED
    BY <2>1, <2>3, <2>4 DEF PointersInv, ContactsShown, PenShown
<1>3. QED
  BY <1>1, <1>2

\* A device that was made or closed shows nothing, and nothing is known of it.
LEMMA FreshShown ==
  ASSUME WindowsDesktop!Fresh,
         \/ device' = "none" /\ known' = <<>>
         \/ \E by, named : /\ device' \in {"keyboard", "mouse", "touchscreen", "pen_tablet"}
                           /\ WindowsDesktop!Create(device', by, named)
  PROVE  PointersInv'
<1>1. /\ DOMAIN screen' = ScreenParts
      /\ DOMAIN screen'.pointers = PointerIds \cup {"pen"}
      /\ \A p \in PointerIds \cup {"pen"} :
           screen'.pointers[p].at = "away" /\ screen'.pointers[p].marks = {}
      /\ screen'.odd = FALSE /\ screen'.buttons = {}
      /\ pressed' = {} /\ touches' = <<>> /\ broken' = FALSE
  BY DEF WindowsDesktop!Fresh, WindowsDesktop!NewScreen, WindowsDesktop!NoPointer,
    ScreenParts
<1>2. /\ pen' \in PenStates /\ pen'.flags = {} /\ pen'.barrel = FALSE /\ pen'.active = FALSE
      /\ pen'.contacting = FALSE
  BY DEF WindowsDesktop!Fresh, WindowsDesktop!NewPen, PenStates
<1>3. /\ device' \in {"none", "keyboard", "mouse", "touchscreen", "pen_tablet"}
      /\ device' = "mouse" => known' = [b \in WindowsDesktop!Buttons |-> "up"]
      /\ device' = "touchscreen" => known' = [c \in PointerIds |-> "away"]
      /\ device' = "pen_tablet" =>
           known' = [x \in {"pen"} \cup WindowsDesktop!Marks |-> IF x = "pen" THEN "away" ELSE "up"]
  BY DEF WindowsDesktop!Create
<1>9. device' = "none" => DOMAIN known' = {}
  OBVIOUS
<1>4. ScreenShape'
  BY <1>1, <1>2, <1>3, <1>9, NoContacts DEF ScreenShape
<1>5. ButtonsShown'
  BY <1>1, <1>3 DEF ButtonsShown, IsKnown
<1>6. ContactsShown'
  BY <1>1, <1>3 DEF ContactsShown, IsKnown, WindowsDesktop!Ids
<1>7. PenShown'
  BY <1>1, <1>2, <1>3 DEF PenShown, IsKnown, WindowsDesktop!Marks
<1>8. QED
  BY <1>4, <1>5, <1>6, <1>7 DEF PointersInv

\* The steps of a desktop device keep its inductive invariant.
LEMMA PointersNext ==
  ASSUME PointersInv, [WindowsDesktop!Next]_(WindowsDesktop!vars)
  PROVE  PointersInv'
<1>1. ASSUME NEW made \in {"keyboard", "mouse", "touchscreen", "pen_tablet"}, NEW by, NEW named,
             WindowsDesktop!Create(made, by, named)
      PROVE  PointersInv'
  BY <1>1, FreshShown DEF WindowsDesktop!Create
<1>2. CASE WindowsDesktop!Close \/ WindowsDesktop!CloseDevice
  BY <1>2, FreshShown DEF WindowsDesktop!Close, WindowsDesktop!CloseDevice
<1>3. ASSUME NEW ok \in BOOLEAN, WindowsDesktop!Refresh(ok)
      PROVE  PointersInv'
  BY <1>3, RefreshKeeps, PenRefreshKeeps
<1>4. ASSUME \/ WindowsDesktop!Wake
             \/ WindowsDesktop!StopThread
             \/ UNCHANGED WindowsDesktop!vars
      PROVE  PointersInv'
  <2>1. UNCHANGED <<device, api, pressed, touches, pen, screen, known, broken>>
    BY <1>4 DEF WindowsDesktop!Wake, WindowsDesktop!StopThread, WindowsDesktop!vars,
      WindowsDesktop!libraryVars, WindowsDesktop!historyVars
  <2>2. QED
    BY <2>1 DEF PointersInv, ScreenShape, Contacted, ButtonsShown, ContactsShown, PenShown, IsKnown,
      WindowsDesktop!Ids
<1>5. QED
  BY <1>1, <1>2, <1>3, <1>4, KeyKeeps, MouseKeeps, PlaceKeeps, ReleaseKeeps, ToolKeeps, ButtonKeeps
    DEF WindowsDesktop!Next

\* There is no device at the start.
LEMMA PointersInit == WindowsDesktop!Init => PointersInv
<1> SUFFICES ASSUME WindowsDesktop!Init
             PROVE  PointersInv
  OBVIOUS
<1>1. /\ DOMAIN screen = ScreenParts
      /\ DOMAIN screen.pointers = PointerIds \cup {"pen"}
      /\ \A p \in PointerIds : screen.pointers[p].at = "away"
      /\ screen.odd = FALSE
  BY DEF WindowsDesktop!Init, WindowsDesktop!NewScreen, WindowsDesktop!NoPointer,
    ScreenParts
<1>2. pen \in PenStates
  BY DEF WindowsDesktop!Init, WindowsDesktop!NewPen, PenStates
<1>3. ScreenShape
  <2>1. device = "none" /\ DOMAIN known = {} /\ touches = <<>> /\ broken = FALSE
    BY DEF WindowsDesktop!Init
  <2>2. QED
    BY <1>1, <1>2, <2>1, NoContacts DEF ScreenShape
<1>4. QED
  BY <1>3 DEF WindowsDesktop!Init, PointersInv, ButtonsShown, ContactsShown, PenShown

\* In a state of the invariant Windows shows what the client did, and a contact that is
\* shown can be released.
LEMMA InvShows == PointersInv => PointersTrue
<1> SUFFICES ASSUME PointersInv
             PROVE  /\ device # "keyboard" => WindowsDesktop!Shown
                    /\ WindowsDesktop!NoneStranded
                    /\ WindowsDesktop!EdgesFit
  BY DEF PointersTrue, WindowsDesktop!PointersTrue
<1> USE DEF WindowsDesktop!EdgesFit
<1>1. CASE device = "none"
  BY <1>1 DEF PointersInv, ScreenShape, WindowsDesktop!Shown, WindowsDesktop!NoneStranded
<1>2. CASE device = "keyboard"
  BY <1>2 DEF PointersInv, ScreenShape, WindowsDesktop!NoneStranded
<1>3. CASE device = "mouse"
  <2>1. \A x \in DOMAIN known :
          known[x] = "unknown" \/ (x \in screen.buttons <=> known[x] = "down")
    BY <1>3 DEF PointersInv, ButtonsShown, IsKnown
  <2>2. WindowsDesktop!Shown
    BY <1>3, <2>1 DEF WindowsDesktop!Shown, WindowsDesktop!Pointers, WindowsDesktop!Down
  <2>3. QED
    BY <1>3, <2>2 DEF PointersInv, ScreenShape, WindowsDesktop!NoneStranded
<1>4. CASE device = "touchscreen"
  BY <1>4 DEF PointersInv, ScreenShape, ContactsShown, IsKnown, WindowsDesktop!Shown,
    WindowsDesktop!Pointers, WindowsDesktop!NoneStranded
<1>5. CASE device = "pen_tablet"
  <2>1. /\ DOMAIN known = {"pen"} \cup WindowsDesktop!Marks
        /\ known["pen"] # "unknown" => screen.pointers["pen"].at = known["pen"]
        /\ \A x \in WindowsDesktop!Marks :
             \/ known[x] = "unknown"
             \/ known["pen"] \in {"away", "unknown"}
             \/ x \in screen.pointers["pen"].marks <=> known[x] = "down"
    BY <1>5 DEF PointersInv, PenShown, IsKnown
  <2>2. WindowsDesktop!Shown
    BY <1>5, <2>1 DEF WindowsDesktop!Shown, WindowsDesktop!Pointers, WindowsDesktop!Down,
      WindowsDesktop!Marks
  <2>3. QED
    BY <1>5, <2>2 DEF PointersInv, ScreenShape, WindowsDesktop!NoneStranded
<1>6. QED
  BY <1>1, <1>2, <1>3, <1>4, <1>5 DEF PointersInv, ScreenShape

-----------------------------------------------------------------------------
(* WindowsDesktop: keyboards, and the motions and scrolls of mice.         *)

\* A quotient of natural numbers, and its rest.
LEMMA NaturalRest ==
  ASSUME NEW a \in Nat, NEW b \in Nat \ {0}
  PROVE  a \div b \in Nat /\ a - b * (a \div b) \in 0..(b - 1)
OBVIOUS

Pairs == Int \X Int
Sendings == [left : Pairs, sum : Pairs]
MoreSent(u, low, high) ==
  LET part == <<WindowsDesktop!Clamped(low, u.left[1], high),
                WindowsDesktop!Clamped(low, u.left[2], high)>>
  IN [left |-> WindowsDesktop!Minus(u.left, part), sum |-> WindowsDesktop!Plus(u.sum, part)]
Counting == [i \in 1..WindowsDesktop!MaxParts |-> 0]

\* One more report: what is left and what was sent are the whole.
LEMMA MoreSentSums ==
  ASSUME NEW low \in Int, NEW high \in Int, NEW u \in Sendings
  PROVE  /\ MoreSent(u, low, high) \in Sendings
         /\ WindowsDesktop!Plus(MoreSent(u, low, high).left, MoreSent(u, low, high).sum)
              = WindowsDesktop!Plus(u.left, u.sum)
<1> DEFINE a == WindowsDesktop!Clamped(low, u.left[1], high)
           b == WindowsDesktop!Clamped(low, u.left[2], high)
           left == <<u.left[1] - a, u.left[2] - b>>
           sum == <<u.sum[1] + a, u.sum[2] + b>>
<1>1. u.left[1] \in Int /\ u.left[2] \in Int /\ u.sum[1] \in Int /\ u.sum[2] \in Int
  BY DEF Sendings, Pairs
<1>2. a \in Int /\ b \in Int
  BY <1>1 DEF WindowsDesktop!Clamped
<1>3. MoreSent(u, low, high) = [left |-> left, sum |-> sum]
  BY DEF MoreSent, WindowsDesktop!Minus, WindowsDesktop!Plus
<1> HIDE DEF a, b
<1>4. left \in Pairs /\ sum \in Pairs
  BY <1>1, <1>2 DEF Pairs
<1>5. left[1] + sum[1] = u.left[1] + u.sum[1] /\ left[2] + sum[2] = u.left[2] + u.sum[2]
  BY <1>1, <1>2
<1> HIDE DEF left, sum
<1>6. QED
  BY <1>3, <1>4, <1>5 DEF Sendings, WindowsDesktop!Plus

\* What the reports say, and what is left, are the whole.
LEMMA ReportedWhole ==
  ASSUME NEW low \in Int, NEW high \in Int, NEW whole \in Pairs,
         NEW n \in 0..WindowsDesktop!MaxParts,
         NEW r, r = WindowsDesktop!Reported(whole, low, high)[n]
  PROVE  /\ r.left \in Pairs /\ r.sum \in Pairs
         /\ r.left = <<0, 0>> => r.sum = whole
<1> DEFINE max == WindowsDesktop!MaxParts
           V == Sendings
           zero == [left |-> whole, sum |-> <<0, 0>>]
           step == [z \in V \X {0} |-> MoreSent(z[1], low, high)]
           e(f) == [i \in 0..max |-> IF i = 0 THEN zero ELSE MoreSent(f[i - 1], low, high)]
           g == CHOOSE f : f = e(f)
<1>1. WindowsDesktop!Reported(whole, low, high) = g
  BY DEF WindowsDesktop!Reported, MoreSent
<1>2. max \in Nat /\ Counting \in Seq({0}) /\ Len(Counting) = max /\ \A i \in 1..max : Counting[i] = 0
  BY DEF WindowsDesktop!MaxParts, Counting
<1>3. zero \in V
  BY DEF Sendings, Pairs
<1>4. step \in [V \X {0} -> V] /\ \A u \in V : step[<<u, 0>>] = MoreSent(u, low, high)
  <2>1. \A u \in V : MoreSent(u, low, high) \in V
    BY MoreSentSums
  <2> HIDE DEF V
  <2>2. QED
    BY <2>1
<1> HIDE DEF max, V, step, zero
<1>5. PICK f \in [0..max -> V] : IsFold(f, zero, step, Counting)
  BY <1>2, <1>3, <1>4, FoldExists
<1>6. ASSUME NEW h, NEW i \in 1..max, h[i - 1] \in V
      PROVE  e(h)[i] = step[<<h[i - 1], Counting[i]>>]
  <2>1. i # 0 /\ i \in 0..max /\ Counting[i] = 0
    BY <1>2
  <2>2. QED
    BY <1>4, <1>6, <2>1
<1>7. f = e(f)
  <2>1. ASSUME NEW i \in 0..max
        PROVE  f[i] = e(f)[i]
    <3>1. CASE i = 0
      BY <1>5, <3>1 DEF IsFold
    <3>2. CASE i # 0
      <4>1. i \in 1..max /\ f[i - 1] \in V
        BY <1>2, <3>2
      <4>2. QED
        BY <1>2, <1>5, <1>6, <4>1 DEF IsFold
    <3>3. QED
      BY <3>1, <3>2
  <2>2. QED
    BY <2>1
<1>8. g = e(g)
  <2> HIDE DEF e
  <2>1. QED
    BY <1>7
<1> HIDE DEF g
<1>9. g[0] = zero
  BY <1>2, <1>8
<1> DEFINE S == {i \in Nat : i <= max => /\ g[i] \in V
                                         /\ WindowsDesktop!Plus(g[i].left, g[i].sum) = whole}
<1>10. 0 \in S
  <2>1. WindowsDesktop!Plus(zero.left, zero.sum) = whole
    BY DEF zero, Pairs, WindowsDesktop!Plus
  <2>2. QED
    BY <1>3, <1>9, <2>1
<1>11. ASSUME NEW i \in Nat, i \in S
       PROVE  i + 1 \in S
  <2>1. SUFFICES ASSUME i + 1 <= max
                 PROVE  /\ g[i + 1] \in V
                        /\ WindowsDesktop!Plus(g[i + 1].left, g[i + 1].sum) = whole
    OBVIOUS
  <2>2. i <= max /\ i + 1 \in 0..max /\ i + 1 # 0 /\ (i + 1) - 1 = i
    BY <1>2, <2>1
  <2>3. g[i] \in V /\ WindowsDesktop!Plus(g[i].left, g[i].sum) = whole
    BY <1>11, <2>2
  <2>4. g[i + 1] = MoreSent(g[i], low, high)
    BY <1>8, <2>2
  <2>5. QED
    BY <2>3, <2>4, MoreSentSums DEF V
<1>12. Nat \subseteq S
  <2> HIDE DEF S
  <2>1. QED
    BY <1>10, <1>11, SetInduction
<1>13. r = g[n] /\ r \in Sendings /\ WindowsDesktop!Plus(r.left, r.sum) = whole
  BY <1>1, <1>2, <1>12 DEF V, max
<1>14. QED
  BY <1>13 DEF Sendings, Pairs, WindowsDesktop!Plus

\* Division that rounds towards zero leaves a rest of less than a detent.
LEMMA TowardsZeroRest ==
  ASSUME NEW a \in Int, NEW b \in Nat \ {0}
  PROVE  /\ WindowsDesktop!TowardsZero(a, b) \in Int
         /\ a - b * WindowsDesktop!TowardsZero(a, b) \in (1 - b)..(b - 1)
<1>1. CASE a < 0
  <2> DEFINE q == (-a) \div b
  <2>1. -a \in Nat
    BY <1>1
  <2>2. q \in Nat /\ (-a) - b * q \in 0..(b - 1)
    BY <2>1, NaturalRest
  <2>3. WindowsDesktop!TowardsZero(a, b) = -q
    BY <1>1 DEF WindowsDesktop!TowardsZero
  <2> HIDE DEF q
  <2>4. b * (-q) = -(b * q) /\ b * q \in Int
    BY <2>2
  <2>5. QED
    BY <2>2, <2>3, <2>4
<1>2. CASE ~(a < 0)
  <2>1. a \in Nat
    BY <1>2
  <2>2. WindowsDesktop!TowardsZero(a, b) = a \div b
    BY <1>2 DEF WindowsDesktop!TowardsZero
  <2>3. a \div b \in Nat /\ a - b * (a \div b) \in 0..(b - 1)
    BY <2>1, NaturalRest
  <2>4. QED
    BY <2>2, <2>3
<1>3. QED
  BY <1>1, <1>2

\* What was moved and scrolled, as long as no call has failed.
MotionKept ==
  /\ screen.wheel \in Int /\ scrolled \in Int /\ carry \in (1 - Detent)..(Detent - 1)
  /\ api = "input" => carry = 0
  /\ ~broken => screen.moved = asked /\ scrolled = screen.wheel + carry

\* The keys: what a report would say, and what Windows shows.
Bit(k) == WindowsDesktop!hid_keyboard_modifier_bit(WindowsDesktop!KeyEvent(k, form))
Usage(k) == WindowsDesktop!hid_keyboard_usage(WindowsDesktop!KeyEvent(k, form))
IsModifier(k) == Bit(k) # WindowsDesktop!NoModifier
ByReport(k) == api = "hid" /\ (IsModifier(k) \/ Usage(k) # WindowsDesktop!NoCode)
InReport(k) == IF IsModifier(k) THEN Bit(k) \in modifiers ELSE Usage(k) \in usages

KeysShown ==
  device = "keyboard" =>
    /\ form \in WindowsDesktop!Forms /\ DOMAIN known = VirtualKeys
    /\ \A u \in usages : \E k \in VirtualKeys : ByReport(k) /\ ~IsModifier(k) /\ u = Usage(k)
    /\ \A m \in modifiers : \E k \in VirtualKeys : ByReport(k) /\ IsModifier(k) /\ m = Bit(k)
    /\ \A k \in VirtualKeys :
         IF ByReport(k)
           THEN /\ k \notin screen.typed
                /\ IsKnown(k) => /\ InReport(k) <=> known[k] = "down"
                                 /\ screen.rollover \/ (k \in screen.keys <=> known[k] = "down")
           ELSE /\ k \notin screen.keys
                /\ IsKnown(k) => (k \in screen.typed <=> known[k] = "down")

\* A step that leaves mice alone.
LEMMA MotionStill ==
  ASSUME MotionKept, UNCHANGED <<api, carry, scrolled, asked>>,
         screen'.wheel = screen.wheel, screen'.moved = screen.moved, ~broken' => ~broken
  PROVE  MotionKept'
BY DEF MotionKept

\* Nothing of a motion is lost, in however many reports it is sent.
LEMMA MotionNext ==
  ASSUME MotionKept, DOMAIN screen = ScreenParts, WindowsDesktop!ScreenAssumption,
         NEW n \in 0..WindowsDesktop!MaxParts, NEW motion \in Motions, WindowsDesktop!Move(motion, n)
  PROVE  MotionKept'
<1> DEFINE after == WindowsDesktop!Reported(motion, -Reach - 1, Reach)
<1>1. /\ UNCHANGED <<api, carry, scrolled>> /\ asked' = motion
      /\ broken' = (broken \/ ~WindowsDesktop!Whole(after, n))
      /\ WindowsDesktop!Sent(after, n)
  BY DEF WindowsDesktop!Move, WindowsDesktop!libraryVars
<1>2. /\ screen'.wheel = screen.wheel
      /\ screen'.moved = IF api = "hid" THEN after[n].sum ELSE IF n = 1 THEN motion ELSE <<0, 0>>
  BY DEF WindowsDesktop!Move, ScreenParts
<1>3. motion \in Pairs /\ -Reach - 1 \in Int /\ Reach \in Int
  BY DEF WindowsDesktop!ScreenAssumption, Pairs
<1> HIDE DEF after
<1>4. after[n].left = <<0, 0>> => after[n].sum = motion
  BY <1>3, ReportedWhole DEF after
<1>5. ~broken' => screen'.moved = motion /\ ~broken
  BY <1>1, <1>2, <1>4 DEF WindowsDesktop!Whole
<1>6. QED
  BY <1>1, <1>2, <1>5 DEF MotionKept

\* Nothing of a scroll is lost: what is not turned remains.
LEMMA ScrollNext ==
  ASSUME MotionKept, DOMAIN screen = ScreenParts, WindowsDesktop!ScreenAssumption,
         api \in {"hid", "input"},
         NEW n \in 0..WindowsDesktop!MaxParts, NEW distance \in Distances,
         WindowsDesktop!Scroll(distance, n)
  PROVE  MotionKept'
<1> DEFINE total == carry + distance
           detents == WindowsDesktop!TowardsZero(total, Detent)
           after == WindowsDesktop!Reported(<<detents, 0>>, -MaxDetents, MaxDetents)
           turned == IF api = "hid" THEN Detent * after[n].sum[1] ELSE distance
<1>1. /\ UNCHANGED api /\ asked' = <<0, 0>>
      /\ broken' = (broken \/ ~WindowsDesktop!Whole(after, n))
      /\ carry' = IF api = "hid" THEN total - Detent * detents ELSE carry
      /\ scrolled' = IF broken' THEN scrolled ELSE scrolled + distance
  BY DEF WindowsDesktop!Scroll
<1>2. /\ screen'.wheel = IF broken' THEN screen.wheel ELSE screen.wheel + turned
      /\ screen'.moved = <<0, 0>>
  BY DEF WindowsDesktop!Scroll, ScreenParts
<1>3. /\ Detent \in Nat \ {0} /\ distance \in Int /\ MaxDetents \in Int /\ -MaxDetents \in Int
      /\ total \in Int /\ carry \in Int /\ screen.wheel \in Int /\ scrolled \in Int
      /\ api = "input" => carry = 0
      /\ ~broken => scrolled = screen.wheel + carry
  BY DEF WindowsDesktop!ScreenAssumption, MotionKept
<1>4. detents \in Int /\ total - Detent * detents \in (1 - Detent)..(Detent - 1)
  BY <1>3, TowardsZeroRest
<1> HIDE DEF detents
<1>5. /\ after[n].left = <<0, 0>> => after[n].sum = <<detents, 0>>
      /\ after[n].sum[1] \in Int
  <2>1. <<detents, 0>> \in Pairs
    BY <1>4 DEF Pairs
  <2>2. after[n].sum \in Pairs /\ (after[n].left = <<0, 0>> => after[n].sum = <<detents, 0>>)
    BY <1>3, <2>1, ReportedWhole
  <2>3. QED
    BY <2>2 DEF Pairs
<1> HIDE DEF after
<1>6. turned \in Int
  BY <1>3, <1>5
<1>7. /\ screen'.wheel \in Int /\ scrolled' \in Int /\ carry' \in (1 - Detent)..(Detent - 1)
      /\ api' = "input" => carry' = 0
  BY <1>1, <1>2, <1>3, <1>4, <1>6 DEF MotionKept
<1>8. ASSUME ~broken'
      PROVE  scrolled' = screen'.wheel + carry'
  <2>1. ~broken /\ WindowsDesktop!Whole(after, n)
    BY <1>1, <1>8
  <2>2. CASE api = "hid"
    <3>1. after[n].sum[1] = detents
      BY <1>5, <2>1, <2>2 DEF WindowsDesktop!Whole
    <3> DEFINE product == Detent * detents
    <3>2. product \in Int /\ turned = product /\ carry' = total - product
      BY <1>1, <1>3, <1>4, <2>2, <3>1
    <3> HIDE DEF product, turned
    <3>3. QED
      BY <1>1, <1>2, <1>3, <1>8, <2>1, <3>2
  <2>3. CASE api = "input"
    <3>1. turned = distance /\ carry' = 0 /\ carry = 0
      BY <1>1, <1>3, <2>3
    <3> HIDE DEF turned
    <3>2. QED
      BY <1>1, <1>2, <1>3, <1>8, <2>1, <3>1
  <2>4. QED
    BY <2>2, <2>3
<1>9. QED
  BY <1>1, <1>2, <1>7, <1>8 DEF MotionKept

\* What a key stands for is that key alone.
LEMMA KeyAlone ==
  ASSUME form \in WindowsDesktop!Forms, NEW k \in VirtualKeys
  PROVE  /\ IsModifier(k) => WindowsDesktop!KeyOfModifier(Bit(k), VirtualKeys) = {k}
         /\ ~IsModifier(k) /\ Usage(k) # WindowsDesktop!NoCode =>
              WindowsDesktop!KeyOfUsage(Usage(k), VirtualKeys) = {k}
         /\ WindowsDesktop!KeyOfInput(
              WindowsDesktop!SentInput(WindowsDesktop!KeyEvent(k, form)), VirtualKeys) = {k}
BY KeysAssumption DEF WindowsDesktop!KeysApart, IsModifier, Bit, Usage

\* After a report that Windows took the keys of reports are down as the library has them.
LEMMA ReportShows ==
  ASSUME form \in WindowsDesktop!Forms, form' = form, api' = api,
         \A u \in usages' : \E k \in VirtualKeys : ByReport(k) /\ ~IsModifier(k) /\ u = Usage(k),
         \A m \in modifiers' : \E k \in VirtualKeys : ByReport(k) /\ IsModifier(k) /\ m = Bit(k),
         NEW keys,
         keys = UNION ({WindowsDesktop!KeyOfUsage(u, VirtualKeys) : u \in usages'}
                         \cup {WindowsDesktop!KeyOfModifier(m, VirtualKeys) : m \in modifiers'}),
         NEW k \in VirtualKeys
  PROVE  /\ ~ByReport(k) => k \notin keys
         /\ ByReport(k) => (k \in keys <=> InReport(k)')
<1>1. Bit(k)' = Bit(k) /\ Usage(k)' = Usage(k) /\ (IsModifier(k)' <=> IsModifier(k))
  BY DEF Bit, Usage, IsModifier
<1>2. ASSUME k \in keys
      PROVE  ByReport(k) /\ InReport(k)'
  <2>1. CASE \E u \in usages' : k \in WindowsDesktop!KeyOfUsage(u, VirtualKeys)
    <3>1. PICK u \in usages' : k \in WindowsDesktop!KeyOfUsage(u, VirtualKeys)
      BY <2>1
    <3>2. PICK x \in VirtualKeys : ByReport(x) /\ ~IsModifier(x) /\ u = Usage(x)
      BY <3>1
    <3>3. WindowsDesktop!KeyOfUsage(Usage(x), VirtualKeys) = {x}
      BY <3>2, KeyAlone DEF ByReport
    <3>4. x = k
      BY <3>1, <3>2, <3>3
    <3>5. QED
      BY <1>1, <3>1, <3>2, <3>4 DEF InReport
  <2>2. CASE \E m \in modifiers' : k \in WindowsDesktop!KeyOfModifier(m, VirtualKeys)
    <3>1. PICK m \in modifiers' : k \in WindowsDesktop!KeyOfModifier(m, VirtualKeys)
      BY <2>2
    <3>2. PICK x \in VirtualKeys : ByReport(x) /\ IsModifier(x) /\ m = Bit(x)
      BY <3>1
    <3>3. WindowsDesktop!KeyOfModifier(Bit(x), VirtualKeys) = {x}
      BY <3>2, KeyAlone
    <3>4. x = k
      BY <3>1, <3>2, <3>3
    <3>5. QED
      BY <1>1, <3>1, <3>2, <3>4 DEF InReport
  <2>3. QED
    BY <1>2, <2>1, <2>2
<1>3. ASSUME ByReport(k), InReport(k)'
      PROVE  k \in keys
  <2>1. CASE IsModifier(k)
    <3>1. Bit(k) \in modifiers'
      BY <1>1, <1>3, <2>1 DEF InReport
    <3>2. k \in WindowsDesktop!KeyOfModifier(Bit(k), VirtualKeys)
      BY <2>1, KeyAlone
    <3>3. QED
      BY <3>1, <3>2
  <2>2. CASE ~IsModifier(k)
    <3>1. Usage(k) \in usages'
      BY <1>1, <1>3, <2>2 DEF InReport
    <3>2. k \in WindowsDesktop!KeyOfUsage(Usage(k), VirtualKeys)
      BY <1>3, <2>2, KeyAlone DEF ByReport
    <3>3. QED
      BY <3>1, <3>2
  <2>3. QED
    BY <2>1, <2>2
<1>4. QED
  BY <1>2, <1>3

\* The three ways of a key.
KeyCall(key, down, ok) ==
  LET shows == UNION ({WindowsDesktop!KeyOfUsage(u, VirtualKeys) : u \in usages'}
                        \cup {WindowsDesktop!KeyOfModifier(m, VirtualKeys) : m \in modifiers'})
  IN
  /\ device = "keyboard" /\ device' = device /\ api' = api /\ form' = form
  /\ known' = [known EXCEPT ![key] = IF ok THEN WindowsDesktop!UpOrDown(down) ELSE "unknown"]
  /\ IF ByReport(key)
       THEN /\ modifiers' = IF IsModifier(key) THEN WindowsDesktop!SetIf(down, modifiers, Bit(key))
                                               ELSE modifiers
            /\ usages' = IF IsModifier(key) THEN usages
                                            ELSE WindowsDesktop!SetIf(down, usages, Usage(key))
            /\ screen'.typed = screen.typed
            /\ \/ ~ok /\ screen'.keys = screen.keys /\ screen'.rollover = screen.rollover
               \/ ok /\ screen'.keys = screen.keys /\ screen'.rollover
               \/ ok /\ screen'.keys = shows
       ELSE /\ UNCHANGED <<usages, modifiers>>
            /\ screen'.keys = screen.keys /\ screen'.rollover = screen.rollover
            /\ screen'.typed = IF ok THEN WindowsDesktop!SetIf(down, screen.typed, key)
                                     ELSE screen.typed

\* A key is sent as its usage, as a modifier, or injected.
LEMMA KeyCalls ==
  ASSUME DOMAIN screen = ScreenParts, form \in WindowsDesktop!Forms, NEW key \in VirtualKeys,
         NEW down \in BOOLEAN, NEW ok \in BOOLEAN, WindowsDesktop!SubmitKey(key, down, ok),
         api \in {"hid", "input"}
  PROVE  KeyCall(key, down, ok)
<1> DEFINE press == WindowsDesktop!KeyEvent(key, form)
           shows == UNION ({WindowsDesktop!KeyOfUsage(u, VirtualKeys) : u \in usages'}
                             \cup {WindowsDesktop!KeyOfModifier(m, VirtualKeys) : m \in modifiers'})
<1>1. /\ device = "keyboard" /\ device' = device /\ api' = api /\ form' = form
      /\ known' = [known EXCEPT ![key] = IF ok THEN WindowsDesktop!UpOrDown(down) ELSE "unknown"]
  BY DEF WindowsDesktop!SubmitKey, WindowsDesktop!Known
<1>2. \/ /\ api = "hid" /\ IsModifier(key)
         /\ modifiers' = WindowsDesktop!SetIf(down, modifiers, Bit(key)) /\ UNCHANGED usages
         /\ WindowsDesktop!KeyReport(ok)
      \/ /\ api = "hid" /\ ~IsModifier(key) /\ Usage(key) # WindowsDesktop!NoCode
         /\ usages' = WindowsDesktop!SetIf(down, usages, Usage(key)) /\ UNCHANGED modifiers
         /\ WindowsDesktop!KeyReport(ok)
      \/ /\ api = "input" \/ (~IsModifier(key) /\ Usage(key) = WindowsDesktop!NoCode)
         /\ WindowsDesktop!KeyInput(press, down, ok)
  BY DEF WindowsDesktop!SubmitKey, IsModifier, Bit, Usage
<1>3. ASSUME WindowsDesktop!KeyReport(ok)
      PROVE  /\ screen'.typed = screen.typed
             /\ \/ ~ok /\ screen'.keys = screen.keys /\ screen'.rollover = screen.rollover
                \/ ok /\ screen'.keys = screen.keys /\ screen'.rollover
                \/ ok /\ screen'.keys = shows
  <2> HIDE DEF shows
  <2>1. \/ ~ok /\ screen' = screen
        \/ ok /\ screen' = [screen EXCEPT !.rollover = TRUE]
        \/ ok /\ screen' = [screen EXCEPT !.rollover = FALSE, !.keys = shows]
    BY <1>3 DEF WindowsDesktop!KeyReport, shows
  <2>2. QED
    BY <2>1 DEF ScreenParts
<1>4. ASSUME WindowsDesktop!KeyInput(press, down, ok)
      PROVE  /\ UNCHANGED <<usages, modifiers>>
             /\ screen'.keys = screen.keys /\ screen'.rollover = screen.rollover
             /\ screen'.typed = IF ok THEN WindowsDesktop!SetIf(down, screen.typed, key)
                                      ELSE screen.typed
  <2> DEFINE input == WindowsDesktop!KeyOfInput(WindowsDesktop!SentInput(press), VirtualKeys)
  <2>1. input = {key}
    BY KeyAlone
  <2>2. /\ screen' = IF ~ok THEN screen
                     ELSE [screen EXCEPT !.typed = IF down THEN @ \cup input ELSE @ \ input]
        /\ UNCHANGED <<usages, modifiers>>
    BY <1>4 DEF WindowsDesktop!KeyInput
  <2> HIDE DEF input
  <2>3. QED
    BY <2>1, <2>2 DEF ScreenParts, WindowsDesktop!SetIf
<1> HIDE DEF press, shows
<1>5. CASE ByReport(key)
  <2>1. /\ modifiers' = IF IsModifier(key) THEN WindowsDesktop!SetIf(down, modifiers, Bit(key))
                                           ELSE modifiers
        /\ usages' = IF IsModifier(key) THEN usages
                                        ELSE WindowsDesktop!SetIf(down, usages, Usage(key))
        /\ WindowsDesktop!KeyReport(ok)
    BY <1>2, <1>5 DEF ByReport
  <2>2. QED
    BY <1>1, <1>3, <1>5, <2>1 DEF KeyCall, shows
<1>6. CASE ~ByReport(key)
  <2>1. WindowsDesktop!KeyInput(press, down, ok)
    BY <1>2, <1>6 DEF ByReport
  <2>2. QED
    BY <1>1, <1>4, <1>6, <2>1 DEF KeyCall
<1>7. QED
  BY <1>5, <1>6

\* A key changes what a report says of itself only.
LEMMA KeyNext ==
  ASSUME KeysShown, DOMAIN screen = ScreenParts, NEW key \in VirtualKeys,
         NEW down \in BOOLEAN, NEW ok \in BOOLEAN, WindowsDesktop!SubmitKey(key, down, ok),
         api \in {"hid", "input"}
  PROVE  KeysShown'
<1>1. /\ device = "keyboard" /\ form \in WindowsDesktop!Forms /\ DOMAIN known = VirtualKeys
      /\ \A u \in usages : \E k \in VirtualKeys : ByReport(k) /\ ~IsModifier(k) /\ u = Usage(k)
      /\ \A m \in modifiers : \E k \in VirtualKeys : ByReport(k) /\ IsModifier(k) /\ m = Bit(k)
      /\ \A k \in VirtualKeys :
           IF ByReport(k)
             THEN /\ k \notin screen.typed
                  /\ IsKnown(k) => /\ InReport(k) <=> known[k] = "down"
                                   /\ screen.rollover \/ (k \in screen.keys <=> known[k] = "down")
             ELSE /\ k \notin screen.keys
                  /\ IsKnown(k) => (k \in screen.typed <=> known[k] = "down")
  BY DEF KeysShown, WindowsDesktop!SubmitKey
<1>2. KeyCall(key, down, ok)
  BY <1>1, KeyCalls
<1>3. /\ device' = "keyboard" /\ api' = api /\ form' = form
      /\ known' = [known EXCEPT ![key] = IF ok THEN WindowsDesktop!UpOrDown(down) ELSE "unknown"]
  BY <1>2 DEF KeyCall
<1>4. \A k \in VirtualKeys : /\ Bit(k)' = Bit(k) /\ Usage(k)' = Usage(k)
                             /\ IsModifier(k)' <=> IsModifier(k)
                             /\ ByReport(k)' <=> ByReport(k)
  BY <1>3 DEF Bit, Usage, IsModifier, ByReport
<1>5. \A k \in VirtualKeys : known'[k] = IF k # key THEN known[k]
                                         ELSE IF ok THEN WindowsDesktop!UpOrDown(down) ELSE "unknown"
  BY <1>1, <1>3
<1>6. DOMAIN known' = VirtualKeys
  BY <1>1, <1>3
<1>7. /\ \A u \in usages' : \E k \in VirtualKeys : ByReport(k) /\ ~IsModifier(k) /\ u = Usage(k)
      /\ \A m \in modifiers' : \E k \in VirtualKeys : ByReport(k) /\ IsModifier(k) /\ m = Bit(k)
  BY <1>1, <1>2 DEF KeyCall, WindowsDesktop!SetIf
<1>8. ASSUME NEW k \in VirtualKeys, ByReport(k)
      PROVE  InReport(k)' <=> IF k = key THEN down ELSE InReport(k)
  <2>1. InReport(k)' <=> IF IsModifier(k) THEN Bit(k) \in modifiers' ELSE Usage(k) \in usages'
    BY <1>4 DEF InReport
  <2>2. CASE ~ByReport(key)
    BY <1>2, <1>8, <2>1, <2>2 DEF KeyCall, InReport
  <2>3. CASE ByReport(key)
    <3>1. k # key => (IsModifier(k) /\ IsModifier(key) => Bit(k) # Bit(key))
                     /\ (~IsModifier(k) /\ ~IsModifier(key) => Usage(k) # Usage(key))
      <4>1. ASSUME IsModifier(k), IsModifier(key), Bit(k) = Bit(key)
            PROVE  k = key
        <5>1. {k} = {key}
          BY <1>1, <4>1, KeyAlone
        <5>2. QED
          BY <5>1
      <4>2. ASSUME ~IsModifier(k), ~IsModifier(key), Usage(k) = Usage(key)
            PROVE  k = key
        <5>1. {k} = {key}
          BY <1>1, <1>8, <2>3, <4>2, KeyAlone DEF ByReport
        <5>2. QED
          BY <5>1
      <4>3. QED
        BY <4>1, <4>2
    <3>2. /\ modifiers' = IF IsModifier(key) THEN WindowsDesktop!SetIf(down, modifiers, Bit(key))
                                             ELSE modifiers
          /\ usages' = IF IsModifier(key) THEN usages
                                          ELSE WindowsDesktop!SetIf(down, usages, Usage(key))
      BY <1>2, <2>3 DEF KeyCall
    <3>3. QED
      BY <2>1, <3>1, <3>2 DEF InReport, WindowsDesktop!SetIf
  <2>4. QED
    BY <2>2, <2>3
<1>9. ASSUME NEW k \in VirtualKeys, ByReport(k)
      PROVE  /\ k \notin screen'.typed
             /\ IsKnown(k)' => /\ InReport(k)' <=> known'[k] = "down"
                               /\ screen'.rollover \/ (k \in screen'.keys <=> known'[k] = "down")
  <2>1. k \notin screen'.typed
    BY <1>1, <1>2, <1>9 DEF KeyCall, WindowsDesktop!SetIf
  <2>2. IsKnown(k)' => (InReport(k)' <=> known'[k] = "down")
    BY <1>1, <1>5, <1>8, <1>9 DEF IsKnown, WindowsDesktop!UpOrDown
  <2>3. ASSUME IsKnown(k)', ~screen'.rollover
        PROVE  k \in screen'.keys <=> known'[k] = "down"
    <3> DEFINE shows == UNION ({WindowsDesktop!KeyOfUsage(u, VirtualKeys) : u \in usages'}
                          \cup {WindowsDesktop!KeyOfModifier(m, VirtualKeys) : m \in modifiers'})
    <3>1. CASE screen'.keys = shows
      <4>1. k \in screen'.keys <=> InReport(k)'
        <5> HIDE DEF shows
        <5>1. k \in shows <=> InReport(k)'
          BY <1>1, <1>3, <1>7, <1>9, ReportShows DEF shows
        <5>2. QED
          BY <3>1, <5>1
      <4>2. QED
        BY <2>2, <2>3, <4>1
    <3>2. CASE screen'.keys = screen.keys /\ ~screen.rollover /\ ~(ok /\ k = key)
      <4>1. known'[k] = known[k] /\ IsKnown(k)
        BY <1>5, <2>3, <3>2 DEF IsKnown
      <4>2. QED
        BY <1>1, <1>9, <3>2, <4>1
    <3>3. \/ screen'.keys = shows
          \/ screen'.keys = screen.keys /\ ~screen.rollover /\ ~(ok /\ k = key)
      BY <1>2, <1>9, <2>3 DEF KeyCall
    <3>4. QED
      BY <3>1, <3>2, <3>3
  <2>4. QED
    BY <2>1, <2>2, <2>3
<1>10. ASSUME NEW k \in VirtualKeys, ~ByReport(k)
       PROVE  /\ k \notin screen'.keys
              /\ IsKnown(k)' => (k \in screen'.typed <=> known'[k] = "down")
  <2>1. k \notin screen'.keys
    <3> DEFINE shows == UNION ({WindowsDesktop!KeyOfUsage(u, VirtualKeys) : u \in usages'}
                          \cup {WindowsDesktop!KeyOfModifier(m, VirtualKeys) : m \in modifiers'})
    <3>1. screen'.keys = screen.keys \/ screen'.keys = shows
      BY <1>2 DEF KeyCall
    <3> HIDE DEF shows
    <3>2. k \notin shows
      BY <1>1, <1>3, <1>7, <1>10, ReportShows DEF shows
    <3>3. QED
      BY <1>1, <1>10, <3>1, <3>2
  <2>2. IsKnown(k)' => (k \in screen'.typed <=> known'[k] = "down")
    <3>1. CASE ByReport(key)
      <4>1. k # key /\ screen'.typed = screen.typed
        BY <1>2, <1>10, <3>1 DEF KeyCall
      <4>2. QED
        BY <1>1, <1>5, <1>10, <4>1 DEF IsKnown
    <3>2. CASE ~ByReport(key)
      <4>1. screen'.typed = IF ok THEN WindowsDesktop!SetIf(down, screen.typed, key)
                            ELSE screen.typed
        BY <1>2, <3>2 DEF KeyCall
      <4>2. QED
        BY <1>1, <1>5, <1>10, <4>1 DEF IsKnown, WindowsDesktop!SetIf, WindowsDesktop!UpOrDown
    <3>3. QED
      BY <3>1, <3>2
  <2>3. QED
    BY <2>1, <2>2
<1>11. QED
  <2>1. /\ \A u \in usages' : \E k \in VirtualKeys : (ByReport(k) /\ ~IsModifier(k))' /\ u = Usage(k)'
        /\ \A m \in modifiers' : \E k \in VirtualKeys : (ByReport(k) /\ IsModifier(k))' /\ m = Bit(k)'
    BY <1>4, <1>7
  <2>2. ASSUME NEW k \in VirtualKeys
        PROVE  IF ByReport(k)'
                 THEN /\ k \notin screen'.typed
                      /\ IsKnown(k)' => /\ InReport(k)' <=> known'[k] = "down"
                                        /\ \/ screen'.rollover
                                           \/ k \in screen'.keys <=> known'[k] = "down"
                 ELSE /\ k \notin screen'.keys
                      /\ IsKnown(k)' => (k \in screen'.typed <=> known'[k] = "down")
    BY <1>4, <1>9, <1>10
  <2>3. QED
    BY <1>1, <1>3, <1>6, <2>1, <2>2 DEF KeysShown

\* Keyboards and mice are HID devices or inject with SendInput.
WaysFit == device \in {"keyboard", "mouse"} => api \in {"hid", "input"}

KeysInv == WaysFit /\ MotionKept /\ KeysShown

\* The constants of WindowsDesktop are as it assumes.
LEMMA ScreenAssumed == WindowsDesktop!ScreenAssumption
BY BackendsAssumption

\* Nothing is down on a device that was just made, and nothing was moved.
LEMMA FreshKeys ==
  ASSUME WindowsDesktop!Fresh,
         \/ device' = "none" /\ api' = "input"
         \/ \E kind1 \in {"keyboard", "mouse", "touchscreen", "pen_tablet"},
               by \in {"hid", "input", "pointer"}, named \in WindowsDesktop!Forms :
                 WindowsDesktop!Create(kind1, by, named)
  PROVE  KeysInv'
<1>1. /\ usages' = {} /\ modifiers' = {} /\ carry' = 0 /\ asked' = <<0, 0>> /\ scrolled' = 0
      /\ screen'.keys = {} /\ screen'.typed = {} /\ screen'.moved = <<0, 0>> /\ screen'.wheel = 0
  BY DEF WindowsDesktop!Fresh, WindowsDesktop!NewScreen
<1>2. WaysFit'
  BY DEF WaysFit, WindowsDesktop!Create
<1>3. MotionKept'
  <2>1. Detent \in Nat \ {0}
    BY ScreenAssumed DEF WindowsDesktop!ScreenAssumption
  <2>2. 0 \in (1 - Detent)..(Detent - 1)
    BY <2>1
  <2>3. QED
    BY <1>1, <2>2 DEF MotionKept
<1>4. ASSUME device' = "keyboard"
      PROVE  KeysShown'
  <2>1. form' \in WindowsDesktop!Forms /\ known' = [k \in VirtualKeys |-> "up"]
    BY <1>4 DEF WindowsDesktop!Create
  <2>2. \A k \in VirtualKeys : ~InReport(k)' /\ known'[k] = "up"
    BY <1>1, <2>1 DEF InReport
  <2>3. DOMAIN known' = VirtualKeys
    BY <2>1
  <2>4. QED
    BY <1>1, <2>1, <2>2, <2>3 DEF KeysShown, IsKnown
<1>5. device' # "keyboard" => KeysShown'
  BY DEF KeysShown
<1>6. QED
  BY <1>2, <1>3, <1>4, <1>5 DEF KeysInv

\* Frames of pointers leave keys, motions and scrolls of the screen alone.
LEMMA FrameLeavesKeys ==
  ASSUME PointersInv, NEW frame, NEW ok \in BOOLEAN, WindowsDesktop!Inject(frame, ok)
  PROVE  /\ screen'.keys = screen.keys /\ screen'.typed = screen.typed
         /\ screen'.rollover = screen.rollover
         /\ screen'.wheel = screen.wheel /\ screen'.moved = screen.moved
BY DEF WindowsDesktop!Inject, PointersInv, ScreenShape, ScreenParts

\* A step that leaves them alone on both sides.
LEMMA KeysStill ==
  ASSUME KeysInv,
         UNCHANGED <<device, api, form, usages, modifiers, carry, scrolled, asked>>,
         ~broken' => ~broken, device = "keyboard" => UNCHANGED known,
         screen'.keys = screen.keys, screen'.typed = screen.typed,
         screen'.rollover = screen.rollover,
         screen'.wheel = screen.wheel, screen'.moved = screen.moved
  PROVE  KeysInv'
<1>1. WaysFit'
  BY DEF KeysInv, WaysFit
<1>2. MotionKept'
  BY MotionStill DEF KeysInv
<1>3. KeysShown'
  BY DEF KeysInv, KeysShown, ByReport, IsModifier, InReport, Bit, Usage, IsKnown
<1>4. QED
  BY <1>1, <1>2, <1>3 DEF KeysInv

\* The calls of touchscreens and pens, and the steps of the thread.
LEMMA TouchLeavesKeys ==
  ASSUME KeysInv, PointersInv, NEW c \in PointerIds, NEW ok \in BOOLEAN,
         \/ \E touching \in BOOLEAN : WindowsDesktop!PlaceContact(c, touching, ok)
         \/ \E t \in WindowsDesktop!Transitions : WindowsDesktop!ReleaseContact(c, t, ok)
  PROVE  KeysInv'
<1>1. /\ device = "touchscreen" /\ broken' = (broken \/ ~ok)
      /\ UNCHANGED <<device, api, form, usages, modifiers, carry, scrolled, asked>>
  BY DEF WindowsDesktop!PlaceContact, WindowsDesktop!ReleaseContact, WindowsDesktop!Known
<1>2. \E frame : WindowsDesktop!Inject(frame, ok)
  BY DEF WindowsDesktop!PlaceContact, WindowsDesktop!ReleaseContact
<1>3. ~broken' => ~broken
  BY <1>1
<1>4. QED
  BY <1>1, <1>2, <1>3, FrameLeavesKeys, KeysStill

\* The calls of pens.
LEMMA PenLeavesKeys ==
  ASSUME KeysInv, PointersInv, NEW ok \in BOOLEAN,
         \/ \E t, change, pressure : WindowsDesktop!PlaceTool(t, change, pressure, ok)
         \/ \E down : WindowsDesktop!PenButton(down, ok)
  PROVE  KeysInv'
<1>1. /\ device = "pen_tablet" /\ broken' = (broken \/ ~ok)
      /\ UNCHANGED <<device, api, form, usages, modifiers, carry, scrolled, asked>>
  BY DEF WindowsDesktop!PlaceTool, WindowsDesktop!PenButton, WindowsDesktop!Known
<1>2. screen' = screen \/ \E frame : WindowsDesktop!Inject(frame, ok)
  <2>1. CASE \E t, change, pressure : WindowsDesktop!PlaceTool(t, change, pressure, ok)
    BY <2>1 DEF WindowsDesktop!PlaceTool
  <2>2. CASE \E down : WindowsDesktop!PenButton(down, ok)
    BY <2>2 DEF WindowsDesktop!PenButton
  <2>3. QED
    BY <2>1, <2>2
<1>3. ~broken' => ~broken
  BY <1>1
<1>4. QED
  BY <1>1, <1>2, <1>3, FrameLeavesKeys, KeysStill

\* The steps of the refreshing thread, and of other machines.
LEMMA ThreadLeavesKeys ==
  ASSUME KeysInv, PointersInv,
         \/ WindowsDesktop!Wake \/ WindowsDesktop!StopThread \/ UNCHANGED WindowsDesktop!vars
         \/ \E ok \in BOOLEAN : WindowsDesktop!Refresh(ok)
  PROVE  KeysInv'
<1>1. UNCHANGED <<device, api, form, usages, modifiers, carry, scrolled, asked, broken, known>>
  <2>1. CASE WindowsDesktop!Wake \/ WindowsDesktop!StopThread
    BY <2>1 DEF WindowsDesktop!Wake, WindowsDesktop!StopThread,
      WindowsDesktop!libraryVars, WindowsDesktop!historyVars
  <2>2. CASE UNCHANGED WindowsDesktop!vars
    BY <2>2 DEF WindowsDesktop!vars, WindowsDesktop!libraryVars, WindowsDesktop!historyVars
  <2>3. CASE \E ok \in BOOLEAN : WindowsDesktop!Refresh(ok)
    BY <2>3 DEF WindowsDesktop!Refresh, WindowsDesktop!libraryVars, WindowsDesktop!historyVars
  <2>4. QED
    BY <2>1, <2>2, <2>3
<1>2. screen' = screen \/ \E frame : \E ok \in BOOLEAN : WindowsDesktop!Inject(frame, ok)
  <2>1. CASE WindowsDesktop!Wake \/ WindowsDesktop!StopThread
    BY <2>1 DEF WindowsDesktop!Wake, WindowsDesktop!StopThread
  <2>2. CASE UNCHANGED WindowsDesktop!vars
    BY <2>2 DEF WindowsDesktop!vars
  <2>3. CASE \E ok \in BOOLEAN : WindowsDesktop!Refresh(ok)
    BY <2>3 DEF WindowsDesktop!Refresh
  <2>4. QED
    BY <2>1, <2>2, <2>3
<1>3. QED
  BY <1>1, <1>2, FrameLeavesKeys, KeysStill

\* A button moves nothing.
LEMMA ButtonLeavesKeys ==
  ASSUME KeysInv, PointersInv, NEW b, NEW down \in BOOLEAN, NEW ok \in BOOLEAN,
         WindowsDesktop!SubmitButton(b, down, ok)
  PROVE  KeysInv'
<1>1. /\ device = "mouse" /\ UNCHANGED <<device, api, carry, scrolled>> /\ asked' = <<0, 0>>
      /\ broken' = (broken \/ ~ok)
  BY DEF WindowsDesktop!SubmitButton, WindowsDesktop!Known
<1>2. screen'.wheel = screen.wheel /\ screen'.moved = <<0, 0>>
  BY DEF WindowsDesktop!SubmitButton, PointersInv, ScreenShape, ScreenParts
<1>3. ~broken' => ~broken
  BY <1>1
<1>4. MotionKept'
  BY <1>1, <1>2, <1>3 DEF KeysInv, MotionKept
<1>5. QED
  BY <1>1, <1>4 DEF KeysInv, WaysFit, KeysShown

\* Every step keeps the invariant of keys, motions and scrolls.
LEMMA KeysNext ==
  ASSUME KeysInv, PointersInv, [WindowsDesktop!Next]_(WindowsDesktop!vars)
  PROVE  KeysInv'
<1>1. DOMAIN screen = ScreenParts /\ WaysFit /\ MotionKept /\ KeysShown
  BY DEF KeysInv, PointersInv, ScreenShape
<1>2. CASE \E made \in {"keyboard", "mouse", "touchscreen", "pen_tablet"},
              by \in {"hid", "input", "pointer"}, named \in WindowsDesktop!Forms :
                WindowsDesktop!Create(made, by, named)
  BY <1>2, FreshKeys DEF WindowsDesktop!Create
<1>3. CASE WindowsDesktop!Close \/ WindowsDesktop!CloseDevice
  BY <1>3, FreshKeys DEF WindowsDesktop!Close, WindowsDesktop!CloseDevice
<1>4. ASSUME NEW key \in VirtualKeys, NEW down \in BOOLEAN, NEW ok \in BOOLEAN,
             WindowsDesktop!SubmitKey(key, down, ok)
      PROVE  KeysInv'
  <2>1. /\ device = "keyboard" /\ UNCHANGED <<device, api, carry, asked, scrolled>>
        /\ broken' = (broken \/ ~ok) /\ api \in {"hid", "input"}
    BY <1>1, <1>4 DEF WindowsDesktop!SubmitKey, WindowsDesktop!Known, WaysFit
  <2>2. KeysShown'
    BY <1>1, <1>4, <2>1, KeyNext
  <2>3. screen'.wheel = screen.wheel /\ screen'.moved = screen.moved
    <3>1. WindowsDesktop!KeyReport(ok) \/ \E e : WindowsDesktop!KeyInput(e, down, ok)
      BY <1>4 DEF WindowsDesktop!SubmitKey
    <3>2. QED
      BY <1>1, <3>1 DEF WindowsDesktop!KeyReport, WindowsDesktop!KeyInput, ScreenParts
  <2>4. ~broken' => ~broken
    BY <2>1
  <2>5. MotionKept'
    BY <1>1, <2>1, <2>3, <2>4, MotionStill
  <2>6. QED
    BY <1>1, <2>1, <2>2, <2>5 DEF KeysInv, WaysFit
<1>5. ASSUME NEW n \in 0..WindowsDesktop!MaxParts,
             \/ \E motion \in Motions : WindowsDesktop!Move(motion, n)
             \/ \E distance \in Distances : WindowsDesktop!Scroll(distance, n)
      PROVE  KeysInv'
  <2>1. device = "mouse" /\ UNCHANGED <<device, api>> /\ api \in {"hid", "input"}
    BY <1>1, <1>5 DEF WindowsDesktop!Move, WindowsDesktop!Scroll, WaysFit
  <2>2. MotionKept'
    BY <1>1, <1>5, <2>1, MotionNext, ScrollNext, ScreenAssumed
  <2>3. QED
    BY <1>1, <2>1, <2>2 DEF KeysInv, WaysFit, KeysShown
<1>6. QED
  BY <1>2, <1>3, <1>4, <1>5, TouchLeavesKeys, PenLeavesKeys, ThreadLeavesKeys, ButtonLeavesKeys
  DEF WindowsDesktop!Next

\* There is no device at the start.
LEMMA KeysInit == WindowsDesktop!Init => KeysInv
<1>1. 0 \in (1 - Detent)..(Detent - 1)
  BY ScreenAssumed DEF WindowsDesktop!ScreenAssumption
<1>2. QED
  BY <1>1 DEF WindowsDesktop!Init, WindowsDesktop!NewScreen, KeysInv, WaysFit, MotionKept, KeysShown

\* In a state of the invariant keys show as the client left them, and motions arrive.
LEMMA KeysInvShows == KeysInv => WindowsDesktop!KeysTrue
<1> SUFFICES ASSUME KeysInv
             PROVE  WindowsDesktop!KeysTrue
  OBVIOUS
<1>1. WindowsDesktop!MotionWhole
  <2>1. /\ carry \in (1 - Detent)..(Detent - 1) /\ screen.wheel \in Int /\ scrolled \in Int
        /\ api = "input" => carry = 0
        /\ ~broken => screen.moved = asked /\ scrolled = screen.wheel + carry
    BY DEF KeysInv, MotionKept
  <2>2. carry \in Int
    BY <2>1, ScreenAssumed DEF WindowsDesktop!ScreenAssumption
  <2>3. ~broken => scrolled - screen.wheel = carry
    BY <2>1, <2>2
  <2>4. ~broken /\ api = "input" => scrolled = screen.wheel
    BY <2>1, <2>2
  <2>5. QED
    BY <2>1, <2>3, <2>4 DEF WindowsDesktop!MotionWhole
<1>2. ASSUME device = "keyboard"
      PROVE  WindowsDesktop!Shown
  <2>1. /\ DOMAIN known = VirtualKeys
        /\ \A k \in VirtualKeys :
             IF ByReport(k)
               THEN /\ k \notin screen.typed
                    /\ IsKnown(k) => screen.rollover \/ (k \in screen.keys <=> known[k] = "down")
               ELSE /\ k \notin screen.keys
                    /\ IsKnown(k) => (k \in screen.typed <=> known[k] = "down")
    BY <1>2 DEF KeysInv, KeysShown
  <2>2. \A k \in VirtualKeys :
          \/ known[k] = "unknown"
          \/ (k \in screen.keys \cup screen.typed) = (known[k] = "down")
          \/ screen.rollover
    BY <2>1 DEF IsKnown
  <2>3. QED
    BY <1>2, <2>1, <2>2 DEF WindowsDesktop!Shown, WindowsDesktop!Pointers, WindowsDesktop!Down
<1>3. QED
  BY <1>1, <1>2 DEF WindowsDesktop!KeysTrue

-----------------------------------------------------------------------------
(* LinuxDesktop: what the kernel has after a call.                         *)

Touches == {LinuxDesktop!Absent} \cup 0..MaxTouches

Codes ==
  LinuxDesktop!Keys \cup LinuxDesktop!MouseCodes("relative") \cup LinuxDesktop!MouseCodes("absolute")
    \cup LinuxDesktop!TrackpadCodes \cup LinuxDesktop!PenCodes \cup {"SYN"}

NodeStates ==
  [down : SUBSET Codes, slot : LinuxDesktop!Slots, touches : [LinuxDesktop!Slots -> Touches],
   at : [LinuxDesktop!Slots -> Contacts \cup {"nobody"}], wheel : Int, synced : BOOLEAN]

EventTypes ==
  {e \in [code : Codes, value : Int \cup Contacts] :
     /\ e.code = "MT_SLOT" => e.value \in LinuxDesktop!Slots
     /\ e.code = "MT_TRACKING_ID" => e.value \in Touches
     /\ e.code = "MT_POSITION_X" => e.value \in Contacts
     /\ e.code = "REL_WHEEL" => e.value \in Int}

KeyCode(c) ==
  c \notin LinuxDesktop!Axes \cup {"SYN", "MT_SLOT", "MT_TRACKING_ID", "MT_POSITION_X", "REL_WHEEL"}

\* What one event that the device has announced does, part by part.
Parts(d, e, r) ==
  /\ r.synced = FALSE
  /\ r.slot = IF e.code = "MT_SLOT" THEN e.value ELSE d.slot
  /\ r.touches = IF e.code = "MT_TRACKING_ID" THEN [d.touches EXCEPT ![d.slot] = e.value]
                                            ELSE d.touches
  /\ r.at = IF e.code = "MT_POSITION_X" THEN [d.at EXCEPT ![d.slot] = e.value] ELSE d.at
  /\ r.wheel = IF e.code = "REL_WHEEL" THEN d.wheel + e.value ELSE d.wheel
  /\ r.down = IF ~KeyCode(e.code) THEN d.down
              ELSE IF e.value = 1 THEN d.down \cup {e.code} ELSE d.down \ {e.code}

\* An event that the device has announced changes its own part only.
LEMMA ReceivedParts ==
  ASSUME NEW node, NEW d \in NodeStates, NEW e \in EventTypes,
         NEW r, r = LinuxDesktop!Received(node, d, e),
         e.code # "SYN", e.code \in LinuxDesktop!Announced(node)
  PROVE  r \in NodeStates /\ Parts(d, e, r)
<1> DEFINE set == IF e.value = 1 THEN d.down \cup {e.code} ELSE d.down \ {e.code}
           touched == [d.touches EXCEPT ![d.slot] = e.value]
           moved == [d.at EXCEPT ![d.slot] = e.value]
<1>1. /\ d.down \in SUBSET Codes /\ d.slot \in LinuxDesktop!Slots /\ d.wheel \in Int
      /\ d.touches \in [LinuxDesktop!Slots -> Touches]
      /\ d.at \in [LinuxDesktop!Slots -> Contacts \cup {"nobody"}]
  BY DEF NodeStates
<1>2. /\ e.code \in Codes
      /\ e.code = "MT_SLOT" => e.value \in LinuxDesktop!Slots
      /\ e.code = "MT_TRACKING_ID" => e.value \in Touches
      /\ e.code = "MT_POSITION_X" => e.value \in Contacts
      /\ e.code = "REL_WHEEL" => e.value \in Int
  BY DEF EventTypes
<1>3. set \in SUBSET Codes
  BY <1>1, <1>2
<1>4. e.code = "MT_TRACKING_ID" => touched \in [LinuxDesktop!Slots -> Touches]
  BY <1>1, <1>2
<1>5. e.code = "MT_POSITION_X" => moved \in [LinuxDesktop!Slots -> Contacts \cup {"nobody"}]
  BY <1>1, <1>2
<1>6. CASE e.code \in LinuxDesktop!Axes
  <2>1. r = [d EXCEPT !.synced = FALSE]
    BY <1>6 DEF LinuxDesktop!Received, LinuxDesktop!Axes
  <2>2. QED
    BY <1>6, <2>1 DEF NodeStates, Parts, KeyCode, LinuxDesktop!Axes
<1>7. CASE e.code = "MT_SLOT"
  <2>1. r = [d EXCEPT !.synced = FALSE, !.slot = e.value]
    BY <1>7 DEF LinuxDesktop!Received, LinuxDesktop!Axes
  <2>2. QED
    BY <1>2, <1>7, <2>1 DEF NodeStates, Parts, KeyCode
<1>8. CASE e.code = "MT_TRACKING_ID"
  <2>1. r = [d EXCEPT !.synced = FALSE, !.touches = touched]
    BY <1>8 DEF LinuxDesktop!Received, LinuxDesktop!Axes
  <2> HIDE DEF touched, Parts
  <2>2. r \in NodeStates /\ r.touches = touched /\ r.synced = FALSE
    BY <1>4, <1>8, <2>1 DEF NodeStates
  <2>3. r.slot = d.slot /\ r.at = d.at /\ r.wheel = d.wheel /\ r.down = d.down
    BY <2>1 DEF NodeStates
  <2>4. ~KeyCode(e.code)
    BY <1>8 DEF KeyCode
  <2>5. QED
    BY <1>8, <2>2, <2>3, <2>4 DEF touched, Parts
<1>9. CASE e.code = "MT_POSITION_X"
  <2>1. r = [d EXCEPT !.synced = FALSE, !.at = moved]
    BY <1>9 DEF LinuxDesktop!Received, LinuxDesktop!Axes
  <2> HIDE DEF moved, Parts
  <2>2. r \in NodeStates /\ r.at = moved /\ r.synced = FALSE
    BY <1>5, <1>9, <2>1 DEF NodeStates
  <2>3. r.slot = d.slot /\ r.touches = d.touches /\ r.wheel = d.wheel /\ r.down = d.down
    BY <2>1 DEF NodeStates
  <2>4. ~KeyCode(e.code)
    BY <1>9 DEF KeyCode
  <2>5. QED
    BY <1>9, <2>2, <2>3, <2>4 DEF moved, Parts
<1>10. CASE e.code = "REL_WHEEL"
  <2> DEFINE turned == d.wheel + e.value
  <2>1. r = [d EXCEPT !.synced = FALSE, !.wheel = turned]
    BY <1>10 DEF LinuxDesktop!Received, LinuxDesktop!Axes
  <2>2. turned \in Int
    BY <1>1, <1>2, <1>10
  <2> HIDE DEF turned, Parts
  <2>3. r \in NodeStates /\ r.wheel = turned /\ r.synced = FALSE
    BY <2>1, <2>2 DEF NodeStates
  <2>4. r.slot = d.slot /\ r.touches = d.touches /\ r.at = d.at /\ r.down = d.down
    BY <2>1 DEF NodeStates
  <2>5. ~KeyCode(e.code)
    BY <1>10 DEF KeyCode
  <2>6. QED
    BY <1>10, <2>3, <2>4, <2>5 DEF turned, Parts
<1>11. CASE KeyCode(e.code)
  <2>1. r = [d EXCEPT !.synced = FALSE, !.down = set]
    BY <1>11 DEF LinuxDesktop!Received, LinuxDesktop!Axes, KeyCode
  <2> HIDE DEF set
  <2>2. r \in NodeStates /\ r.down = set /\ r.synced = FALSE
    BY <1>3, <2>1 DEF NodeStates
  <2>3. r.slot = d.slot /\ r.touches = d.touches /\ r.at = d.at /\ r.wheel = d.wheel
    BY <2>1 DEF NodeStates
  <2>4. e.code \notin {"MT_SLOT", "MT_TRACKING_ID", "MT_POSITION_X", "REL_WHEEL"}
    BY <1>11 DEF KeyCode
  <2>5. QED
    BY <1>11, <2>2, <2>3, <2>4 DEF set, Parts
<1>12. QED
  BY <1>6, <1>7, <1>8, <1>9, <1>10, <1>11 DEF KeyCode

\* The end of a report, and an event that the device has not announced.
SameParts(d, r) ==
  /\ r.slot = d.slot /\ r.touches = d.touches /\ r.at = d.at /\ r.wheel = d.wheel
  /\ r.down = d.down

\* SYN changes nothing else, and an event that was not announced nothing at all.
LEMMA ReceivedElse ==
  ASSUME NEW node, NEW d \in NodeStates, NEW e, NEW r, r = LinuxDesktop!Received(node, d, e)
  PROVE  /\ e.code = "SYN" => r \in NodeStates /\ r.synced /\ SameParts(d, r)
         /\ e.code # "SYN" /\ e.code \notin LinuxDesktop!Announced(node) => r = d
<1>1. CASE e.code = "SYN"
  <2>1. r = [d EXCEPT !.synced = TRUE]
    BY <1>1 DEF LinuxDesktop!Received
  <2>2. QED
    BY <1>1, <2>1 DEF NodeStates, SameParts
<1>2. CASE e.code # "SYN"
  BY <1>2 DEF LinuxDesktop!Received
<1>3. QED
  BY <1>1, <1>2

\* A node stays a node.
LEMMA ReceivedTyped ==
  ASSUME NEW node, NEW d \in NodeStates, NEW e \in EventTypes
  PROVE  LinuxDesktop!Received(node, d, e) \in NodeStates
<1> SUFFICES ASSUME NEW r, r = LinuxDesktop!Received(node, d, e) PROVE r \in NodeStates
  OBVIOUS
<1>1. CASE e.code # "SYN" /\ e.code \in LinuxDesktop!Announced(node)
  BY <1>1, ReceivedParts
<1>2. CASE e.code = "SYN" \/ e.code \notin LinuxDesktop!Announced(node)
  BY <1>2, ReceivedElse
<1>3. QED
  BY <1>1, <1>2

Receiving(node) ==
  [x \in NodeStates \X EventTypes |-> LinuxDesktop!Received(node, x[1], x[2])]

\* The step of the fold that receives events.
LEMMA ReceivingStep ==
  ASSUME NEW node
  PROVE  /\ Receiving(node) \in [NodeStates \X EventTypes -> NodeStates]
         /\ \A d \in NodeStates, e \in EventTypes :
              Receiving(node)[<<d, e>>] = LinuxDesktop!Received(node, d, e)
<1>1. \A x \in NodeStates \X EventTypes : LinuxDesktop!Received(node, x[1], x[2]) \in NodeStates
  <2>1. ASSUME NEW x \in NodeStates \X EventTypes
        PROVE  LinuxDesktop!Received(node, x[1], x[2]) \in NodeStates
    <3>1. x[1] \in NodeStates /\ x[2] \in EventTypes
      BY <2>1
    <3>2. QED
      BY <3>1, ReceivedTyped
  <2>2. QED
    BY <2>1
<1>2. QED
  BY <1>1 DEF Receiving

\* The events of a call are a fold.
LEMMA AfterFolds ==
  ASSUME NEW node, NEW d \in NodeStates, NEW s \in Seq(EventTypes)
  PROVE  \E f : /\ IsFold(f, d, Receiving(node), s)
                /\ \A i \in 0..Len(s) : f[i] \in NodeStates
                /\ LinuxDesktop!After(node, d, s) = f[Len(s)]
<1> DEFINE step == Receiving(node)
           e(f) == [i \in 0..Len(s) |-> IF i = 0 THEN d
                      ELSE LinuxDesktop!Received(node, f[i - 1], s[i])]
           g == CHOOSE f : f = e(f)
<1>1. LinuxDesktop!After(node, d, s) = g[Len(s)]
  BY DEF LinuxDesktop!After
<1>2. Len(s) \in Nat /\ s \in Seq(EventTypes)
  OBVIOUS
<1>3. step \in [NodeStates \X EventTypes -> NodeStates]
  BY ReceivingStep
<1>4. \A u \in NodeStates, r \in EventTypes :
        step[<<u, r>>] = LinuxDesktop!Received(node, u, r)
  BY ReceivingStep
<1> HIDE DEF step
<1>5. PICK f \in [0..Len(s) -> NodeStates] : IsFold(f, d, step, s)
  BY <1>2, <1>3, FoldExists
<1>6. ASSUME NEW h, NEW i \in 1..Len(s), h[i - 1] \in NodeStates
      PROVE  e(h)[i] = step[<<h[i - 1], s[i]>>]
  <2>1. i # 0 /\ i \in 0..Len(s) /\ s[i] \in EventTypes
    BY <1>2
  <2>2. QED
    BY <1>4, <1>6, <2>1
<1>7. f = e(f)
  <2>1. ASSUME NEW i \in 0..Len(s)
        PROVE  f[i] = e(f)[i]
    <3>1. CASE i = 0
      BY <1>5, <3>1 DEF IsFold
    <3>2. CASE i # 0
      <4>1. i \in 1..Len(s) /\ f[i - 1] \in NodeStates
        BY <1>2, <3>2
      <4>2. QED
        BY <1>5, <1>6, <4>1 DEF IsFold
    <3>3. QED
      BY <3>1, <3>2
  <2>2. QED
    BY <2>1
<1>8. g = e(g)
  <2> HIDE DEF e
  <2>1. QED
    BY <1>7
<1> HIDE DEF g
<1>9. g[0] = d
  BY <1>2, <1>8
<1>10. ASSUME NEW i \in 1..Len(s), g[i - 1] \in NodeStates
       PROVE  g[i] = step[<<g[i - 1], s[i]>>]
  BY <1>6, <1>8, <1>10
<1>11. IsFold(g, d, step, s) /\ \A i \in 0..Len(s) : g[i] \in NodeStates
  <2> HIDE DEF e
  <2>1. IsFoldIn(NodeStates, g, d, step, s)
    BY <1>9, <1>10 DEF IsFoldIn
  <2>2. QED
    BY <1>2, <1>3, <2>1, FoldTyped
<1>12. QED
  BY <1>1, <1>11 DEF step

\* One event more, and none.
LEMMA AfterEvents ==
  ASSUME NEW node, NEW d \in NodeStates, NEW s \in Seq(EventTypes)
  PROVE  /\ LinuxDesktop!After(node, d, s) \in NodeStates
         /\ s = <<>> => LinuxDesktop!After(node, d, s) = d
         /\ \A e \in EventTypes :
              LinuxDesktop!After(node, d, Append(s, e)) =
                LinuxDesktop!Received(node, LinuxDesktop!After(node, d, s), e)
<1> DEFINE N == NodeStates
           R == EventTypes
           step == Receiving(node)
<1>1. Len(s) \in Nat /\ (s = <<>> => Len(s) = 0)
  OBVIOUS
<1>2. PICK f : /\ IsFold(f, d, step, s) /\ \A i \in 0..Len(s) : f[i] \in N
               /\ LinuxDesktop!After(node, d, s) = f[Len(s)]
  BY AfterFolds
<1>3. \A u \in N, r \in R : step[<<u, r>>] = LinuxDesktop!Received(node, u, r)
  BY ReceivingStep
<1> HIDE DEF step
<1>4. LinuxDesktop!After(node, d, s) \in N
  BY <1>1, <1>2
<1>5. s = <<>> => LinuxDesktop!After(node, d, s) = d
  BY <1>1, <1>2 DEF IsFold
<1>6. ASSUME NEW e \in R
      PROVE  LinuxDesktop!After(node, d, Append(s, e)) =
               LinuxDesktop!Received(node, LinuxDesktop!After(node, d, s), e)
  <2> DEFINE t == Append(s, e)
  <2>1. t \in Seq(R) /\ Len(t) = Len(s) + 1
    OBVIOUS
  <2>2. PICK g : IsFold(g, d, step, t) /\ LinuxDesktop!After(node, d, t) = g[Len(t)]
    BY <2>1, AfterFolds DEF step
  <2>3. g[Len(s) + 1] = step[<<f[Len(s)], e>>]
    BY <1>2, <2>2, FoldAppend
  <2>4. QED
    BY <1>2, <1>3, <1>4, <2>1, <2>2, <2>3
<1>7. QED
  BY <1>4, <1>5, <1>6

\* The events of two parts of a call come one after the other.
LEMMA AfterBoth ==
  ASSUME NEW node, NEW d \in NodeStates, NEW s \in Seq(EventTypes), NEW t \in Seq(EventTypes)
  PROVE  /\ s \o t \in Seq(EventTypes)
         /\ LinuxDesktop!After(node, d, s \o t) =
              LinuxDesktop!After(node, LinuxDesktop!After(node, d, s), t)
<1> DEFINE R == EventTypes
           b == LinuxDesktop!After(node, d, s)
           S == {u \in Seq(R) : LinuxDesktop!After(node, d, s \o u) = LinuxDesktop!After(node, b, u)}
<1>1. b \in NodeStates
  BY AfterEvents
<1>2. <<>> \in S
  <2>1. <<>> \in Seq(R) /\ s \o <<>> = s
    BY EmptySeq, ConcatEmptySeq
  <2>2. LinuxDesktop!After(node, b, <<>>) = b
    <3> HIDE DEF b
    <3>1. QED
      BY <1>1, <2>1, AfterEvents
  <2>3. QED
    BY <2>1, <2>2
<1>3. ASSUME NEW u \in Seq(R), NEW r \in R, u \in S
      PROVE  Append(u, r) \in S
  <2>1. /\ s \o Append(u, r) = Append(s \o u, r) /\ s \o u \in Seq(R)
        /\ Append(u, r) \in Seq(R)
    <3>1. s \o u \in Seq(R) /\ Append(u, r) \in Seq(R)
      OBVIOUS
    <3>2. s \o Append(u, r) = Append(s \o u, r)
      <4>1. Len(s \o Append(u, r)) = Len(Append(s \o u, r))
        OBVIOUS
      <4>2. ASSUME NEW i \in 1..Len(s \o Append(u, r))
            PROVE  (s \o Append(u, r))[i] = Append(s \o u, r)[i]
        OBVIOUS
      <4>3. QED
        BY <3>1, <4>1, <4>2, SeqEqual
    <3>3. QED
      BY <3>1, <3>2
  <2>2. LinuxDesktop!After(node, d, Append(s \o u, r)) =
          LinuxDesktop!Received(node, LinuxDesktop!After(node, d, s \o u), r)
    BY <2>1, AfterEvents
  <2>3. LinuxDesktop!After(node, b, Append(u, r)) =
          LinuxDesktop!Received(node, LinuxDesktop!After(node, b, u), r)
    <3> HIDE DEF b
    <3>1. QED
      BY <1>1, AfterEvents
  <2>4. LinuxDesktop!After(node, d, s \o u) = LinuxDesktop!After(node, b, u)
    BY <1>3
  <2>5. QED
    BY <2>1, <2>2, <2>3, <2>4
<1>4. Seq(R) \subseteq S
  <2> HIDE DEF S
  <2>1. QED
    BY <1>2, <1>3, SeqInduction
<1>5. QED
  BY <1>4

Without(s, k) == \A i \in 1..Len(s) : s[i].code # k

\* One event is what it does.
LEMMA AfterOne ==
  ASSUME NEW node, NEW d \in NodeStates, NEW e \in EventTypes
  PROVE  /\ <<e>> \in Seq(EventTypes)
         /\ LinuxDesktop!After(node, d, <<e>>) = LinuxDesktop!Received(node, d, e)
<1>1. <<>> \in Seq(EventTypes) /\ Append(<<>>, e) = <<e>>
  BY EmptySeq
<1>2. LinuxDesktop!After(node, d, <<>>) = d
  BY <1>1, AfterEvents
<1>3. LinuxDesktop!After(node, d, Append(<<>>, e)) =
        LinuxDesktop!Received(node, LinuxDesktop!After(node, d, <<>>), e)
  BY <1>1, AfterEvents
<1>4. QED
  BY <1>1, <1>2, <1>3

\* What the events of a call leave alone, and what becomes of a key: it is as its last
\* event left it.
Alone(node, d, s, r) ==
  /\ Without(s, "MT_SLOT") => r.slot = d.slot
  /\ Without(s, "MT_TRACKING_ID") => r.touches = d.touches
  /\ Without(s, "MT_POSITION_X") => r.at = d.at
  /\ Without(s, "REL_WHEEL") => r.wheel = d.wheel
  /\ \A k : Without(s, k) \/ ~KeyCode(k) => (k \in r.down <=> k \in d.down)

KeysLast(node, s, r) ==
  \A k : \A j \in 1..Len(s) :
    KeyCode(k) /\ k \in LinuxDesktop!Announced(node) /\ s[j].code = k
      /\ (\A i \in (j + 1)..Len(s) : s[i].code # k)
      => (k \in r.down <=> s[j].value = 1)

\* One more event leaves the parts alone that none of the events names.
LEMMA AloneNext ==
  ASSUME NEW node, NEW d \in NodeStates, NEW s \in Seq(EventTypes), NEW e \in EventTypes,
         NEW b \in NodeStates, Alone(node, d, s, b),
         NEW r, r = LinuxDesktop!Received(node, b, e)
  PROVE  Alone(node, d, Append(s, e), r)
<1>1. \A k : Without(Append(s, e), k) => Without(s, k) /\ e.code # k
  BY DEF Without
<1>2. CASE e.code # "SYN" /\ e.code \in LinuxDesktop!Announced(node)
  <2>1. /\ e.code # "MT_SLOT" => r.slot = b.slot
        /\ e.code # "MT_TRACKING_ID" => r.touches = b.touches
        /\ e.code # "MT_POSITION_X" => r.at = b.at
        /\ e.code # "REL_WHEEL" => r.wheel = b.wheel
        /\ r.down = IF ~KeyCode(e.code) THEN b.down
                    ELSE IF e.value = 1 THEN b.down \cup {e.code} ELSE b.down \ {e.code}
    <3>1. Parts(b, e, r)
      BY <1>2, ReceivedParts
    <3>2. QED
      BY <3>1 DEF Parts
  <2>2. \A k : e.code # k \/ ~KeyCode(k) => (k \in r.down <=> k \in b.down)
    BY <2>1
  <2>3. QED
    BY <1>1, <2>1, <2>2 DEF Alone
<1>3. CASE e.code = "SYN"
  <2>1. r.slot = b.slot /\ r.touches = b.touches /\ r.at = b.at /\ r.wheel = b.wheel
          /\ r.down = b.down
    <3>1. SameParts(b, r)
      BY <1>3, ReceivedElse
    <3>2. QED
      BY <3>1 DEF SameParts
  <2>2. QED
    BY <1>1, <2>1 DEF Alone
<1>4. CASE e.code # "SYN" /\ e.code \notin LinuxDesktop!Announced(node)
  <2>1. r = b
    BY <1>4, ReceivedElse
  <2>2. QED
    BY <1>1, <2>1 DEF Alone
<1>5. QED
  BY <1>2, <1>3, <1>4

\* One more event: a key is as its last event says.
LEMMA KeysLastNext ==
  ASSUME NEW node, NEW s \in Seq(EventTypes), NEW e \in EventTypes,
         NEW b \in NodeStates, KeysLast(node, s, b),
         NEW r, r = LinuxDesktop!Received(node, b, e)
  PROVE  KeysLast(node, Append(s, e), r)
<1> DEFINE t == Append(s, e)
           n == Len(s)
<1>1. /\ n \in Nat /\ Len(t) = n + 1 /\ t[n + 1] = e /\ \A i \in 1..n : t[i] = s[i]
  OBVIOUS
<1>2. SUFFICES ASSUME NEW k, NEW j \in 1..(n + 1), KeyCode(k),
                      k \in LinuxDesktop!Announced(node), t[j].code = k,
                      \A i \in (j + 1)..(n + 1) : t[i].code # k
               PROVE  k \in r.down <=> t[j].value = 1
  BY <1>1 DEF KeysLast
<1>3. CASE j = n + 1
  <2>1. e.code = k /\ e.code # "SYN" /\ t[j].value = e.value
    BY <1>1, <1>2, <1>3 DEF KeyCode
  <2>2. r.down = IF e.value = 1 THEN b.down \cup {e.code} ELSE b.down \ {e.code}
    <3>1. Parts(b, e, r)
      BY <1>2, <2>1, ReceivedParts
    <3>2. QED
      BY <1>2, <2>1, <3>1 DEF Parts
  <2>3. QED
    BY <2>1, <2>2
<1>4. CASE j # n + 1
  <2> HIDE DEF t
  <2>1. j \in 1..n /\ s[j].code = k /\ s[j].value = t[j].value
    BY <1>1, <1>2, <1>4
  <2>2. \A i \in (j + 1)..n : s[i].code # k
    <3>1. ASSUME NEW i \in (j + 1)..n
          PROVE  s[i].code # k
      <4>1. i \in (j + 1)..(n + 1) /\ i \in 1..n
        BY <1>1, <2>1
      <4>2. t[i] = s[i]
        BY <1>1, <4>1
      <4>3. QED
        BY <1>2, <4>1, <4>2
    <3>2. QED
      BY <3>1
  <2>3. k \in b.down <=> s[j].value = 1
    BY <1>2, <2>1, <2>2 DEF KeysLast
  <2>4. n + 1 \in (j + 1)..(n + 1)
    BY <1>1, <2>1
  <2>5. e.code # k
    BY <1>1, <1>2, <2>4
  <2>6. k \in r.down <=> k \in b.down
    <3>1. CASE e.code # "SYN" /\ e.code \in LinuxDesktop!Announced(node)
      <4>1. r.down = IF ~KeyCode(e.code) THEN b.down
                     ELSE IF e.value = 1 THEN b.down \cup {e.code} ELSE b.down \ {e.code}
        <5>1. Parts(b, e, r)
          BY <3>1, ReceivedParts
        <5>2. QED
          BY <5>1 DEF Parts
      <4>2. QED
        BY <2>5, <4>1
    <3>2. CASE e.code = "SYN"
      <4>1. r.down = b.down
        <5>1. SameParts(b, r)
          BY <3>2, ReceivedElse
        <5>2. QED
          BY <5>1 DEF SameParts
      <4>2. QED
        BY <4>1
    <3>3. CASE e.code # "SYN" /\ e.code \notin LinuxDesktop!Announced(node)
      <4>1. r = b
        BY <3>3, ReceivedElse
      <4>2. QED
        BY <4>1
    <3>4. QED
      BY <3>1, <3>2, <3>3
  <2>7. QED
    BY <2>1, <2>3, <2>6
<1>5. QED
  BY <1>3, <1>4

\* What a node has after any events, by induction on their number.
LEMMA AfterParts ==
  ASSUME NEW node, NEW d \in NodeStates, NEW s \in Seq(EventTypes),
         NEW r, r = LinuxDesktop!After(node, d, s)
  PROVE  /\ r \in NodeStates
         /\ Alone(node, d, s, r) /\ KeysLast(node, s, r)
         /\ Len(s) > 0 /\ s[Len(s)].code = "SYN" => r.synced
<1> DEFINE R == EventTypes
           Good(t) == LET b == LinuxDesktop!After(node, d, t) IN
                        /\ Alone(node, d, t, b) /\ KeysLast(node, t, b)
                        /\ Len(t) > 0 /\ t[Len(t)].code = "SYN" => b.synced
           S == {t \in Seq(R) : Good(t)}
<1>1. <<>> \in S
  <2>1. <<>> \in Seq(R) /\ Len(<<>>) = 0
    BY EmptySeq
  <2>2. LinuxDesktop!After(node, d, <<>>) = d
    BY <2>1, AfterEvents
  <2>3. Alone(node, d, <<>>, d) /\ KeysLast(node, <<>>, d)
    BY <2>1 DEF Alone, KeysLast
  <2>4. QED
    BY <2>1, <2>2, <2>3
<1>2. ASSUME NEW t \in Seq(R), NEW e \in R, t \in S
      PROVE  Append(t, e) \in S
  <2> DEFINE u == Append(t, e)
             b == LinuxDesktop!After(node, d, t)
             c == LinuxDesktop!After(node, d, u)
  <2>1. u \in Seq(R) /\ Len(u) = Len(t) + 1 /\ u[Len(u)] = e
    OBVIOUS
  <2>2. b \in NodeStates /\ c = LinuxDesktop!Received(node, b, e)
    BY AfterEvents
  <2>3. Alone(node, d, t, b) /\ KeysLast(node, t, b)
    BY <1>2
  <2> HIDE DEF b, c, Good
  <2>4. Alone(node, d, u, c) /\ KeysLast(node, u, c)
    <3>1. Alone(node, d, u, c)
      BY <2>2, <2>3, AloneNext
    <3>2. KeysLast(node, u, c)
      BY <2>2, <2>3, KeysLastNext
    <3>3. QED
      BY <3>1, <3>2
  <2>5. e.code = "SYN" => c.synced
    <3>1. e.code = "SYN" => c.synced /\ SameParts(b, c)
      BY <2>2, ReceivedElse
    <3>2. QED
      BY <3>1
  <2>6. Good(u)
    BY <2>1, <2>4, <2>5 DEF Good, c
  <2>7. QED
    BY <2>1, <2>6
<1>3. Seq(R) \subseteq S
  <2> HIDE DEF S
  <2>1. QED
    BY <1>1, <1>2, SeqInduction
<1>4. QED
  BY <1>3, AfterEvents

-----------------------------------------------------------------------------
(* LinuxDesktop: the parts of its inductive invariant.                     *)

\* The parts of a device that are there whatever device it is.
DesktopShape ==
  /\ kind \in Kinds \cup {"none"} /\ via \in {"uinput", "xtest"}
  /\ via = "xtest" => kind \in {"keyboard", "mouse"}
  /\ kernel \in [LinuxDesktop!Sinks -> NodeStates]
  /\ lastMotion \in LinuxDesktop!Nodes
  /\ buttons \in [LinuxDesktop!Nodes -> SUBSET LinuxDesktop!Buttons]
  /\ remainder \in (1 - Detent)..(Detent - 1) /\ travelled \in Int
  /\ contacts \in [Contacts -> LinuxDesktop!Slots \cup {LinuxDesktop!Absent}]
  /\ \A c, e \in Contacts : contacts[c] = contacts[e] /\ contacts[c] # LinuxDesktop!Absent => c = e
  /\ slot \in LinuxDesktop!Slots \cup {LinuxDesktop!Absent} /\ tracking \in 0..MaxTouches
  /\ tool \in LinuxDesktop!Tools \cup {"unchanged"} /\ failed \in BOOLEAN

\* Where a device that is not a mouse writes.
Node == IF via = "xtest" THEN "x" ELSE "relative"

NothingElsewhere ==
  kind # "mouse" => \A m \in LinuxDesktop!Sinks : m # Node => kernel[m].down = {}

KeysDown == kind = "keyboard" => kernel[Node].down = held /\ held \subseteq LinuxDesktop!Keys

\* A button is down on the device that got its press.
MouseDown ==
  kind = "mouse" =>
    /\ held \subseteq LinuxDesktop!Buttons
    /\ IF via = "xtest"
         THEN kernel["x"].down = held /\ \A m \in LinuxDesktop!Nodes : kernel[m].down = {}
         ELSE /\ kernel["x"].down = {}
              /\ \A m \in LinuxDesktop!Nodes : kernel[m].down = buttons[m]
              /\ held = buttons["relative"] \cup buttons["absolute"]
              /\ buttons["relative"] \cap buttons["absolute"] = {}

\* The slot that is remembered is the kernel's, and each contact is in its slot.
TouchesThere ==
  kind \in {"touchscreen", "trackpad"} =>
    LET d == kernel["relative"]
        active == LinuxDesktop!Active(contacts)
    IN /\ slot # LinuxDesktop!Absent => d.slot = slot
       /\ \A s \in LinuxDesktop!Slots :
            d.touches[s] # LinuxDesktop!Absent <=> \E c \in Contacts : contacts[c] = s
       /\ \A c \in active : d.at[contacts[c]] = c
       /\ "BTN_TOUCH" \in d.down <=> active # {}
       /\ held \ {"BTN_LEFT"} = active
       /\ kind = "trackpad" =>
            /\ "BTN_LEFT" \in d.down <=> "BTN_LEFT" \in held
            /\ "TOOL_FINGER" \in d.down <=> Cardinality(active) = 1
            /\ "TOOL_DOUBLETAP" \in d.down <=> Cardinality(active) = 2
            /\ "TOOL_TRIPLETAP" \in d.down <=> Cardinality(active) = 3

PenThere ==
  kind = "pen_tablet" =>
    LET d == kernel["relative"] IN
    /\ "TOOL_PEN" \in d.down <=> tool = "TOOL_PEN"
    /\ "TOOL_RUBBER" \in d.down <=> tool = "TOOL_RUBBER"
    /\ "STYLUS" \in d.down <=> "STYLUS" \in held

WheelTurned ==
  travelled = Detent * (kernel["relative"].wheel + kernel["absolute"].wheel) + remainder

AllSynced == \A m \in LinuxDesktop!Nodes : kernel[m].synced

DesktopShown ==
  /\ NothingElsewhere /\ KeysDown /\ MouseDown /\ TouchesThere /\ PenThere
  /\ WheelTurned /\ AllSynced

DesktopInv == DesktopShape /\ (~failed => DesktopShown)

\* What a node has after a call whose events were all written.
Wrote(to, s) ==
  /\ kernel'[to] = LinuxDesktop!After(to, kernel[to], s)
  /\ Alone(to, kernel[to], s, kernel'[to]) /\ KeysLast(to, s, kernel'[to])
  /\ Len(s) > 0 /\ s[Len(s)].code = "SYN" => kernel'[to].synced

WrittenTo(to, s, n) ==
  /\ ~failed /\ n \in 0..Len(s) /\ failed' = (n < Len(s))
  /\ kernel' \in [LinuxDesktop!Sinks -> NodeStates]
  /\ \A m \in LinuxDesktop!Sinks : m # to => kernel'[m] = kernel[m]
  /\ ~failed' => n = Len(s) /\ Wrote(to, s)

\* What Write() does for events that a node receives.
LEMMA Written ==
  ASSUME DesktopShape, NEW node \in LinuxDesktop!Sinks, NEW s \in Seq(EventTypes), NEW n,
         LinuxDesktop!Write(node, s, n),
         NEW to, to = IF via = "xtest" THEN "x" ELSE node
  PROVE  WrittenTo(to, s, n)
<1> DEFINE prefix == SubSeq(s, 1, n)
           after == LinuxDesktop!After(to, kernel[to], prefix)
<1>1. /\ ~failed /\ n \in 0..Len(s) /\ failed' = (n < Len(s))
      /\ kernel' = [kernel EXCEPT ![to] = after]
  BY DEF LinuxDesktop!Write
<1>2. to \in LinuxDesktop!Sinks /\ kernel \in [LinuxDesktop!Sinks -> NodeStates]
  BY DEF DesktopShape, LinuxDesktop!Sinks
<1>3. prefix \in Seq(EventTypes) /\ (n = Len(s) => prefix = s)
  BY <1>1
<1>4. kernel[to] \in NodeStates
  BY <1>2
<1> HIDE DEF prefix
<1>5. after \in NodeStates
  BY <1>3, <1>4, AfterEvents
<1>6. ~failed' => n = Len(s) /\ after = LinuxDesktop!After(to, kernel[to], s)
  <2>1. ~failed' => ~(n < Len(s))
    BY <1>1, Zenon
  <2>2. ~(n < Len(s)) => n = Len(s)
    BY <1>1
  <2>3. QED
    BY <1>3, <2>1, <2>2
<1> HIDE DEF after
<1>7. kernel'[to] = after /\ \A m \in LinuxDesktop!Sinks : m # to => kernel'[m] = kernel[m]
  BY <1>1, <1>2
<1>8. kernel' \in [LinuxDesktop!Sinks -> NodeStates]
  BY <1>1, <1>2, <1>5
<1>9. ASSUME ~failed'
      PROVE  Wrote(to, s)
  <2>1. kernel'[to] = LinuxDesktop!After(to, kernel[to], s)
    BY <1>6, <1>7, <1>9
  <2>2. /\ Alone(to, kernel[to], s, kernel'[to]) /\ KeysLast(to, s, kernel'[to])
        /\ Len(s) > 0 /\ s[Len(s)].code = "SYN" => kernel'[to].synced
    BY <1>4, <2>1, AfterParts
  <2>3. QED
    BY <2>1, <2>2 DEF Wrote
<1>10. QED
  BY <1>1, <1>6, <1>7, <1>8, <1>9 DEF WrittenTo

AnyEvents == [code : Codes, value : Int \cup Contacts]

\* An event is a code with a value that the code may have.
LEMMA IsEvent ==
  ASSUME NEW e \in AnyEvents,
         e.code = "MT_SLOT" => e.value \in LinuxDesktop!Slots,
         e.code = "MT_TRACKING_ID" => e.value \in Touches,
         e.code = "MT_POSITION_X" => e.value \in Contacts,
         e.code = "REL_WHEEL" => e.value \in Int
  PROVE  e \in EventTypes
BY DEF EventTypes, AnyEvents

\* The codes that are not keys.
LEMMA SomeCodes == {"SYN", "MT_SLOT", "MT_TRACKING_ID", "MT_POSITION_X", "REL_WHEEL"} \subseteq Codes
BY DEF Codes, LinuxDesktop!MouseCodes, LinuxDesktop!TrackpadCodes, LinuxDesktop!TouchAxes

\* The events that the calls are made of.
LEMMA EventTyped ==
  ASSUME NEW c \in Codes, NEW v \in Int
  PROVE  /\ c \notin {"MT_SLOT", "MT_TRACKING_ID", "MT_POSITION_X"} =>
              LinuxDesktop!Event(c, v) \in EventTypes
         /\ v \in LinuxDesktop!Slots => LinuxDesktop!Event("MT_SLOT", v) \in EventTypes
         /\ v \in Touches => LinuxDesktop!Event("MT_TRACKING_ID", v) \in EventTypes
         /\ LinuxDesktop!Syn \in EventTypes
<1>1. \A x \in Codes : /\ LinuxDesktop!Event(x, v) \in AnyEvents
                       /\ LinuxDesktop!Event(x, v).code = x /\ LinuxDesktop!Event(x, v).value = v
  BY DEF LinuxDesktop!Event, AnyEvents
<1>2. c \notin {"MT_SLOT", "MT_TRACKING_ID", "MT_POSITION_X"} =>
        LinuxDesktop!Event(c, v) \in EventTypes
  BY <1>1, IsEvent
<1>3. v \in LinuxDesktop!Slots => LinuxDesktop!Event("MT_SLOT", v) \in EventTypes
  <2>1. "MT_SLOT" \in Codes
    BY SomeCodes
  <2>2. QED
    BY <1>1, <2>1, IsEvent
<1>4. v \in Touches => LinuxDesktop!Event("MT_TRACKING_ID", v) \in EventTypes
  <2>1. "MT_TRACKING_ID" \in Codes
    BY SomeCodes
  <2>2. QED
    BY <1>1, <2>1, IsEvent
<1>5. LinuxDesktop!Syn \in EventTypes
  <2>1. LinuxDesktop!Syn \in AnyEvents
    BY SomeCodes DEF LinuxDesktop!Event, LinuxDesktop!Syn, AnyEvents
  <2>2. LinuxDesktop!Syn.code = "SYN"
    BY DEF LinuxDesktop!Event, LinuxDesktop!Syn
  <2>3. QED
    BY <2>1, <2>2, IsEvent
<1>6. QED
  BY <1>2, <1>3, <1>4, <1>5

\* One key and the end of its report.
KeyPut(to, k, v, n) ==
  /\ ~failed /\ failed' \in BOOLEAN /\ (failed' <=> n < 2)
  /\ kernel' \in [LinuxDesktop!Sinks -> NodeStates]
  /\ \A m \in LinuxDesktop!Sinks : m # to => kernel'[m] = kernel[m]
  /\ ~failed' =>
       /\ kernel'[to].down = IF v = 1 THEN kernel[to].down \cup {k} ELSE kernel[to].down \ {k}
       /\ kernel'[to].slot = kernel[to].slot /\ kernel'[to].touches = kernel[to].touches
       /\ kernel'[to].at = kernel[to].at /\ kernel'[to].wheel = kernel[to].wheel
       /\ kernel'[to].synced

\* A key written, with its SYN, is down or up.
LEMMA KeyWritten ==
  ASSUME DesktopShape, NEW node \in LinuxDesktop!Sinks, NEW k \in Codes, KeyCode(k),
         NEW v \in 0..1, NEW n, NEW to, to = IF via = "xtest" THEN "x" ELSE node,
         LinuxDesktop!Write(node, <<LinuxDesktop!Event(k, v), LinuxDesktop!Syn>>, n),
         k \in LinuxDesktop!Announced(to)
  PROVE  KeyPut(to, k, v, n)
<1> DEFINE s == <<LinuxDesktop!Event(k, v), LinuxDesktop!Syn>>
<1>1. LinuxDesktop!Event(k, v) \in EventTypes /\ LinuxDesktop!Syn \in EventTypes
  BY EventTyped DEF KeyCode
<1>2. /\ s \in Seq(EventTypes) /\ Len(s) = 2
      /\ s[1].code = k /\ s[1].value = v /\ s[2].code = "SYN"
  <2>1. s \in Seq(EventTypes) /\ Len(s) = 2
    BY <1>1
  <2>2. QED
    BY <2>1 DEF LinuxDesktop!Event, LinuxDesktop!Syn
<1>3. LinuxDesktop!Write(node, s, n)
  OBVIOUS
<1> HIDE DEF s
<1>4. WrittenTo(to, s, n)
  BY <1>2, <1>3, Written
<1>5. ASSUME ~failed'
      PROVE  /\ kernel'[to].down =
                  IF v = 1 THEN kernel[to].down \cup {k} ELSE kernel[to].down \ {k}
             /\ kernel'[to].slot = kernel[to].slot /\ kernel'[to].touches = kernel[to].touches
             /\ kernel'[to].at = kernel[to].at /\ kernel'[to].wheel = kernel[to].wheel
             /\ kernel'[to].synced
  <2>1. Alone(to, kernel[to], s, kernel'[to]) /\ KeysLast(to, s, kernel'[to]) /\ kernel'[to].synced
    BY <1>2, <1>4, <1>5 DEF Wrote, WrittenTo
  <2>2. \A x : x # k /\ x # "SYN" => Without(s, x)
    BY <1>2 DEF Without
  <2>3. k \in kernel'[to].down <=> v = 1
    <3>1. 1 \in 1..Len(s) /\ \A i \in (1 + 1)..Len(s) : s[i].code # k
      BY <1>2 DEF KeyCode
    <3>2. QED
      BY <1>2, <2>1, <3>1 DEF KeysLast
  <2>4. \A x : x # k => (x \in kernel'[to].down <=> x \in kernel[to].down)
    <3>1. ~KeyCode("SYN")
      BY DEF KeyCode
    <3>2. QED
      BY <2>1, <2>2, <3>1 DEF Alone
  <2>5. /\ Without(s, "MT_SLOT") /\ Without(s, "MT_TRACKING_ID")
        /\ Without(s, "MT_POSITION_X") /\ Without(s, "REL_WHEEL")
    BY <2>2 DEF KeyCode
  <2>6. /\ kernel'[to].slot = kernel[to].slot /\ kernel'[to].touches = kernel[to].touches
        /\ kernel'[to].at = kernel[to].at /\ kernel'[to].wheel = kernel[to].wheel
    BY <2>1, <2>5 DEF Alone
  <2>7. to \in LinuxDesktop!Sinks
    BY DEF LinuxDesktop!Sinks
  <2>8. kernel'[to].down \subseteq Codes /\ kernel[to].down \subseteq Codes
    BY <1>4, <2>7 DEF DesktopShape, NodeStates, WrittenTo
  <2>9. kernel'[to].down = IF v = 1 THEN kernel[to].down \cup {k} ELSE kernel[to].down \ {k}
    BY <2>3, <2>4, <2>8
  <2>10. QED
    BY <2>1, <2>6, <2>9
<1>6. failed' \in BOOLEAN /\ (failed' <=> n < 2)
  <2>1. failed' = (n < 2)
    BY <1>2, <1>4 DEF WrittenTo
  <2>2. (n < 2) \in BOOLEAN
    OBVIOUS
  <2>3. QED
    BY <2>1, <2>2, Zenon
<1>7. QED
  BY <1>4, <1>5, <1>6 DEF WrittenTo, KeyPut


\* A keyboard's key, and the keys of a text.
LEMMA SubmitKeyKeeps ==
  ASSUME DesktopInv, NEW key \in LinuxDesktop!Keys, NEW p \in BOOLEAN, NEW n,
         LinuxDesktop!SubmitKey(key, p, n)
  PROVE  DesktopInv'
<1> DEFINE v == IF p THEN 1 ELSE 0
<1>1. /\ kind = "keyboard" /\ kind' = kind /\ via' = via
      /\ LinuxDesktop!Write("relative", <<LinuxDesktop!Event(key, v), LinuxDesktop!Syn>>, n)
      /\ held' = IF n < 2 THEN held ELSE IF p THEN held \cup {key} ELSE held \ {key}
      /\ UNCHANGED <<contacts, slot, tracking, lastMotion, buttons, remainder, travelled, tool>>
  BY DEF LinuxDesktop!SubmitKey, LinuxDesktop!KeyEvents, LinuxDesktop!HeldAfter,
    LinuxDesktop!touchVars, LinuxDesktop!mouseVars
<1>2. Node \in LinuxDesktop!Sinks /\ "relative" \in LinuxDesktop!Sinks
  BY DEF Node, LinuxDesktop!Sinks, LinuxDesktop!Nodes
<1>3. /\ LinuxDesktop!Announced(Node) = LinuxDesktop!Keys
      /\ key \in Codes /\ KeyCode(key) /\ v \in 0..1 /\ (v = 1 <=> p)
  <2>1. LinuxDesktop!Announced(Node) = LinuxDesktop!Keys
    BY <1>1 DEF LinuxDesktop!Announced
  <2>2. key \in Codes
    BY DEF Codes
  <2>3. KeyCode(key)
    BY DEF KeyCode, LinuxDesktop!Keys, LinuxDesktop!Axes
  <2>4. QED
    BY <2>1, <2>2, <2>3
<1> HIDE DEF v
<1>4. KeyPut(Node, key, v, n)
  BY <1>1, <1>2, <1>3, KeyWritten DEF DesktopInv, Node
<1>5. DesktopShape'
  BY <1>1, <1>4 DEF KeyPut, DesktopInv, DesktopShape
<1>6. ASSUME ~failed'
      PROVE  DesktopShown'
  <2>1. ~failed /\ ~(n < 2) /\ DesktopShown
    BY <1>4, <1>6 DEF KeyPut, DesktopInv
  <2>2. Node' = Node
    BY <1>1 DEF Node
  <2>3. NothingElsewhere' /\ KeysDown'
    BY <1>1, <1>2, <1>3, <1>4, <1>6, <2>1, <2>2 DEF KeyPut, DesktopShown, NothingElsewhere, KeysDown
  <2>4. MouseDown' /\ TouchesThere' /\ PenThere'
    BY <1>1 DEF MouseDown, TouchesThere, PenThere
  <2>5. \A m \in LinuxDesktop!Sinks : kernel'[m].wheel = kernel[m].wheel
    BY <1>4, <1>6 DEF KeyPut
  <2>6. WheelTurned'
    BY <1>1, <2>1, <2>5 DEF DesktopShown, WheelTurned, LinuxDesktop!Sinks, LinuxDesktop!Nodes
  <2>7. AllSynced'
    BY <1>4, <1>6, <2>1 DEF KeyPut, DesktopShown, AllSynced, LinuxDesktop!Sinks, LinuxDesktop!Nodes
  <2>8. QED
    BY <2>3, <2>4, <2>6, <2>7 DEF DesktopShown
<1>7. QED
  BY <1>5, <1>6 DEF DesktopInv

\* The last event of a key, and the events of two parts of a call.
Ends(s, k, v) ==
  \E j \in 1..Len(s) :
    /\ s[j].code = k /\ s[j].value = v
    /\ \A i \in (j + 1)..Len(s) : s[i].code # k

JoinedParts(s, t, u) ==
  /\ u \in Seq(EventTypes) /\ Len(u) = Len(s) + Len(t)
  /\ \A k : Without(s, k) /\ Without(t, k) => Without(u, k)
  /\ \A k, v : Ends(t, k, v) => Ends(u, k, v)
  /\ \A k, v : Ends(s, k, v) /\ Without(t, k) => Ends(u, k, v)
  /\ Len(t) > 0 => u[Len(u)] = t[Len(t)]

\* What holds of both parts of a call holds of the call.
LEMMA Joined ==
  ASSUME NEW s \in Seq(EventTypes), NEW t \in Seq(EventTypes), NEW u, u = s \o t
  PROVE  JoinedParts(s, t, u)
<1>1. /\ u \in Seq(EventTypes) /\ Len(u) = Len(s) + Len(t) /\ Len(s) \in Nat /\ Len(t) \in Nat
      /\ \A i \in 1..Len(s) : u[i] = s[i]
      /\ \A i \in 1..Len(t) : u[Len(s) + i] = t[i]
  OBVIOUS
<1>2. \A i \in 1..Len(u) : i \notin 1..Len(s) => i - Len(s) \in 1..Len(t) /\ u[i] = t[i - Len(s)]
  <2>1. ASSUME NEW i \in 1..Len(u), i \notin 1..Len(s)
        PROVE  i - Len(s) \in 1..Len(t) /\ Len(s) + (i - Len(s)) = i
    BY <1>1, <2>1
  <2>2. QED
    BY <1>1, <2>1
<1>3. ASSUME NEW k, Without(s, k), Without(t, k)
      PROVE  Without(u, k)
  BY <1>1, <1>2, <1>3 DEF Without
<1>4. ASSUME NEW k, NEW v, Ends(t, k, v)
      PROVE  Ends(u, k, v)
  <2>1. PICK j \in 1..Len(t) : /\ t[j].code = k /\ t[j].value = v
                               /\ \A i \in (j + 1)..Len(t) : t[i].code # k
    BY <1>4 DEF Ends
  <2>2. Len(s) + j \in 1..Len(u) /\ u[Len(s) + j] = t[j]
    BY <1>1
  <2>3. ASSUME NEW i \in (Len(s) + j + 1)..Len(u)
        PROVE  u[i].code # k
    <3>1. i \in 1..Len(u) /\ i \notin 1..Len(s)
      BY <1>1
    <3>2. i - Len(s) \in (j + 1)..Len(t)
      BY <1>1
    <3>3. QED
      BY <1>2, <2>1, <3>1, <3>2
  <2>4. QED
    BY <2>1, <2>2, <2>3 DEF Ends
<1>5. ASSUME NEW k, NEW v, Ends(s, k, v), Without(t, k)
      PROVE  Ends(u, k, v)
  <2>1. PICK j \in 1..Len(s) : /\ s[j].code = k /\ s[j].value = v
                               /\ \A i \in (j + 1)..Len(s) : s[i].code # k
    BY <1>5 DEF Ends
  <2>2. j \in 1..Len(u) /\ u[j] = s[j]
    BY <1>1
  <2>3. ASSUME NEW i \in (j + 1)..Len(u)
        PROVE  u[i].code # k
    <3>1. i \in 1..Len(u)
      BY <1>1
    <3>2. CASE i \in 1..Len(s)
      <4>1. i \in (j + 1)..Len(s)
        BY <3>2
      <4>2. QED
        BY <1>1, <2>1, <3>2, <4>1
    <3>3. CASE i \notin 1..Len(s)
      BY <1>2, <1>5, <3>1, <3>3 DEF Without
    <3>4. QED
      BY <3>2, <3>3
  <2>4. QED
    BY <2>1, <2>2, <2>3 DEF Ends
<1>6. Len(t) > 0 => u[Len(u)] = t[Len(t)]
  BY <1>1
<1>7. QED
  BY <1>1, <1>3, <1>4, <1>5, <1>6 DEF JoinedParts

\* A key is as the last event of its own says.
LEMMA EndsShown ==
  ASSUME NEW node, NEW s \in Seq(EventTypes), NEW r, KeysLast(node, s, r),
         NEW k, KeyCode(k), k \in LinuxDesktop!Announced(node), NEW v, Ends(s, k, v)
  PROVE  k \in r.down <=> v = 1
<1>1. PICK j \in 1..Len(s) : /\ s[j].code = k /\ s[j].value = v
                             /\ \A i \in (j + 1)..Len(s) : s[i].code # k
  BY DEF Ends
<1>2. QED
  BY <1>1 DEF KeysLast

\* The events of one key that end with it up or down.
OneKey(s, k, v) ==
  /\ s \in Seq(EventTypes) /\ Len(s) > 0 /\ s[Len(s)].code = "SYN"
  /\ Ends(s, k, v)
  /\ \A x : x # k /\ x # "SYN" => Without(s, x)

\* The events of a key name that key only.
LEMMA KeyEventsOne ==
  ASSUME NEW k \in LinuxDesktop!Keys, NEW p \in BOOLEAN
  PROVE  OneKey(LinuxDesktop!KeyEvents(k, p), k, IF p THEN 1 ELSE 0)
<1> DEFINE v == IF p THEN 1 ELSE 0
           s == LinuxDesktop!KeyEvents(k, p)
<1>1. k \in Codes /\ KeyCode(k) /\ v \in Int
  BY DEF Codes, KeyCode, LinuxDesktop!Keys, LinuxDesktop!Axes
<1>2. LinuxDesktop!Event(k, v) \in EventTypes /\ LinuxDesktop!Syn \in EventTypes
  BY <1>1, EventTyped DEF KeyCode
<1>3. s = <<LinuxDesktop!Event(k, v), LinuxDesktop!Syn>>
  BY DEF LinuxDesktop!KeyEvents
<1>4. s \in Seq(EventTypes) /\ Len(s) = 2
  BY <1>2, <1>3
<1>5. s[1].code = k /\ s[1].value = v /\ s[2].code = "SYN"
  BY <1>3 DEF LinuxDesktop!Event, LinuxDesktop!Syn
<1> HIDE DEF s, v
<1>6. Ends(s, k, v)
  <2>1. 1 \in 1..Len(s) /\ \A i \in (1 + 1)..Len(s) : s[i].code # k
    BY <1>1, <1>4, <1>5 DEF KeyCode
  <2>2. QED
    BY <1>5, <2>1 DEF Ends
<1>7. \A x : x # k /\ x # "SYN" => Without(s, x)
  BY <1>4, <1>5 DEF Without
<1>8. QED
  BY <1>4, <1>5, <1>6, <1>7 DEF OneKey, s, v

\* A tap presses a key and releases it again.
LEMMA TapOne ==
  ASSUME NEW k \in LinuxDesktop!Keys
  PROVE  OneKey(LinuxDesktop!Tap(k), k, 0)
<1> DEFINE s == LinuxDesktop!Tap(k)
<1>1. k \in Codes /\ KeyCode(k)
  BY DEF Codes, KeyCode, LinuxDesktop!Keys, LinuxDesktop!Axes
<1>2. /\ LinuxDesktop!Event(k, 1) \in EventTypes /\ LinuxDesktop!Event(k, 0) \in EventTypes
      /\ LinuxDesktop!Syn \in EventTypes
  BY <1>1, EventTyped DEF KeyCode
<1>3. s \in Seq(EventTypes) /\ Len(s) = 4
  BY <1>2 DEF LinuxDesktop!Tap
<1>4. /\ s[1].code = k /\ s[2].code = "SYN" /\ s[3].code = k /\ s[3].value = 0
      /\ s[4].code = "SYN"
  BY DEF LinuxDesktop!Tap, LinuxDesktop!Event, LinuxDesktop!Syn
<1> HIDE DEF s
<1>5. Ends(s, k, 0)
  <2>1. 3 \in 1..Len(s) /\ \A i \in (3 + 1)..Len(s) : s[i].code # k
    BY <1>1, <1>3, <1>4 DEF KeyCode
  <2>2. QED
    BY <1>4, <2>1 DEF Ends
<1>6. \A x : x # k /\ x # "SYN" => Without(s, x)
  BY <1>3, <1>4 DEF Without
<1>7. QED
  BY <1>3, <1>4, <1>5, <1>6 DEF OneKey, s

\* The digits of a text are taps of one key.
LEMMA DigitsOne ==
  ASSUME NEW digits \in 1..2
  PROVE  OneKey([i \in 1..(4 * digits) |-> LinuxDesktop!Tap("KEY_1")[((i - 1) % 4) + 1]],
                "KEY_1", 0)
<1> DEFINE tap == LinuxDesktop!Tap("KEY_1")
           s == [i \in 1..(4 * digits) |-> tap[((i - 1) % 4) + 1]]
<1>1. tap \in Seq(EventTypes) /\ Len(tap) = 4
  <2>1. "KEY_1" \in LinuxDesktop!Keys
    BY DEF LinuxDesktop!Keys
  <2>2. tap \in Seq(EventTypes)
    BY <2>1, TapOne DEF OneKey
  <2>3. QED
    BY <2>2 DEF LinuxDesktop!Tap
<1>2. /\ tap[1].code = "KEY_1" /\ tap[2].code = "SYN" /\ tap[3].code = "KEY_1"
      /\ tap[3].value = 0 /\ tap[4].code = "SYN"
  BY DEF LinuxDesktop!Tap, LinuxDesktop!Event, LinuxDesktop!Syn
<1> HIDE DEF tap
<1>3. \A i \in 1..(4 * digits) : ((i - 1) % 4) + 1 \in 1..Len(tap)
  BY <1>1
<1>4. \A i \in 1..(4 * digits) : s[i] \in EventTypes
  <2>1. \A j \in 1..Len(tap) : tap[j] \in EventTypes
    BY <1>1
  <2>2. QED
    BY <1>3, <2>1
<1>5. s \in Seq(EventTypes) /\ Len(s) = 4 * digits
  <2>1. 4 * digits \in Nat
    OBVIOUS
  <2>2. s \in [1..(4 * digits) -> EventTypes]
    BY <1>4
  <2> HIDE DEF s
  <2>3. QED
    BY <2>1, <2>2
<1>6. s[4 * digits - 1] = tap[3] /\ s[4 * digits] = tap[4]
  <2>1. /\ 4 * digits - 1 \in 1..(4 * digits) /\ ((4 * digits - 1 - 1) % 4) + 1 = 3
        /\ 4 * digits \in 1..(4 * digits) /\ ((4 * digits - 1) % 4) + 1 = 4
    <3>1. CASE digits = 1
      BY <3>1
    <3>2. CASE digits = 2
      BY <3>2
    <3>3. QED
      BY <3>1, <3>2
  <2>2. QED
    BY <2>1
<1>7. \A i \in 1..(4 * digits) : s[i].code \in {"KEY_1", "SYN"}
  BY <1>1, <1>2, <1>3
<1> HIDE DEF s
<1>8. Ends(s, "KEY_1", 0)
  <2>1. /\ 4 * digits - 1 \in 1..Len(s)
        /\ \A i \in (4 * digits - 1 + 1)..Len(s) : s[i].code # "KEY_1"
    BY <1>2, <1>5, <1>6
  <2>2. QED
    BY <1>2, <1>6, <2>1 DEF Ends
<1>9. \A x : x # "KEY_1" /\ x # "SYN" => Without(s, x)
  BY <1>5, <1>7 DEF Without
<1>10. QED
  BY <1>2, <1>5, <1>6, <1>8, <1>9 DEF OneKey, s, tap

\* Part of a text: it ends with each of its keys up, and has no others.
Typed(s, up, all) ==
  /\ s \in Seq(EventTypes) /\ Len(s) > 0 /\ s[Len(s)].code = "SYN"
  /\ \A k \in up : Ends(s, k, 0)
  /\ \A x : x \notin all /\ x # "SYN" => Without(s, x)

\* One more tap.
LEMMA TypedNext ==
  ASSUME NEW s, NEW up, NEW all, Typed(s, up, all), NEW t, NEW k, NEW v, OneKey(t, k, v),
         k # "SYN", "SYN" \notin up
  PROVE  /\ v = 0 => Typed(s \o t, up \cup {k}, all \cup {k})
         /\ Typed(s \o t, up \ {k}, all \cup {k})
<1> DEFINE u == s \o t
<1>1. JoinedParts(s, t, u)
  BY Joined DEF Typed, OneKey
<1> HIDE DEF u
<1>2. u \in Seq(EventTypes) /\ Len(u) > 0 /\ u[Len(u)].code = "SYN"
  <2>1. Len(s) \in Nat /\ Len(t) \in Nat
    BY DEF Typed, OneKey
  <2>2. QED
    BY <1>1, <2>1 DEF Typed, OneKey, JoinedParts
<1>3. \A x \in up : x # k => Ends(u, x, 0)
  BY <1>1 DEF JoinedParts, Typed, OneKey
<1>4. v = 0 => Ends(u, k, 0)
  BY <1>1 DEF JoinedParts, OneKey
<1>5. \A x : x \notin all \cup {k} /\ x # "SYN" => Without(u, x)
  BY <1>1 DEF JoinedParts, Typed, OneKey
<1>6. QED
  BY <1>2, <1>3, <1>4, <1>5 DEF Typed, u

\* A text leaves each of its keys up.
LEMMA TextTyped ==
  ASSUME NEW digits \in 1..2
  PROVE  Typed(LinuxDesktop!TextEvents(digits), LinuxDesktop!Keys, LinuxDesktop!Keys)
<1> DEFINE p1 == LinuxDesktop!KeyEvents("KEY_LEFTCTRL", TRUE)
           p2 == LinuxDesktop!KeyEvents("KEY_LEFTSHIFT", TRUE)
           p3 == LinuxDesktop!Tap("KEY_U")
           p4 == LinuxDesktop!KeyEvents("KEY_LEFTSHIFT", FALSE)
           p5 == LinuxDesktop!KeyEvents("KEY_LEFTCTRL", FALSE)
           p6 == [i \in 1..(4 * digits) |-> LinuxDesktop!Tap("KEY_1")[((i - 1) % 4) + 1]]
           p7 == LinuxDesktop!Tap("KEY_ENTER")
<1>1. {"KEY_LEFTCTRL", "KEY_LEFTSHIFT", "KEY_U", "KEY_ENTER"} \subseteq LinuxDesktop!Keys
  BY DEF LinuxDesktop!Keys
<1>2. /\ OneKey(p1, "KEY_LEFTCTRL", 1) /\ OneKey(p2, "KEY_LEFTSHIFT", 1)
      /\ OneKey(p3, "KEY_U", 0) /\ OneKey(p4, "KEY_LEFTSHIFT", 0)
      /\ OneKey(p5, "KEY_LEFTCTRL", 0) /\ OneKey(p6, "KEY_1", 0) /\ OneKey(p7, "KEY_ENTER", 0)
  BY <1>1, KeyEventsOne, TapOne, DigitsOne
<1>3. LinuxDesktop!TextEvents(digits) = p1 \o p2 \o p3 \o p4 \o p5 \o p6 \o p7
  BY DEF LinuxDesktop!TextEvents
<1> HIDE DEF p1, p2, p3, p4, p5, p6, p7
<1>4. Typed(p1, {}, {"KEY_LEFTCTRL"})
  BY <1>2 DEF Typed, OneKey
<1>5. Typed(p1 \o p2, {}, {"KEY_LEFTCTRL", "KEY_LEFTSHIFT"})
  <2>1. Typed(p1 \o p2, {} \ {"KEY_LEFTSHIFT"}, {"KEY_LEFTCTRL"} \cup {"KEY_LEFTSHIFT"})
    BY <1>2, <1>4, TypedNext
  <2>2. QED
    BY <2>1 DEF Typed
<1>6. Typed(p1 \o p2 \o p3, {"KEY_U"}, {"KEY_LEFTCTRL", "KEY_LEFTSHIFT", "KEY_U"})
  <2>1. Typed(p1 \o p2 \o p3, {} \cup {"KEY_U"}, {"KEY_LEFTCTRL", "KEY_LEFTSHIFT"} \cup {"KEY_U"})
    BY <1>2, <1>5, TypedNext
  <2>2. QED
    BY <2>1 DEF Typed
<1>7. Typed(p1 \o p2 \o p3 \o p4, {"KEY_U", "KEY_LEFTSHIFT"},
            {"KEY_LEFTCTRL", "KEY_LEFTSHIFT", "KEY_U"})
  <2>1. Typed(p1 \o p2 \o p3 \o p4, {"KEY_U"} \cup {"KEY_LEFTSHIFT"},
              {"KEY_LEFTCTRL", "KEY_LEFTSHIFT", "KEY_U"} \cup {"KEY_LEFTSHIFT"})
    BY <1>2, <1>6, TypedNext
  <2>2. QED
    BY <2>1 DEF Typed
<1>8. Typed(p1 \o p2 \o p3 \o p4 \o p5, {"KEY_U", "KEY_LEFTSHIFT", "KEY_LEFTCTRL"},
            {"KEY_LEFTCTRL", "KEY_LEFTSHIFT", "KEY_U"})
  <2>1. Typed(p1 \o p2 \o p3 \o p4 \o p5, {"KEY_U", "KEY_LEFTSHIFT"} \cup {"KEY_LEFTCTRL"},
              {"KEY_LEFTCTRL", "KEY_LEFTSHIFT", "KEY_U"} \cup {"KEY_LEFTCTRL"})
    BY <1>2, <1>7, TypedNext
  <2>2. QED
    BY <2>1 DEF Typed
<1>9. Typed(p1 \o p2 \o p3 \o p4 \o p5 \o p6,
            {"KEY_U", "KEY_LEFTSHIFT", "KEY_LEFTCTRL"} \cup {"KEY_1"},
            {"KEY_LEFTCTRL", "KEY_LEFTSHIFT", "KEY_U"} \cup {"KEY_1"})
  BY <1>2, <1>8, TypedNext
<1>10. Typed(p1 \o p2 \o p3 \o p4 \o p5 \o p6 \o p7,
             ({"KEY_U", "KEY_LEFTSHIFT", "KEY_LEFTCTRL"} \cup {"KEY_1"}) \cup {"KEY_ENTER"},
             ({"KEY_LEFTCTRL", "KEY_LEFTSHIFT", "KEY_U"} \cup {"KEY_1"}) \cup {"KEY_ENTER"})
  BY <1>2, <1>9, TypedNext
<1>11. QED
  BY <1>3, <1>10 DEF Typed, LinuxDesktop!Keys

\* A call that writes keys only leaves the slots, the touches and the wheels alone.
OthersAlone ==
  \A m \in LinuxDesktop!Sinks :
    /\ kernel'[m].slot = kernel[m].slot /\ kernel'[m].touches = kernel[m].touches
    /\ kernel'[m].at = kernel[m].at /\ kernel'[m].wheel = kernel[m].wheel

\* Events of keys leave slots, touches and wheels alone.
LEMMA KeysAlone ==
  ASSUME NEW to \in LinuxDesktop!Sinks, NEW s, NEW n, WrittenTo(to, s, n), ~failed',
         \A x \in {"MT_SLOT", "MT_TRACKING_ID", "MT_POSITION_X", "REL_WHEEL"} : Without(s, x)
  PROVE  OthersAlone
BY DEF WrittenTo, Wrote, Alone, OthersAlone

\* So the wheel is where it was.
LEMMA WheelAlone ==
  ASSUME WheelTurned, OthersAlone, UNCHANGED <<travelled, remainder>>
  PROVE  WheelTurned'
BY DEF WheelTurned, OthersAlone, LinuxDesktop!Sinks, LinuxDesktop!Nodes

\* A call that ends in SYN leaves its node synchronised.
LEMMA SyncedAfter ==
  ASSUME AllSynced, NEW to \in LinuxDesktop!Sinks, NEW s, NEW n, WrittenTo(to, s, n), ~failed',
         Len(s) > 0, s[Len(s)].code = "SYN"
  PROVE  AllSynced'
BY DEF WrittenTo, Wrote, AllSynced, LinuxDesktop!Sinks, LinuxDesktop!Nodes

\* A call fails when not all of its events were written.
LEMMA FailedBoolean ==
  ASSUME NEW to, NEW s, NEW n, WrittenTo(to, s, n)
  PROVE  failed' \in BOOLEAN /\ (failed' <=> n < Len(s))
<1>1. failed' = (n < Len(s))
  BY DEF WrittenTo
<1>2. (n < Len(s)) \in BOOLEAN
  OBVIOUS
<1>3. QED
  BY <1>1, <1>2, Zenon

\* type_text() leaves the keys up that it taps, the client's others as they were.
LEMMA TypeTextKeeps ==
  ASSUME DesktopInv, NEW digits \in 1..2, NEW n, LinuxDesktop!TypeText(digits, n)
  PROVE  DesktopInv'
<1> DEFINE s == LinuxDesktop!TextEvents(digits)
<1>1. /\ kind = "keyboard" /\ kind' = kind /\ via' = via
      /\ LinuxDesktop!Write("relative", s, n)
      /\ held' = held \ {s[i].code : i \in 1..n}
      /\ UNCHANGED <<contacts, slot, tracking, lastMotion, buttons, remainder, travelled, tool>>
  BY DEF LinuxDesktop!TypeText, LinuxDesktop!touchVars, LinuxDesktop!mouseVars
<1>2. Typed(s, LinuxDesktop!Keys, LinuxDesktop!Keys)
  BY TextTyped
<1> HIDE DEF s
<1>3. Node \in LinuxDesktop!Sinks /\ "relative" \in LinuxDesktop!Sinks
  BY DEF Node, LinuxDesktop!Sinks, LinuxDesktop!Nodes
<1>4. WrittenTo(Node, s, n)
  BY <1>1, <1>2, <1>3, Written DEF DesktopInv, Node, Typed
<1>5. failed' \in BOOLEAN /\ (failed' <=> n < Len(s))
  BY <1>4, FailedBoolean
<1>6. DesktopShape'
  BY <1>1, <1>4, <1>5 DEF WrittenTo, DesktopInv, DesktopShape
<1>7. ASSUME ~failed'
      PROVE  DesktopShown'
  <2>1. ~failed /\ n = Len(s) /\ DesktopShown
    BY <1>4, <1>7 DEF WrittenTo, DesktopInv
  <2>2. Node' = Node
    BY <1>1 DEF Node
  <2>3. LinuxDesktop!Announced(Node) = LinuxDesktop!Keys
    BY <1>1 DEF LinuxDesktop!Announced
  <2>4. \A k \in LinuxDesktop!Keys : KeyCode(k)
    BY DEF KeyCode, LinuxDesktop!Keys, LinuxDesktop!Axes
  <2>5. /\ Alone(Node, kernel[Node], s, kernel'[Node]) /\ KeysLast(Node, s, kernel'[Node])
        /\ s \in Seq(EventTypes)
    BY <1>2, <1>4, <1>7 DEF WrittenTo, Wrote, Typed
  <2>6. \A k \in LinuxDesktop!Keys : k \notin kernel'[Node].down
    <3>1. ASSUME NEW k \in LinuxDesktop!Keys
          PROVE  k \notin kernel'[Node].down
      <4>1. Ends(s, k, 0)
        BY <1>2 DEF Typed
      <4>2. k \in kernel'[Node].down <=> 0 = 1
        BY <2>3, <2>4, <2>5, <4>1, EndsShown
      <4>3. QED
        BY <4>2
    <3>2. QED
      BY <3>1
  <2>7. \A k : k \notin LinuxDesktop!Keys => k \notin kernel'[Node].down
    <3>1. ASSUME NEW k, k \notin LinuxDesktop!Keys
          PROVE  k \notin kernel'[Node].down
      <4>1. Without(s, k) \/ ~KeyCode(k)
        BY <1>2, <3>1 DEF Typed, KeyCode
      <4>2. k \in kernel'[Node].down <=> k \in kernel[Node].down
        BY <2>5, <4>1 DEF Alone
      <4>3. QED
        BY <1>1, <2>1, <3>1, <4>2 DEF DesktopShown, KeysDown
    <3>2. QED
      BY <3>1
  <2>8. kernel'[Node].down = {}
    BY <2>6, <2>7
  <2>9. held' = {}
    <3>1. \A k \in LinuxDesktop!Keys : k \in {s[i].code : i \in 1..n}
      BY <1>2, <2>1 DEF Typed, Ends
    <3>2. held \subseteq LinuxDesktop!Keys
      BY <1>1, <2>1 DEF DesktopShown, KeysDown
    <3>3. QED
      BY <1>1, <3>1, <3>2
  <2>10. KeysDown'
    BY <2>2, <2>8, <2>9 DEF KeysDown
  <2>11. NothingElsewhere'
    BY <1>1, <1>4, <2>1, <2>2 DEF DesktopShown, WrittenTo, NothingElsewhere
  <2>12. MouseDown' /\ TouchesThere' /\ PenThere'
    BY <1>1 DEF MouseDown, TouchesThere, PenThere
  <2>13. OthersAlone
    <3>1. \A x \in {"MT_SLOT", "MT_TRACKING_ID", "MT_POSITION_X", "REL_WHEEL"} : Without(s, x)
      BY <1>2 DEF Typed, LinuxDesktop!Keys
    <3>2. QED
      BY <1>3, <1>4, <1>7, <3>1, KeysAlone
  <2>14. WheelTurned'
    BY <1>1, <2>1, <2>13, WheelAlone DEF DesktopShown
  <2>15. AllSynced'
    BY <1>2, <1>3, <1>4, <1>7, <2>1, SyncedAfter DEF DesktopShown, Typed
  <2>16. QED
    BY <2>10, <2>11, <2>12, <2>14, <2>15 DEF DesktopShown
<1>8. QED
  BY <1>6, <1>7 DEF DesktopInv

\* The mouse.
LEMMA MouseNodes ==
  ASSUME DesktopShape, kind = "mouse", NEW node \in LinuxDesktop!Nodes
  PROVE  /\ node \in LinuxDesktop!Sinks /\ "x" \in LinuxDesktop!Sinks
         /\ LinuxDesktop!Buttons \subseteq LinuxDesktop!Announced(node)
         /\ LinuxDesktop!Announced("x") = LinuxDesktop!Buttons \cup {"REL_WHEEL"}
         /\ "REL_WHEEL" \in LinuxDesktop!Announced(node)
         /\ \A b \in LinuxDesktop!Buttons : b \in Codes /\ KeyCode(b)
<1>1. node \in LinuxDesktop!Sinks /\ "x" \in LinuxDesktop!Sinks
  BY DEF LinuxDesktop!Sinks
<1>2. node # "x"
  BY DEF LinuxDesktop!Nodes
<1>3. LinuxDesktop!Announced(node) = LinuxDesktop!MouseCodes(node)
  BY <1>2 DEF LinuxDesktop!Announced
<1>4. LinuxDesktop!Announced("x") = LinuxDesktop!Buttons \cup {"REL_WHEEL"}
  BY DEF LinuxDesktop!Announced
<1>5. \A b \in LinuxDesktop!Buttons : b \in Codes /\ KeyCode(b)
  BY DEF LinuxDesktop!Buttons, Codes, LinuxDesktop!MouseCodes, KeyCode, LinuxDesktop!Axes
<1>6. QED
  BY <1>1, <1>3, <1>4, <1>5 DEF LinuxDesktop!MouseCodes

\* Events that only move.
Moving(s) ==
  /\ s \in Seq(EventTypes) /\ Len(s) > 0 /\ s[Len(s)].code = "SYN"
  /\ \A x : x \notin LinuxDesktop!Axes /\ x # "SYN" => Without(s, x)

\* A motion names axes only.
LEMMA TwoAxes ==
  ASSUME NEW a \in LinuxDesktop!Axes \cap Codes, NEW b \in LinuxDesktop!Axes \cap Codes,
         NEW s, s = <<LinuxDesktop!Event(a, 1), LinuxDesktop!Event(b, 1), LinuxDesktop!Syn>>
  PROVE  Moving(s)
<1>1. /\ LinuxDesktop!Event(a, 1) \in EventTypes /\ LinuxDesktop!Event(b, 1) \in EventTypes
      /\ LinuxDesktop!Syn \in EventTypes
  BY EventTyped DEF LinuxDesktop!Axes
<1>2. s \in Seq(EventTypes) /\ Len(s) = 3
  BY <1>1
<1>3. s[1].code = a /\ s[2].code = b /\ s[3].code = "SYN"
  BY DEF LinuxDesktop!Event, LinuxDesktop!Syn
<1>4. \A x : x \notin LinuxDesktop!Axes /\ x # "SYN" => Without(s, x)
  BY <1>2, <1>3 DEF Without
<1>5. QED
  BY <1>2, <1>3, <1>4 DEF Moving

\* A motion, relative or absolute, leaves buttons and wheels alone.
LEMMA MoveKeeps ==
  ASSUME DesktopInv, NEW node \in LinuxDesktop!Nodes, NEW n, LinuxDesktop!Move(node, n)
  PROVE  DesktopInv'
<1> DEFINE s == IF node = "relative"
                THEN <<LinuxDesktop!Event("REL_X", 1), LinuxDesktop!Event("REL_Y", 1), LinuxDesktop!Syn>>
                ELSE <<LinuxDesktop!Event("ABS_X", 1), LinuxDesktop!Event("ABS_Y", 1), LinuxDesktop!Syn>>
           to == IF via = "xtest" THEN "x" ELSE node
<1>1. /\ kind = "mouse" /\ kind' = kind /\ via' = via
      /\ LinuxDesktop!Write(node, s, n)
      /\ lastMotion' = IF n = Len(s) /\ via = "uinput" THEN node ELSE lastMotion
      /\ UNCHANGED <<contacts, slot, tracking, buttons, remainder, travelled, tool, held>>
  BY DEF LinuxDesktop!Move, LinuxDesktop!touchVars
<1>2. Moving(s)
  <2>1. {"REL_X", "REL_Y", "ABS_X", "ABS_Y"} \subseteq LinuxDesktop!Axes \cap Codes
    BY DEF LinuxDesktop!Axes, Codes, LinuxDesktop!MouseCodes
  <2>2. QED
    BY <2>1, TwoAxes
<1> HIDE DEF s
<1>3. /\ node \in LinuxDesktop!Sinks /\ to \in LinuxDesktop!Sinks
      /\ lastMotion' \in LinuxDesktop!Nodes
  BY <1>1 DEF LinuxDesktop!Sinks, DesktopInv, DesktopShape
<1>4. WrittenTo(to, s, n)
  BY <1>1, <1>2, <1>3, Written DEF DesktopInv, Moving
<1>5. failed' \in BOOLEAN
  BY <1>4, FailedBoolean
<1>6. DesktopShape'
  BY <1>1, <1>3, <1>4, <1>5 DEF WrittenTo, DesktopInv, DesktopShape
<1> HIDE DEF to
<1>7. ASSUME ~failed'
      PROVE  DesktopShown'
  <2>1. ~failed /\ DesktopShown
    BY <1>4, <1>7 DEF WrittenTo, DesktopInv
  <2>2. Alone(to, kernel[to], s, kernel'[to])
    BY <1>4, <1>7 DEF WrittenTo, Wrote
  <2>3. \A k : k \in kernel'[to].down <=> k \in kernel[to].down
    <3>1. \A k : Without(s, k) \/ ~KeyCode(k)
      BY <1>2 DEF Moving, KeyCode
    <3>2. QED
      BY <2>2, <3>1 DEF Alone
  <2>4. kernel'[to].down = kernel[to].down
    <3>1. kernel'[to].down \subseteq Codes /\ kernel[to].down \subseteq Codes
      BY <1>3, <1>4 DEF WrittenTo, DesktopInv, DesktopShape, NodeStates
    <3>2. QED
      BY <2>3, <3>1
  <2>5. \A m \in LinuxDesktop!Sinks : kernel'[m].down = kernel[m].down
    BY <1>4, <2>4 DEF WrittenTo
  <2>6. MouseDown'
    BY <1>1, <2>1, <2>5 DEF DesktopShown, MouseDown, LinuxDesktop!Sinks
  <2>7. NothingElsewhere' /\ KeysDown' /\ TouchesThere' /\ PenThere'
    BY <1>1 DEF NothingElsewhere, KeysDown, TouchesThere, PenThere
  <2>8. OthersAlone
    <3>1. \A x \in {"MT_SLOT", "MT_TRACKING_ID", "MT_POSITION_X", "REL_WHEEL"} : Without(s, x)
      BY <1>2 DEF Moving, LinuxDesktop!Axes
    <3>2. QED
      BY <1>3, <1>4, <1>7, <3>1, KeysAlone
  <2>9. WheelTurned'
    BY <1>1, <2>1, <2>8, WheelAlone DEF DesktopShown
  <2>10. AllSynced'
    BY <1>2, <1>3, <1>4, <1>7, <2>1, SyncedAfter DEF DesktopShown, Moving
  <2>11. QED
    BY <2>6, <2>7, <2>9, <2>10 DEF DesktopShown
<1>8. QED
  BY <1>6, <1>7 DEF DesktopInv

\* A button's press and release go to the same device.
LEMMA PressButtonKeeps ==
  ASSUME DesktopInv, NEW b \in LinuxDesktop!Buttons, NEW p \in BOOLEAN, NEW n,
         LinuxDesktop!PressButton(b, p, n)
  PROVE  DesktopInv'
<1> DEFINE node == LinuxDesktop!ButtonNode(b, p)
           v == IF p THEN 1 ELSE 0
           to == IF via = "xtest" THEN "x" ELSE node
<1>1. /\ kind = "mouse" /\ kind' = kind /\ via' = via /\ p = (b \notin held)
      /\ LinuxDesktop!Write(node, <<LinuxDesktop!Event(b, v), LinuxDesktop!Syn>>, n)
      /\ held' = IF n < 2 THEN held ELSE IF p THEN held \cup {b} ELSE held \ {b}
      /\ buttons' = IF via = "xtest" \/ n < 2 THEN buttons
                    ELSE [buttons EXCEPT ![node] = IF p THEN @ \cup {b} ELSE @ \ {b}]
      /\ UNCHANGED <<contacts, slot, tracking, lastMotion, remainder, travelled, tool>>
  BY DEF LinuxDesktop!PressButton, LinuxDesktop!HeldAfter, LinuxDesktop!touchVars
<1>2. /\ node \in LinuxDesktop!Nodes
      /\ ~p /\ b \in buttons["relative"] \cup buttons["absolute"] => b \in buttons[node]
  BY DEF LinuxDesktop!ButtonNode, DesktopInv, DesktopShape, LinuxDesktop!Nodes
<1> HIDE DEF node
<1>3. /\ node \in LinuxDesktop!Sinks /\ to \in LinuxDesktop!Sinks
      /\ b \in Codes /\ KeyCode(b) /\ b \in LinuxDesktop!Announced(to)
  BY <1>1, <1>2, MouseNodes DEF DesktopInv
<1>4. v \in 0..1 /\ (v = 1 <=> p)
  OBVIOUS
<1> HIDE DEF v
<1>5. KeyPut(to, b, v, n)
  BY <1>1, <1>3, <1>4, KeyWritten DEF DesktopInv
<1>6. buttons' \in [LinuxDesktop!Nodes -> SUBSET LinuxDesktop!Buttons]
  BY <1>1, <1>2 DEF DesktopInv, DesktopShape
<1>7. DesktopShape'
  BY <1>1, <1>5, <1>6 DEF KeyPut, DesktopInv, DesktopShape
<1>8. ASSUME ~failed'
      PROVE  DesktopShown'
  <2>1. ~failed /\ ~(n < 2) /\ DesktopShown
    BY <1>5, <1>8 DEF KeyPut, DesktopInv
  <2>2. MouseDown'
    <3>1. /\ kernel'[to].down = IF p THEN kernel[to].down \cup {b} ELSE kernel[to].down \ {b}
          /\ \A m \in LinuxDesktop!Sinks : m # to => kernel'[m].down = kernel[m].down
      BY <1>4, <1>5, <1>8 DEF KeyPut
    <3>2. /\ held \subseteq LinuxDesktop!Buttons
          /\ held' = IF p THEN held \cup {b} ELSE held \ {b}
      BY <1>1, <2>1 DEF DesktopShown, MouseDown
    <3>3. CASE via = "xtest"
      <4>1. to = "x" /\ buttons' = buttons
        BY <1>1, <3>3
      <4>2. /\ kernel["x"].down = held /\ \A m \in LinuxDesktop!Nodes : kernel[m].down = {}
        BY <1>1, <2>1, <3>3 DEF DesktopShown, MouseDown
      <4>3. \A m \in LinuxDesktop!Nodes : m \in LinuxDesktop!Sinks /\ m # "x"
        BY DEF LinuxDesktop!Sinks, LinuxDesktop!Nodes
      <4>4. QED
        BY <1>1, <3>1, <3>2, <3>3, <4>1, <4>2, <4>3 DEF MouseDown
    <3>4. CASE via # "xtest"
      <4>1. to = node /\ buttons' = [buttons EXCEPT ![node] = IF p THEN @ \cup {b} ELSE @ \ {b}]
        BY <1>1, <2>1, <3>4
      <4>2. /\ kernel["x"].down = {}
            /\ \A m \in LinuxDesktop!Nodes : kernel[m].down = buttons[m]
            /\ held = buttons["relative"] \cup buttons["absolute"]
            /\ buttons["relative"] \cap buttons["absolute"] = {}
        BY <1>1, <2>1, <3>4 DEF DesktopShown, MouseDown
      <4>3. /\ buttons \in [LinuxDesktop!Nodes -> SUBSET LinuxDesktop!Buttons]
            /\ LinuxDesktop!Nodes = {"relative", "absolute"}
            /\ \A m \in LinuxDesktop!Nodes : m \in LinuxDesktop!Sinks /\ m # "x"
        BY DEF LinuxDesktop!Sinks, LinuxDesktop!Nodes, DesktopInv, DesktopShape
      <4>4. /\ buttons'[node] = IF p THEN buttons[node] \cup {b} ELSE buttons[node] \ {b}
            /\ \A m \in LinuxDesktop!Nodes : m # node => buttons'[m] = buttons[m]
        BY <1>2, <4>1, <4>3
      <4>5. \A m \in LinuxDesktop!Nodes : kernel'[m].down = buttons'[m]
        BY <1>2, <3>1, <4>1, <4>2, <4>3, <4>4
      <4>6. kernel'["x"].down = {}
        BY <1>2, <3>1, <4>1, <4>2, <4>3 DEF LinuxDesktop!Sinks
      <4>7. /\ held' = buttons'["relative"] \cup buttons'["absolute"]
            /\ buttons'["relative"] \cap buttons'["absolute"] = {}
        <5>1. CASE node = "relative"
          BY <1>1, <1>2, <3>2, <4>2, <4>3, <4>4, <5>1
        <5>2. CASE node = "absolute"
          BY <1>1, <1>2, <3>2, <4>2, <4>3, <4>4, <5>2
        <5>3. QED
          BY <1>2, <4>3, <5>1, <5>2
      <4>8. QED
        BY <1>1, <3>2, <3>4, <4>5, <4>6, <4>7 DEF MouseDown
    <3>5. QED
      BY <3>3, <3>4
  <2>3. NothingElsewhere' /\ KeysDown' /\ TouchesThere' /\ PenThere'
    BY <1>1 DEF NothingElsewhere, KeysDown, TouchesThere, PenThere
  <2>4. OthersAlone
    BY <1>5, <1>8 DEF KeyPut, OthersAlone
  <2>5. WheelTurned'
    BY <1>1, <2>1, <2>4, WheelAlone DEF DesktopShown
  <2>6. AllSynced'
    BY <1>5, <1>8, <2>1 DEF KeyPut, DesktopShown, AllSynced, LinuxDesktop!Sinks, LinuxDesktop!Nodes
  <2>7. QED
    BY <2>2, <2>3, <2>5, <2>6 DEF DesktopShown
<1>9. QED
  BY <1>7, <1>8 DEF DesktopInv

\* Scrolling: what is left of a detent is less than one.
\* Division that rounds towards zero leaves a rest of less than a detent, of either sign.
LEMMA QuotientRest ==
  ASSUME NEW a \in Int, NEW b \in Nat \ {0}
  PROVE  /\ LinuxDesktop!Quotient(a, b) \in Int
         /\ a - b * LinuxDesktop!Quotient(a, b) \in (1 - b)..(b - 1)
<1>1. CASE a < 0
  <2> DEFINE q == (-a) \div b
  <2>1. -a \in Nat
    BY <1>1
  <2>2. q \in Nat /\ (-a) - b * q \in 0..(b - 1)
    BY <2>1, NaturalRest
  <2>3. LinuxDesktop!Quotient(a, b) = -q
    BY <1>1 DEF LinuxDesktop!Quotient
  <2> HIDE DEF q
  <2>4. b * (-q) = -(b * q) /\ b * q \in Int
    BY <2>2
  <2>5. QED
    BY <2>2, <2>3, <2>4
<1>2. CASE ~(a < 0)
  <2>1. a \in Nat
    BY <1>2
  <2>2. LinuxDesktop!Quotient(a, b) = a \div b
    BY <1>2 DEF LinuxDesktop!Quotient
  <2>3. a \div b \in Nat /\ a - b * (a \div b) \in 0..(b - 1)
    BY <2>1, NaturalRest
  <2>4. QED
    BY <2>2, <2>3
<1>3. QED
  BY <1>1, <1>2

\* The events of a scroll.
ScrollEvents(detents, distance) ==
  (IF detents # 0 THEN <<LinuxDesktop!Event("REL_WHEEL", detents)>> ELSE <<>>)
    \o <<LinuxDesktop!Event("REL_WHEEL_HI_RES", distance), LinuxDesktop!Syn>>

Turns(node, d, s, detents) ==
  /\ s \in Seq(EventTypes) /\ Len(s) > 0 /\ s[Len(s)].code = "SYN"
  /\ \A x : x # "REL_WHEEL" /\ KeyCode(x) => Without(s, x)
  /\ LinuxDesktop!After(node, d, s).wheel = d.wheel + detents

\* The events of a scroll turn the wheel by whole detents.
LEMMA WheelWritten ==
  ASSUME NEW node \in LinuxDesktop!Nodes, kind = "mouse", NEW d \in NodeStates,
         NEW detents \in Int, NEW distance \in Int,
         NEW s, s = ScrollEvents(detents, distance)
  PROVE  Turns(node, d, s, detents)
<1> DEFINE e == LinuxDesktop!Event("REL_WHEEL", detents)
           turn == IF detents # 0 THEN <<e>> ELSE <<>>
           fine == <<LinuxDesktop!Event("REL_WHEEL_HI_RES", distance), LinuxDesktop!Syn>>
           b == LinuxDesktop!After(node, d, turn)
<1>1. /\ e \in EventTypes /\ LinuxDesktop!Event("REL_WHEEL_HI_RES", distance) \in EventTypes
      /\ LinuxDesktop!Syn \in EventTypes
  <2>1. "REL_WHEEL" \in Codes /\ "REL_WHEEL_HI_RES" \in Codes
    BY DEF Codes, LinuxDesktop!MouseCodes
  <2>2. QED
    BY <2>1, EventTyped
<1>2. e.code = "REL_WHEEL" /\ e.value = detents
  BY DEF LinuxDesktop!Event
<1>3. fine \in Seq(EventTypes) /\ Len(fine) = 2
  BY <1>1
<1>4. fine[1].code = "REL_WHEEL_HI_RES" /\ fine[2].code = "SYN"
  BY DEF LinuxDesktop!Event, LinuxDesktop!Syn
<1>5. s = turn \o fine
  BY DEF ScrollEvents
<1> HIDE DEF e, fine
<1>6. turn \in Seq(EventTypes) /\ Without(turn, "SYN") /\ \A x : x # "REL_WHEEL" => Without(turn, x)
  <2>1. CASE detents # 0
    <3>1. turn \in Seq(EventTypes) /\ Len(turn) = 1 /\ turn[1] = e
      BY <1>1, <2>1
    <3>2. QED
      BY <1>2, <3>1 DEF Without
  <2>2. CASE detents = 0
    <3>1. turn = <<>> /\ Len(turn) = 0
      BY <2>2
    <3>2. turn \in Seq(EventTypes)
      BY <3>1, EmptySeq
    <3> HIDE DEF turn
    <3>3. QED
      BY <3>1, <3>2 DEF Without
  <2>3. QED
    BY <2>1, <2>2
<1>7. b \in NodeStates /\ b.wheel = d.wheel + detents
  <2>1. CASE detents # 0
    <3>1. b = LinuxDesktop!Received(node, d, e)
      BY <1>1, <2>1, AfterOne
    <3>2. "REL_WHEEL" \in LinuxDesktop!Announced(node)
      BY DEF LinuxDesktop!Announced, LinuxDesktop!Nodes, LinuxDesktop!MouseCodes
    <3> HIDE DEF b
    <3>3. b \in NodeStates /\ Parts(d, e, b)
      BY <1>1, <1>2, <3>1, <3>2, ReceivedParts
    <3>4. QED
      BY <1>2, <3>3 DEF Parts
  <2>2. CASE detents = 0
    <3>1. b = d
      <4>1. turn = <<>>
        BY <2>2
      <4> HIDE DEF turn
      <4>2. QED
        BY <1>6, <4>1, AfterEvents
    <3>2. d.wheel \in Int
      BY DEF NodeStates
    <3> HIDE DEF b
    <3>3. QED
      BY <2>2, <3>1, <3>2
  <2>3. QED
    BY <2>1, <2>2
<1> HIDE DEF turn
<1>8. LinuxDesktop!After(node, d, s) = LinuxDesktop!After(node, b, fine)
  <2>1. LinuxDesktop!After(node, d, turn \o fine) = LinuxDesktop!After(node, b, fine)
    BY <1>3, <1>6, AfterBoth
  <2>2. QED
    BY <1>5, <2>1
<1> HIDE DEF b
<1>9. LinuxDesktop!After(node, b, fine).wheel = b.wheel
  <2>1. Without(fine, "REL_WHEEL")
    BY <1>3, <1>4 DEF Without
  <2>2. Alone(node, b, fine, LinuxDesktop!After(node, b, fine))
    BY <1>3, <1>7, AfterParts
  <2>3. QED
    BY <2>1, <2>2 DEF Alone
<1>10. JoinedParts(turn, fine, s)
  BY <1>3, <1>5, <1>6, Joined
<1>11. \A x : x # "REL_WHEEL" /\ KeyCode(x) => Without(s, x)
  <2>1. \A x : KeyCode(x) => Without(fine, x)
    BY <1>3, <1>4 DEF Without, KeyCode, LinuxDesktop!Axes
  <2>2. QED
    BY <1>6, <1>10, <2>1 DEF JoinedParts
<1>12. s \in Seq(EventTypes) /\ Len(s) > 0 /\ s[Len(s)].code = "SYN"
  <2>1. Len(turn) \in Nat
    BY <1>6
  <2>2. QED
    BY <1>3, <1>4, <1>10, <2>1 DEF JoinedParts
<1>13. QED
  BY <1>7, <1>8, <1>9, <1>11, <1>12 DEF Turns

\* What a scroll does not turn remains for the next one.
LEMMA ScrollKeeps ==
  ASSUME DesktopInv, LinuxDesktop!DesktopAssumption, NEW distance \in Distances, NEW n,
         LinuxDesktop!Scroll(distance, n)
  PROVE  DesktopInv'
<1> DEFINE to == LinuxDesktop!Accumulated(distance)
           s == ScrollEvents(to.detents, distance)
<1>1. /\ kind = "mouse" /\ via = "uinput" /\ kind' = kind /\ via' = via
      /\ LinuxDesktop!Write(lastMotion, s, n)
      /\ IF n < Len(s) THEN UNCHANGED <<remainder, travelled>>
         ELSE remainder' = to.remainder /\ travelled' = travelled + distance
      /\ UNCHANGED <<contacts, slot, tracking, lastMotion, buttons, tool, held>>
  BY DEF LinuxDesktop!Scroll, LinuxDesktop!touchVars, ScrollEvents
<1>2. /\ lastMotion \in LinuxDesktop!Nodes /\ lastMotion \in LinuxDesktop!Sinks
      /\ kernel[lastMotion] \in NodeStates /\ remainder \in Int /\ travelled \in Int
      /\ distance \in Int /\ Detent \in Nat \ {0}
  BY DEF DesktopInv, DesktopShape, LinuxDesktop!Sinks, LinuxDesktop!DesktopAssumption
<1>3. /\ to.detents \in Int /\ to.remainder \in (1 - Detent)..(Detent - 1)
      /\ remainder + distance = Detent * to.detents + to.remainder
  <2> DEFINE total == remainder + distance
             q == LinuxDesktop!Quotient(total, Detent)
  <2>1. to.detents = q /\ to.remainder = total - Detent * q
    BY DEF LinuxDesktop!Accumulated
  <2>2. total \in Int
    BY <1>2
  <2>3. q \in Int /\ total - Detent * q \in (1 - Detent)..(Detent - 1)
    <3> HIDE DEF total
    <3>1. QED
      BY <1>2, <2>2, QuotientRest
  <2> HIDE DEF to, q, total
  <2>4. Detent * q \in Int
    BY <1>2, <2>3
  <2>5. total = Detent * q + (total - Detent * q)
    BY <2>2, <2>4
  <2>6. QED
    BY <2>1, <2>3, <2>5 DEF total
<1> HIDE DEF to
<1>4. /\ s \in Seq(EventTypes) /\ Len(s) > 0 /\ s[Len(s)].code = "SYN"
      /\ \A x : x # "REL_WHEEL" /\ KeyCode(x) => Without(s, x)
      /\ LinuxDesktop!After(lastMotion, kernel[lastMotion], s).wheel =
           kernel[lastMotion].wheel + to.detents
  <2>1. Turns(lastMotion, kernel[lastMotion], s, to.detents)
    BY <1>1, <1>2, <1>3, WheelWritten
  <2>2. QED
    BY <2>1 DEF Turns
<1> HIDE DEF s
<1>5. WrittenTo(lastMotion, s, n)
  BY <1>1, <1>2, <1>4, Written DEF DesktopInv
<1>6. failed' \in BOOLEAN /\ (failed' <=> n < Len(s))
  BY <1>5, FailedBoolean
<1>7. remainder' \in (1 - Detent)..(Detent - 1) /\ travelled' \in Int
  BY <1>1, <1>2, <1>3 DEF DesktopInv, DesktopShape
<1>8. DesktopShape'
  BY <1>1, <1>5, <1>6, <1>7 DEF WrittenTo, DesktopInv, DesktopShape
<1>9. ASSUME ~failed'
      PROVE  DesktopShown'
  <2>1. ~failed /\ DesktopShown /\ ~(n < Len(s))
    BY <1>5, <1>6, <1>9 DEF WrittenTo, DesktopInv
  <2>2. /\ Alone(lastMotion, kernel[lastMotion], s, kernel'[lastMotion])
        /\ kernel'[lastMotion] = LinuxDesktop!After(lastMotion, kernel[lastMotion], s)
    BY <1>5, <1>9 DEF WrittenTo, Wrote
  <2>3. kernel'[lastMotion].down = kernel[lastMotion].down
    <3>1. \A k : Without(s, k) \/ ~KeyCode(k)
      BY <1>4 DEF KeyCode
    <3>2. \A k : k \in kernel'[lastMotion].down <=> k \in kernel[lastMotion].down
      BY <2>2, <3>1 DEF Alone
    <3>3. kernel'[lastMotion].down \subseteq Codes /\ kernel[lastMotion].down \subseteq Codes
      BY <1>2, <1>5 DEF WrittenTo, NodeStates
    <3>4. QED
      BY <3>2, <3>3
  <2>4. \A m \in LinuxDesktop!Sinks : kernel'[m].down = kernel[m].down
    BY <1>5, <2>3 DEF WrittenTo
  <2>5. MouseDown'
    BY <1>1, <2>1, <2>4 DEF DesktopShown, MouseDown, LinuxDesktop!Sinks
  <2>6. NothingElsewhere' /\ KeysDown' /\ TouchesThere' /\ PenThere'
    BY <1>1 DEF NothingElsewhere, KeysDown, TouchesThere, PenThere
  <2>7. WheelTurned'
    <3> DEFINE r == kernel["relative"].wheel
               a == kernel["absolute"].wheel
               q == to.detents
    <3>1. /\ kernel'["relative"].wheel + kernel'["absolute"].wheel = r + a + q
          /\ r \in Int /\ a \in Int
      <4>1. r \in Int /\ a \in Int
        BY DEF DesktopInv, DesktopShape, NodeStates, LinuxDesktop!Sinks, LinuxDesktop!Nodes
      <4>2. kernel'[lastMotion].wheel = kernel[lastMotion].wheel + q
        BY <1>4, <2>2
      <4>3. CASE lastMotion = "relative"
        <5>1. kernel'["absolute"].wheel = a
          BY <1>5, <4>3 DEF WrittenTo, LinuxDesktop!Sinks, LinuxDesktop!Nodes
        <5>2. QED
          BY <1>3, <4>1, <4>2, <4>3, <5>1
      <4>4. CASE lastMotion = "absolute"
        <5>1. kernel'["relative"].wheel = r
          BY <1>5, <4>4 DEF WrittenTo, LinuxDesktop!Sinks, LinuxDesktop!Nodes
        <5>2. QED
          BY <1>3, <4>1, <4>2, <4>4, <5>1
      <4>5. QED
        BY <1>2, <4>3, <4>4 DEF LinuxDesktop!Nodes
    <3>2. remainder' = to.remainder /\ travelled' = travelled + distance
      BY <1>1, <2>1
    <3>3. travelled = Detent * (r + a) + remainder
      BY <2>1 DEF DesktopShown, WheelTurned
    <3> HIDE DEF r, a, q
    <3>4. to.detents = q
      BY DEF q
    <3>5. Detent * (r + a + q) = Detent * (r + a) + Detent * q
      BY <1>2, <1>3, <3>1, <3>4
    <3>6. Detent * (r + a) \in Int /\ Detent * q \in Int
      BY <1>2, <1>3, <3>1, <3>4
    <3>7. travelled' = Detent * (r + a + q) + remainder'
      BY <1>2, <1>3, <3>2, <3>3, <3>4, <3>5, <3>6
    <3>8. QED
      BY <3>1, <3>7 DEF WheelTurned
  <2>8. AllSynced'
    BY <1>2, <1>4, <1>5, <1>9, <2>1, SyncedAfter DEF DesktopShown
  <2>9. QED
    BY <2>5, <2>6, <2>7, <2>8 DEF DesktopShown
<1>10. QED
  BY <1>8, <1>9 DEF DesktopInv

\* XTest turns the wheel with buttons, a press and a release for each detent.
LEMMA XTestScrollKeeps ==
  ASSUME DesktopInv, LinuxDesktop!DesktopAssumption, NEW distance \in Distances,
         LinuxDesktop!XTestScroll(distance)
  PROVE  DesktopInv'
<1> DEFINE clicks == LinuxDesktop!Clicks(distance)
           s == <<LinuxDesktop!Event("REL_WHEEL", clicks)>>
<1>1. /\ kind = "mouse" /\ via = "xtest" /\ kind' = kind /\ via' = via
      /\ LinuxDesktop!Write("x", s, 1)
      /\ UNCHANGED <<contacts, slot, tracking, lastMotion, buttons, remainder, travelled, tool, held>>
  BY DEF LinuxDesktop!XTestScroll, LinuxDesktop!touchVars, LinuxDesktop!mouseVars
<1>2. s \in Seq(EventTypes) /\ Len(s) = 1 /\ s[1].code = "REL_WHEEL"
  <2>1. clicks \in Int
    BY QuotientRest DEF LinuxDesktop!Clicks, LinuxDesktop!DesktopAssumption
  <2>2. "REL_WHEEL" \in Codes
    BY DEF Codes, LinuxDesktop!MouseCodes
  <2>3. LinuxDesktop!Event("REL_WHEEL", clicks) \in EventTypes
    BY <2>1, <2>2, EventTyped
  <2>4. s[1].code = "REL_WHEEL"
    BY DEF LinuxDesktop!Event
  <2>5. QED
    BY <2>3, <2>4
<1> HIDE DEF s
<1>3. "x" \in LinuxDesktop!Sinks /\ "x" = IF via = "xtest" THEN "x" ELSE "x"
  BY DEF LinuxDesktop!Sinks
<1>4. WrittenTo("x", s, 1)
  BY <1>1, <1>2, <1>3, Written DEF DesktopInv
<1>5. failed' \in BOOLEAN
  BY <1>4, FailedBoolean
<1>6. DesktopShape'
  BY <1>1, <1>4, <1>5 DEF WrittenTo, DesktopInv, DesktopShape
<1>7. ASSUME ~failed'
      PROVE  DesktopShown'
  <2>1. ~failed /\ DesktopShown
    BY <1>4 DEF WrittenTo, DesktopInv
  <2>2. Alone("x", kernel["x"], s, kernel'["x"])
    BY <1>4, <1>7 DEF WrittenTo, Wrote
  <2>3. kernel'["x"].down = kernel["x"].down
    <3>1. \A k : Without(s, k) \/ ~KeyCode(k)
      BY <1>2 DEF Without, KeyCode
    <3>2. \A k : k \in kernel'["x"].down <=> k \in kernel["x"].down
      BY <2>2, <3>1 DEF Alone
    <3>3. kernel'["x"].down \subseteq Codes /\ kernel["x"].down \subseteq Codes
      BY <1>3, <1>4 DEF WrittenTo, DesktopInv, DesktopShape, NodeStates
    <3>4. QED
      BY <3>2, <3>3
  <2>4. \A m \in LinuxDesktop!Nodes : kernel'[m] = kernel[m]
    BY <1>4 DEF WrittenTo, LinuxDesktop!Sinks, LinuxDesktop!Nodes
  <2>5. MouseDown'
    BY <1>1, <2>1, <2>3, <2>4 DEF DesktopShown, MouseDown
  <2>6. NothingElsewhere' /\ KeysDown' /\ TouchesThere' /\ PenThere'
    BY <1>1 DEF NothingElsewhere, KeysDown, TouchesThere, PenThere
  <2>7. WheelTurned' /\ AllSynced'
    BY <1>1, <2>1, <2>4 DEF DesktopShown, WheelTurned, AllSynced, LinuxDesktop!Nodes
  <2>8. QED
    BY <2>5, <2>6, <2>7 DEF DesktopShown
<1>8. QED
  BY <1>6, <1>7 DEF DesktopInv

\* The button of a trackpad, and the one of a pen.
LEMMA TouchButtonKeeps ==
  ASSUME DesktopInv, LinuxDesktop!DesktopAssumption, NEW p \in BOOLEAN, NEW n,
         LinuxDesktop!TouchButton(p, n)
  PROVE  DesktopInv'
<1> DEFINE v == IF p THEN 1 ELSE 0
           d == kernel["relative"]
<1>1. /\ kind = "trackpad" /\ kind' = kind /\ via' = via
      /\ LinuxDesktop!Write("relative", <<LinuxDesktop!Event("BTN_LEFT", v), LinuxDesktop!Syn>>, n)
      /\ held' = IF n < 2 THEN held ELSE IF p THEN held \cup {"BTN_LEFT"} ELSE held \ {"BTN_LEFT"}
      /\ UNCHANGED <<contacts, slot, tracking, lastMotion, buttons, remainder, travelled, tool>>
  BY DEF LinuxDesktop!TouchButton, LinuxDesktop!HeldAfter, LinuxDesktop!touchVars,
    LinuxDesktop!mouseVars
<1>2. /\ via # "xtest" /\ Node = "relative" /\ "relative" \in LinuxDesktop!Sinks
      /\ "BTN_LEFT" \in Codes /\ KeyCode("BTN_LEFT")
      /\ "BTN_LEFT" \in LinuxDesktop!Announced("relative")
  <2>1. via # "xtest" /\ Node = "relative" /\ "relative" \in LinuxDesktop!Sinks
    BY <1>1 DEF DesktopInv, DesktopShape, Node, LinuxDesktop!Sinks, LinuxDesktop!Nodes
  <2>2. "BTN_LEFT" \in Codes /\ KeyCode("BTN_LEFT")
    BY DEF Codes, LinuxDesktop!TrackpadCodes, KeyCode, LinuxDesktop!Axes
  <2>3. "BTN_LEFT" \in LinuxDesktop!Announced("relative")
    BY <1>1 DEF LinuxDesktop!Announced, LinuxDesktop!TrackpadCodes
  <2>4. QED
    BY <2>1, <2>2, <2>3
<1>3. v \in 0..1 /\ (v = 1 <=> p)
  OBVIOUS
<1> HIDE DEF v
<1>4. KeyPut("relative", "BTN_LEFT", v, n)
  BY <1>1, <1>2, <1>3, KeyWritten DEF DesktopInv
<1>5. DesktopShape'
  BY <1>1, <1>4 DEF KeyPut, DesktopInv, DesktopShape
<1>6. ASSUME ~failed'
      PROVE  DesktopShown'
  <2>1. ~failed /\ ~(n < 2) /\ DesktopShown
    BY <1>4, <1>6 DEF KeyPut, DesktopInv
  <2>2. /\ kernel'["relative"].down = IF p THEN d.down \cup {"BTN_LEFT"} ELSE d.down \ {"BTN_LEFT"}
        /\ \A m \in LinuxDesktop!Sinks : m # "relative" => kernel'[m] = kernel[m]
        /\ kernel'["relative"].slot = d.slot /\ kernel'["relative"].touches = d.touches
        /\ kernel'["relative"].at = d.at
    BY <1>3, <1>4, <1>6 DEF KeyPut
  <2>3. /\ held' = IF p THEN held \cup {"BTN_LEFT"} ELSE held \ {"BTN_LEFT"}
        /\ LinuxDesktop!Active(contacts)' = LinuxDesktop!Active(contacts)
    BY <1>1, <2>1 DEF LinuxDesktop!Active
  <2>4. TouchesThere'
    <3> HIDE DEF d
    <3>1. QED
      BY <1>1, <2>1, <2>2, <2>3 DEF DesktopShown, TouchesThere, d
  <2>5. NothingElsewhere'
    <3>1. Node' = Node
      BY <1>1 DEF Node
    <3>2. QED
      BY <1>1, <1>2, <2>1, <2>2, <3>1 DEF DesktopShown, NothingElsewhere
  <2>6. KeysDown' /\ MouseDown' /\ PenThere'
    BY <1>1 DEF KeysDown, MouseDown, PenThere
  <2>7. OthersAlone
    BY <1>4, <1>6 DEF KeyPut, OthersAlone
  <2>8. WheelTurned'
    BY <1>1, <2>1, <2>7, WheelAlone DEF DesktopShown
  <2>9. AllSynced'
    BY <1>4, <1>6, <2>1 DEF KeyPut, DesktopShown, AllSynced, LinuxDesktop!Sinks, LinuxDesktop!Nodes
  <2>10. QED
    BY <2>4, <2>5, <2>6, <2>8, <2>9 DEF DesktopShown
<1>7. QED
  BY <1>5, <1>6 DEF DesktopInv

\* A pen has announced its tools and its buttons.
LEMMA PenNode ==
  ASSUME DesktopShape, kind = "pen_tablet"
  PROVE  /\ via # "xtest" /\ Node = "relative" /\ "relative" \in LinuxDesktop!Sinks
         /\ {"TOOL_PEN", "TOOL_RUBBER", "STYLUS", "BTN_TOUCH"} \subseteq
              LinuxDesktop!Announced("relative") \cap Codes
         /\ \A k \in {"TOOL_PEN", "TOOL_RUBBER", "STYLUS", "BTN_TOUCH"} : KeyCode(k)
<1>1. via # "xtest" /\ Node = "relative" /\ "relative" \in LinuxDesktop!Sinks
  BY DEF DesktopShape, Node, LinuxDesktop!Sinks, LinuxDesktop!Nodes
<1>2. LinuxDesktop!Announced("relative") = LinuxDesktop!PenCodes
  BY DEF LinuxDesktop!Announced
<1>3. \A k \in {"TOOL_PEN", "TOOL_RUBBER", "STYLUS", "BTN_TOUCH"} : KeyCode(k)
  BY DEF KeyCode, LinuxDesktop!Axes
<1>4. {"TOOL_PEN", "TOOL_RUBBER", "STYLUS", "BTN_TOUCH"} \subseteq LinuxDesktop!PenCodes
  BY DEF LinuxDesktop!PenCodes
<1>5. QED
  BY <1>1, <1>2, <1>3, <1>4 DEF Codes

\* The button of a pen.
LEMMA PenButtonKeeps ==
  ASSUME DesktopInv, NEW p \in BOOLEAN, NEW n, LinuxDesktop!PenButton(p, n)
  PROVE  DesktopInv'
<1> DEFINE v == IF p THEN 1 ELSE 0
           d == kernel["relative"]
<1>1. /\ kind = "pen_tablet" /\ kind' = kind /\ via' = via
      /\ LinuxDesktop!Write("relative", <<LinuxDesktop!Event("STYLUS", v), LinuxDesktop!Syn>>, n)
      /\ held' = IF n < 2 THEN held ELSE IF p THEN held \cup {"STYLUS"} ELSE held \ {"STYLUS"}
      /\ UNCHANGED <<contacts, slot, tracking, lastMotion, buttons, remainder, travelled, tool>>
  BY DEF LinuxDesktop!PenButton, LinuxDesktop!HeldAfter, LinuxDesktop!touchVars,
    LinuxDesktop!mouseVars
<1>2. /\ via # "xtest" /\ Node = "relative" /\ "relative" \in LinuxDesktop!Sinks
      /\ "STYLUS" \in Codes /\ KeyCode("STYLUS")
      /\ "STYLUS" \in LinuxDesktop!Announced("relative")
  BY <1>1, PenNode DEF DesktopInv
<1>3. v \in 0..1 /\ (v = 1 <=> p)
  OBVIOUS
<1> HIDE DEF v
<1>4. KeyPut("relative", "STYLUS", v, n)
  BY <1>1, <1>2, <1>3, KeyWritten DEF DesktopInv
<1>5. DesktopShape'
  BY <1>1, <1>4 DEF KeyPut, DesktopInv, DesktopShape
<1>6. ASSUME ~failed'
      PROVE  DesktopShown'
  <2>1. ~failed /\ ~(n < 2) /\ DesktopShown
    BY <1>4, <1>6 DEF KeyPut, DesktopInv
  <2>2. /\ kernel'["relative"].down = IF p THEN d.down \cup {"STYLUS"} ELSE d.down \ {"STYLUS"}
        /\ \A m \in LinuxDesktop!Sinks : m # "relative" => kernel'[m] = kernel[m]
    BY <1>3, <1>4, <1>6 DEF KeyPut
  <2>3. held' = IF p THEN held \cup {"STYLUS"} ELSE held \ {"STYLUS"}
    BY <1>1, <2>1
  <2>4. PenThere'
    BY <1>1, <2>1, <2>2, <2>3 DEF DesktopShown, PenThere
  <2>5. NothingElsewhere'
    <3>1. Node' = Node
      BY <1>1 DEF Node
    <3>2. QED
      BY <1>1, <1>2, <2>1, <2>2, <3>1 DEF DesktopShown, NothingElsewhere
  <2>6. KeysDown' /\ MouseDown' /\ TouchesThere'
    BY <1>1 DEF KeysDown, MouseDown, TouchesThere
  <2>7. OthersAlone
    BY <1>4, <1>6 DEF KeyPut, OthersAlone
  <2>8. WheelTurned'
    BY <1>1, <2>1, <2>7, WheelAlone DEF DesktopShown
  <2>9. AllSynced'
    BY <1>4, <1>6, <2>1 DEF KeyPut, DesktopShown, AllSynced, LinuxDesktop!Sinks, LinuxDesktop!Nodes
  <2>10. QED
    BY <2>4, <2>5, <2>6, <2>8, <2>9 DEF DesktopShown
<1>7. QED
  BY <1>5, <1>6 DEF DesktopInv

\* The events that a change of tool is made of, and those that follow it.
PenTools == {"TOOL_PEN", "TOOL_RUBBER"}

Changes(s, t) ==
  /\ s \in Seq(EventTypes)
  /\ \A x : x \notin PenTools \cup {"BTN_TOUCH"} => Without(s, x)
  /\ IF t \in {"unchanged", tool} THEN \A x : Without(s, x)
     ELSE \A k \in PenTools : /\ k = t => Ends(s, k, 1)
                              /\ k # t /\ k = tool => Ends(s, k, 0)
                              /\ k # t /\ k # tool => Without(s, k)

\* The events of a change of tool put the old tool away and leave the new one in range.
LEMMA ToolChanges ==
  ASSUME DesktopShape, NEW t \in LinuxDesktop!Tools \cup {"unchanged"}
  PROVE  Changes(LinuxDesktop!ToolEvents(t), t)
<1> DEFINE s == LinuxDesktop!ToolEvents(t)
           new == LinuxDesktop!ToolCode(t)
           old == LinuxDesktop!ToolCode(tool)
           e == LinuxDesktop!Event(new, 1)
           f == LinuxDesktop!Event(old, 0)
<1>1. tool \in LinuxDesktop!Tools \cup {"unchanged"}
  BY DEF DesktopShape
<1>2. CASE t \in {"unchanged", tool}
  <2>1. s = <<>>
    BY <1>2 DEF LinuxDesktop!ToolEvents
  <2>2. s \in Seq(EventTypes) /\ Len(s) = 0
    BY <2>1, EmptySeq
  <2> HIDE DEF s
  <2>3. \A x : Without(s, x)
    BY <2>2 DEF Without
  <2>4. QED
    BY <1>2, <2>2, <2>3 DEF Changes, s
<1>3. CASE t \notin {"unchanged", tool}
  <2>1. /\ new = IF t = "TOUCH" THEN "BTN_TOUCH" ELSE t
        /\ t \in PenTools \cup {"TOUCH"} /\ new \in PenTools \cup {"BTN_TOUCH"}
    BY <1>3 DEF LinuxDesktop!ToolCode, LinuxDesktop!Tools, PenTools
  <2>2. tool # "unchanged" =>
          /\ old = IF tool = "TOUCH" THEN "BTN_TOUCH" ELSE tool
          /\ tool \in PenTools \cup {"TOUCH"} /\ old \in PenTools \cup {"BTN_TOUCH"} /\ old # new
    BY <1>1, <1>3 DEF LinuxDesktop!ToolCode, LinuxDesktop!Tools, PenTools
  <2>3. \A x \in PenTools \cup {"BTN_TOUCH"} : x \in Codes /\ KeyCode(x)
    BY DEF PenTools, Codes, LinuxDesktop!PenCodes, KeyCode, LinuxDesktop!Axes
  <2> HIDE DEF new, old
  <2>4. e \in EventTypes /\ e.code = new /\ e.value = 1
    <3>1. e \in EventTypes
      BY <2>1, <2>3, EventTyped DEF KeyCode
    <3>2. QED
      BY <3>1 DEF LinuxDesktop!Event
  <2>5. tool # "unchanged" => f \in EventTypes /\ f.code = old /\ f.value = 0
    <3>1. tool # "unchanged" => f \in EventTypes
      BY <2>2, <2>3, EventTyped DEF KeyCode
    <3>2. QED
      BY <3>1 DEF LinuxDesktop!Event
  <2> DEFINE rest == IF tool = "unchanged" THEN <<>> ELSE <<f>>
  <2>6. s = <<e>> \o rest
    BY <1>3 DEF LinuxDesktop!ToolEvents, new, old
  <2> HIDE DEF s, e, f
  <2>7. CASE tool = "unchanged"
    <3>1. s = <<e>>
      BY <2>6, <2>7
    <3>2. s \in Seq(EventTypes) /\ Len(s) = 1 /\ s[1] = e
      BY <2>4, <3>1
    <3>3. Ends(s, new, 1)
      BY <2>4, <3>2 DEF Ends
    <3>4. \A x : x # new => Without(s, x)
      BY <2>4, <3>2 DEF Without
    <3>5. QED
      BY <1>3, <2>1, <2>7, <3>2, <3>3, <3>4 DEF Changes, PenTools, s
  <2>8. CASE tool # "unchanged"
    <3>1. s = <<e>> \o <<f>>
      <4>1. rest = <<f>>
        BY <2>8
      <4> HIDE DEF rest
      <4>2. QED
        BY <2>6, <4>1
    <3>2. s \in Seq(EventTypes) /\ Len(s) = 2 /\ s[1] = e /\ s[2] = f
      BY <2>4, <2>5, <2>8, <3>1
    <3>3. Ends(s, new, 1) /\ Ends(s, old, 0)
      <4>1. 1 \in 1..Len(s) /\ \A i \in (1 + 1)..Len(s) : s[i].code # new
        BY <2>2, <2>5, <2>8, <3>2
      <4>2. 2 \in 1..Len(s) /\ \A i \in (2 + 1)..Len(s) : s[i].code # old
        BY <3>2
      <4>3. QED
        BY <2>4, <2>5, <2>8, <3>2, <4>1, <4>2 DEF Ends
    <3>4. \A x : x # new /\ x # old => Without(s, x)
      BY <2>4, <2>5, <2>8, <3>2 DEF Without
    <3>5. QED
      BY <1>3, <2>1, <2>2, <2>8, <3>2, <3>3, <3>4 DEF Changes, PenTools, s
  <2>9. QED
    BY <2>7, <2>8
<1>4. QED
  BY <1>2, <1>3

\* Events of a pen that are no tools and no buttons.
PlacedCodes == {"ABS_X", "ABS_Y", "ABS_PRESSURE", "ABS_DISTANCE", "ABS_TILT_X", "ABS_TILT_Y",
                "BTN_TOUCH", "SYN"}

PlacingEvents(s) == s \in Seq(EventTypes) /\ \A x : x \notin PlacedCodes => Without(s, x)

PlacedEvent(e) == e \in EventTypes /\ e.code \in PlacedCodes

\* Events that place a tool name axes and BTN_TOUCH only.
LEMMA PlacedEvents ==
  ASSUME NEW v \in Int, NEW c \in PlacedCodes
  PROVE  PlacedEvent(LinuxDesktop!Event(c, v)) /\ PlacedEvent(LinuxDesktop!Syn)
<1>1. c \in Codes /\ c \notin {"MT_SLOT", "MT_TRACKING_ID", "MT_POSITION_X"}
  BY DEF PlacedCodes, Codes, LinuxDesktop!PenCodes
<1>2. LinuxDesktop!Event(c, v) \in EventTypes /\ LinuxDesktop!Syn \in EventTypes
  BY <1>1, EventTyped
<1>3. LinuxDesktop!Event(c, v).code = c /\ LinuxDesktop!Syn.code = "SYN"
  BY DEF LinuxDesktop!Event, LinuxDesktop!Syn
<1>4. QED
  BY <1>2, <1>3 DEF PlacedEvent, PlacedCodes

\* Sequences of one to three of them.
LEMMA PlacingThree ==
  ASSUME NEW a, NEW b, NEW c, PlacedEvent(a), PlacedEvent(b), PlacedEvent(c)
  PROVE  PlacingEvents(<<a, b, c>>) /\ PlacingEvents(<<a, b>>) /\ PlacingEvents(<<>>)
<1> DEFINE s == <<a, b, c>>
           t == <<a, b>>
<1>1. a \in EventTypes /\ b \in EventTypes /\ c \in EventTypes
  BY DEF PlacedEvent
<1>2. /\ s \in Seq(EventTypes) /\ Len(s) = 3 /\ s[1] = a /\ s[2] = b /\ s[3] = c
      /\ t \in Seq(EventTypes) /\ Len(t) = 2 /\ t[1] = a /\ t[2] = b
  BY <1>1
<1>3. <<>> \in Seq(EventTypes) /\ Len(<<>>) = 0
  BY EmptySeq
<1> HIDE DEF s, t
<1>4. PlacingEvents(s) /\ PlacingEvents(t)
  BY <1>2 DEF PlacingEvents, Without, PlacedEvent
<1>5. PlacingEvents(<<>>)
  BY <1>3 DEF PlacingEvents, Without
<1>6. QED
  BY <1>4, <1>5 DEF s, t

\* So do two such sequences, one after the other.
LEMMA PlacingBoth ==
  ASSUME NEW s, NEW t, PlacingEvents(s), PlacingEvents(t)
  PROVE  PlacingEvents(s \o t)
<1>1. JoinedParts(s, t, s \o t)
  BY Joined DEF PlacingEvents
<1>2. QED
  BY <1>1 DEF JoinedParts, PlacingEvents

\* Pressure and distance are events of that kind.
LEMMA PressurePlaces ==
  ASSUME NEW pressure \in LinuxDesktop!Levels, NEW distance \in LinuxDesktop!Levels
  PROVE  PlacingEvents(LinuxDesktop!PressureEvents(pressure, distance))
<1> DEFINE near == <<LinuxDesktop!Event("ABS_PRESSURE", pressure),
                     LinuxDesktop!Event("ABS_DISTANCE", 0),
                     LinuxDesktop!Event("BTN_TOUCH", pressure)>>
           far == <<LinuxDesktop!Event("ABS_DISTANCE", distance),
                    LinuxDesktop!Event("ABS_PRESSURE", 0), LinuxDesktop!Event("BTN_TOUCH", 0)>>
           one == IF pressure = LinuxDesktop!Absent THEN <<>> ELSE near
           two == IF distance = LinuxDesktop!Absent THEN <<>> ELSE far
<1>1. pressure \in Int /\ distance \in Int
  BY DEF LinuxDesktop!Levels, LinuxDesktop!Absent
<1>2. {"ABS_PRESSURE", "ABS_DISTANCE", "BTN_TOUCH"} \subseteq PlacedCodes
  BY DEF PlacedCodes
<1>3. PlacingEvents(near) /\ PlacingEvents(far) /\ PlacingEvents(<<>>)
  <2>1. /\ PlacedEvent(LinuxDesktop!Event("ABS_PRESSURE", pressure))
        /\ PlacedEvent(LinuxDesktop!Event("ABS_DISTANCE", 0))
        /\ PlacedEvent(LinuxDesktop!Event("BTN_TOUCH", pressure))
        /\ PlacedEvent(LinuxDesktop!Event("ABS_DISTANCE", distance))
        /\ PlacedEvent(LinuxDesktop!Event("ABS_PRESSURE", 0))
        /\ PlacedEvent(LinuxDesktop!Event("BTN_TOUCH", 0))
    BY <1>1, <1>2, PlacedEvents
  <2>2. QED
    BY <2>1, PlacingThree
<1>4. LinuxDesktop!PressureEvents(pressure, distance) = one \o two
  BY DEF LinuxDesktop!PressureEvents
<1> HIDE DEF near, far
<1>5. PlacingEvents(one) /\ PlacingEvents(two)
  BY <1>3
<1> HIDE DEF one, two
<1>6. QED
  BY <1>4, <1>5, PlacingBoth

\* place_tool() shows the tool it names and no other.
LEMMA PlaceToolKeeps ==
  ASSUME DesktopInv, NEW t \in LinuxDesktop!Tools \cup {"unchanged"},
         NEW pressure \in LinuxDesktop!Levels, NEW distance \in LinuxDesktop!Levels, NEW n,
         LinuxDesktop!PlaceTool(t, pressure, distance, n)
  PROVE  DesktopInv'
<1> DEFINE change == LinuxDesktop!ToolEvents(t)
           where == <<LinuxDesktop!Event("ABS_X", 1), LinuxDesktop!Event("ABS_Y", 1)>>
           press == LinuxDesktop!PressureEvents(pressure, distance)
           tilt == <<LinuxDesktop!Event("ABS_TILT_X", 0), LinuxDesktop!Event("ABS_TILT_Y", 0),
                     LinuxDesktop!Syn>>
           s == change \o where \o press \o tilt
           d == kernel["relative"]
<1>1. /\ kind = "pen_tablet" /\ kind' = kind /\ via' = via
      /\ LinuxDesktop!Write("relative", s, n)
      /\ tool' = IF t # "unchanged" /\ n >= Len(change) THEN t ELSE tool
      /\ UNCHANGED <<contacts, slot, tracking, lastMotion, buttons, remainder, travelled, held>>
  BY DEF LinuxDesktop!PlaceTool, LinuxDesktop!touchVars, LinuxDesktop!mouseVars
<1>2. Changes(change, t)
  BY ToolChanges DEF DesktopInv
<1>3. PlacingEvents(where) /\ PlacingEvents(press) /\ PlacingEvents(tilt)
  <2>1. {"ABS_X", "ABS_Y", "ABS_TILT_X", "ABS_TILT_Y"} \subseteq PlacedCodes
    BY DEF PlacedCodes
  <2>2. /\ PlacedEvent(LinuxDesktop!Event("ABS_X", 1)) /\ PlacedEvent(LinuxDesktop!Event("ABS_Y", 1))
        /\ PlacedEvent(LinuxDesktop!Event("ABS_TILT_X", 0))
        /\ PlacedEvent(LinuxDesktop!Event("ABS_TILT_Y", 0)) /\ PlacedEvent(LinuxDesktop!Syn)
    BY <2>1, PlacedEvents
  <2>3. PlacingEvents(where) /\ PlacingEvents(tilt)
    BY <2>2, PlacingThree
  <2>4. QED
    BY <2>3, PressurePlaces
<1>4. Len(tilt) = 3 /\ tilt[3].code = "SYN"
  BY DEF LinuxDesktop!Event, LinuxDesktop!Syn
<1> HIDE DEF change, where, press, tilt
<1>5. /\ s \in Seq(EventTypes) /\ Len(s) > 0 /\ s[Len(s)].code = "SYN" /\ Len(change) <= Len(s)
      /\ \A x : x \notin PlacedCodes => (Without(change, x) => Without(s, x))
      /\ \A x, v : x \notin PlacedCodes => (Ends(change, x, v) => Ends(s, x, v))
  <2> DEFINE two == change \o where
             three == two \o press
  <2>1. JoinedParts(change, where, two)
    BY <1>2, <1>3, Joined DEF Changes, PlacingEvents
  <2> HIDE DEF two
  <2>2. JoinedParts(two, press, three)
    BY <1>3, <2>1, Joined DEF JoinedParts, PlacingEvents
  <2> HIDE DEF three
  <2>3. JoinedParts(three, tilt, s)
    <3>1. s = three \o tilt
      BY DEF two, three
    <3> HIDE DEF s
    <3>2. JoinedParts(three, tilt, three \o tilt)
      BY <1>3, <2>2, Joined DEF JoinedParts, PlacingEvents
    <3>3. QED
      BY <3>1, <3>2
  <2> HIDE DEF s
  <2>4. /\ Len(change) \in Nat /\ Len(where) \in Nat /\ Len(press) \in Nat
        /\ Len(two) \in Nat /\ Len(three) \in Nat
    BY <1>2, <1>3, <2>1, <2>2 DEF Changes, PlacingEvents, JoinedParts
  <2>5. s \in Seq(EventTypes) /\ Len(s) > 0 /\ s[Len(s)].code = "SYN" /\ Len(change) <= Len(s)
    BY <1>4, <2>1, <2>2, <2>3, <2>4 DEF JoinedParts
  <2>6. \A x : x \notin PlacedCodes => Without(where, x) /\ Without(press, x) /\ Without(tilt, x)
    BY <1>3 DEF PlacingEvents
  <2>7. \A x : x \notin PlacedCodes => (Without(change, x) => Without(s, x))
    BY <2>1, <2>2, <2>3, <2>6 DEF JoinedParts
  <2>8. \A x, v : x \notin PlacedCodes => (Ends(change, x, v) => Ends(s, x, v))
    BY <2>1, <2>2, <2>3, <2>6 DEF JoinedParts
  <2>9. QED
    BY <2>5, <2>7, <2>8
<1> HIDE DEF s
<1>6. /\ via # "xtest" /\ Node = "relative" /\ "relative" \in LinuxDesktop!Sinks
      /\ PenTools \cup {"STYLUS"} \subseteq LinuxDesktop!Announced("relative")
      /\ \A k \in PenTools \cup {"STYLUS"} : KeyCode(k)
  BY <1>1, PenNode DEF DesktopInv, PenTools
<1>7. WrittenTo("relative", s, n)
  BY <1>1, <1>5, <1>6, Written DEF DesktopInv
<1>8. failed' \in BOOLEAN
  BY <1>7, FailedBoolean
<1>9. tool' \in LinuxDesktop!Tools \cup {"unchanged"}
  BY <1>1 DEF DesktopInv, DesktopShape
<1>10. DesktopShape'
  BY <1>1, <1>7, <1>8, <1>9 DEF WrittenTo, DesktopInv, DesktopShape
<1>11. ASSUME ~failed'
       PROVE  DesktopShown'
  <2>1. ~failed /\ DesktopShown /\ n = Len(s)
    BY <1>7, <1>11 DEF WrittenTo, DesktopInv
  <2>2. tool' = IF t # "unchanged" THEN t ELSE tool
    <3>1. n >= Len(change)
      BY <1>2, <1>5, <2>1 DEF Changes
    <3>2. QED
      BY <1>1, <3>1
  <2>3. Alone("relative", d, s, kernel'["relative"]) /\ KeysLast("relative", s, kernel'["relative"])
    BY <1>7, <1>11 DEF WrittenTo, Wrote
  <2>4. \A k \in PenTools : k \in kernel'["relative"].down <=> tool' = k
    <3>1. ASSUME NEW k \in PenTools
          PROVE  k \in kernel'["relative"].down <=> tool' = k
      <4>1. k \in d.down <=> tool = k
        BY <1>1, <2>1 DEF DesktopShown, PenThere, PenTools
      <4>2. k \notin PlacedCodes /\ KeyCode(k) /\ k \in LinuxDesktop!Announced("relative")
        BY <1>6 DEF PenTools, PlacedCodes
      <4>3. Without(s, k) => (k \in kernel'["relative"].down <=> k \in d.down)
        BY <2>3 DEF Alone
      <4>4. \A v : Ends(s, k, v) => (k \in kernel'["relative"].down <=> v = 1)
        BY <1>5, <2>3, <4>2, EndsShown
      <4>5. CASE t \in {"unchanged", tool}
        <5>1. tool' = tool /\ Without(s, k)
          BY <1>2, <1>5, <2>2, <4>2, <4>5 DEF Changes
        <5>2. QED
          BY <4>1, <4>3, <5>1
      <4>6. CASE t \notin {"unchanged", tool}
        <5>1. tool' = t
          BY <2>2, <4>6
        <5>2. /\ k = t => Ends(s, k, 1)
              /\ k # t /\ k = tool => Ends(s, k, 0)
              /\ k # t /\ k # tool => Without(s, k)
          BY <1>2, <1>5, <4>2, <4>6 DEF Changes
        <5>3. QED
          BY <4>1, <4>3, <4>4, <5>1, <5>2
      <4>7. QED
        BY <4>5, <4>6
    <3>2. QED
      BY <3>1
  <2>5. "STYLUS" \in kernel'["relative"].down <=> "STYLUS" \in d.down
    <3>1. Without(s, "STYLUS")
      BY <1>2, <1>5 DEF Changes, PenTools, PlacedCodes
    <3>2. QED
      BY <2>3, <3>1 DEF Alone
  <2>6. PenThere'
    BY <1>1, <2>1, <2>4, <2>5 DEF DesktopShown, PenThere, PenTools
  <2>7. NothingElsewhere'
    <3>1. Node' = Node
      BY <1>1 DEF Node
    <3>2. QED
      BY <1>1, <1>6, <1>7, <2>1, <3>1 DEF WrittenTo, DesktopShown, NothingElsewhere
  <2>8. KeysDown' /\ MouseDown' /\ TouchesThere'
    BY <1>1 DEF KeysDown, MouseDown, TouchesThere
  <2>9. OthersAlone
    <3>1. \A x \in {"MT_SLOT", "MT_TRACKING_ID", "MT_POSITION_X", "REL_WHEEL"} : Without(s, x)
      BY <1>2, <1>5 DEF Changes, PenTools, PlacedCodes
    <3>2. QED
      BY <1>6, <1>7, <1>11, <3>1, KeysAlone
  <2>10. WheelTurned'
    BY <1>1, <2>1, <2>9, WheelAlone DEF DesktopShown
  <2>11. AllSynced'
    BY <1>5, <1>6, <1>7, <1>11, <2>1, SyncedAfter DEF DesktopShown
  <2>12. QED
    BY <2>6, <2>7, <2>8, <2>10, <2>11 DEF DesktopShown
<1>12. QED
  BY <1>10, <1>11 DEF DesktopInv

\* Touch contacts: each has a slot of its own, so they are finitely many.
LEMMA ActiveFinite ==
  ASSUME LinuxDesktop!DesktopAssumption,
         NEW cs \in [Contacts -> LinuxDesktop!Slots \cup {LinuxDesktop!Absent}],
         \A c, e \in Contacts : cs[c] = cs[e] /\ cs[c] # LinuxDesktop!Absent => c = e
  PROVE  /\ Cardinality(LinuxDesktop!Active(cs)) \in Nat
         /\ Cardinality(LinuxDesktop!Active(cs)) > 0 <=> LinuxDesktop!Active(cs) # {}
<1> DEFINE A == LinuxDesktop!Active(cs)
           f == [c \in A |-> cs[c]]
<1>1. \A c \in A : c \in Contacts /\ cs[c] \in LinuxDesktop!Slots /\ cs[c] # LinuxDesktop!Absent
  BY DEF LinuxDesktop!Active
<1> HIDE DEF A
<1>2. f \in [A -> LinuxDesktop!Slots] /\ \A a, b \in A : f[a] = f[b] => a = b
  BY <1>1
<1>3. f \in Injection(A, LinuxDesktop!Slots)
  <2> HIDE DEF f
  <2>1. QED
    BY <1>2, Fun_IsInj
<1>4. IsFiniteSet(LinuxDesktop!Slots)
  BY FS_Interval DEF LinuxDesktop!Slots, LinuxDesktop!DesktopAssumption
<1> HIDE DEF f
<1>5. IsFiniteSet(A)
  BY <1>3, <1>4, FS_Injection
<1>6. Cardinality(A) \in Nat /\ (Cardinality(A) = 0 <=> A = {})
  BY <1>5, FS_CardinalityType, FS_EmptySet
<1>7. QED
  BY <1>6 DEF A

\* A set of slots that is not empty has a least one.
LEMMA LeastSlot ==
  ASSUME LinuxDesktop!DesktopAssumption, NEW free \in SUBSET LinuxDesktop!Slots, free # {}
  PROVE  (CHOOSE s \in free : \A t \in free : s <= t) \in free
<1>1. free \subseteq Nat
  BY DEF LinuxDesktop!Slots, LinuxDesktop!DesktopAssumption
<1>2. IsWellFoundedOn(NatOrder, Nat)
  BY NatLessThanWellFounded DEF NatOrder, OpToRel
<1>3. PICK x \in free : \A y \in free : ~(<<y, x>> \in NatOrder)
  BY <1>1, <1>2, WFMin
<1>4. ASSUME NEW t \in free
      PROVE  x <= t
  <2>1. t \in Nat /\ x \in Nat /\ <<t, x>> \notin NatOrder
    BY <1>1, <1>3
  <2>2. ~(t < x)
    BY <2>1 DEF NatOrder
  <2>3. QED
    BY <2>1, <2>2
<1>5. QED
  BY <1>4

TouchDevice == kind \in {"touchscreen", "trackpad"}

\* A touchscreen or a trackpad has announced what its contacts need.
LEMMA TouchNode ==
  ASSUME DesktopShape, TouchDevice
  PROVE  /\ via # "xtest" /\ Node = "relative" /\ "relative" \in LinuxDesktop!Sinks
         /\ LinuxDesktop!TouchAxes \subseteq LinuxDesktop!Announced("relative")
         /\ kind = "trackpad" =>
              LinuxDesktop!TrackpadCodes \subseteq LinuxDesktop!Announced("relative")
         /\ LinuxDesktop!TrackpadCodes \subseteq Codes
         /\ LinuxDesktop!TouchAxes \subseteq LinuxDesktop!TrackpadCodes
<1>1. via # "xtest" /\ Node = "relative" /\ "relative" \in LinuxDesktop!Sinks
  BY DEF TouchDevice, DesktopShape, Node, LinuxDesktop!Sinks, LinuxDesktop!Nodes
<1>2. /\ kind = "touchscreen" => LinuxDesktop!Announced("relative") = LinuxDesktop!TouchAxes
      /\ kind = "trackpad" => LinuxDesktop!Announced("relative") = LinuxDesktop!TrackpadCodes
  BY DEF LinuxDesktop!Announced
<1>3. LinuxDesktop!TrackpadCodes \subseteq Codes
  BY DEF Codes
<1>4. LinuxDesktop!TouchAxes \subseteq LinuxDesktop!TrackpadCodes
  BY DEF LinuxDesktop!TrackpadCodes
<1>5. QED
  BY <1>1, <1>2, <1>3, <1>4 DEF TouchDevice

\* What the parts of a touch call do, one after the other.
Selected(d, s, r) ==
  /\ r \in NodeStates /\ r.slot = s /\ r.touches = d.touches /\ r.at = d.at
  /\ r.wheel = d.wheel /\ r.down = d.down

Tracked(d, v, r) ==
  /\ r \in NodeStates /\ r.slot = d.slot /\ r.touches = [d.touches EXCEPT ![d.slot] = v]
  /\ r.at = d.at /\ r.wheel = d.wheel /\ r.down = d.down

Placed(d, c, r) ==
  /\ r \in NodeStates /\ r.slot = d.slot /\ r.touches = d.touches
  /\ r.at = [d.at EXCEPT ![d.slot] = c] /\ r.wheel = d.wheel /\ r.down = d.down

FingersDown(d, cs, r) ==
  LET count == Cardinality(LinuxDesktop!Active(cs)) IN
  /\ "BTN_TOUCH" \in r.down <=> LinuxDesktop!Active(cs) # {}
  /\ kind = "trackpad" =>
       /\ "BTN_LEFT" \in r.down <=> "BTN_LEFT" \in d.down
       /\ "TOOL_FINGER" \in r.down <=> count = 1
       /\ "TOOL_DOUBLETAP" \in r.down <=> count = 2
       /\ "TOOL_TRIPLETAP" \in r.down <=> count = 3

FingersShown(d, cs, r) ==
  /\ r \in NodeStates /\ r.slot = d.slot /\ r.touches = d.touches /\ r.at = d.at
  /\ r.wheel = d.wheel
  /\ FingersDown(d, cs, r)

\* MT_SLOT is sent when another slot was selected, so the slot is selected.
LEMMA SelectSelects ==
  ASSUME DesktopShape, LinuxDesktop!DesktopAssumption, TouchDevice, NEW d \in NodeStates,
         slot # LinuxDesktop!Absent => d.slot = slot, NEW s \in LinuxDesktop!Slots
  PROVE  /\ LinuxDesktop!SelectSlot(s) \in Seq(EventTypes)
         /\ Selected(d, s, LinuxDesktop!After("relative", d, LinuxDesktop!SelectSlot(s)))
<1>1. s \in Int /\ s # LinuxDesktop!Absent
  BY DEF LinuxDesktop!Slots, LinuxDesktop!Absent, LinuxDesktop!DesktopAssumption
<1>2. CASE s = slot
  <2>1. LinuxDesktop!SelectSlot(s) = <<>>
    BY <1>2 DEF LinuxDesktop!SelectSlot
  <2>2. <<>> \in Seq(EventTypes)
    BY EmptySeq
  <2>3. LinuxDesktop!After("relative", d, <<>>) = d
    BY <2>2, AfterEvents
  <2>4. Selected(d, s, d)
    BY <1>1, <1>2 DEF Selected
  <2>5. QED
    BY <2>1, <2>2, <2>3, <2>4
<1>3. CASE s # slot
  <2> DEFINE e == LinuxDesktop!Event("MT_SLOT", s)
             r == LinuxDesktop!After("relative", d, <<e>>)
  <2>1. LinuxDesktop!SelectSlot(s) = <<e>>
    BY <1>3 DEF LinuxDesktop!SelectSlot
  <2>2. "MT_SLOT" \in LinuxDesktop!Announced("relative") /\ "MT_SLOT" \in Codes
    BY TouchNode DEF LinuxDesktop!TouchAxes
  <2>3. e \in EventTypes
    BY <1>1, <2>2, EventTyped
  <2>4. e.code = "MT_SLOT" /\ e.value = s
    BY DEF LinuxDesktop!Event
  <2> HIDE DEF e
  <2>5. <<e>> \in Seq(EventTypes) /\ r = LinuxDesktop!Received("relative", d, e)
    BY <2>3, AfterOne
  <2> HIDE DEF r
  <2>6. r \in NodeStates /\ Parts(d, e, r)
    BY <2>2, <2>3, <2>4, <2>5, ReceivedParts
  <2>7. Selected(d, s, r)
    BY <2>4, <2>6 DEF Parts, Selected, KeyCode
  <2>8. QED
    BY <2>1, <2>5, <2>7 DEF r
<1>4. QED
  BY <1>2, <1>3

\* MT_TRACKING_ID puts a touch in the slot that is selected, or ends it.
LEMMA TrackTracks ==
  ASSUME DesktopShape, TouchDevice, NEW d \in NodeStates, NEW v \in Touches \cap Int,
         NEW s, s = <<LinuxDesktop!Event("MT_TRACKING_ID", v)>>
  PROVE  s \in Seq(EventTypes) /\ Tracked(d, v, LinuxDesktop!After("relative", d, s))
<1> DEFINE e == LinuxDesktop!Event("MT_TRACKING_ID", v)
           r == LinuxDesktop!After("relative", d, <<e>>)
<1>1. "MT_TRACKING_ID" \in LinuxDesktop!Announced("relative") /\ "MT_TRACKING_ID" \in Codes
  BY TouchNode DEF LinuxDesktop!TouchAxes
<1>2. e \in EventTypes
  BY <1>1, EventTyped
<1>3. e.code = "MT_TRACKING_ID" /\ e.value = v
  BY DEF LinuxDesktop!Event
<1>4. s = <<e>>
  OBVIOUS
<1> HIDE DEF e
<1>5. <<e>> \in Seq(EventTypes) /\ r = LinuxDesktop!Received("relative", d, e)
  BY <1>2, AfterOne
<1> HIDE DEF r
<1>6. r \in NodeStates /\ Parts(d, e, r)
  BY <1>1, <1>2, <1>3, <1>5, ReceivedParts
<1>7. Tracked(d, v, r)
  BY <1>3, <1>6 DEF Parts, Tracked, KeyCode
<1>8. QED
  BY <1>4, <1>5, <1>7 DEF r

\* The end of place_contact() places the contact in the slot that is selected.
LEMMA PlaceEnds ==
  ASSUME DesktopShape, TouchDevice, NEW d \in NodeStates, NEW c \in Contacts,
         NEW s, s = <<LinuxDesktop!Event("MT_POSITION_X", c), LinuxDesktop!Syn>>
  PROVE  LET r == LinuxDesktop!After("relative", d, s)
         IN s \in Seq(EventTypes) /\ Placed(d, c, r) /\ r.synced
<1> DEFINE e == LinuxDesktop!Event("MT_POSITION_X", c)
           b == LinuxDesktop!After("relative", d, <<e>>)
           r == LinuxDesktop!After("relative", d, s)
<1>1. "MT_POSITION_X" \in LinuxDesktop!Announced("relative") /\ "MT_POSITION_X" \in Codes
  BY TouchNode DEF LinuxDesktop!TouchAxes
<1>2. e.code = "MT_POSITION_X" /\ e.value = c
  BY DEF LinuxDesktop!Event
<1>3. e \in EventTypes /\ LinuxDesktop!Syn \in EventTypes
  <2>1. e \in AnyEvents
    BY <1>1 DEF LinuxDesktop!Event, AnyEvents
  <2>2. LinuxDesktop!Syn \in EventTypes
    BY <1>1, EventTyped
  <2> HIDE DEF e
  <2>3. QED
    BY <1>2, <2>1, <2>2, IsEvent
<1>4. s = <<e, LinuxDesktop!Syn>>
  OBVIOUS
<1> HIDE DEF e
<1>5. <<e>> \in Seq(EventTypes) /\ b = LinuxDesktop!Received("relative", d, e)
  BY <1>3, AfterOne
<1> HIDE DEF b
<1>6. b \in NodeStates /\ Parts(d, e, b)
  BY <1>1, <1>2, <1>3, <1>5, ReceivedParts
<1>7. s \in Seq(EventTypes) /\ s = Append(<<e>>, LinuxDesktop!Syn)
  BY <1>3, <1>4
<1>8. r = LinuxDesktop!Received("relative", b, LinuxDesktop!Syn)
  <2>1. LinuxDesktop!After("relative", d, Append(<<e>>, LinuxDesktop!Syn)) =
          LinuxDesktop!Received("relative", LinuxDesktop!After("relative", d, <<e>>), LinuxDesktop!Syn)
    BY <1>3, <1>5, AfterEvents
  <2>2. QED
    BY <1>7, <2>1 DEF b
<1> HIDE DEF r
<1>9. r \in NodeStates /\ r.synced /\ SameParts(b, r)
  <2>1. LinuxDesktop!Syn.code = "SYN"
    BY DEF LinuxDesktop!Event, LinuxDesktop!Syn
  <2>2. QED
    BY <1>6, <1>8, <2>1, ReceivedElse
<1>10. Placed(d, c, r)
  BY <1>2, <1>6, <1>9 DEF Parts, SameParts, Placed, KeyCode
<1>11. QED
  BY <1>7, <1>9, <1>10 DEF r

\* emit_trackpad_tool_buttons(), and the button of a touchscreen.
LEMMA ToolButtonsShow ==
  ASSUME DesktopShape, LinuxDesktop!DesktopAssumption, kind = "trackpad", NEW d \in NodeStates,
         NEW cs \in [Contacts -> LinuxDesktop!Slots \cup {LinuxDesktop!Absent}],
         \A c, e \in Contacts : cs[c] = cs[e] /\ cs[c] # LinuxDesktop!Absent => c = e,
         NEW s, s = LinuxDesktop!ToolButtons(Cardinality(LinuxDesktop!Active(cs)))
  PROVE  s \in Seq(EventTypes) /\ FingersShown(d, cs, LinuxDesktop!After("relative", d, s))
<1> DEFINE count == Cardinality(LinuxDesktop!Active(cs))
           shows(code, yes) == LinuxDesktop!Event(code, IF yes THEN 1 ELSE 0)
           r == LinuxDesktop!After("relative", d, s)
           touching == LinuxDesktop!Active(cs) # {}
<1>1. /\ count \in Nat /\ (count > 0 <=> touching)
  BY ActiveFinite
<1>2. TouchDevice
  BY DEF TouchDevice
<1> HIDE DEF count, touching
<1>3. LinuxDesktop!TrackpadCodes \subseteq LinuxDesktop!Announced("relative") \cap Codes
  BY <1>2, TouchNode
<1>4. {"BTN_TOUCH", "TOOL_FINGER", "TOOL_DOUBLETAP", "TOOL_TRIPLETAP", "TOOL_QUADTAP",
       "TOOL_QUINTTAP", "BTN_LEFT"} \subseteq LinuxDesktop!TrackpadCodes
  BY DEF LinuxDesktop!TrackpadCodes, LinuxDesktop!TouchAxes
<1>5. \A k \in {"BTN_TOUCH", "TOOL_FINGER", "TOOL_DOUBLETAP", "TOOL_TRIPLETAP",
                "TOOL_QUADTAP", "TOOL_QUINTTAP", "BTN_LEFT"} : KeyCode(k)
  BY DEF KeyCode, LinuxDesktop!Axes
<1>6. \A k \in {"BTN_TOUCH", "TOOL_FINGER", "TOOL_DOUBLETAP", "TOOL_TRIPLETAP",
                "TOOL_QUADTAP", "TOOL_QUINTTAP", "BTN_LEFT"}, yes \in BOOLEAN :
         /\ shows(k, yes) \in EventTypes /\ shows(k, yes).code = k
         /\ shows(k, yes).value = 1 <=> yes
  <2>1. ASSUME NEW k \in {"BTN_TOUCH", "TOOL_FINGER", "TOOL_DOUBLETAP", "TOOL_TRIPLETAP",
                          "TOOL_QUADTAP", "TOOL_QUINTTAP", "BTN_LEFT"}, NEW yes \in BOOLEAN
        PROVE  /\ shows(k, yes) \in EventTypes /\ shows(k, yes).code = k
               /\ shows(k, yes).value = 1 <=> yes
    <3> DEFINE v == IF yes THEN 1 ELSE 0
    <3>1. v \in Int /\ (v = 1 <=> yes)
      OBVIOUS
    <3> HIDE DEF v
    <3>2. k \in Codes /\ k \notin {"MT_SLOT", "MT_TRACKING_ID", "MT_POSITION_X"}
      BY <1>3, <1>4, <1>5 DEF KeyCode
    <3>3. LinuxDesktop!Event(k, v) \in EventTypes
      BY <3>1, <3>2, EventTyped
    <3>4. LinuxDesktop!Event(k, v).code = k /\ LinuxDesktop!Event(k, v).value = v
      BY DEF LinuxDesktop!Event
    <3>5. QED
      BY <3>1, <3>3, <3>4 DEF v
  <2>2. QED
    BY <2>1
<1>7. s = <<shows("BTN_TOUCH", count > 0), shows("TOOL_FINGER", count = 1),
            shows("TOOL_DOUBLETAP", count = 2), shows("TOOL_TRIPLETAP", count = 3),
            shows("TOOL_QUADTAP", count = 4), shows("TOOL_QUINTTAP", count >= 5)>>
  BY DEF LinuxDesktop!ToolButtons, count
<1>8. /\ (count > 0) \in BOOLEAN /\ (count = 1) \in BOOLEAN /\ (count = 2) \in BOOLEAN
      /\ (count = 3) \in BOOLEAN /\ (count = 4) \in BOOLEAN /\ (count >= 5) \in BOOLEAN
  OBVIOUS
<1> DEFINE e1 == shows("BTN_TOUCH", count > 0)
           e2 == shows("TOOL_FINGER", count = 1)
           e3 == shows("TOOL_DOUBLETAP", count = 2)
           e4 == shows("TOOL_TRIPLETAP", count = 3)
           e5 == shows("TOOL_QUADTAP", count = 4)
           e6 == shows("TOOL_QUINTTAP", count >= 5)
<1> HIDE DEF shows
<1>9. /\ e1 \in EventTypes /\ e1.code = "BTN_TOUCH" /\ (e1.value = 1 <=> count > 0)
      /\ e2 \in EventTypes /\ e2.code = "TOOL_FINGER" /\ (e2.value = 1 <=> count = 1)
      /\ e3 \in EventTypes /\ e3.code = "TOOL_DOUBLETAP" /\ (e3.value = 1 <=> count = 2)
      /\ e4 \in EventTypes /\ e4.code = "TOOL_TRIPLETAP" /\ (e4.value = 1 <=> count = 3)
      /\ e5 \in EventTypes /\ e5.code = "TOOL_QUADTAP"
      /\ e6 \in EventTypes /\ e6.code = "TOOL_QUINTTAP"
  BY ONLY <1>6, <1>8, Zenon
<1>10. s = <<e1, e2, e3, e4, e5, e6>>
  BY <1>7
<1> HIDE DEF e1, e2, e3, e4, e5, e6
<1>11. /\ s \in Seq(EventTypes) /\ Len(s) = 6
       /\ s[1].code = "BTN_TOUCH" /\ (s[1].value = 1 <=> touching)
       /\ s[2].code = "TOOL_FINGER" /\ (s[2].value = 1 <=> count = 1)
       /\ s[3].code = "TOOL_DOUBLETAP" /\ (s[3].value = 1 <=> count = 2)
       /\ s[4].code = "TOOL_TRIPLETAP" /\ (s[4].value = 1 <=> count = 3)
       /\ s[5].code = "TOOL_QUADTAP" /\ s[6].code = "TOOL_QUINTTAP"
  BY <1>1, <1>9, <1>10
<1>12. r \in NodeStates /\ Alone("relative", d, s, r) /\ KeysLast("relative", s, r)
  BY <1>11, AfterParts
<1> HIDE DEF r
<1>13. \A j \in 1..6 : \A i \in (j + 1)..6 : s[i].code # s[j].code
  BY <1>11
<1>14. \A j \in 1..6 : KeyCode(s[j].code) /\ s[j].code \in LinuxDesktop!Announced("relative")
  BY <1>3, <1>4, <1>5, <1>11
<1>15. \A j \in 1..6 : s[j].code \in r.down <=> s[j].value = 1
  BY <1>11, <1>12, <1>13, <1>14 DEF KeysLast
<1>16. \A x \in {"MT_SLOT", "MT_TRACKING_ID", "MT_POSITION_X", "REL_WHEEL", "BTN_LEFT"} :
         Without(s, x)
  BY <1>11 DEF Without
<1>17. /\ r.slot = d.slot /\ r.touches = d.touches /\ r.at = d.at /\ r.wheel = d.wheel
       /\ "BTN_LEFT" \in r.down <=> "BTN_LEFT" \in d.down
  BY <1>12, <1>16 DEF Alone
<1>18. /\ "BTN_TOUCH" \in r.down <=> touching
       /\ "TOOL_FINGER" \in r.down <=> count = 1
       /\ "TOOL_DOUBLETAP" \in r.down <=> count = 2
       /\ "TOOL_TRIPLETAP" \in r.down <=> count = 3
  BY <1>11, <1>15
<1>19. FingersShown(d, cs, r)
  BY <1>12, <1>17, <1>18 DEF FingersShown, FingersDown, count, touching
<1>20. QED
  BY <1>11, <1>19 DEF r

\* A touchscreen's BTN_TOUCH is down while there is a contact.
LEMMA TouchButtonShows ==
  ASSUME DesktopShape, kind = "touchscreen", NEW d \in NodeStates, NEW cs, NEW v \in 0..1,
         v = 1 <=> LinuxDesktop!Active(cs) # {},
         NEW s, s = <<LinuxDesktop!Event("BTN_TOUCH", v)>>
  PROVE  s \in Seq(EventTypes) /\ FingersShown(d, cs, LinuxDesktop!After("relative", d, s))
<1> DEFINE e == LinuxDesktop!Event("BTN_TOUCH", v)
           r == LinuxDesktop!After("relative", d, <<e>>)
<1>1. TouchDevice
  BY DEF TouchDevice
<1>2. "BTN_TOUCH" \in LinuxDesktop!Announced("relative") \cap Codes /\ KeyCode("BTN_TOUCH")
  <2>1. KeyCode("BTN_TOUCH")
    BY DEF KeyCode, LinuxDesktop!Axes
  <2>2. QED
    BY <1>1, <2>1, TouchNode DEF LinuxDesktop!TouchAxes
<1>3. e \in EventTypes
  BY <1>2, EventTyped DEF KeyCode
<1>4. e.code = "BTN_TOUCH" /\ e.value = v
  BY DEF LinuxDesktop!Event
<1>5. s = <<e>>
  OBVIOUS
<1> HIDE DEF e
<1>6. <<e>> \in Seq(EventTypes) /\ r = LinuxDesktop!Received("relative", d, e)
  BY <1>3, AfterOne
<1> HIDE DEF r
<1>7. r \in NodeStates /\ Parts(d, e, r)
  BY <1>2, <1>3, <1>4, <1>6, ReceivedParts
<1>8. FingersShown(d, cs, r)
  BY <1>2, <1>4, <1>7 DEF Parts, FingersShown, FingersDown
<1>9. QED
  BY <1>5, <1>6, <1>8 DEF r

\* The slots, the touches in them and the contacts.
TouchesFit(d, cs) ==
  /\ \A x \in LinuxDesktop!Slots :
       d.touches[x] # LinuxDesktop!Absent <=> \E c \in Contacts : cs[c] = x
  /\ \A c \in LinuxDesktop!Active(cs) : d.at[cs[c]] = c

OwnSlots(cs) ==
  /\ cs \in [Contacts -> LinuxDesktop!Slots \cup {LinuxDesktop!Absent}]
  /\ \A c, e \in Contacts : cs[c] = cs[e] /\ cs[c] # LinuxDesktop!Absent => c = e

\* slot_for_contact() finds the contact's slot, or one that no contact has.
SlotFor(c, s, to) ==
  /\ s \in LinuxDesktop!Slots
  /\ contacts[c] # LinuxDesktop!Absent => s = contacts[c]
  /\ \A e \in Contacts : e # c => contacts[e] # s
  /\ to = [contacts EXCEPT ![c] = s] /\ OwnSlots(to)
  /\ LinuxDesktop!Active(to) = LinuxDesktop!Active(contacts) \cup {c}

\* The number for no slot is not a slot.
LEMMA NoSlot == LinuxDesktop!DesktopAssumption => LinuxDesktop!Absent \notin LinuxDesktop!Slots
BY DEF LinuxDesktop!DesktopAssumption, LinuxDesktop!Absent, LinuxDesktop!Slots

\* A contact gets its own slot again, a new one a slot that is free.
LEMMA SlotFound ==
  ASSUME DesktopShape, LinuxDesktop!DesktopAssumption, NEW c \in Contacts,
         contacts[c] # LinuxDesktop!Absent \/ LinuxDesktop!FreeSlots # {},
         NEW s, s = LinuxDesktop!SlotOf(c), NEW to, to = [contacts EXCEPT ![c] = s]
  PROVE  SlotFor(c, s, to)
<1>1. OwnSlots(contacts)
  BY DEF DesktopShape, OwnSlots
<1>2. s \in LinuxDesktop!Slots /\ \A e \in Contacts : e # c => contacts[e] # s
  <2>1. CASE contacts[c] # LinuxDesktop!Absent
    <3>1. s = contacts[c]
      BY <2>1 DEF LinuxDesktop!SlotOf
    <3>2. QED
      BY <1>1, <2>1, <3>1 DEF OwnSlots
  <2>2. CASE contacts[c] = LinuxDesktop!Absent
    <3>1. s = CHOOSE x \in LinuxDesktop!FreeSlots : \A t \in LinuxDesktop!FreeSlots : x <= t
      BY <2>2 DEF LinuxDesktop!SlotOf
    <3>2. LinuxDesktop!FreeSlots \in SUBSET LinuxDesktop!Slots /\ LinuxDesktop!FreeSlots # {}
      BY <2>2 DEF LinuxDesktop!FreeSlots
    <3>3. s \in LinuxDesktop!FreeSlots
      BY <3>1, <3>2, LeastSlot
    <3>4. QED
      BY <3>3, NoSlot DEF LinuxDesktop!FreeSlots, LinuxDesktop!Active
  <2>3. QED
    BY <2>1, <2>2
<1>3. contacts[c] # LinuxDesktop!Absent => s = contacts[c]
  BY DEF LinuxDesktop!SlotOf
<1>4. to[c] = s /\ \A e \in Contacts : e # c => to[e] = contacts[e]
  BY <1>1 DEF OwnSlots
<1>5. to \in [Contacts -> LinuxDesktop!Slots \cup {LinuxDesktop!Absent}]
  BY <1>1, <1>2 DEF OwnSlots
<1>6. OwnSlots(to)
  BY <1>1, <1>2, <1>4, <1>5 DEF OwnSlots
<1>7. LinuxDesktop!Active(to) = LinuxDesktop!Active(contacts) \cup {c}
  BY <1>2, <1>4, NoSlot DEF LinuxDesktop!Active
<1>8. QED
  BY <1>2, <1>3, <1>6, <1>7 DEF SlotFor

\* Slots, touches and contacts fit after a contact is placed in its slot.
LEMMA PlacedFits ==
  ASSUME OwnSlots(contacts), LinuxDesktop!DesktopAssumption, NEW c \in Contacts, NEW s, NEW to,
         SlotFor(c, s, to), NEW d \in NodeStates, TouchesFit(d, contacts), NEW r,
         NEW id \in Touches, id # LinuxDesktop!Absent,
         r.at = [d.at EXCEPT ![s] = c],
         r.touches = IF contacts[c] = LinuxDesktop!Absent THEN [d.touches EXCEPT ![s] = id]
                     ELSE d.touches
  PROVE  TouchesFit(r, to)
<1>1. /\ d.touches \in [LinuxDesktop!Slots -> Touches]
      /\ d.at \in [LinuxDesktop!Slots -> Contacts \cup {"nobody"}]
  BY DEF NodeStates
<1>2. /\ s \in LinuxDesktop!Slots /\ s # LinuxDesktop!Absent
      /\ to[c] = s /\ \A e \in Contacts : e # c => to[e] = contacts[e] /\ contacts[e] # s
  BY NoSlot DEF SlotFor, OwnSlots
<1>3. ASSUME NEW x \in LinuxDesktop!Slots
      PROVE  r.touches[x] # LinuxDesktop!Absent <=> \E e \in Contacts : to[e] = x
  <2>1. CASE x = s
    <3>1. r.touches[s] # LinuxDesktop!Absent
      BY <1>1, <1>2 DEF SlotFor, TouchesFit
    <3>2. QED
      BY <1>2, <2>1, <3>1
  <2>2. CASE x # s
    <3>1. r.touches[x] = d.touches[x]
      BY <1>1, <2>2
    <3>2. \A e \in Contacts : to[e] = x <=> contacts[e] = x
      <4>1. contacts[c] # x
        BY <1>2, <1>3, <2>2, NoSlot DEF SlotFor
      <4>2. QED
        BY <1>2, <2>2, <4>1
    <3>3. QED
      BY <3>1, <3>2 DEF TouchesFit
  <2>3. QED
    BY <2>1, <2>2
<1>4. ASSUME NEW e \in LinuxDesktop!Active(to)
      PROVE  r.at[to[e]] = e
  <2>1. e \in Contacts /\ to[e] # LinuxDesktop!Absent
    BY DEF LinuxDesktop!Active
  <2>2. CASE e = c
    BY <1>1, <1>2, <2>2
  <2>3. CASE e # c
    <3>1. to[e] = contacts[e] /\ contacts[e] # s /\ contacts[e] \in LinuxDesktop!Slots
      BY <1>2, <2>1, <2>3 DEF OwnSlots
    <3>2. d.at[contacts[e]] = e
      BY <2>1, <3>1 DEF TouchesFit, LinuxDesktop!Active
    <3>3. QED
      BY <1>1, <3>1, <3>2
  <2>4. QED
    BY <2>2, <2>3
<1>5. QED
  BY <1>3, <1>4 DEF TouchesFit

\* They fit after a contact is released.
LEMMA ReleasedFits ==
  ASSUME OwnSlots(contacts), LinuxDesktop!DesktopAssumption, NEW c \in Contacts,
         contacts[c] # LinuxDesktop!Absent,
         NEW to, to = [contacts EXCEPT ![c] = LinuxDesktop!Absent],
         NEW d \in NodeStates, TouchesFit(d, contacts), NEW r,
         r.at = d.at, r.touches = [d.touches EXCEPT ![contacts[c]] = LinuxDesktop!Absent]
  PROVE  /\ TouchesFit(r, to) /\ OwnSlots(to)
         /\ LinuxDesktop!Active(to) = LinuxDesktop!Active(contacts) \ {c}
<1>1. /\ d.touches \in [LinuxDesktop!Slots -> Touches]
      /\ contacts[c] \in LinuxDesktop!Slots
  BY DEF NodeStates, OwnSlots
<1>2. /\ to \in [Contacts -> LinuxDesktop!Slots \cup {LinuxDesktop!Absent}]
      /\ to[c] = LinuxDesktop!Absent /\ \A e \in Contacts : e # c => to[e] = contacts[e]
      /\ \A e \in Contacts : e # c => contacts[e] # contacts[c]
  BY DEF OwnSlots
<1>3. OwnSlots(to)
  BY <1>2 DEF OwnSlots
<1>4. LinuxDesktop!Active(to) = LinuxDesktop!Active(contacts) \ {c}
  BY <1>2 DEF LinuxDesktop!Active
<1>5. ASSUME NEW x \in LinuxDesktop!Slots
      PROVE  r.touches[x] # LinuxDesktop!Absent <=> \E e \in Contacts : to[e] = x
  <2>1. x # LinuxDesktop!Absent
    BY <1>5, NoSlot
  <2>2. CASE x = contacts[c]
    <3>1. r.touches[x] = LinuxDesktop!Absent
      BY <1>1, <2>2
    <3>2. \A e \in Contacts : to[e] # x
      BY <1>2, <2>1, <2>2
    <3>3. QED
      BY <3>1, <3>2
  <2>3. CASE x # contacts[c]
    <3>1. r.touches[x] = d.touches[x]
      BY <1>1, <2>3
    <3>2. \A e \in Contacts : to[e] = x <=> contacts[e] = x
      BY <1>2, <2>1, <2>3
    <3>3. QED
      BY <3>1, <3>2 DEF TouchesFit
  <2>4. QED
    BY <2>2, <2>3
<1>6. \A e \in LinuxDesktop!Active(to) : r.at[to[e]] = e
  BY <1>2, <1>4 DEF TouchesFit, LinuxDesktop!Active
<1>7. QED
  BY <1>3, <1>4, <1>5, <1>6 DEF TouchesFit

\* The events of place_touch_contact().
PlaceBegin(c, to) ==
  IF contacts[c] # LinuxDesktop!Absent THEN <<>>
  ELSE <<LinuxDesktop!Event("MT_TRACKING_ID", tracking)>>
         \o IF kind = "trackpad"
              THEN LinuxDesktop!ToolButtons(Cardinality(LinuxDesktop!Active(to)))
              ELSE <<LinuxDesktop!Event("BTN_TOUCH", 1)>>

PlaceEvents(c, s, to) ==
  LinuxDesktop!SelectSlot(s) \o PlaceBegin(c, to)
    \o <<LinuxDesktop!Event("MT_POSITION_X", c), LinuxDesktop!Syn>>

PlaceDone(d, c, s, to, r) ==
  /\ r \in NodeStates /\ r.slot = s /\ r.wheel = d.wheel /\ r.synced
  /\ r.at = [d.at EXCEPT ![s] = c]
  /\ r.touches = IF contacts[c] = LinuxDesktop!Absent THEN [d.touches EXCEPT ![s] = tracking]
                 ELSE d.touches
  /\ IF contacts[c] = LinuxDesktop!Absent THEN FingersDown(d, to, r) ELSE r.down = d.down

\* The beginning of place_contact(): a new contact begins a touch and shows one finger more.
LEMMA PlaceBegins ==
  ASSUME DesktopShape, LinuxDesktop!DesktopAssumption, TouchDevice, NEW c \in Contacts,
         NEW s, NEW to, SlotFor(c, s, to), NEW d \in NodeStates
  PROVE  LET q == PlaceBegin(c, to)
             r == LinuxDesktop!After("relative", d, q)
         IN /\ q \in Seq(EventTypes) /\ r \in NodeStates
            /\ r.slot = d.slot /\ r.at = d.at /\ r.wheel = d.wheel
            /\ r.touches = IF contacts[c] = LinuxDesktop!Absent
                             THEN [d.touches EXCEPT ![d.slot] = tracking] ELSE d.touches
            /\ IF contacts[c] = LinuxDesktop!Absent THEN FingersDown(d, to, r) ELSE r.down = d.down
<1> DEFINE q == PlaceBegin(c, to)
           r == LinuxDesktop!After("relative", d, q)
<1>1. CASE contacts[c] # LinuxDesktop!Absent
  <2>1. q = <<>>
    BY <1>1 DEF PlaceBegin
  <2>2. <<>> \in Seq(EventTypes)
    BY EmptySeq
  <2>3. LinuxDesktop!After("relative", d, <<>>) = d
    BY <2>2, AfterEvents
  <2>4. q \in Seq(EventTypes) /\ r = d
    BY <2>1, <2>2, <2>3
  <2> HIDE DEF q, r
  <2>5. QED
    BY <1>1, <2>4 DEF q, r
<1>2. CASE contacts[c] = LinuxDesktop!Absent
  <2> DEFINE id == <<LinuxDesktop!Event("MT_TRACKING_ID", tracking)>>
             shown1 == IF kind = "trackpad"
                         THEN LinuxDesktop!ToolButtons(Cardinality(LinuxDesktop!Active(to)))
                         ELSE <<LinuxDesktop!Event("BTN_TOUCH", 1)>>
             b == LinuxDesktop!After("relative", d, id)
  <2>1. q = id \o shown1
    BY <1>2 DEF PlaceBegin
  <2>2. id \in Seq(EventTypes) /\ Tracked(d, tracking, b)
    <3>1. tracking \in Touches \cap Int
      BY DEF DesktopShape, Touches, LinuxDesktop!DesktopAssumption
    <3>2. QED
      BY <3>1, TrackTracks
  <2> HIDE DEF b, id
  <2>3. b \in NodeStates
    BY <2>2 DEF Tracked
  <2>4. shown1 \in Seq(EventTypes)
          /\ FingersShown(b, to, LinuxDesktop!After("relative", b, shown1))
    <3>1. OwnSlots(to) /\ c \in LinuxDesktop!Active(to)
      BY DEF SlotFor
    <3>2. CASE kind = "trackpad"
      <4>1. shown1 = LinuxDesktop!ToolButtons(Cardinality(LinuxDesktop!Active(to)))
        BY <3>2
      <4> HIDE DEF shown1
      <4>2. QED
        BY <2>3, <3>1, <3>2, <4>1, ToolButtonsShow DEF OwnSlots
    <3>3. CASE kind # "trackpad"
      <4>1. shown1 = <<LinuxDesktop!Event("BTN_TOUCH", 1)>> /\ kind = "touchscreen"
        BY <3>3 DEF TouchDevice
      <4>2. 1 \in 0..1 /\ (1 = 1 <=> LinuxDesktop!Active(to) # {})
        BY <3>1
      <4> HIDE DEF shown1
      <4>3. QED
        BY <2>3, <4>1, <4>2, TouchButtonShows
    <3>4. QED
      BY <3>2, <3>3
  <2> HIDE DEF shown1
  <2>5. q \in Seq(EventTypes) /\ r = LinuxDesktop!After("relative", b, shown1)
    <3>1. /\ id \o shown1 \in Seq(EventTypes)
          /\ LinuxDesktop!After("relative", d, id \o shown1) =
               LinuxDesktop!After("relative", b, shown1)
      BY <2>2, <2>4, AfterBoth DEF b
    <3>2. QED
      BY <2>1, <3>1
  <2> HIDE DEF q, r
  <2>6. FingersShown(b, to, r)
    BY <2>4, <2>5
  <2>7. FingersDown(d, to, r)
    BY <2>2, <2>6 DEF Tracked, FingersShown, FingersDown
  <2>8. QED
    BY <1>2, <2>2, <2>5, <2>6, <2>7 DEF Tracked, FingersShown, q, r
<1>3. QED
  BY <1>1, <1>2

\* Events in three parts are received one part after the other.
LEMMA AfterThree ==
  ASSUME NEW node, NEW d \in NodeStates, NEW s \in Seq(EventTypes), NEW t \in Seq(EventTypes),
         NEW u \in Seq(EventTypes)
  PROVE  /\ s \o t \o u \in Seq(EventTypes)
         /\ LinuxDesktop!After(node, d, s \o t \o u) =
              LinuxDesktop!After(node,
                LinuxDesktop!After(node, LinuxDesktop!After(node, d, s), t), u)
<1>1. SUFFICES ASSUME NEW both, both = s \o t
               PROVE  /\ both \o u \in Seq(EventTypes)
                      /\ LinuxDesktop!After(node, d, both \o u) =
                           LinuxDesktop!After(node,
                             LinuxDesktop!After(node, LinuxDesktop!After(node, d, s), t), u)
  OBVIOUS
<1>2. /\ both \in Seq(EventTypes)
      /\ LinuxDesktop!After(node, d, both) =
           LinuxDesktop!After(node, LinuxDesktop!After(node, d, s), t)
  <2>1. /\ s \o t \in Seq(EventTypes)
        /\ LinuxDesktop!After(node, d, s \o t) =
             LinuxDesktop!After(node, LinuxDesktop!After(node, d, s), t)
    BY AfterBoth
  <2>2. QED
    BY <1>1, <2>1
<1>3. /\ both \o u \in Seq(EventTypes)
      /\ LinuxDesktop!After(node, d, both \o u) =
           LinuxDesktop!After(node, LinuxDesktop!After(node, d, both), u)
  BY <1>2, AfterBoth
<1>4. QED
  BY <1>2, <1>3

\* What the node has after the events of place_contact().
LEMMA PlaceWrites ==
  ASSUME DesktopShape, LinuxDesktop!DesktopAssumption, TouchDevice, NEW c \in Contacts,
         NEW s, NEW to, SlotFor(c, s, to), NEW d \in NodeStates,
         slot # LinuxDesktop!Absent => d.slot = slot
  PROVE  /\ PlaceEvents(c, s, to) \in Seq(EventTypes)
         /\ PlaceDone(d, c, s, to, LinuxDesktop!After("relative", d, PlaceEvents(c, s, to)))
<1> DEFINE select == LinuxDesktop!SelectSlot(s)
           begin == PlaceBegin(c, to)
           end == <<LinuxDesktop!Event("MT_POSITION_X", c), LinuxDesktop!Syn>>
           d1 == LinuxDesktop!After("relative", d, select)
           d2 == LinuxDesktop!After("relative", d1, begin)
           d3 == LinuxDesktop!After("relative", d2, end)
<1>1. s \in LinuxDesktop!Slots
  BY DEF SlotFor
<1>2. select \in Seq(EventTypes) /\ Selected(d, s, d1)
  BY <1>1, SelectSelects
<1> HIDE DEF d1
<1>3. /\ begin \in Seq(EventTypes) /\ d2 \in NodeStates
      /\ d2.slot = d1.slot /\ d2.at = d1.at /\ d2.wheel = d1.wheel
      /\ d2.touches = IF contacts[c] = LinuxDesktop!Absent
                        THEN [d1.touches EXCEPT ![d1.slot] = tracking] ELSE d1.touches
      /\ IF contacts[c] = LinuxDesktop!Absent THEN FingersDown(d1, to, d2) ELSE d2.down = d1.down
  <2>1. d1 \in NodeStates
    BY <1>2 DEF Selected
  <2>2. QED
    BY <2>1, PlaceBegins
<1> HIDE DEF d2
<1>4. end \in Seq(EventTypes) /\ Placed(d2, c, d3) /\ d3.synced
  BY <1>3, PlaceEnds
<1> HIDE DEF d3, select, begin, end
<1>5. /\ PlaceEvents(c, s, to) \in Seq(EventTypes)
      /\ LinuxDesktop!After("relative", d, PlaceEvents(c, s, to)) = d3
  <2>1. /\ select \o begin \o end \in Seq(EventTypes)
        /\ LinuxDesktop!After("relative", d, select \o begin \o end) = d3
    BY <1>2, <1>3, <1>4, AfterThree DEF d1, d2, d3
  <2>2. QED
    BY <2>1 DEF PlaceEvents, select, begin, end
<1>6. FingersDown(d1, to, d2) => FingersDown(d, to, d3)
  BY <1>2, <1>4 DEF Selected, Placed, FingersDown
<1>7. PlaceDone(d, c, s, to, d3)
  BY <1>2, <1>3, <1>4, <1>6 DEF Selected, Placed, PlaceDone
<1>8. QED
  BY <1>5, <1>7

\* The events of release_touch_contact().
ReleaseEnd(to) ==
  IF kind = "trackpad" THEN LinuxDesktop!ToolButtons(Cardinality(LinuxDesktop!Active(to)))
  ELSE IF LinuxDesktop!Active(to) = {} THEN <<LinuxDesktop!Event("BTN_TOUCH", 0)>> ELSE <<>>

ReleaseEvents(s, to) ==
  LinuxDesktop!SelectSlot(s) \o <<LinuxDesktop!Event("MT_TRACKING_ID", LinuxDesktop!Absent)>>
    \o ReleaseEnd(to) \o <<LinuxDesktop!Syn>>

ReleaseDone(d, s, to, r) ==
  /\ r \in NodeStates /\ r.slot = s /\ r.wheel = d.wheel /\ r.synced
  /\ r.at = d.at /\ r.touches = [d.touches EXCEPT ![s] = LinuxDesktop!Absent]
  /\ FingersDown(d, to, r)

\* The end of release_touch_contact() shows the fingers that are left.
LEMMA ReleaseShows ==
  ASSUME DesktopShape, LinuxDesktop!DesktopAssumption, TouchDevice, NEW to, OwnSlots(to),
         NEW d \in NodeStates, "BTN_TOUCH" \in d.down
  PROVE  /\ ReleaseEnd(to) \in Seq(EventTypes)
         /\ FingersShown(d, to, LinuxDesktop!After("relative", d, ReleaseEnd(to)))
<1> DEFINE q == ReleaseEnd(to)
<1>1. CASE kind = "trackpad"
  <2>1. q = LinuxDesktop!ToolButtons(Cardinality(LinuxDesktop!Active(to)))
    BY <1>1 DEF ReleaseEnd
  <2> HIDE DEF q
  <2>2. q \in Seq(EventTypes) /\ FingersShown(d, to, LinuxDesktop!After("relative", d, q))
    BY <1>1, <2>1, ToolButtonsShow DEF OwnSlots
  <2>3. QED
    BY <2>2 DEF q
<1>2. CASE kind = "touchscreen" /\ LinuxDesktop!Active(to) = {}
  <2>1. q = <<LinuxDesktop!Event("BTN_TOUCH", 0)>>
    BY <1>2 DEF ReleaseEnd
  <2>2. 0 \in 0..1 /\ (0 = 1 <=> LinuxDesktop!Active(to) # {})
    BY <1>2
  <2> HIDE DEF q
  <2>3. q \in Seq(EventTypes) /\ FingersShown(d, to, LinuxDesktop!After("relative", d, q))
    BY <1>2, <2>1, <2>2, TouchButtonShows
  <2>4. QED
    BY <2>3 DEF q
<1>3. CASE kind = "touchscreen" /\ LinuxDesktop!Active(to) # {}
  <2>1. q = <<>>
    BY <1>3 DEF ReleaseEnd
  <2>2. <<>> \in Seq(EventTypes)
    BY EmptySeq
  <2>3. LinuxDesktop!After("relative", d, <<>>) = d
    BY <2>2, AfterEvents
  <2>4. FingersShown(d, to, d)
    BY <1>3 DEF FingersShown, FingersDown
  <2>5. QED
    BY <2>1, <2>2, <2>3, <2>4
<1>4. QED
  BY <1>1, <1>2, <1>3 DEF TouchDevice

\* What the node has after the events of release_touch_contact().
LEMMA ReleaseWrites ==
  ASSUME DesktopShape, LinuxDesktop!DesktopAssumption, TouchDevice, NEW s \in LinuxDesktop!Slots,
         NEW to, OwnSlots(to), NEW d \in NodeStates, slot # LinuxDesktop!Absent => d.slot = slot,
         "BTN_TOUCH" \in d.down
  PROVE  /\ ReleaseEvents(s, to) \in Seq(EventTypes)
         /\ ReleaseDone(d, s, to, LinuxDesktop!After("relative", d, ReleaseEvents(s, to)))
<1> DEFINE select == LinuxDesktop!SelectSlot(s)
           none == <<LinuxDesktop!Event("MT_TRACKING_ID", LinuxDesktop!Absent)>>
           end == ReleaseEnd(to)
           d1 == LinuxDesktop!After("relative", d, select)
           d2 == LinuxDesktop!After("relative", d1, none)
           d3 == LinuxDesktop!After("relative", d2, end)
           d4 == LinuxDesktop!Received("relative", d3, LinuxDesktop!Syn)
<1>1. select \in Seq(EventTypes) /\ Selected(d, s, d1)
  BY SelectSelects
<1> HIDE DEF d1
<1>2. none \in Seq(EventTypes) /\ Tracked(d1, LinuxDesktop!Absent, d2)
  <2>1. d1 \in NodeStates /\ LinuxDesktop!Absent \in Touches \cap Int
    BY <1>1 DEF Selected, Touches, LinuxDesktop!Absent
  <2>2. QED
    BY <2>1, TrackTracks
<1> HIDE DEF d2
<1>3. end \in Seq(EventTypes) /\ FingersShown(d2, to, d3)
  <2>1. d2 \in NodeStates /\ "BTN_TOUCH" \in d2.down
    BY <1>1, <1>2 DEF Selected, Tracked
  <2>2. QED
    BY <2>1, ReleaseShows
<1> HIDE DEF d3, select, none, end
<1>4. d4 \in NodeStates /\ d4.synced /\ SameParts(d3, d4)
  <2>1. LinuxDesktop!Syn.code = "SYN"
    BY DEF LinuxDesktop!Event, LinuxDesktop!Syn
  <2>2. d3 \in NodeStates
    BY <1>3 DEF FingersShown
  <2>3. QED
    BY <2>1, <2>2, ReceivedElse
<1>5. /\ ReleaseEvents(s, to) \in Seq(EventTypes)
      /\ LinuxDesktop!After("relative", d, ReleaseEvents(s, to)) = d4
  <2> DEFINE body == select \o none \o end
  <2>1. body \in Seq(EventTypes) /\ LinuxDesktop!After("relative", d, body) = d3
    BY <1>1, <1>2, <1>3, AfterThree DEF d1, d2, d3
  <2>2. LinuxDesktop!Syn \in EventTypes
    BY SomeCodes, EventTyped
  <2>3. d3 \in NodeStates
    BY <1>3 DEF FingersShown
  <2>4. /\ <<LinuxDesktop!Syn>> \in Seq(EventTypes)
        /\ LinuxDesktop!After("relative", d3, <<LinuxDesktop!Syn>>) = d4
    BY <2>2, <2>3, AfterOne
  <2> DEFINE last1 == <<LinuxDesktop!Syn>>
  <2>5. ReleaseEvents(s, to) = body \o last1
    BY DEF ReleaseEvents, select, none, end
  <2> HIDE DEF body, d4, last1
  <2>6. /\ body \o last1 \in Seq(EventTypes)
        /\ LinuxDesktop!After("relative", d, body \o last1) = d4
    <3>1. last1 \in Seq(EventTypes) /\ LinuxDesktop!After("relative", d3, last1) = d4
      BY <2>4 DEF last1
    <3>2. QED
      BY <2>1, <3>1, AfterBoth
  <2>7. QED
    BY <2>5, <2>6
<1> HIDE DEF d4
<1>6. FingersDown(d, to, d4)
  BY <1>1, <1>2, <1>3, <1>4 DEF Selected, Tracked, FingersShown, FingersDown, SameParts
<1>7. ReleaseDone(d, s, to, d4)
  BY <1>1, <1>2, <1>3, <1>4, <1>6 DEF Selected, Tracked, FingersShown, SameParts, ReleaseDone
<1>8. QED
  BY <1>5, <1>7

\* What a touch call has to leave for the rest of the invariant.
TouchDone(d) ==
  /\ kernel'["relative"] = d /\ d \in NodeStates /\ d.wheel = kernel["relative"].wheel /\ d.synced
  /\ \A m \in LinuxDesktop!Sinks : m # "relative" => kernel'[m] = kernel[m]
  /\ UNCHANGED <<kind, via, lastMotion, buttons, remainder, travelled, tool>>
  /\ d.slot = slot' /\ TouchesFit(d, contacts')
  /\ "BTN_TOUCH" \in d.down <=> LinuxDesktop!Active(contacts') # {}
  /\ held' \ {"BTN_LEFT"} = LinuxDesktop!Active(contacts')
  /\ kind = "trackpad" =>
       LET count == Cardinality(LinuxDesktop!Active(contacts')) IN
       /\ "BTN_LEFT" \in d.down <=> "BTN_LEFT" \in held'
       /\ "TOOL_FINGER" \in d.down <=> count = 1
       /\ "TOOL_DOUBLETAP" \in d.down <=> count = 2
       /\ "TOOL_TRIPLETAP" \in d.down <=> count = 3

\* Contacts that fit are shown.
LEMMA TouchDoneShows ==
  ASSUME DesktopShape, DesktopShown, TouchDevice, NEW d, TouchDone(d)
  PROVE  DesktopShown'
<1>1. via # "xtest" /\ Node = "relative" /\ Node' = "relative" /\ kind' = kind
  BY TouchNode DEF TouchDone, Node
<1>2. NothingElsewhere'
  BY <1>1 DEF TouchDone, TouchDevice, DesktopShown, NothingElsewhere
<1>3. KeysDown' /\ MouseDown' /\ PenThere'
  BY <1>1 DEF TouchDevice, KeysDown, MouseDown, PenThere
<1>4. TouchesThere'
  <2>1. LinuxDesktop!Active(contacts)' = LinuxDesktop!Active(contacts')
    BY DEF LinuxDesktop!Active
  <2>2. QED
    BY <1>1, <2>1 DEF TouchDone, TouchesFit, TouchesThere
<1>5. WheelTurned' /\ AllSynced'
  BY DEF TouchDone, DesktopShown, WheelTurned, AllSynced, LinuxDesktop!Sinks, LinuxDesktop!Nodes
<1>6. QED
  BY <1>2, <1>3, <1>4, <1>5 DEF DesktopShown

\* The two calls, with their events.
PlaceCall(c, s, to, n) ==
  /\ TouchDevice
  /\ contacts[c] # LinuxDesktop!Absent \/ LinuxDesktop!FreeSlots # {}
  /\ contacts[c] = LinuxDesktop!Absent => tracking < MaxTouches
  /\ LinuxDesktop!Write("relative", PlaceEvents(c, s, to), n)
  /\ contacts' = to /\ slot' = s
  /\ tracking' = IF contacts[c] = LinuxDesktop!Absent /\ n >= Len(LinuxDesktop!SelectSlot(s))
                 THEN tracking + 1 ELSE tracking
  /\ held' = IF n = Len(PlaceEvents(c, s, to)) THEN held \cup {c} ELSE held
  /\ UNCHANGED <<kind, via, lastMotion, buttons, remainder, travelled, tool>>

\* The instance counts contacts as this module does.
LEMMA CountHere ==
  ASSUME NEW S
  PROVE  LinuxDesktop!Cardinality(S) = Cardinality(S)
BY DEF LinuxDesktop!Cardinality, Cardinality

\* place_contact() as an event sequence that is written.
LEMMA PlaceWriting ==
  ASSUME NEW c, NEW n, LinuxDesktop!PlaceContact(c, n)
  PROVE
  LET to == [contacts EXCEPT ![c] = LinuxDesktop!SlotOf(c)]
      raw == LinuxDesktop!SelectSlot(LinuxDesktop!SlotOf(c))
                    \o (IF ~(contacts[c] = LinuxDesktop!Absent) THEN <<>>
                        ELSE <<LinuxDesktop!Event("MT_TRACKING_ID", tracking)>>
                          \o (IF kind = "trackpad"
                                THEN LinuxDesktop!ToolButtons(LinuxDesktop!Cardinality(LinuxDesktop!Active(to)))
                                ELSE <<LinuxDesktop!Event("BTN_TOUCH", 1)>>))
                    \o <<LinuxDesktop!Event("MT_POSITION_X", c), LinuxDesktop!Syn>>
  IN LinuxDesktop!Write("relative", raw, n)
       /\ held' = IF n = Len(raw) THEN LinuxDesktop!HeldAfter(c, TRUE) ELSE held
BY DEF LinuxDesktop!PlaceContact

\* The same, by the names of its parts.
LEMMA PlaceCalls ==
  ASSUME NEW c, NEW n, LinuxDesktop!PlaceContact(c, n)
  PROVE  PlaceCall(c, LinuxDesktop!SlotOf(c), [contacts EXCEPT ![c] = LinuxDesktop!SlotOf(c)], n)
<1> DEFINE s == LinuxDesktop!SlotOf(c)
           to == [contacts EXCEPT ![c] = s]
           raw == LinuxDesktop!SelectSlot(LinuxDesktop!SlotOf(c))
                    \o (IF ~(contacts[c] = LinuxDesktop!Absent) THEN <<>>
                        ELSE <<LinuxDesktop!Event("MT_TRACKING_ID", tracking)>>
                          \o (IF kind = "trackpad"
                                THEN LinuxDesktop!ToolButtons(LinuxDesktop!Cardinality(LinuxDesktop!Active(to)))
                                ELSE <<LinuxDesktop!Event("BTN_TOUCH", 1)>>))
                    \o <<LinuxDesktop!Event("MT_POSITION_X", c), LinuxDesktop!Syn>>
<1>1. TouchDevice /\ (contacts[c] # LinuxDesktop!Absent \/ LinuxDesktop!FreeSlots # {})
  BY DEF LinuxDesktop!PlaceContact, TouchDevice
<1>2. /\ contacts[c] = LinuxDesktop!Absent => tracking < MaxTouches
      /\ contacts' = to /\ slot' = s
  BY DEF LinuxDesktop!PlaceContact
<1>3. tracking' = IF contacts[c] = LinuxDesktop!Absent /\ n >= Len(LinuxDesktop!SelectSlot(s))
                  THEN tracking + 1 ELSE tracking
  BY DEF LinuxDesktop!PlaceContact
<1>4. UNCHANGED <<kind, via, lastMotion, buttons, remainder, travelled, tool>>
  BY DEF LinuxDesktop!PlaceContact, LinuxDesktop!mouseVars
<1>5. /\ LinuxDesktop!Write("relative", raw, n)
      /\ held' = IF n = Len(raw) THEN LinuxDesktop!HeldAfter(c, TRUE) ELSE held
  BY PlaceWriting
<1>6. raw = PlaceEvents(c, s, to)
  BY CountHere DEF PlaceEvents, PlaceBegin
<1> HIDE DEF raw, to, s
<1>7. /\ LinuxDesktop!Write("relative", PlaceEvents(c, s, to), n)
      /\ held' = IF n = Len(PlaceEvents(c, s, to)) THEN held \cup {c} ELSE held
  BY <1>5, <1>6 DEF LinuxDesktop!HeldAfter
<1>8. PlaceCall(c, s, to, n)
  BY <1>1, <1>2, <1>3, <1>4, <1>7 DEF PlaceCall
<1>9. QED
  BY <1>8 DEF s, to

ReleaseCall(c, s, to, n) ==
  /\ TouchDevice
  /\ contacts[c] # LinuxDesktop!Absent
  /\ LinuxDesktop!Write("relative", ReleaseEvents(s, to), n)
  /\ contacts' = IF n >= Len(LinuxDesktop!SelectSlot(s)) THEN to ELSE contacts
  /\ slot' = s
  /\ held' = IF n = Len(ReleaseEvents(s, to)) THEN held \ {c} ELSE held
  /\ UNCHANGED <<kind, via, tracking, lastMotion, buttons, remainder, travelled, tool>>

\* release_touch_contact() as an event sequence that is written.
LEMMA ReleaseWriting ==
  ASSUME NEW c, NEW n, LinuxDesktop!ReleaseContact(c, n)
  PROVE
  LET to == [contacts EXCEPT ![c] = LinuxDesktop!Absent]
      raw == LinuxDesktop!SelectSlot(contacts[c])
                    \o <<LinuxDesktop!Event("MT_TRACKING_ID", LinuxDesktop!Absent)>>
                    \o (IF kind = "trackpad"
                         THEN LinuxDesktop!ToolButtons(LinuxDesktop!Cardinality(LinuxDesktop!Active(to)))
                         ELSE IF LinuxDesktop!Active(to) = {}
                              THEN <<LinuxDesktop!Event("BTN_TOUCH", 0)>> ELSE <<>>)
                    \o <<LinuxDesktop!Syn>>
  IN LinuxDesktop!Write("relative", raw, n)
       /\ held' = IF n = Len(raw) THEN LinuxDesktop!HeldAfter(c, FALSE) ELSE held
BY DEF LinuxDesktop!ReleaseContact

\* The same, by the names of its parts.
LEMMA ReleaseCalls ==
  ASSUME NEW c, NEW n, LinuxDesktop!ReleaseContact(c, n)
  PROVE  ReleaseCall(c, contacts[c], [contacts EXCEPT ![c] = LinuxDesktop!Absent], n)
<1> DEFINE s == contacts[c]
           to == [contacts EXCEPT ![c] = LinuxDesktop!Absent]
           raw == LinuxDesktop!SelectSlot(contacts[c])
                    \o <<LinuxDesktop!Event("MT_TRACKING_ID", LinuxDesktop!Absent)>>
                    \o (IF kind = "trackpad"
                         THEN LinuxDesktop!ToolButtons(LinuxDesktop!Cardinality(LinuxDesktop!Active(to)))
                         ELSE IF LinuxDesktop!Active(to) = {}
                              THEN <<LinuxDesktop!Event("BTN_TOUCH", 0)>> ELSE <<>>)
                    \o <<LinuxDesktop!Syn>>
<1>1. TouchDevice /\ contacts[c] # LinuxDesktop!Absent
  BY DEF LinuxDesktop!ReleaseContact, TouchDevice
<1>2. contacts' = (IF n >= Len(LinuxDesktop!SelectSlot(s)) THEN to ELSE contacts) /\ slot' = s
  BY DEF LinuxDesktop!ReleaseContact
<1>3. UNCHANGED <<kind, via, tracking, lastMotion, buttons, remainder, travelled, tool>>
  BY DEF LinuxDesktop!ReleaseContact, LinuxDesktop!mouseVars
<1>4. /\ LinuxDesktop!Write("relative", raw, n)
      /\ held' = IF n = Len(raw) THEN LinuxDesktop!HeldAfter(c, FALSE) ELSE held
  BY ReleaseWriting
<1>5. raw = ReleaseEvents(s, to)
  BY CountHere DEF ReleaseEvents, ReleaseEnd
<1> HIDE DEF raw, to, s
<1>6. /\ LinuxDesktop!Write("relative", ReleaseEvents(s, to), n)
      /\ held' = IF n = Len(ReleaseEvents(s, to)) THEN held \ {c} ELSE held
  BY <1>4, <1>5 DEF LinuxDesktop!HeldAfter
<1>7. ReleaseCall(c, s, to, n)
  BY <1>1, <1>2, <1>3, <1>6 DEF ReleaseCall
<1>8. QED
  BY <1>7 DEF s, to

\* place_contact() keeps the invariant, for a new contact and for one that moves.
LEMMA PlaceContactKeeps ==
  ASSUME DesktopInv, LinuxDesktop!DesktopAssumption, NEW c \in Contacts, NEW n,
         LinuxDesktop!PlaceContact(c, n)
  PROVE  DesktopInv'
<1> DEFINE s == LinuxDesktop!SlotOf(c)
           to == [contacts EXCEPT ![c] = s]
           events == PlaceEvents(c, s, to)
           d == kernel["relative"]
           select == LinuxDesktop!SelectSlot(s)
<1>1. /\ TouchDevice
      /\ contacts[c] # LinuxDesktop!Absent \/ LinuxDesktop!FreeSlots # {}
      /\ contacts[c] = LinuxDesktop!Absent => tracking < MaxTouches
      /\ LinuxDesktop!Write("relative", events, n)
      /\ contacts' = to /\ slot' = s
      /\ tracking' = IF contacts[c] = LinuxDesktop!Absent /\ n >= Len(select)
                     THEN tracking + 1 ELSE tracking
      /\ held' = IF n = Len(events) THEN held \cup {c} ELSE held
      /\ UNCHANGED <<kind, via, lastMotion, buttons, remainder, travelled, tool>>
  <2>1. PlaceCall(c, s, to, n)
    BY PlaceCalls
  <2> HIDE DEF s, to
  <2>2. QED
    BY <2>1 DEF PlaceCall
<1> HIDE DEF events, select
<1>2. DesktopShape /\ OwnSlots(contacts) /\ d \in NodeStates
  <2>1. DesktopShape
    BY DEF DesktopInv
  <2>2. "relative" \in LinuxDesktop!Sinks
    BY <1>1, <2>1, TouchNode
  <2>3. QED
    BY <1>1, <2>1, <2>2 DEF DesktopShape, OwnSlots
<1>3. SlotFor(c, s, to)
  BY <1>1, <1>2, SlotFound
<1> HIDE DEF s, to
<1>4. events \in Seq(EventTypes)
  <2>1. PICK b \in NodeStates : slot # LinuxDesktop!Absent => b.slot = slot
    <3>1. [d EXCEPT !.slot = IF slot = LinuxDesktop!Absent THEN @ ELSE slot] \in NodeStates
      BY <1>2 DEF NodeStates, DesktopShape
    <3>2. QED
      BY <1>2, <3>1 DEF NodeStates
  <2>2. QED
    BY <1>1, <1>2, <1>3, <2>1, PlaceWrites DEF events
<1>5. /\ via # "xtest" /\ "relative" \in LinuxDesktop!Sinks
  BY <1>1, <1>2, TouchNode
<1>6. WrittenTo("relative", events, n)
  BY <1>1, <1>2, <1>4, <1>5, Written
<1>7. failed' \in BOOLEAN
  BY <1>6, FailedBoolean
<1>8. tracking' \in 0..MaxTouches
  BY <1>1, <1>2 DEF DesktopShape, LinuxDesktop!DesktopAssumption
<1>9. OwnSlots(to) /\ s \in LinuxDesktop!Slots
  BY <1>3 DEF SlotFor
<1>10. DesktopShape'
  BY <1>1, <1>2, <1>6, <1>7, <1>8, <1>9 DEF WrittenTo, DesktopShape, OwnSlots
<1>11. ASSUME ~failed'
       PROVE  DesktopShown'
  <2>1. /\ ~failed /\ DesktopShown /\ n = Len(events)
        /\ kernel'["relative"] = LinuxDesktop!After("relative", d, events)
        /\ \A m \in LinuxDesktop!Sinks : m # "relative" => kernel'[m] = kernel[m]
    BY <1>6, <1>11 DEF WrittenTo, Wrote, DesktopInv
  <2> DEFINE r == kernel'["relative"]
             active == LinuxDesktop!Active(contacts)
  <2>2. /\ slot # LinuxDesktop!Absent => d.slot = slot
        /\ TouchesFit(d, contacts)
        /\ "BTN_TOUCH" \in d.down <=> active # {}
        /\ held \ {"BTN_LEFT"} = active
        /\ kind = "trackpad" =>
             /\ "BTN_LEFT" \in d.down <=> "BTN_LEFT" \in held
             /\ "TOOL_FINGER" \in d.down <=> Cardinality(active) = 1
             /\ "TOOL_DOUBLETAP" \in d.down <=> Cardinality(active) = 2
             /\ "TOOL_TRIPLETAP" \in d.down <=> Cardinality(active) = 3
    BY <1>1, <2>1 DEF TouchDevice, DesktopShown, TouchesThere, TouchesFit
  <2>3. PlaceDone(d, c, s, to, r)
    BY <1>1, <1>2, <1>3, <2>1, <2>2, PlaceWrites DEF events
  <2>4. TouchesFit(r, to)
    <3>1. tracking \in Touches /\ tracking # LinuxDesktop!Absent
      BY <1>2 DEF DesktopShape, Touches, LinuxDesktop!Absent, LinuxDesktop!DesktopAssumption
    <3>2. QED
      BY <1>2, <1>3, <2>2, <2>3, <3>1, PlacedFits DEF PlaceDone
  <2>5. LinuxDesktop!Active(to) = active \cup {c} /\ c # "BTN_LEFT"
    BY <1>3 DEF SlotFor, LinuxDesktop!DesktopAssumption
  <2>6. held' \ {"BTN_LEFT"} = LinuxDesktop!Active(to)
          /\ ("BTN_LEFT" \in held' <=> "BTN_LEFT" \in held)
    BY <1>1, <2>1, <2>2, <2>5
  <2> HIDE DEF r
  <2>7. /\ "BTN_TOUCH" \in r.down <=> LinuxDesktop!Active(to) # {}
        /\ kind = "trackpad" =>
             LET count == Cardinality(LinuxDesktop!Active(to)) IN
             /\ "BTN_LEFT" \in r.down <=> "BTN_LEFT" \in held'
             /\ "TOOL_FINGER" \in r.down <=> count = 1
             /\ "TOOL_DOUBLETAP" \in r.down <=> count = 2
             /\ "TOOL_TRIPLETAP" \in r.down <=> count = 3
    <3>1. CASE contacts[c] = LinuxDesktop!Absent
      <4>1. FingersDown(d, to, r)
        BY <2>3, <3>1 DEF PlaceDone
      <4>2. QED
        BY <2>2, <2>6, <4>1 DEF FingersDown
    <3>2. CASE contacts[c] # LinuxDesktop!Absent
      <4>1. r.down = d.down
        BY <2>3, <3>2 DEF PlaceDone
      <4>2. LinuxDesktop!Active(to) = active
        BY <2>5, <3>2 DEF LinuxDesktop!Active
      <4> HIDE DEF active
      <4>3. QED
        BY <2>2, <2>6, <4>1, <4>2
    <3>3. QED
      BY <3>1, <3>2
  <2>8. TouchDone(r)
    BY <1>1, <2>1, <2>3, <2>4, <2>6, <2>7 DEF PlaceDone, TouchDone, r
  <2>9. QED
    BY <1>1, <1>2, <2>1, <2>8, TouchDoneShows
<1>12. QED
  BY <1>10, <1>11 DEF DesktopInv

\* release_touch_contact() keeps it.
LEMMA ReleaseContactKeeps ==
  ASSUME DesktopInv, LinuxDesktop!DesktopAssumption, NEW c \in Contacts, NEW n,
         LinuxDesktop!ReleaseContact(c, n)
  PROVE  DesktopInv'
<1> DEFINE s == contacts[c]
           to == [contacts EXCEPT ![c] = LinuxDesktop!Absent]
           events == ReleaseEvents(s, to)
           d == kernel["relative"]
           select == LinuxDesktop!SelectSlot(s)
<1>1. /\ TouchDevice /\ contacts[c] # LinuxDesktop!Absent
      /\ LinuxDesktop!Write("relative", events, n)
      /\ contacts' = IF n >= Len(select) THEN to ELSE contacts
      /\ slot' = s
      /\ held' = IF n = Len(events) THEN held \ {c} ELSE held
      /\ UNCHANGED <<kind, via, tracking, lastMotion, buttons, remainder, travelled, tool>>
  <2>1. ReleaseCall(c, s, to, n)
    BY ReleaseCalls
  <2> HIDE DEF to
  <2>2. QED
    BY <2>1 DEF ReleaseCall
<1> HIDE DEF events, select
<1>2. DesktopShape /\ OwnSlots(contacts) /\ d \in NodeStates /\ s \in LinuxDesktop!Slots
  <2>1. DesktopShape
    BY DEF DesktopInv
  <2>2. "relative" \in LinuxDesktop!Sinks
    BY <1>1, <2>1, TouchNode
  <2>3. QED
    BY <1>1, <2>1, <2>2 DEF DesktopShape, OwnSlots
<1>3. OwnSlots(to)
  BY <1>2 DEF OwnSlots
<1>4. select \in Seq(EventTypes) /\ events \in Seq(EventTypes) /\ Len(select) <= Len(events)
  <2>1. PICK b \in NodeStates : /\ slot # LinuxDesktop!Absent => b.slot = slot
                                /\ "BTN_TOUCH" \in b.down
    <3>1. [d EXCEPT !.slot = IF slot = LinuxDesktop!Absent THEN @ ELSE slot,
                    !.down = {"BTN_TOUCH"}] \in NodeStates
      <4>1. "BTN_TOUCH" \in Codes /\ (slot # LinuxDesktop!Absent => slot \in LinuxDesktop!Slots)
        <5>1. "BTN_TOUCH" \in Codes
          BY <1>1, <1>2, TouchNode DEF LinuxDesktop!TouchAxes
        <5>2. QED
          BY <1>2, <5>1 DEF DesktopShape
      <4>2. QED
        BY <1>2, <4>1 DEF NodeStates
    <3>2. QED
      BY <1>2, <3>1 DEF NodeStates
  <2>2. select \in Seq(EventTypes)
    BY <1>1, <1>2, <2>1, SelectSelects DEF select
  <2>3. events \in Seq(EventTypes)
    BY <1>1, <1>2, <1>3, <2>1, ReleaseWrites DEF events
  <2>4. Len(select) <= Len(events)
    <3> DEFINE none == <<LinuxDesktop!Event("MT_TRACKING_ID", LinuxDesktop!Absent)>>
    <3>1. none \in Seq(EventTypes)
      <4>1. LinuxDesktop!Absent \in Touches \cap Int
        BY DEF Touches, LinuxDesktop!Absent
      <4>2. QED
        BY <1>1, <1>2, <4>1, TrackTracks
    <3>2. ReleaseEnd(to) \in Seq(EventTypes)
      BY <1>1, <1>2, <1>3, <2>1, ReleaseShows
    <3>3. <<LinuxDesktop!Syn>> \in Seq(EventTypes)
      BY SomeCodes, EventTyped
    <3>4. events = select \o none \o ReleaseEnd(to) \o <<LinuxDesktop!Syn>>
      BY DEF ReleaseEvents, select, events
    <3> HIDE DEF none
    <3>5. Len(events) = Len(select) + Len(none) + Len(ReleaseEnd(to)) + 1
      BY <2>2, <3>1, <3>2, <3>3, <3>4
    <3>6. Len(select) \in Nat /\ Len(none) \in Nat /\ Len(ReleaseEnd(to)) \in Nat
      BY <2>2, <3>1, <3>2
    <3>7. QED
      BY <3>5, <3>6
  <2>5. QED
    BY <2>2, <2>3, <2>4
<1> HIDE DEF to
<1>5. via # "xtest" /\ "relative" \in LinuxDesktop!Sinks
  BY <1>1, <1>2, TouchNode
<1>6. WrittenTo("relative", events, n)
  BY <1>1, <1>2, <1>4, <1>5, Written
<1>7. failed' \in BOOLEAN
  BY <1>6, FailedBoolean
<1>8. OwnSlots(contacts')
  BY <1>1, <1>2, <1>3
<1>9. DesktopShape'
  BY <1>1, <1>2, <1>6, <1>7, <1>8 DEF WrittenTo, DesktopShape, OwnSlots
<1>10. ASSUME ~failed'
       PROVE  DesktopShown'
  <2>1. /\ ~failed /\ DesktopShown /\ n = Len(events)
        /\ kernel'["relative"] = LinuxDesktop!After("relative", d, events)
        /\ \A m \in LinuxDesktop!Sinks : m # "relative" => kernel'[m] = kernel[m]
    BY <1>6, <1>10 DEF WrittenTo, Wrote, DesktopInv
  <2>2. contacts' = to
    <3>1. n >= Len(select)
      BY <1>4, <2>1
    <3>2. QED
      BY <1>1, <3>1
  <2> DEFINE r == kernel'["relative"]
             active == LinuxDesktop!Active(contacts)
  <2>3. /\ slot # LinuxDesktop!Absent => d.slot = slot
        /\ TouchesFit(d, contacts)
        /\ "BTN_TOUCH" \in d.down <=> active # {}
        /\ held \ {"BTN_LEFT"} = active
        /\ kind = "trackpad" => ("BTN_LEFT" \in d.down <=> "BTN_LEFT" \in held)
    BY <1>1, <2>1 DEF TouchDevice, DesktopShown, TouchesThere, TouchesFit
  <2>4. "BTN_TOUCH" \in d.down
    BY <1>1, <2>3 DEF LinuxDesktop!Active
  <2>5. ReleaseDone(d, s, to, r)
    BY <1>1, <1>2, <1>3, <2>1, <2>3, <2>4, ReleaseWrites DEF events
  <2>6. TouchesFit(r, to) /\ LinuxDesktop!Active(to) = active \ {c}
    <3>1. to = [contacts EXCEPT ![c] = LinuxDesktop!Absent]
      BY DEF to
    <3>2. r.at = d.at /\ r.touches = [d.touches EXCEPT ![contacts[c]] = LinuxDesktop!Absent]
      BY <2>5 DEF ReleaseDone
    <3> HIDE DEF r
    <3>3. QED
      BY <1>1, <1>2, <2>3, <3>1, <3>2, ReleasedFits
  <2>7. held' \ {"BTN_LEFT"} = LinuxDesktop!Active(to)
          /\ ("BTN_LEFT" \in held' <=> "BTN_LEFT" \in held)
    <3>1. c # "BTN_LEFT"
      BY DEF LinuxDesktop!DesktopAssumption
    <3>2. QED
      BY <1>1, <2>1, <2>3, <2>6, <3>1
  <2> HIDE DEF r
  <2>8. /\ "BTN_TOUCH" \in r.down <=> LinuxDesktop!Active(to) # {}
        /\ kind = "trackpad" =>
             LET count == Cardinality(LinuxDesktop!Active(to)) IN
             /\ "BTN_LEFT" \in r.down <=> "BTN_LEFT" \in held'
             /\ "TOOL_FINGER" \in r.down <=> count = 1
             /\ "TOOL_DOUBLETAP" \in r.down <=> count = 2
             /\ "TOOL_TRIPLETAP" \in r.down <=> count = 3
    BY <2>3, <2>5, <2>7 DEF ReleaseDone, FingersDown
  <2>9. TouchDone(r)
    BY <1>1, <2>1, <2>2, <2>5, <2>6, <2>7, <2>8 DEF ReleaseDone, TouchDone, r
  <2>10. QED
    BY <1>1, <1>2, <2>1, <2>9, TouchDoneShows
<1>11. QED
  BY <1>9, <1>10 DEF DesktopInv

\* A device that was just made, or none, shows nothing.
BlankDesktop ==
  /\ kind \in Kinds \cup {"none"} /\ via \in {"uinput", "xtest"}
  /\ via = "xtest" => kind \in {"keyboard", "mouse"}
  /\ kernel = [n \in LinuxDesktop!Sinks |-> LinuxDesktop!NewNode]
  /\ lastMotion = "relative" /\ buttons = [n \in LinuxDesktop!Nodes |-> {}]
  /\ remainder = 0 /\ travelled = 0
  /\ contacts = [c \in Contacts |-> LinuxDesktop!Absent] /\ slot = LinuxDesktop!Absent
  /\ tracking = 0 /\ tool = "unchanged" /\ held = {} /\ failed = FALSE

\* The constants of LinuxDesktop are as it assumes.
LEMMA DesktopAssumed == LinuxDesktop!DesktopAssumption
BY BackendsAssumption

\* Nothing is shown and nothing is held on a blank device.
LEMMA BlankShows == BlankDesktop => DesktopInv
<1> SUFFICES ASSUME BlankDesktop
             PROVE  DesktopInv
  OBVIOUS
<1> DEFINE new == LinuxDesktop!NewNode
<1>1. new \in NodeStates /\ new.down = {} /\ new.wheel = 0 /\ new.synced
      /\ new.touches = [s \in LinuxDesktop!Slots |-> LinuxDesktop!Absent]
  <2>1. 0 \in LinuxDesktop!Slots /\ LinuxDesktop!Absent \in Touches
    BY DesktopAssumed DEF LinuxDesktop!DesktopAssumption, LinuxDesktop!Slots, Touches
  <2>2. /\ LinuxDesktop!Untouched \in [LinuxDesktop!Slots -> Touches]
        /\ [s \in LinuxDesktop!Slots |-> "nobody"] \in [LinuxDesktop!Slots -> Contacts \cup {"nobody"}]
    BY <2>1 DEF LinuxDesktop!Untouched
  <2>3. QED
    BY <2>1, <2>2 DEF NodeStates, LinuxDesktop!NewNode, LinuxDesktop!Untouched
<1> HIDE DEF new
<1>2. \A m \in LinuxDesktop!Sinks : kernel[m] = new
  BY DEF BlankDesktop, new
<1>3. /\ "relative" \in LinuxDesktop!Nodes /\ "absolute" \in LinuxDesktop!Nodes
      /\ "relative" \in LinuxDesktop!Sinks /\ "absolute" \in LinuxDesktop!Sinks
      /\ "x" \in LinuxDesktop!Sinks /\ LinuxDesktop!Nodes \subseteq LinuxDesktop!Sinks
  BY DEF LinuxDesktop!Sinks, LinuxDesktop!Nodes
<1>4. DesktopShape
  <2>1. kernel \in [LinuxDesktop!Sinks -> NodeStates]
    BY <1>1 DEF BlankDesktop, new
  <2>2. /\ remainder \in (1 - Detent)..(Detent - 1) /\ travelled \in Int
        /\ tracking \in 0..MaxTouches
    BY DesktopAssumed DEF BlankDesktop, LinuxDesktop!DesktopAssumption
  <2>3. /\ contacts \in [Contacts -> LinuxDesktop!Slots \cup {LinuxDesktop!Absent}]
        /\ \A c \in Contacts : contacts[c] = LinuxDesktop!Absent
    BY DEF BlankDesktop
  <2>4. buttons \in [LinuxDesktop!Nodes -> SUBSET LinuxDesktop!Buttons]
    BY DEF BlankDesktop
  <2>5. QED
    BY <1>3, <2>1, <2>2, <2>3, <2>4 DEF BlankDesktop, DesktopShape
<1>5. NothingElsewhere /\ KeysDown /\ AllSynced
  BY <1>1, <1>2, <1>3 DEF BlankDesktop, NothingElsewhere, KeysDown, AllSynced, Node
<1>6. MouseDown
  BY <1>1, <1>2, <1>3 DEF BlankDesktop, MouseDown
<1>7. TouchesThere
  <2> DEFINE active == LinuxDesktop!Active(contacts)
  <2>1. active = {} /\ \A c \in Contacts : contacts[c] = LinuxDesktop!Absent
    BY DEF BlankDesktop, LinuxDesktop!Active
  <2>2. LinuxDesktop!Absent \notin LinuxDesktop!Slots
    BY DesktopAssumed DEF LinuxDesktop!Absent, LinuxDesktop!Slots, LinuxDesktop!DesktopAssumption
  <2>3. Cardinality(active) = 0
    BY <2>1, FS_EmptySet
  <2>4. /\ kernel["relative"].down = {}
        /\ \A s \in LinuxDesktop!Slots :
             kernel["relative"].touches[s] = LinuxDesktop!Absent
    BY <1>1, <1>2, <1>3
  <2>5. held = {} /\ slot = LinuxDesktop!Absent
    BY DEF BlankDesktop
  <2> HIDE DEF active
  <2>6. QED
    BY <2>1, <2>2, <2>3, <2>4, <2>5 DEF TouchesThere, active
<1>8. PenThere
  BY <1>1, <1>2, <1>3 DEF BlankDesktop, PenThere
<1>9. WheelTurned
  <2>1. kernel["relative"].wheel = 0 /\ kernel["absolute"].wheel = 0
    BY <1>1, <1>2, <1>3
  <2>2. QED
    BY <2>1, DesktopAssumed DEF BlankDesktop, WheelTurned, LinuxDesktop!DesktopAssumption
<1>10. QED
  BY <1>4, <1>5, <1>6, <1>7, <1>8, <1>9 DEF DesktopInv, DesktopShown

\* There is no device at the start.
LEMMA DesktopInit == LinuxDesktop!Init => DesktopInv
<1>1. LinuxDesktop!Init => BlankDesktop
  BY DEF LinuxDesktop!Init, BlankDesktop
<1>2. QED
  BY <1>1, BlankShows

\* Nothing is left of a device when it is closed or made anew.
LEMMA FreshDesktop ==
  ASSUME LinuxDesktop!Close \/ \E k \in Kinds, by \in {"uinput", "xtest"} : LinuxDesktop!Create(k, by)
  PROVE  BlankDesktop'
BY DEF LinuxDesktop!Close, LinuxDesktop!Create, LinuxDesktop!Fresh, BlankDesktop

\* Every call of a desktop device keeps its inductive invariant.
LEMMA DesktopCalls ==
  ASSUME DesktopInv, LinuxDesktop!Next
  PROVE  DesktopInv' \/ BlankDesktop'
<1>1. CASE LinuxDesktop!Close \/ \E k \in Kinds, by \in {"uinput", "xtest"} : LinuxDesktop!Create(k, by)
  BY <1>1, FreshDesktop
<1>2. CASE \E d \in Distances : LinuxDesktop!XTestScroll(d)
  BY <1>2, XTestScrollKeeps, DesktopAssumed
<1>3. ASSUME NEW n \in 0..LinuxDesktop!MaxWrites,
             \/ \E key \in LinuxDesktop!Keys, p \in BOOLEAN : LinuxDesktop!SubmitKey(key, p, n)
             \/ \E digits \in 1..2 : LinuxDesktop!TypeText(digits, n)
      PROVE  DesktopInv'
  BY <1>3, SubmitKeyKeeps, TypeTextKeeps
<1>4. ASSUME NEW n \in 0..LinuxDesktop!MaxWrites,
             \/ \E node \in LinuxDesktop!Nodes : LinuxDesktop!Move(node, n)
             \/ \E b \in LinuxDesktop!Buttons, p \in BOOLEAN : LinuxDesktop!PressButton(b, p, n)
             \/ \E d \in Distances : LinuxDesktop!Scroll(d, n)
      PROVE  DesktopInv'
  BY <1>4, MoveKeeps, PressButtonKeeps, ScrollKeeps, DesktopAssumed
<1>5. ASSUME NEW n \in 0..LinuxDesktop!MaxWrites, NEW c \in Contacts,
             LinuxDesktop!PlaceContact(c, n) \/ LinuxDesktop!ReleaseContact(c, n)
      PROVE  DesktopInv'
  BY <1>5, PlaceContactKeeps, ReleaseContactKeeps, DesktopAssumed
<1>6. ASSUME NEW n \in 0..LinuxDesktop!MaxWrites, NEW p \in BOOLEAN,
             LinuxDesktop!TouchButton(p, n) \/ LinuxDesktop!PenButton(p, n)
      PROVE  DesktopInv'
  BY <1>6, TouchButtonKeeps, PenButtonKeeps, DesktopAssumed
<1>7. ASSUME NEW n \in 0..LinuxDesktop!MaxWrites,
             NEW t \in LinuxDesktop!Tools \cup {"unchanged"}, NEW p \in LinuxDesktop!Levels,
             NEW d \in LinuxDesktop!Levels, LinuxDesktop!PlaceTool(t, p, d, n)
      PROVE  DesktopInv'
  BY <1>7, PlaceToolKeeps
<1>8. QED
  BY <1>1, <1>2, <1>3, <1>4, <1>5, <1>6, <1>7 DEF LinuxDesktop!Next

\* Other machines leave the device alone.
LEMMA DesktopStill ==
  ASSUME DesktopInv, UNCHANGED linuxDesktopVars
  PROVE  DesktopInv'
BY DEF linuxDesktopVars, DesktopInv, DesktopShape, DesktopShown, NothingElsewhere, KeysDown,
  MouseDown, TouchesThere, PenThere, WheelTurned, AllSynced, Node, LinuxDesktop!Active

\* Every step keeps the invariant of the desktop devices.
LEMMA DesktopNext ==
  DesktopInv /\ (LinuxDesktop!Next \/ UNCHANGED linuxDesktopVars) => DesktopInv'
<1>1. DesktopInv /\ LinuxDesktop!Next => DesktopInv' \/ BlankDesktop'
  BY DesktopCalls
<1>2. DesktopInv /\ UNCHANGED linuxDesktopVars => DesktopInv'
  BY DesktopStill
<1>3. QED
  BY <1>1, <1>2, BlankShows, PTL

\* In a state of the invariant the host sees what the client did.
LEMMA DesktopShows == DesktopInv => LinuxDesktop!ActionsShown
<1> SUFFICES ASSUME DesktopInv, ~failed
             PROVE  LinuxDesktop!ActionsShown
  BY DEF LinuxDesktop!ActionsShown, LinuxDesktop!NothingStuck, LinuxDesktop!ScrollKept
<1>1. DesktopShape /\ DesktopShown
  BY DEF DesktopInv
<1> DEFINE d == kernel["relative"]
           active == LinuxDesktop!Active(contacts)
           others == kernel["absolute"].down \cup kernel["x"].down
<1>2. LinuxDesktop!Pressed = d.down \cup others
  BY DEF LinuxDesktop!Pressed, LinuxDesktop!Sinks, LinuxDesktop!Nodes
<1>3. kind \notin {"keyboard", "mouse"} => LinuxDesktop!Pressed = d.down
  <2>1. kind \notin {"keyboard", "mouse"} => Node = "relative"
    BY <1>1 DEF DesktopShape, Node
  <2>2. kind \notin {"keyboard", "mouse"} => others = {}
    BY <1>1, <2>1 DEF DesktopShown, NothingElsewhere, LinuxDesktop!Sinks, LinuxDesktop!Nodes
  <2>3. QED
    BY <1>2, <2>2
<1>4. d.synced /\ kernel["absolute"].synced
  BY <1>1 DEF DesktopShown, AllSynced, LinuxDesktop!Nodes
<1>5. kind \in {"keyboard", "mouse"} => LinuxDesktop!Pressed = held
  <2>1. CASE kind = "keyboard"
    BY <1>1, <1>2, <2>1 DEF DesktopShown, NothingElsewhere, KeysDown, Node, DesktopShape,
      LinuxDesktop!Sinks, LinuxDesktop!Nodes
  <2>2. CASE kind = "mouse"
    BY <1>1, <1>2, <2>2 DEF DesktopShown, MouseDown, LinuxDesktop!Nodes
  <2>3. QED
    BY <2>1, <2>2
<1>6. d.down \cap kernel["absolute"].down = {}
  <2>1. CASE kind = "mouse"
    BY <1>1, <2>1 DEF DesktopShown, MouseDown, LinuxDesktop!Nodes
  <2>2. CASE kind # "mouse"
    BY <1>1, <2>2 DEF DesktopShown, NothingElsewhere, Node, LinuxDesktop!Sinks, LinuxDesktop!Nodes
  <2>3. QED
    BY <2>1, <2>2
<1>7. ASSUME kind \in {"touchscreen", "trackpad"}
      PROVE  /\ ("BTN_TOUCH" \in LinuxDesktop!Pressed) = (active # {})
             /\ LinuxDesktop!Shown = {contacts[c] : c \in active} /\ active = held \ {"BTN_LEFT"}
             /\ \A c \in active : d.at[contacts[c]] = c
             /\ kind = "trackpad" =>
                  /\ ("BTN_LEFT" \in LinuxDesktop!Pressed) = ("BTN_LEFT" \in held)
                  /\ ("TOOL_FINGER" \in LinuxDesktop!Pressed) = (Cardinality(active) = 1)
                  /\ ("TOOL_DOUBLETAP" \in LinuxDesktop!Pressed) = (Cardinality(active) = 2)
                  /\ ("TOOL_TRIPLETAP" \in LinuxDesktop!Pressed) = (Cardinality(active) = 3)
  <2>1. /\ \A s \in LinuxDesktop!Slots :
             d.touches[s] # LinuxDesktop!Absent <=> \E c \in Contacts : contacts[c] = s
        /\ \A c \in active : d.at[contacts[c]] = c
        /\ "BTN_TOUCH" \in d.down <=> active # {}
        /\ held \ {"BTN_LEFT"} = active
        /\ kind = "trackpad" =>
             /\ "BTN_LEFT" \in d.down <=> "BTN_LEFT" \in held
             /\ "TOOL_FINGER" \in d.down <=> Cardinality(active) = 1
             /\ "TOOL_DOUBLETAP" \in d.down <=> Cardinality(active) = 2
             /\ "TOOL_TRIPLETAP" \in d.down <=> Cardinality(active) = 3
    BY <1>1, <1>7 DEF DesktopShown, TouchesThere
  <2>2. LinuxDesktop!Pressed = d.down
    BY <1>3, <1>7
  <2>3. LinuxDesktop!Shown = {contacts[c] : c \in active}
    <3>1. LinuxDesktop!Absent \notin LinuxDesktop!Slots
      BY DesktopAssumed DEF LinuxDesktop!Absent, LinuxDesktop!Slots, LinuxDesktop!DesktopAssumption
    <3>2. \A c \in Contacts : contacts[c] \in LinuxDesktop!Slots \cup {LinuxDesktop!Absent}
      BY <1>1 DEF DesktopShape
    <3>3. \A s \in LinuxDesktop!Slots : s \in LinuxDesktop!Shown <=> \E c \in active : contacts[c] = s
      BY <2>1, <3>1 DEF LinuxDesktop!Shown, LinuxDesktop!Active
    <3>4. \A c \in active : contacts[c] \in LinuxDesktop!Slots
      BY <3>2 DEF LinuxDesktop!Active
    <3>5. LinuxDesktop!Shown \subseteq LinuxDesktop!Slots
      BY DEF LinuxDesktop!Shown
    <3> HIDE DEF active
    <3>6. QED
      BY <3>3, <3>4, <3>5
  <2> HIDE DEF active, d
  <2>4. /\ ("BTN_TOUCH" \in LinuxDesktop!Pressed) = (active # {})
        /\ active = held \ {"BTN_LEFT"} /\ \A c \in active : d.at[contacts[c]] = c
    BY <2>1, <2>2
  <2>5. ASSUME kind = "trackpad"
        PROVE  /\ ("BTN_LEFT" \in LinuxDesktop!Pressed) = ("BTN_LEFT" \in held)
               /\ ("TOOL_FINGER" \in LinuxDesktop!Pressed) = (Cardinality(active) = 1)
               /\ ("TOOL_DOUBLETAP" \in LinuxDesktop!Pressed) = (Cardinality(active) = 2)
               /\ ("TOOL_TRIPLETAP" \in LinuxDesktop!Pressed) = (Cardinality(active) = 3)
    BY <2>1, <2>2, <2>5
  <2>6. QED
    BY <2>3, <2>4, <2>5
<1>8. ASSUME kind = "pen_tablet"
      PROVE  /\ LinuxDesktop!Pressed \cap {"TOOL_PEN", "TOOL_RUBBER"} = {tool} \ {"TOUCH", "unchanged"}
             /\ ("STYLUS" \in LinuxDesktop!Pressed) = ("STYLUS" \in held)
  <2>1. LinuxDesktop!Pressed = d.down
    BY <1>3, <1>8
  <2>2. /\ "TOOL_PEN" \in d.down <=> tool = "TOOL_PEN"
        /\ "TOOL_RUBBER" \in d.down <=> tool = "TOOL_RUBBER"
        /\ "STYLUS" \in d.down <=> "STYLUS" \in held
        /\ tool \in LinuxDesktop!Tools \cup {"unchanged"}
    BY <1>1, <1>8 DEF DesktopShown, PenThere, DesktopShape
  <2>3. ("STYLUS" \in LinuxDesktop!Pressed) = ("STYLUS" \in held)
    BY <2>1, <2>2
  <2>4. LinuxDesktop!Pressed \cap {"TOOL_PEN", "TOOL_RUBBER"} = {tool} \ {"TOUCH", "unchanged"}
    BY <2>1, <2>2 DEF LinuxDesktop!Tools
  <2>5. QED
    BY <2>3, <2>4
<1>9. LinuxDesktop!NothingStuck
  <2>1. LinuxDesktop!Cardinality(active) = Cardinality(active)
    BY CountHere
  <2> DEFINE codes == <<"TOOL_FINGER", "TOOL_DOUBLETAP", "TOOL_TRIPLETAP">>
  <2>2. kind = "trackpad" =>
          \A k \in 1..3 : (codes[k] \in LinuxDesktop!Pressed) = (LinuxDesktop!Cardinality(active) = k)
    <3> HIDE DEF active
    <3>1. SUFFICES ASSUME kind = "trackpad", NEW k \in 1..3
                   PROVE  (codes[k] \in LinuxDesktop!Pressed)
                            = (LinuxDesktop!Cardinality(active) = k)
      OBVIOUS
    <3>2. /\ ("TOOL_FINGER" \in LinuxDesktop!Pressed) = (Cardinality(active) = 1)
          /\ ("TOOL_DOUBLETAP" \in LinuxDesktop!Pressed) = (Cardinality(active) = 2)
          /\ ("TOOL_TRIPLETAP" \in LinuxDesktop!Pressed) = (Cardinality(active) = 3)
      BY <1>7, <3>1
    <3>3. /\ k = 1 \/ k = 2 \/ k = 3
          /\ codes[1] = "TOOL_FINGER" /\ codes[2] = "TOOL_DOUBLETAP" /\ codes[3] = "TOOL_TRIPLETAP"
      OBVIOUS
    <3> HIDE DEF codes
    <3>4. QED
      BY <2>1, <3>2, <3>3, Zenon
  <2> HIDE DEF d, active
  <2>3. QED
    BY <1>4, <1>5, <1>6, <1>7, <1>8, <2>2, Zenon
      DEF LinuxDesktop!NothingStuck, LinuxDesktop!Fingers, d, active, codes
<1>10. LinuxDesktop!ScrollKept
  <2>1. /\ Detent \in Int /\ travelled \in Int /\ d.wheel \in Int
        /\ kernel["absolute"].wheel \in Int /\ remainder \in (1 - Detent)..(Detent - 1)
    BY <1>1, DesktopAssumed DEF DesktopShape, NodeStates, LinuxDesktop!Sinks, LinuxDesktop!Nodes,
      LinuxDesktop!DesktopAssumption
  <2>2. travelled = Detent * (d.wheel + kernel["absolute"].wheel) + remainder
    BY <1>1 DEF DesktopShown, WheelTurned
  <2> DEFINE turned == Detent * (d.wheel + kernel["absolute"].wheel)
  <2>3. turned \in Int
    BY <2>1
  <2> HIDE DEF turned
  <2>4. travelled - turned = remainder
    <3>1. travelled = turned + remainder
      BY <2>2 DEF turned
    <3>2. QED
      BY <2>1, <2>3, <3>1
  <2>5. QED
    BY <2>1, <2>4 DEF LinuxDesktop!ScrollKept, turned
<1>11. QED
  BY <1>9, <1>10 DEF LinuxDesktop!ActionsShown

-----------------------------------------------------------------------------
(* The backends side by side.                                              *)

DevicesInv == LinuxInv /\ RumbleInv /\ WindowsInv /\ PointersInv /\ DesktopInv /\ KeysInv

\* No device and no thread at the start.
LEMMA DevicesInit == Init => DevicesInv
<1>1. Init => LinuxInv
  BY DEF Init, LinuxGamepad!Init, LinuxInv, MutexHeld, NewestShown, DeviceFollowsClient
<1>2. Init => WindowsInv
  BY DEF Init, WindowsGamepad!Init, WindowsInv, ThreadsFollowCall, AcceptedIsThere,
    EventsInOrder
<1>3. Init => PointersInv
  BY PointersInit DEF Init
<1>4. Init => DesktopInv /\ KeysInv
  BY DesktopInit, KeysInit DEF Init
<1>5. QED
  BY <1>1, <1>2, <1>3, <1>4, RumbleInit DEF DevicesInv

\* A step of one backend leaves the others' variables alone.
LEMMA DevicesNext == DevicesInv /\ [Next]_vars => DevicesInv'
<1>1. ASSUME DevicesInv, [Next]_vars
      PROVE  /\ [LinuxGamepad!Next]_(LinuxGamepad!vars)
             /\ [WindowsGamepad!Next]_(WindowsGamepad!vars)
             /\ [WindowsDesktop!Next]_(WindowsDesktop!vars)
  BY <1>1 DEF Next, vars, linuxGamepadVars, windowsGamepadVars, windowsDesktopVars,
    WindowsDesktop!vars, WindowsDesktop!libraryVars, WindowsDesktop!threadVars,
    WindowsDesktop!historyVars, LinuxGamepad!vars,
    LinuxGamepad!threadVars, LinuxGamepad!stateVars, LinuxGamepad!kernelVars,
    LinuxGamepad!hostVars, LinuxGamepad!rumbleVars, WindowsGamepad!vars,
    WindowsGamepad!streamVars, WindowsGamepad!listenVars, WindowsGamepad!hostVars,
    WindowsGamepad!reportVars, WindowsGamepad!deviceVars
<1>2. [Next]_vars => LinuxDesktop!Next \/ UNCHANGED linuxDesktopVars
  BY DEF Next, vars
<1>3. QED
  BY <1>1, <1>2, LinuxNext, RumbleNext, ThreadsNext, EventsNext, PointersNext, DesktopNext, KeysNext
    DEF DevicesInv, LinuxInv, WindowsInv

\* Every reachable state satisfies the inductive invariants of the gamepads and of the
\* desktop devices of both backends.
THEOREM Invariance == Spec => []DevicesInv
BY DevicesInit, DevicesNext, PTL DEF Spec

\* A gamepad's state never goes back on the host, whoever reports it and whatever fails:
\* on Linux no repetition undoes a submit (submit() and periodic_report_loop()), on Windows
\* the driver has the last report that was accepted (submit() of WindowsGamepad).
THEOREM NewestIsShown == Spec => []HostShowsNewest
<1>1. DevicesInv => HostShowsNewest
  BY DEF DevicesInv, LinuxInv, MutexHeld, NewestShown, WindowsInv, AcceptedIsThere,
    HostShowsNewest, LinuxGamepad!HostShowsNewest, WindowsGamepad!DriverHasAccepted
<1>2. QED
  BY <1>1, Invariance, PTL

\* Wherever a creation fails, falls back or is given up, and at whichever step of its
\* threads close() comes, the devices are those of the backend in use, and none and no
\* thread afterwards (create_gamepad(), UhidGamepad, WindowsGamepad::close()).
THEOREM NothingIsLeft == Spec => []OneDeviceLeft
<1>1. DevicesInv => OneDeviceLeft
  BY DEF DevicesInv, LinuxInv, DeviceFollowsClient, WindowsInv, ThreadsFollowCall,
    OneDeviceLeft, LinuxGamepad!OneDeviceLeft, WindowsGamepad!NothingLeft
<1>2. QED
  BY <1>1, Invariance, PTL

\* Whatever the host uploads, plays, stops, erases and uploads again, at whatever time
\* the reader comes to it: once it has, the client was told the effects that play and no
\* others (upload_rumble_effect(), handle_output_event() and update_rumble()), and nothing
\* after close().  No event of the host to an Xbox 360 gamepad on Windows is lost or
\* overtaken while a callback is set (stream_xbox360_output()).
THEOREM WhatPlaysIsFelt == Spec => []FeltIsPlaying
<1>1. DevicesInv => WindowsGamepad!OutputNoticed
  BY DEF DevicesInv, WindowsInv, EventsInOrder, WindowsGamepad!OutputNoticed
<1>2. DevicesInv => FeltIsPlaying
  BY <1>1, CaughtUpFeels DEF DevicesInv, FeltIsPlaying
<1>3. QED
  BY <1>2, Invariance, PTL

\* Whatever calls and refreshes Windows refuses: a pointer, a pen, a mark of a pen and a
\* button of a mouse are as the last call that succeeded for them left them, a contact
\* that is shown can be released, and while no call has failed a contact begins once and
\* ends once (place_contact(), release_contact(), place_tool() and button() of the pen,
\* start_repeat_thread(), the buttons of the mice).
THEOREM PointersAreTrue == Spec => []PointersTrue
<1>1. DevicesInv => PointersTrue
  BY InvShows DEF DevicesInv
<1>2. QED
  BY <1>1, Invariance, PTL

\* On Linux, while no call has failed, the kernel shows the keys, buttons, contacts, fingers
\* and tools that the client holds and no others, each contact in a slot of its own, and the
\* wheels with what remains are all that was scrolled (submit_key(), type_text(),
\* place_touch_contact(), release_touch_contact(), place_tool(), scroll()).  On Windows a key
\* is as the last call that succeeded for it left it, whatever failed for others, whether it
\* went as a usage, as a modifier or through SendInput, unless the report has no room; and
\* while no call has failed a motion in several reports arrives whole and of a scroll less
\* than a detent is outstanding (WindowsHidKeyboard, WindowsKeyboard, WindowsHidMouse).
THEOREM ActionsAreShown == Spec => []ActionsShown
<1>1. DevicesInv => ActionsShown
  BY DesktopShows, KeysInvShows DEF DevicesInv, ActionsShown
<1>2. QED
  BY <1>1, Invariance, PTL

=============================================================================
